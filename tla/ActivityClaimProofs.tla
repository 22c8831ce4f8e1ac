------------------------ MODULE ActivityClaimProofs ------------------------
(* Theorems about ActivityClaim, for any users, slots and bounds.

   The types need an invariant on the requests first: what a request has in hand
   is fit for the call it makes next.                                        *)
EXTENDS ActivityClaimRefinement, TLAPS, FiniteSetTheorems, WellFoundedInduction

-----------------------------------------------------------------------------
(* What the queue scripts return has its type. *)

(* Writing one member's count and score keeps the state well-formed.         *)
LEMMA SetEntryType ==
    ASSUME NEW r \in RedisStates, NEW k \in Kinds, NEW u \in Users,
           NEW n \in Int, NEW m \in Int
    PROVE  SetEntry(r, k, u, n, m) \in RedisStates
  <1> DEFINE counts == [r.count EXCEPT ![k][u] = n]
             scores == [r.score EXCEPT ![k][u] = m]
  <1>1. /\ counts \in [Kinds -> [Users -> Int]]
        /\ scores \in [Kinds -> [Users -> Int]]
    BY DEF RedisStates
  <1>2. SetEntry(r, k, u, n, m) = [r EXCEPT !.count = counts, !.score = scores]
    BY DEF SetEntry, RedisStates
  <1>3. [r EXCEPT !.count = counts, !.score = scores] \in RedisStates
    <2> HIDE DEF counts, scores
    <2> QED  BY <1>1 DEF RedisStates
  <1> QED  BY <1>2, <1>3

(* The places of members are natural numbers.                                *)
LEMMA PlaceType ==
    ASSUME NEW r \in RedisStates, NEW k \in Kinds, NEW u \in Users
    PROVE  Place(r, k, u) \in Nat
  <1>1. r.score[k][u] \in Int  BY DEF RedisStates
  <1> QED  BY <1>1 DEF Place, Abs

(* enqueueActivityScript, adjustActivityScript and removeActivityScript return
   well-formed states.                                                       *)
LEMMA JoinTailType ==
    ASSUME NEW r \in RedisStates, NEW k \in Kinds, NEW u \in Users, NEW n \in Int
    PROVE  JoinTail(r, k, u, n) \in RedisStates
  <1> DEFINE q == [r EXCEPT !.seq = @ + 1]
             m == Signed(n, r.seq + 1)
  <1>1. r.seq \in Nat /\ m \in Int  BY DEF RedisStates, Signed
  <1>2. q \in RedisStates  BY <1>1 DEF RedisStates
  <1>3. JoinTail(r, k, u, n) = SetEntry(q, k, u, n, m)
    BY DEF JoinTail
  <1> HIDE DEF q, m
  <1> QED  BY <1>1, <1>2, <1>3, SetEntryType

LEMMA EnqueueType ==
    ASSUME NEW r \in RedisStates, NEW k \in Kinds, NEW u \in Users, NEW n \in Int
    PROVE  Enqueue(r, k, u, n) \in RedisStates
  BY JoinTailType DEF Enqueue

LEMMA AdjustType ==
    ASSUME NEW r \in RedisStates, NEW k \in Kinds, NEW u \in Users, NEW delta \in Int
    PROVE  Adjust(r, k, u, delta) \in RedisStates
  <1> DEFINE n == r.count[k][u] + delta
             m == Signed(n, Place(r, k, u))
  <1>1. r.count[k][u] \in Int  BY DEF RedisStates
  <1>2. n \in Int /\ m \in Int  BY <1>1, PlaceType DEF Signed
  <1>3. Adjust(r, k, u, delta) =
            IF u \in Members(r, k) THEN SetEntry(r, k, u, n, m) ELSE JoinTail(r, k, u, n)
    BY DEF Adjust
  <1> HIDE DEF n, m
  <1> QED  BY <1>2, <1>3, JoinTailType, SetEntryType

LEMMA RemoveMemberType ==
    ASSUME NEW r \in RedisStates, NEW k \in Kinds, NEW u \in Users
    PROVE  RemoveMember(r, k, u) \in RedisStates
  BY SetEntryType DEF RemoveMember

LEMMA EmptyRedisType == EmptyRedis \in RedisStates
  BY DEF EmptyRedis, RedisStates

LEMMA FlushQueuesType ==
    ASSUME NEW r \in RedisStates
    PROVE  FlushQueues(r) \in RedisStates
  <1>1. r.seq \in Nat  BY DEF RedisStates
  <1> QED  BY <1>1, EmptyRedisType DEF FlushQueues, RedisStates

LEMMA CursorMoveType ==
    ASSUME NEW r \in RedisStates, NEW u \in Users
    PROVE  CursorMove(r, u) \in RedisStates
  <1>1. Place(r, "ordinary", u) \in Nat  BY PlaceType DEF Kinds
  <1> QED  BY <1>1 DEF CursorMove, RedisStates

(* A set of natural numbers that is not empty has a least element.           *)
LEMMA LeastElement ==
    ASSUME NEW T \in SUBSET Nat, T # {}
    PROVE  \E x \in T : \A y \in T : x <= y
  <1> DEFINE Less == {ss \in Nat \X Nat : ss[1] < ss[2]}
  <1>1. OpToRel(<, Nat) = Less  BY DEF OpToRel
  <1>2. IsWellFoundedOn(Less, Nat)  BY <1>1, NatLessThanWellFounded
  <1>3. PICK x \in T : \A y \in T : <<y, x>> \notin Less  BY <1>2, WFMin
  <1>4. ASSUME NEW y \in T
        PROVE  x <= y
    <2>1. x \in Nat /\ y \in Nat  OBVIOUS
    <2>2. <<y, x>> \notin Less  BY <1>3
    <2>3. ~(y < x)  BY <2>1, <2>2
    <2> QED  BY <2>1, <2>3
  <1> QED  BY <1>4

(* The member in front of a set of publishers is one of them,                *)
LEMMA OldestType ==
    ASSUME NEW r \in RedisStates, NEW k \in Kinds, NEW S \in SUBSET Users, S # {}
    PROVE  Oldest(S, r, k) \in S
  <1> DEFINE T == {Place(r, k, u) : u \in S}
  <1>1. T \in SUBSET Nat /\ T # {}  BY PlaceType
  <1>2. PICK x \in T : \A y \in T : x <= y  BY <1>1, LeastElement
  <1>3. PICK u \in S : x = Place(r, k, u)  OBVIOUS
  <1>4. \A v \in S : Place(r, k, u) <= Place(r, k, v)  BY <1>2, <1>3
  <1> QED  BY <1>4 DEF Oldest

(* so what a selection returns is an active member, other than the claimant
   and outside the excluded set, or nobody.                                  *)
LEMMA NextActiveType ==
    ASSUME NEW r \in RedisStates, NEW k \in Kinds, NEW c, NEW X,
           NextActive(r, k, c, X) # Nobody
    PROVE  NextActive(r, k, c, X) \in Active(r, k) \ (X \union {c})
  <1> DEFINE free == Window(r, k, Cardinality(X) + 2) \ (X \union {c})
  <1>1. free \in SUBSET Users /\ free \subseteq Active(r, k) \ (X \union {c})
    BY DEF Window, Active
  <1>2. free # {} /\ NextActive(r, k, c, X) = Oldest(free, r, k)  BY DEF NextActive
  <1> QED  BY <1>1, <1>2, OldestType

LEMMA CursorChoiceType ==
    ASSUME NEW r \in RedisStates, NEW c, NEW X, CursorChoice(r, c, X) # Nobody
    PROVE  CursorChoice(r, c, X) \in Active(r, "ordinary") \ (X \union {c})
  <1> DEFINE eligible == Active(r, "ordinary") \ (X \union {c})
             ahead    == {u \in eligible : Place(r, "ordinary", u) > r.cursor}
  <1>1. "ordinary" \in Kinds  BY DEF Kinds
  <1>2. eligible \in SUBSET Users /\ ahead \in SUBSET Users /\ ahead \subseteq eligible
    BY DEF Active
  <1>3. CASE ahead # {}
    <2>1. CursorChoice(r, c, X) = Oldest(ahead, r, "ordinary")
      BY <1>3 DEF CursorChoice
    <2> QED  BY <1>1, <1>2, <1>3, <2>1, OldestType
  <1>4. CASE ahead = {}
    <2>1. eligible # {} /\ CursorChoice(r, c, X) = Oldest(eligible, r, "ordinary")
      BY <1>4 DEF CursorChoice
    <2> QED  BY <1>1, <1>2, <2>1, OldestType
  <1> QED  BY <1>3, <1>4

-----------------------------------------------------------------------------
(* The invariant on requests. *)

CandPCs == {"deliverPriority", "removePriority", "consumePriority",
            "deliverOrdinary", "removeOrdinary", "consumeOrdinary"}

HeadPCs == {"enqueueOwn", "enqueueOwnPriority", "seedPriority"}

(* A request has a caller, a claim's candidate is somebody else, and a request
   that is to enqueue a row has one.                                         *)
RequestOK(r) ==
    /\ r.pc # "idle" => r.uid \in Users
    /\ r.pc \in CandPCs => r.cand \in Users \ {r.uid}
    /\ r.pc \in HeadPCs => r.todo # <<>>

RequestsOK == \A s \in Slots : RequestOK(req[s])

-----------------------------------------------------------------------------
(* How the calls of the program change one request.                          *)
LEMMA IdleType == Idle \in Requests
  BY DEF Idle, Requests, PCs

(* A step that leaves one request in a fit state leaves all in one.          *)
LEMMA BecomeStep ==
    ASSUME ProgramTypeOK, RequestsOK, NEW s \in Slots, NEW STATE r, Become(s, r),
           r \in Requests, RequestOK(r)
    PROVE  req' \in [Slots -> Requests] /\ RequestsOK'
  BY DEF ProgramTypeOK, RequestsOK, RequestOK, Become

LEMMA GoToStep ==
    ASSUME ProgramTypeOK, RequestsOK, NEW s \in Slots, NEW p \in PCs, GoTo(s, p),
           ~At(s, "idle"),
           p \in CandPCs => req[s].pc \in CandPCs,
           p \in HeadPCs => req[s].todo # <<>>
    PROVE  req' \in [Slots -> Requests] /\ RequestsOK'
  <1> DEFINE r == [req[s] EXCEPT !.pc = p]
  <1>1. req[s] \in Requests /\ RequestOK(req[s])  BY DEF ProgramTypeOK, RequestsOK
  <1>2. r \in Requests  BY <1>1 DEF Requests
  <1>3. r.pc = p /\ r.uid = req[s].uid /\ r.cand = req[s].cand /\ r.todo = req[s].todo
    BY <1>1 DEF Requests
  <1>4. RequestOK(r)  BY <1>1, <1>3 DEF RequestOK, At
  <1> QED  BY <1>2, <1>4, BecomeStep DEF GoTo

LEMMA FinishStep ==
    ASSUME ProgramTypeOK, RequestsOK, NEW s \in Slots, Finish(s)
    PROVE  req' \in [Slots -> Requests] /\ RequestsOK'
  <1>1. RequestOK(Idle)  BY DEF RequestOK, Idle, CandPCs, HeadPCs
  <1> QED  BY <1>1, IdleType, BecomeStep DEF Finish

(* Counting what a run has spent of a bound. *)
LEMMA SpendType ==
    ASSUME NEW x \in SpentBounds
    PROVE  /\ [x EXCEPT !.requests = @ + 1] \in SpentBounds
           /\ [x EXCEPT !.faults = @ + 1] \in SpentBounds
           /\ [x EXCEPT !.claims = @ + 1] \in SpentBounds
           /\ [x EXCEPT !.breaks = @ + 1] \in SpentBounds
           /\ [x EXCEPT !.crashes = @ + 1] \in SpentBounds
  BY DEF SpentBounds

(* A queue write leaves Redis well-formed, whether it is answered or not.    *)
LEMMA WriteStep ==
    ASSUME ProgramTypeOK, NEW STATE written, written \in RedisStates,
           RedisWrite(written) \/ RedisFault(written)
    PROVE  redis' \in RedisStates /\ spent' \in SpentBounds
  BY SpendType DEF RedisWrite, RedisFault, ProgramTypeOK

LEMMA AdjustStep ==
    ASSUME ProgramTypeOK, NEW k \in Kinds, NEW STATE u, u \in Users,
           NEW STATE delta, delta \in Int,
           AdjustCall(k, u, delta) \/ AdjustFault(k, u, delta)
    PROVE  redis' \in RedisStates /\ spent' \in SpentBounds
  <1>1. redis \in RedisStates  BY DEF ProgramTypeOK
  <1>2. Adjust(redis, k, u, delta) \in RedisStates  BY <1>1, AdjustType
  <1>3. Adjust(Adjust(redis, k, u, delta), k, u, delta) \in RedisStates
    BY <1>2, AdjustType
  <1> QED
    BY <1>1, <1>2, <1>3, SpendType
       DEF AdjustCall, AdjustFault, RedisWrite, RedisFault, RedisResend, ProgramTypeOK

-----------------------------------------------------------------------------
(* PublishActivity and BoostActivity. *)
TypesKept == ProgramTypeOK' /\ RequestsOK'

LEMMA PublishTypes ==
    ASSUME ProgramTypeOK, RequestsOK, NEW s \in Slots, NEW u \in Users, Publish(s, u)
    PROVE  TypesKept
  <1> DEFINE r == [Idle EXCEPT !.pc = "loadRow", !.uid = u]
  <1>1. r \in Requests /\ r.pc = "loadRow" /\ r.uid = u
    BY IdleType DEF Requests, PCs, Idle
  <1>2. rows' \in Seq(Users)
    <2>1. rows \in Seq(Users)  BY DEF ProgramTypeOK
    <2>2. rows' = rows \/ rows' = Append(rows, u)  BY DEF Publish
    <2> QED  BY <2>1, <2>2
  <1>3. RequestOK(r)
    BY <1>1 DEF RequestOK, CandPCs, HeadPCs
  <1>4. req' \in [Slots -> Requests] /\ RequestsOK'
    BY <1>1, <1>3, BecomeStep DEF Publish
  <1>5. spent' \in SpentBounds  BY SpendType DEF Publish, Receive, Begin, ProgramTypeOK
  <1>6. ordinaryCredit' \in [Users -> Int]
    <2>1. ordinaryCredit \in [Users -> Int]  BY DEF ProgramTypeOK
    <2>2. \/ ordinaryCredit' = [ordinaryCredit EXCEPT ![u] = Grant]
          \/ ordinaryCredit' = ordinaryCredit
      BY DEF Publish
    <2> QED  BY <2>1, <2>2, GrantIsNatural
  <1> QED  BY <1>2, <1>4, <1>5, <1>6 DEF Publish, ProgramTypeOK, TypesKept

LEMMA LoadRowTypes ==
    ASSUME ProgramTypeOK, RequestsOK, NEW s \in Slots, LoadRow(s)
    PROVE  TypesKept
  <1> DEFINE t == <<RowOf(req[s].uid)>>
             r == [req[s] EXCEPT !.pc = "enqueueOwn", !.todo = t]
  <1>1. req[s] \in Requests /\ req[s].uid \in Users
    BY DEF LoadRow, At, ProgramTypeOK, RequestsOK, RequestOK
  <1>2. RowOf(req[s].uid) \in Snapshot  BY <1>1 DEF RowOf, Snapshot, ProgramTypeOK
  <1>3. t \in Seq(Snapshot) /\ t # <<>>  BY <1>2
  <1> HIDE DEF t
  <1>4. r \in Requests /\ r.pc = "enqueueOwn" /\ r.uid = req[s].uid /\ r.todo = t
    BY <1>1, <1>3 DEF Requests, PCs
  <1>5. RequestOK(r)
    BY <1>1, <1>3, <1>4 DEF RequestOK, CandPCs
  <1>6. req' \in [Slots -> Requests] /\ RequestsOK'
    BY <1>4, <1>5, BecomeStep DEF LoadRow, t
  <1> QED  BY <1>6 DEF LoadRow, ProgramTypeOK, TypesKept, ledger

LEMMA EnqueueOwnTypes ==
    ASSUME ProgramTypeOK, RequestsOK, NEW s \in Slots, EnqueueOwn(s) \/ EnqueueOwnPriority(s)
    PROVE  TypesKept
  <1> DEFINE row == Head(req[s].todo)
  <1>1. req[s] \in Requests /\ req[s].todo # <<>>
    BY DEF EnqueueOwn, EnqueueOwnPriority, At, ProgramTypeOK, RequestsOK, RequestOK, HeadPCs
  <1>2. row \in Snapshot  BY <1>1 DEF Requests
  <1>3. row.uid \in Users /\ row.ordinary \in Int /\ row.priority \in Int
    BY <1>2 DEF Snapshot
  <1>4. /\ Enqueue(redis, "ordinary", row.uid, row.ordinary) \in RedisStates
        /\ Enqueue(redis, "priority", row.uid, row.priority) \in RedisStates
    BY <1>3, EnqueueType DEF Kinds, ProgramTypeOK
  <1>5. redis' \in RedisStates /\ spent' \in SpentBounds
    BY <1>4, WriteStep DEF EnqueueOwn, EnqueueOwnPriority
  <1>6. UNCHANGED <<ledger, seeded>> /\ ~At(s, "idle")
    BY DEF EnqueueOwn, EnqueueOwnPriority, At
  <1>7. req' \in [Slots -> Requests] /\ RequestsOK'
    <2>1. CASE Finish(s)  BY <2>1, FinishStep
    <2>2. CASE GoTo(s, "invalidate")
      BY <1>6, <2>2, GoToStep DEF PCs, CandPCs, HeadPCs
    <2>3. CASE GoTo(s, "enqueueOwnPriority")
      BY <1>1, <1>6, <2>3, GoToStep DEF PCs, CandPCs, HeadPCs
    <2> QED  BY <2>1, <2>2, <2>3 DEF EnqueueOwn, EnqueueOwnPriority
  <1> QED  BY <1>5, <1>6, <1>7 DEF ProgramTypeOK, TypesKept, ledger

LEMMA InvalidateTypes ==
    ASSUME ProgramTypeOK, RequestsOK, NEW s \in Slots, Invalidate(s)
    PROVE  TypesKept
  <1>1. UNCHANGED ledger /\ ~At(s, "idle")  BY DEF Invalidate, At
  <1>2. req' \in [Slots -> Requests] /\ RequestsOK'
    <2>1. CASE At(s, "invalidate") /\ Finish(s)  BY <2>1, FinishStep
    <2>2. CASE At(s, "invalidateThenEarn") /\ GoTo(s, "earn")
      BY <1>1, <2>2, GoToStep DEF PCs, CandPCs, HeadPCs, At
    <2> QED  BY <2>1, <2>2 DEF Invalidate
  <1>3. redis' \in RedisStates /\ spent' \in SpentBounds /\ seeded' \in BOOLEAN
    BY WriteStep DEF Invalidate, ProgramTypeOK
  <1> QED  BY <1>1, <1>2, <1>3 DEF ProgramTypeOK, TypesKept, ledger

LEMMA LoseTypes ==
    ASSUME ProgramTypeOK, RequestsOK, NEW s \in Slots, CutOff(s) \/ LoseClaim(s)
    PROVE  TypesKept
  <1>1. Finish(s) /\ UNCHANGED <<ledger, redis, seeded>>  BY DEF CutOff, LoseClaim
  <1>2. req' \in [Slots -> Requests] /\ RequestsOK'  BY <1>1, FinishStep
  <1>3. spent' \in SpentBounds  BY SpendType DEF CutOff, LoseClaim, ProgramTypeOK
  <1> QED  BY <1>1, <1>2, <1>3 DEF ProgramTypeOK, TypesKept, ledger

LEMMA BoostTypes ==
    ASSUME ProgramTypeOK, RequestsOK, NEW s \in Slots, NEW u \in Users,
           NEW n \in 1 .. InitialPoints, Boost(s, u, n)
    PROVE  TypesKept
  <1> DEFINE r == [Idle EXCEPT !.pc = "addBoost", !.uid = u, !.points = n]
  <1>1. n \in Nat  BY PointsAreNatural
  <1>2. r \in Requests /\ r.pc = "addBoost" /\ r.uid = u
    BY <1>1, IdleType DEF Requests, PCs, Idle
  <1>3. RequestOK(r)  BY <1>2 DEF RequestOK, CandPCs, HeadPCs
  <1>4. req' \in [Slots -> Requests] /\ RequestsOK'
    BY <1>2, <1>3, BecomeStep DEF Boost
  <1>5. spent' \in SpentBounds  BY SpendType DEF Boost, Receive, Begin, ProgramTypeOK
  <1>6. /\ committed' \in [Users -> Int] /\ priorityCredit' \in [Users -> Int]
        /\ points' \in [Users -> Int]
    BY <1>1 DEF Boost, ProgramTypeOK
  <1> QED  BY <1>4, <1>5, <1>6 DEF Boost, ProgramTypeOK, TypesKept

LEMMA AddBoostTypes ==
    ASSUME ProgramTypeOK, RequestsOK, NEW s \in Slots, AddBoost(s)
    PROVE  TypesKept
  <1>1. req[s].uid \in Users /\ req[s].points \in Int
    BY DEF AddBoost, At, ProgramTypeOK, RequestsOK, RequestOK, Requests
  <1>2. "priority" \in Kinds  BY DEF Kinds
  <1>3. redis' \in RedisStates /\ spent' \in SpentBounds
    BY <1>1, <1>2, AdjustStep DEF AddBoost
  <1>4. UNCHANGED <<ledger, seeded>> /\ ~At(s, "idle")  BY DEF AddBoost, At
  <1>5. req' \in [Slots -> Requests] /\ RequestsOK'
    BY <1>4, FinishStep, GoToStep DEF AddBoost, PCs, CandPCs, HeadPCs
  <1> QED  BY <1>3, <1>4, <1>5 DEF ProgramTypeOK, TypesKept, ledger

-----------------------------------------------------------------------------
(* UseActivity: the steps that only read, or only move the request on. *)
LEMMA UseTypes ==
    ASSUME ProgramTypeOK, RequestsOK, NEW s \in Slots, NEW u \in Users, Use(s, u)
    PROVE  TypesKept
  <1> DEFINE r == [Idle EXCEPT !.pc = "checkSeed", !.uid = u]
  <1>1. r \in Requests /\ r.pc = "checkSeed" /\ r.uid = u
    BY IdleType DEF Requests, PCs, Idle
    <1>2. RequestOK(r)  BY <1>1 DEF RequestOK, CandPCs, HeadPCs
  <1>3. req' \in [Slots -> Requests] /\ RequestsOK'
    BY <1>1, <1>2, BecomeStep DEF Use
  <1>4. spent' \in SpentBounds  BY SpendType DEF Use, Receive, Begin, ProgramTypeOK
  <1> QED  BY <1>3, <1>4 DEF Use, ProgramTypeOK, TypesKept, ledger

(* A step to a call that needs no more of the request than the last one did. *)
LEMMA MoveOnTypes ==
    ASSUME ProgramTypeOK, RequestsOK, NEW s \in Slots, NEW p \in PCs, GoTo(s, p),
           UNCHANGED <<ledger, spent>>, redis' \in RedisStates, seeded' \in BOOLEAN,
           ~At(s, "idle"),
           p \in CandPCs => req[s].pc \in CandPCs,
           p \in HeadPCs => req[s].todo # <<>>
    PROVE  TypesKept
  <1>1. req' \in [Slots -> Requests] /\ RequestsOK'  BY GoToStep
  <1> QED  BY <1>1 DEF ProgramTypeOK, TypesKept, ledger

LEMMA PlainTypes ==
    ASSUME ProgramTypeOK, RequestsOK, NEW s \in Slots,
           CheckSeed(s) \/ Flush(s) \/ MarkSeeded(s) \/ StalePriority(s) \/ StaleOrdinary(s)
    PROVE  TypesKept
  <1>1. CASE CheckSeed(s)
    BY <1>1, MoveOnTypes DEF CheckSeed, At, ProgramTypeOK, PCs, CandPCs, HeadPCs
  <1>2. CASE Flush(s)
    BY <1>2, MoveOnTypes, FlushQueuesType
       DEF Flush, At, ProgramTypeOK, PCs, CandPCs, HeadPCs
  <1>3. CASE MarkSeeded(s)
    BY <1>3, MoveOnTypes DEF MarkSeeded, At, ProgramTypeOK, PCs, CandPCs, HeadPCs
  <1>4. CASE StalePriority(s)
    BY <1>4, MoveOnTypes DEF StalePriority, At, ProgramTypeOK, PCs, CandPCs, HeadPCs
  <1>5. CASE StaleOrdinary(s)
    BY <1>5, MoveOnTypes DEF StaleOrdinary, At, ProgramTypeOK, PCs, CandPCs, HeadPCs
  <1> QED  BY <1>1, <1>2, <1>3, <1>4, <1>5

LEMMA RemoveTypes ==
    ASSUME ProgramTypeOK, RequestsOK, NEW s \in Slots, RemovePriority(s) \/ RemoveOrdinary(s)
    PROVE  TypesKept
  <1>1. req[s].cand \in Users
    BY DEF RemovePriority, RemoveOrdinary, At, RequestsOK, RequestOK, CandPCs
  <1>2. redis' \in RedisStates
    BY <1>1, RemoveMemberType DEF RemovePriority, RemoveOrdinary, ProgramTypeOK, Kinds
  <1>3. CASE RemovePriority(s)
    BY <1>2, <1>3, MoveOnTypes
       DEF RemovePriority, At, ProgramTypeOK, PCs, CandPCs, HeadPCs
  <1>4. CASE RemoveOrdinary(s)
    BY <1>2, <1>4, MoveOnTypes
       DEF RemoveOrdinary, At, ProgramTypeOK, PCs, CandPCs, HeadPCs
  <1> QED  BY <1>3, <1>4

(* A claim's own request changed in place, the ledger left alone. *)
LEMMA ClaimStepTypes ==
    ASSUME ProgramTypeOK, RequestsOK, NEW s \in Slots,
           NEW STATE r, Become(s, r), r \in Requests,
           UNCHANGED <<ledger, spent>>, redis' \in RedisStates, seeded' \in BOOLEAN,
           req[s].pc # "idle", r.uid = req[s].uid,
           r.pc \in CandPCs => r.cand \in Users \ {r.uid},
           r.pc \in HeadPCs => r.todo # <<>>
    PROVE  TypesKept
  <1>1. req[s].uid \in Users  BY DEF RequestsOK, RequestOK
  <1>2. RequestOK(r)  BY <1>1 DEF RequestOK
  <1>3. req' \in [Slots -> Requests] /\ RequestsOK'  BY <1>2, BecomeStep
  <1> QED  BY <1>3 DEF ProgramTypeOK, TypesKept, ledger

LEMMA LoadSeedTypes ==
    ASSUME ProgramTypeOK, RequestsOK, NEW s \in Slots, LoadSeed(s)
    PROVE  TypesKept
  <1> DEFINE t == [i \in DOMAIN rows |-> RowOf(rows[i])]
             r == [req[s] EXCEPT !.pc = "seed", !.todo = t]
  <1>1. \A u \in Users : RowOf(u) \in Snapshot  BY DEF RowOf, Snapshot, ProgramTypeOK
  <1>2. rows \in Seq(Users)  BY DEF ProgramTypeOK
  <1>3. t \in Seq(Snapshot)  BY <1>1, <1>2
  <1>4. Become(s, r)  BY DEF LoadSeed
  <1> HIDE DEF t
  <1>5. req[s] \in Requests /\ req[s].pc # "idle"
    BY DEF LoadSeed, At, ProgramTypeOK, PCs
  <1>6. r \in Requests /\ r.pc = "seed" /\ r.uid = req[s].uid
    BY <1>3, <1>5 DEF Requests, PCs
  <1> HIDE DEF r
  <1> QED
    BY <1>4, <1>5, <1>6, ClaimStepTypes DEF LoadSeed, ProgramTypeOK, CandPCs, HeadPCs

LEMMA SeedOrdinaryTypes ==
    ASSUME ProgramTypeOK, RequestsOK, NEW s \in Slots, SeedOrdinary(s)
    PROVE  TypesKept
  <1> DEFINE row == Head(req[s].todo)
             t   == Tail(req[s].todo)
             r   == [req[s] EXCEPT !.todo = t]
  <1>1. req[s] \in Requests /\ req[s].todo # <<>> /\ req[s].pc = "seed"
    BY DEF SeedOrdinary, At, ProgramTypeOK
  <1>2. row \in Snapshot /\ t \in Seq(Snapshot)  BY <1>1 DEF Requests
  <1>3. redis' \in RedisStates
    BY <1>2, EnqueueType DEF SeedOrdinary, ProgramTypeOK, Snapshot, Kinds
  <1>4. CASE GoTo(s, "seedPriority")
    BY <1>1, <1>3, <1>4, MoveOnTypes
       DEF SeedOrdinary, At, ProgramTypeOK, PCs, CandPCs, HeadPCs
  <1>5. CASE Become(s, r)
    <2> HIDE DEF t
    <2>1. r \in Requests /\ r.pc = "seed" /\ r.uid = req[s].uid
      BY <1>1, <1>2 DEF Requests
    <2>2. req[s].pc # "idle"  BY <1>1 DEF PCs
    <2> HIDE DEF r
    <2> QED
      BY <1>3, <1>5, <2>1, <2>2, ClaimStepTypes DEF SeedOrdinary, ProgramTypeOK, CandPCs, HeadPCs
  <1> QED  BY <1>4, <1>5 DEF SeedOrdinary

LEMMA SeedPriorityTypes ==
    ASSUME ProgramTypeOK, RequestsOK, NEW s \in Slots, SeedPriority(s)
    PROVE  TypesKept
  <1> DEFINE row == Head(req[s].todo)
             t   == Tail(req[s].todo)
             r   == [req[s] EXCEPT !.pc = "seed", !.todo = t]
  <1>1. req[s] \in Requests /\ req[s].todo # <<>> /\ req[s].pc # "idle"
    BY DEF SeedPriority, At, ProgramTypeOK, RequestsOK, RequestOK, HeadPCs, PCs
  <1>2. row \in Snapshot /\ t \in Seq(Snapshot)  BY <1>1 DEF Requests
  <1>3. redis' \in RedisStates
    BY <1>2, EnqueueType DEF SeedPriority, ProgramTypeOK, Snapshot, Kinds
  <1>4. Become(s, r)  BY DEF SeedPriority
  <1> HIDE DEF t
  <1>5. r \in Requests /\ r.pc = "seed" /\ r.uid = req[s].uid
    BY <1>1, <1>2 DEF Requests, PCs
  <1> HIDE DEF r
  <1> QED
    BY <1>1, <1>3, <1>4, <1>5, ClaimStepTypes DEF SeedPriority, ProgramTypeOK, CandPCs, HeadPCs

LEMMA ListClaimsTypes ==
    ASSUME ProgramTypeOK, RequestsOK, NEW s \in Slots, ListClaims(s)
    PROVE  TypesKept
  <1> DEFINE X == {p \in Users : <<req[s].uid, p>> \in claims}
             r == [req[s] EXCEPT !.pc = "nextPriority", !.tries = 0,
                                 !.claimed = X, !.excluded = X]
  <1>1. req[s] \in Requests /\ req[s].pc # "idle"
    BY DEF ListClaims, At, ProgramTypeOK, PCs
  <1>2. Become(s, r)  BY DEF ListClaims
  <1>3. X \in SUBSET Users  OBVIOUS
  <1> HIDE DEF X
  <1>4. r \in Requests /\ r.pc = "nextPriority" /\ r.uid = req[s].uid
    BY <1>1, <1>3 DEF Requests, PCs
  <1> HIDE DEF r
  <1> QED
    BY <1>1, <1>2, <1>4, ClaimStepTypes DEF ListClaims, ProgramTypeOK, CandPCs, HeadPCs

LEMMA NextPriorityTypes ==
    ASSUME ProgramTypeOK, RequestsOK, NEW s \in Slots, NextPriority(s)
    PROVE  TypesKept
  <1> DEFINE chosen == NextActive(redis, "priority", req[s].uid, req[s].excluded)
             n == req[s].tries + 1
             r == [req[s] EXCEPT !.pc = "deliverPriority", !.cand = chosen, !.tries = n]
             q == [req[s] EXCEPT !.pc = "nextOrdinary", !.tries = 0]
  <1>1. req[s] \in Requests /\ req[s].pc # "idle"
    BY DEF NextPriority, At, ProgramTypeOK, PCs
  <1>2. n \in Nat  BY <1>1 DEF Requests
  <1>3. CASE chosen # Nobody /\ Become(s, r)
    <2>1. redis \in RedisStates /\ "priority" \in Kinds  BY DEF ProgramTypeOK, Kinds
    <2>2. chosen # Nobody  BY <1>3
    <2>3. chosen \in Active(redis, "priority") \ (req[s].excluded \union {req[s].uid})
      BY <2>1, <2>2, NextActiveType
    <2>4. chosen \in Users \ {req[s].uid}  BY <2>3 DEF Active
    <2> HIDE DEF chosen, n
    <2>5. /\ r \in Requests /\ r.pc = "deliverPriority"
          /\ r.uid = req[s].uid /\ r.cand = chosen
      BY <1>1, <1>2, <2>4 DEF Requests, PCs
    <2> HIDE DEF r
    <2> QED
      BY <1>1, <1>3, <2>4, <2>5, ClaimStepTypes DEF NextPriority, ProgramTypeOK, CandPCs, HeadPCs
  <1>4. CASE Become(s, q)
    <2>1. q \in Requests /\ q.pc = "nextOrdinary" /\ q.uid = req[s].uid
      BY <1>1 DEF Requests, PCs
    <2> HIDE DEF q
    <2> QED
      BY <1>1, <1>4, <2>1, ClaimStepTypes DEF NextPriority, ProgramTypeOK, CandPCs, HeadPCs
  <1> QED  BY <1>3, <1>4 DEF NextPriority

LEMMA SkipPriorityTypes ==
    ASSUME ProgramTypeOK, RequestsOK, NEW s \in Slots, SkipPriority(s)
    PROVE  TypesKept
  <1> DEFINE X == req[s].excluded \union {req[s].cand}
             r == [req[s] EXCEPT !.pc = "nextPriority", !.excluded = X]
  <1>1. req[s] \in Requests /\ req[s].pc # "idle" /\ req[s].cand \in Users
    BY DEF SkipPriority, At, ProgramTypeOK, PCs, RequestsOK, RequestOK, CandPCs
  <1>2. X \in SUBSET Users  BY <1>1 DEF Requests
  <1>3. Become(s, r)  BY DEF SkipPriority
  <1> HIDE DEF X
  <1>4. r \in Requests /\ r.pc = "nextPriority" /\ r.uid = req[s].uid
    BY <1>1, <1>2 DEF Requests, PCs
  <1> HIDE DEF r
  <1> QED
    BY <1>1, <1>3, <1>4, ClaimStepTypes DEF SkipPriority, ProgramTypeOK, CandPCs, HeadPCs

LEMMA NextOrdinaryTypes ==
    ASSUME ProgramTypeOK, RequestsOK, NEW s \in Slots, NextOrdinary(s)
    PROVE  TypesKept
  <1> DEFINE chosen == CursorChoice(redis, req[s].uid, req[s].claimed)
             n == req[s].tries + 1
             r == [req[s] EXCEPT !.pc = "deliverOrdinary", !.cand = chosen, !.tries = n]
  <1>1. req[s] \in Requests /\ req[s].pc # "idle"
    BY DEF NextOrdinary, At, ProgramTypeOK, PCs
  <1>2. n \in Nat  BY <1>1 DEF Requests
  <1>3. redis \in RedisStates /\ "ordinary" \in Kinds  BY DEF ProgramTypeOK, Kinds
  <1>4. chosen # Nobody /\ Become(s, r) /\ redis' = CursorMove(redis, chosen)
    BY DEF NextOrdinary
  <1>5. chosen \in Active(redis, "ordinary") \ (req[s].claimed \union {req[s].uid})
    BY <1>3, <1>4, CursorChoiceType
  <1>6. chosen \in Users \ {req[s].uid}  BY <1>5 DEF Active
  <1> HIDE DEF chosen, n
  <1>7. redis' \in RedisStates  BY <1>3, <1>4, <1>6, CursorMoveType
  <1>8. /\ r \in Requests /\ r.pc = "deliverOrdinary"
        /\ r.uid = req[s].uid /\ r.cand = chosen
    BY <1>1, <1>2, <1>6 DEF Requests, PCs
  <1> HIDE DEF r
  <1> QED
    BY <1>1, <1>4, <1>6, <1>7, <1>8, ClaimStepTypes
       DEF NextOrdinary, ProgramTypeOK, CandPCs, HeadPCs

LEMMA QueueEmptyTypes ==
    ASSUME ProgramTypeOK, RequestsOK, NEW s \in Slots, QueueEmpty(s) \/ RowGone(s)
    PROVE  TypesKept
  <1>1. Finish(s) /\ UNCHANGED <<ledger, redis, seeded, spent>>
    BY DEF QueueEmpty, RowGone
  <1>2. req' \in [Slots -> Requests] /\ RequestsOK'  BY <1>1, FinishStep
  <1> QED  BY <1>1, <1>2 DEF ProgramTypeOK, TypesKept, ledger

-----------------------------------------------------------------------------
(* UseActivity: the deliveries and the counts after them; a crash; the reset. *)
(* What CountClaim does to the ledger: the claimant earns a chance if they still
   have a row.                                                               *)
LEMMA CountClaimEarns ==
    ASSUME ProgramTypeOK, NEW STATE c, c \in Users, NEW STATE p,
           NEW STATE credit, credit \in [Users -> Int], CountClaim(c, p, credit)
    PROVE  /\ claims' = claims \union {<<c, p>>}
           /\ claimCount' = [claimCount EXCEPT ![c] = @ + Ledger!Earned(c)]
           /\ ordinaryCredit' = [credit EXCEPT ![c] = @ + Ledger!Earned(c)]
           /\ orphaned' \in Int
  <1>1. claimCount \in [Users -> Int] /\ orphaned \in Int  BY DEF ProgramTypeOK
  <1>2. CASE c \in Published  BY <1>1, <1>2 DEF CountClaim, Ledger!Earned
  <1>3. CASE c \notin Published
    <2>1. \A f \in [Users -> Int] : [f EXCEPT ![c] = @ + 0] = f  OBVIOUS
    <2>2. Ledger!Earned(c) = 0  BY <1>3 DEF Ledger!Earned
    <2>3. /\ claims' = claims \union {<<c, p>>} /\ claimCount' = claimCount
          /\ ordinaryCredit' = credit /\ orphaned' = orphaned + 1
      BY <1>3 DEF CountClaim
    <2> QED  BY <1>1, <2>1, <2>2, <2>3
  <1> QED  BY <1>2, <1>3

LEMMA CountClaimTypes ==
    ASSUME ProgramTypeOK, NEW STATE c, c \in Users, NEW STATE p, p \in Users,
           NEW STATE credit, credit \in [Users -> Int], CountClaim(c, p, credit)
    PROVE  /\ claims' \subseteq Users \X Users
           /\ claimCount' \in [Users -> Int]
           /\ ordinaryCredit' \in [Users -> Int]
           /\ orphaned' \in Int
  <1>1. claims \subseteq Users \X Users /\ claimCount \in [Users -> Int]
    BY DEF ProgramTypeOK
  <1>2. Ledger!Earned(c) \in Int  BY DEF Ledger!Earned
  <1> HIDE DEF Ledger!Earned
  <1> QED  BY <1>1, <1>2, CountClaimEarns

LEMMA ServeTypes ==
    ASSUME ProgramTypeOK, RequestsOK, NEW s \in Slots, ServePriority(s) \/ ServeOrdinary(s)
    PROVE  TypesKept
  <1> DEFINE c == req[s].uid
             p == req[s].cand
  <1>1. c \in Users /\ p \in Users /\ req[s].pc \in CandPCs /\ ~At(s, "idle")
    BY DEF ServePriority, ServeOrdinary, At, ProgramTypeOK, RequestsOK, RequestOK, CandPCs, PCs
  <1>2. rows' = rows  BY DEF ServePriority, ServeOrdinary
  <1>3. CASE ServePriority(s)
    <2>1. req' \in [Slots -> Requests] /\ RequestsOK'
      BY <1>1, <1>3, GoToStep DEF ServePriority, At, PCs, CandPCs, HeadPCs
    <2>2. CountClaim(c, p, ordinaryCredit) /\ ordinaryCredit \in [Users -> Int]
      BY <1>3 DEF ServePriority, ProgramTypeOK
    <2>3. /\ claims' \subseteq Users \X Users /\ claimCount' \in [Users -> Int]
          /\ ordinaryCredit' \in [Users -> Int] /\ orphaned' \in Int
      BY <1>1, <2>2, CountClaimTypes
    <2>4. priorityCredit' \in [Users -> Int] /\ priorityRounds' \in [Users -> Int]
      <3>1. /\ priorityCredit' = [priorityCredit EXCEPT ![p] = @ - 1]
            /\ priorityRounds' = [priorityRounds EXCEPT ![p] = @ + 1]
        BY <1>3 DEF ServePriority
      <3>2. priorityCredit \in [Users -> Int] /\ priorityRounds \in [Users -> Int]
        BY DEF ProgramTypeOK
      <3> QED  BY <1>1, <3>1, <3>2
    <2> QED  BY <1>2, <1>3, <2>1, <2>3, <2>4 DEF ServePriority, ProgramTypeOK, TypesKept
  <1>4. CASE ServeOrdinary(s)
    <2>1. req' \in [Slots -> Requests] /\ RequestsOK'
      BY <1>1, <1>4, GoToStep DEF ServeOrdinary, At, PCs, CandPCs, HeadPCs
    <2> DEFINE spentCredit == [ordinaryCredit EXCEPT ![p] = @ - 1]
    <2>2. CountClaim(c, p, spentCredit) /\ spentCredit \in [Users -> Int]
      <3>1. ordinaryCredit \in [Users -> Int]  BY DEF ProgramTypeOK
      <3> QED  BY <1>1, <1>4, <3>1 DEF ServeOrdinary
    <2>3. /\ claims' \subseteq Users \X Users /\ claimCount' \in [Users -> Int]
          /\ ordinaryCredit' \in [Users -> Int] /\ orphaned' \in Int
      <3> HIDE DEF spentCredit
      <3> QED  BY <1>1, <2>2, CountClaimTypes
    <2>4. ordinaryRounds' \in [Users -> Int]
      <3>1. ordinaryRounds \in [Users -> Int]  BY DEF ProgramTypeOK
      <3>2. ordinaryRounds' = [ordinaryRounds EXCEPT ![p] = @ + 1]
        BY <1>4 DEF ServeOrdinary
      <3> QED  BY <1>1, <3>1, <3>2
    <2> QED  BY <1>2, <1>4, <2>1, <2>3, <2>4 DEF ServeOrdinary, ProgramTypeOK, TypesKept
  <1> QED  BY <1>3, <1>4

LEMMA CountTypes ==
    ASSUME ProgramTypeOK, RequestsOK, NEW s \in Slots,
           ConsumePriority(s) \/ ConsumeOrdinary(s) \/ Earn(s)
    PROVE  TypesKept
  <1>1. UNCHANGED <<ledger, seeded>> /\ req[s].pc # "idle" /\ ~At(s, "idle")
    BY DEF ConsumePriority, ConsumeOrdinary, Earn, At, PCs
  <1>2. req[s].uid \in Users
    BY <1>1 DEF RequestsOK, RequestOK
  <1>3. redis' \in RedisStates /\ spent' \in SpentBounds
    <2>1. "priority" \in Kinds /\ "ordinary" \in Kinds /\ 1 \in Int /\ -1 \in Int
      BY DEF Kinds
    <2>2. CASE ConsumePriority(s)
      <3>1. req[s].cand \in Users
        BY <2>2 DEF ConsumePriority, At, RequestsOK, RequestOK, CandPCs
      <3> QED  BY <2>1, <2>2, <3>1, AdjustStep DEF ConsumePriority
    <2>3. CASE ConsumeOrdinary(s)
      <3>1. req[s].cand \in Users
        BY <2>3 DEF ConsumeOrdinary, At, RequestsOK, RequestOK, CandPCs
      <3> QED  BY <2>1, <2>3, <3>1, AdjustStep DEF ConsumeOrdinary
    <2>4. CASE Earn(s)  BY <1>2, <2>1, <2>4, AdjustStep DEF Earn
    <2> QED  BY <2>2, <2>3, <2>4
  <1>4. Finish(s) \/ GoTo(s, "earn") \/ GoTo(s, "invalidateThenEarn") \/ GoTo(s, "invalidate")
    BY DEF ConsumePriority, ConsumeOrdinary, Earn
  <1>5. req' \in [Slots -> Requests] /\ RequestsOK'
    <2>1. CASE Finish(s)  BY <2>1, FinishStep
    <2>2. CASE GoTo(s, "earn")
      BY <1>1, <2>2, GoToStep DEF PCs, CandPCs, HeadPCs
    <2>3. CASE GoTo(s, "invalidateThenEarn")
      BY <1>1, <2>3, GoToStep DEF PCs, CandPCs, HeadPCs
    <2>4. CASE GoTo(s, "invalidate")
      BY <1>1, <2>4, GoToStep DEF PCs, CandPCs, HeadPCs
    <2> QED  BY <1>4, <2>1, <2>2, <2>3, <2>4
  <1> QED  BY <1>1, <1>3, <1>5 DEF ProgramTypeOK, TypesKept, ledger

LEMMA CrashTypes ==
    ASSUME ProgramTypeOK, RequestsOK, Crash
    PROVE  TypesKept
  <1>1. req' \in [Slots -> Requests]  BY IdleType DEF Crash
  <1>2. \A s \in Slots : req'[s] = Idle  BY DEF Crash
  <1>3. RequestsOK'
    BY <1>2 DEF RequestsOK, RequestOK, Idle, CandPCs, HeadPCs
  <1>4. redis' \in RedisStates /\ spent' \in SpentBounds /\ seeded' \in BOOLEAN
    BY FlushQueuesType, SpendType DEF Crash, ProgramTypeOK
  <1> QED  BY <1>1, <1>3, <1>4 DEF Crash, ProgramTypeOK, TypesKept, ledger

(* The reset touches no request. *)
LEMMA ResetTypes ==
    ASSUME ProgramTypeOK, RequestsOK, DailyReset
    PROVE  TypesKept
  <1>1. req' = req  BY DEF DailyReset, FlushDay, EmptyTables, ResetFails
  <1>2. RequestsOK'  BY <1>1 DEF RequestsOK, RequestOK
  <1>3. CASE FlushDay
    <2>1. redis' \in RedisStates /\ spent' \in SpentBounds /\ seeded' \in BOOLEAN
      BY <1>3, EmptyRedisType, SpendType DEF FlushDay, Begin, ProgramTypeOK
    <2> QED  BY <1>2, <1>3, <2>1 DEF FlushDay, ProgramTypeOK, TypesKept, ledger
  <1>4. CASE EmptyTables
    <2>1. rows' \in Seq(Users) /\ claims' \subseteq Users \X Users /\ orphaned' \in Int
      BY <1>4 DEF EmptyTables
    <2>2. [u \in Users |-> 0] \in [Users -> Int]  OBVIOUS
    <2> QED  BY <1>2, <1>4, <2>1, <2>2 DEF EmptyTables, ProgramTypeOK, TypesKept
  <1>5. CASE ResetFails
    BY <1>2, <1>5 DEF ResetFails, ProgramTypeOK, TypesKept, ledger
  <1> QED  BY <1>3, <1>4, <1>5 DEF DailyReset

-----------------------------------------------------------------------------
LEMMA InitTypes == Init => TypeOK /\ RequestsOK
  <1> SUFFICES ASSUME Init PROVE TypeOK /\ RequestsOK
    OBVIOUS
  <1>1. rows \in Seq(Users)  BY RowsAreUsers DEF Init
  <1>2. \A u \in Users : (IF u \in Published THEN Grant ELSE 0) \in Int
    BY GrantIsNatural
  <1>3. req \in [Slots -> Requests] /\ \A s \in Slots : req[s] = Idle
    BY IdleType DEF Init
  <1>4. RequestsOK
    BY <1>3 DEF RequestsOK, RequestOK, Idle, CandPCs, HeadPCs
  <1>5. InitialPoints \in Int  BY PointsAreNatural
  <1>6. spent \in SpentBounds  BY DEF Init, SpentBounds
  <1>7. /\ ordinaryCredit \in [Users -> Int] /\ ordinaryRounds \in [Users -> Int]
        /\ priorityCredit \in [Users -> Int] /\ priorityRounds \in [Users -> Int]
        /\ committed \in [Users -> Int] /\ points \in [Users -> Int]
        /\ claimCount \in [Users -> Int]
    BY <1>2, <1>5 DEF Init
  <1>8. redis \in RedisStates  BY EmptyRedisType DEF Init
  <1>9. seeded \in BOOLEAN /\ resetting \in BOOLEAN /\ crossed \in BOOLEAN
    BY Zenon DEF Init
  <1>10. claims = {} /\ orphaned = 0 /\ boosted = [u \in Users |-> 0]
    BY Zenon DEF Init
  <1>11. ProgramTypeOK
    BY <1>1, <1>3, <1>6, <1>7, <1>8, <1>9, <1>10 DEF ProgramTypeOK
  <1> QED  BY <1>4, <1>9, <1>10, <1>11 DEF TypeOK

LEMMA ProgramTypes == ProgramTypeOK /\ RequestsOK /\ [Next]_vars => TypesKept
  <1> SUFFICES ASSUME ProgramTypeOK, RequestsOK, [Next]_vars PROVE TypesKept
    OBVIOUS
  <1>1. CASE UNCHANGED vars
    BY <1>1 DEF vars, ledger, ProgramTypeOK, RequestsOK, RequestOK, TypesKept
  <1>2. CASE Crash  BY <1>2, CrashTypes
  <1>3. CASE DailyReset  BY <1>3, ResetTypes
  <1>4. ASSUME NEW s \in Slots, Step(s)
        PROVE  TypesKept
    BY <1>4, PublishTypes, UseTypes, BoostTypes, LoadRowTypes, EnqueueOwnTypes,
       InvalidateTypes, LoseTypes, AddBoostTypes, PlainTypes, LoadSeedTypes,
       SeedOrdinaryTypes, SeedPriorityTypes, ListClaimsTypes, NextPriorityTypes,
       ServeTypes, SkipPriorityTypes, RemoveTypes, CountTypes, NextOrdinaryTypes,
       QueueEmptyTypes
       DEF Step
  <1> QED  BY <1>1, <1>2, <1>3, <1>4 DEF Next

(* What resets alone change. *)
LEMMA NightTypes == TypeOK /\ [Next]_vars => /\ resetting' \in BOOLEAN
                                            /\ crossed' \in BOOLEAN
                                            /\ boosted' \in [Users -> Int]
  <1> SUFFICES ASSUME TypeOK, [Next]_vars
               PROVE  /\ resetting' \in BOOLEAN /\ crossed' \in BOOLEAN
                      /\ boosted' \in [Users -> Int]
    OBVIOUS
  <1>1. CASE UNCHANGED night  BY <1>1 DEF night, TypeOK
  <1>2. CASE Crash  BY <1>2 DEF Crash, TypeOK
  <1>3. CASE FlushDay  BY <1>3 DEF FlushDay, TypeOK
  <1>4. CASE EmptyTables
    <2>1. boosted \in [Users -> Int] /\ committed \in [Users -> Int]
      BY DEF TypeOK, ProgramTypeOK
    <2>2. boosted' = [u \in Users |-> boosted[u] + committed[u]]  BY <1>4 DEF EmptyTables
    <2>3. boosted' \in [Users -> Int]  BY <2>1, <2>2
    <2>4. resetting' \in BOOLEAN /\ crossed' \in BOOLEAN  BY <1>4 DEF EmptyTables
    <2> QED  BY <2>3, <2>4
  <1>5. CASE ResetFails  BY <1>5 DEF ResetFails, TypeOK
  <1> QED  BY <1>1, <1>2, <1>3, <1>4, <1>5 DEF Next, DailyReset, vars, night

LEMMA NextTypes == TypeOK /\ RequestsOK /\ [Next]_vars => TypeOK' /\ RequestsOK'
  BY ProgramTypes, NightTypes DEF TypeOK, TypesKept

(* Type correctness: whatever the interleaving of requests and resets, the lost
   calls and the crashes, rows, queues and requests keep their shape, and each
   call finds in the request what it needs: it has a caller, a claim's candidate
   is another user, and a request about to enqueue a row holds one.          *)
THEOREM TypeCorrect == Spec => [](TypeOK /\ RequestsOK)
  BY InitTypes, NextTypes, PTL DEF Spec

-----------------------------------------------------------------------------
(* The balances of README.md:168 and :169. A publisher with no row has nothing,
   which is what makes the credit granted with the row the whole of it.      *)
CreditsOK ==
    \A u \in Users :
        /\ ordinaryCredit[u] >= 0
        /\ u \in Published =>
              ordinaryCredit[u] = Grant + claimCount[u] - ordinaryRounds[u]
        /\ u \notin Published =>
              ordinaryCredit[u] = 0 /\ claimCount[u] = 0 /\ ordinaryRounds[u] = 0

Balances == CreditsOK /\ PriorityBalance /\ NeverOwnContent

IInv == TypeOK /\ RequestsOK /\ Balances

LEMMA InitBalances == Init => Balances
  <1> SUFFICES ASSUME Init PROVE Balances
    OBVIOUS
  <1>1. CreditsOK  BY GrantIsNatural DEF Init, CreditsOK
  <1>2. PriorityBalance
    <2>1. \A u \in Users : /\ committed[u] = 0 /\ boosted[u] = 0
                           /\ priorityCredit[u] = 0 /\ priorityRounds[u] = 0
                           /\ points[u] = InitialPoints
      BY DEF Init
    <2> QED  BY <2>1, PointsAreNatural DEF PriorityBalance
  <1>3. NeverOwnContent  BY DEF Init, NeverOwnContent
  <1> QED  BY <1>1, <1>2, <1>3 DEF Balances

(* Steps that leave the ledger alone. *)
LEMMA LedgerFrame ==
    ASSUME NEW s \in Slots, Step(s)
    PROVE  \/ UNCHANGED ledger
           \/ \E u \in Users : Publish(s, u)
           \/ \E u \in Users : \E n \in 1 .. InitialPoints : Boost(s, u, n)
           \/ ServePriority(s)
           \/ ServeOrdinary(s)
  BY DEF Step, Use, LoadRow, EnqueueOwn, EnqueueOwnPriority, Invalidate, CutOff,
         AddBoost, CheckSeed, Flush, LoadSeed, SeedOrdinary, SeedPriority, MarkSeeded,
         RowGone, ListClaims, NextPriority, SkipPriority, StalePriority, RemovePriority,
         ConsumePriority, NextOrdinary, QueueEmpty, StaleOrdinary, RemoveOrdinary,
         ConsumeOrdinary, Earn, LoseClaim

(* The caller and the candidate of a delivery under way. *)
LEMMA DeliveryFacts ==
    ASSUME ProgramTypeOK, RequestsOK, NEW s \in Slots, ServePriority(s) \/ ServeOrdinary(s)
    PROVE  /\ req[s].uid \in Users
           /\ req[s].cand \in Users /\ req[s].cand \in Published
           /\ req[s].uid # req[s].cand
  <1>1. req[s].pc \in CandPCs /\ req[s].pc # "idle" /\ req[s].pc # "idle"
    BY DEF ServePriority, ServeOrdinary, At, CandPCs, PCs
  <1>2. RequestOK(req[s])  BY DEF RequestsOK
  <1>3. req[s].cand \in Published  BY DEF ServePriority, ServeOrdinary, HasCredit
  <1> QED  BY <1>1, <1>2, <1>3 DEF RequestOK

LEMMA PublishBalances ==
    ASSUME ProgramTypeOK, RequestsOK, Balances, NEW s \in Slots, NEW u \in Users,
           Publish(s, u), boosted' = boosted
    PROVE  Balances'
  <1>1. CASE u \in Published
    <2>1. UNCHANGED ledger  BY <1>1 DEF Publish, ledger
    <2> QED
      BY <2>1 DEF ledger, Balances, CreditsOK, PriorityBalance, NeverOwnContent, Published
  <1>2. CASE u \notin Published
    <2>1. rows' = Append(rows, u) /\ rows \in Seq(Users)  BY <1>2 DEF Publish, ProgramTypeOK
    <2>2. Published' = Published \union {u}
      BY <2>1 DEF Published, Range
    <2>3. ordinaryCredit' = [ordinaryCredit EXCEPT ![u] = Grant]  BY <1>2 DEF Publish
    <2>4. CreditsOK'
      <3>1. /\ ordinaryCredit \in [Users -> Int] /\ CreditsOK
            /\ UNCHANGED <<claimCount, ordinaryRounds>>
        BY DEF Publish, Balances, ProgramTypeOK
      <3> QED  BY <1>2, <2>2, <2>3, <3>1, GrantIsNatural DEF CreditsOK
    <2>5. PriorityBalance' /\ NeverOwnContent'
      BY DEF Publish, Balances, PriorityBalance, NeverOwnContent
    <2> QED  BY <2>4, <2>5 DEF Balances
  <1> QED  BY <1>1, <1>2

LEMMA BoostBalances ==
    ASSUME TypeOK, RequestsOK, Balances, NEW s \in Slots, NEW u \in Users,
           NEW n \in 1 .. InitialPoints, Boost(s, u, n),
           boosted' = boosted
    PROVE  Balances'
  <1>1. n \in Nat  BY PointsAreNatural
  <1>2. Published' = Published  BY DEF Boost, Published
  <1>3. PriorityBalance'
    <2>1. /\ committed' = [committed EXCEPT ![u] = @ + n]
          /\ priorityCredit' = [priorityCredit EXCEPT ![u] = @ + n]
          /\ points' = [points EXCEPT ![u] = @ - n]
          /\ priorityRounds' = priorityRounds /\ points[u] >= n
      BY DEF Boost
    <2>2. /\ committed \in [Users -> Int] /\ priorityCredit \in [Users -> Int]
          /\ points \in [Users -> Int] /\ priorityRounds \in [Users -> Int]
          /\ boosted \in [Users -> Int]
      BY DEF TypeOK, ProgramTypeOK
    <2>3. PriorityBalance  BY DEF Balances
    <2> QED  BY <1>1, <2>1, <2>2, <2>3, PointsAreNatural DEF PriorityBalance
  <1>4. CreditsOK' /\ NeverOwnContent'
    BY <1>2 DEF Boost, Balances, CreditsOK, NeverOwnContent
  <1> QED  BY <1>3, <1>4 DEF Balances

LEMMA ServePriorityBalances ==
    ASSUME ProgramTypeOK, RequestsOK, Balances, NEW s \in Slots, ServePriority(s),
           boosted' = boosted
    PROVE  Balances'
  <1>1. PICK c \in Users, p \in Users : c = req[s].uid /\ p = req[s].cand /\ c # p
    BY DeliveryFacts
  <1>2. /\ priorityCredit' = [priorityCredit EXCEPT ![p] = @ - 1] /\ priorityCredit[p] > 0
        /\ priorityRounds' = [priorityRounds EXCEPT ![p] = @ + 1]
        /\ UNCHANGED <<rows, ordinaryRounds, committed, points>>
        /\ CountClaim(c, p, ordinaryCredit)
    BY <1>1 DEF ServePriority, HasCredit
  <1>3. /\ ordinaryCredit \in [Users -> Int] /\ ordinaryRounds \in [Users -> Int]
        /\ claimCount \in [Users -> Int] /\ committed \in [Users -> Int]
        /\ priorityCredit \in [Users -> Int] /\ priorityRounds \in [Users -> Int]
    BY DEF ProgramTypeOK
  <1>4. /\ claims' = claims \union {<<c, p>>}
        /\ claimCount' = [claimCount EXCEPT ![c] = @ + Ledger!Earned(c)]
        /\ ordinaryCredit' = [ordinaryCredit EXCEPT ![c] = @ + Ledger!Earned(c)]
    BY <1>2, <1>3, CountClaimEarns
  <1>5. Published' = Published  BY <1>2 DEF Published
  <1>6. CreditsOK'
    BY <1>2, <1>3, <1>4, <1>5, GrantIsNatural DEF Balances, CreditsOK, Ledger!Earned
  <1>7. PriorityBalance'
    <2>1. PriorityBalance  BY DEF Balances
    <2> QED  BY <1>1, <1>2, <1>3, <2>1 DEF PriorityBalance
  <1>8. NeverOwnContent'  BY <1>1, <1>4 DEF Balances, NeverOwnContent
  <1> QED  BY <1>6, <1>7, <1>8 DEF Balances

LEMMA ServeOrdinaryBalances ==
    ASSUME ProgramTypeOK, RequestsOK, Balances, NEW s \in Slots, ServeOrdinary(s),
           boosted' = boosted
    PROVE  Balances'
  <1>1. PICK c \in Users, p \in Users : /\ c = req[s].uid /\ p = req[s].cand
                                        /\ c # p /\ p \in Published
    BY DeliveryFacts
  <1> DEFINE paid == [ordinaryCredit EXCEPT ![p] = @ - 1]
  <1>2. /\ ordinaryRounds' = [ordinaryRounds EXCEPT ![p] = @ + 1] /\ ordinaryCredit[p] > 0
        /\ UNCHANGED <<rows, priorityCredit, priorityRounds, committed, points>>
        /\ CountClaim(c, p, paid)
    BY <1>1 DEF ServeOrdinary, HasCredit
  <1>3. /\ ordinaryCredit \in [Users -> Int] /\ ordinaryRounds \in [Users -> Int]
        /\ claimCount \in [Users -> Int] /\ paid \in [Users -> Int]
    <2>1. /\ ordinaryCredit \in [Users -> Int] /\ ordinaryRounds \in [Users -> Int]
          /\ claimCount \in [Users -> Int]
      BY DEF ProgramTypeOK
    <2> QED  BY <2>1
  <1>4. /\ claims' = claims \union {<<c, p>>}
        /\ claimCount' = [claimCount EXCEPT ![c] = @ + Ledger!Earned(c)]
        /\ ordinaryCredit' = [paid EXCEPT ![c] = @ + Ledger!Earned(c)]
    <2> HIDE DEF paid
    <2> QED  BY <1>2, <1>3, CountClaimEarns
  <1>5. Published' = Published  BY <1>2 DEF Published
  <1>6. CreditsOK'
    BY <1>1, <1>2, <1>3, <1>4, <1>5, GrantIsNatural DEF Balances, CreditsOK, Ledger!Earned
  <1>7. PriorityBalance'  BY <1>2 DEF Balances, PriorityBalance
  <1>8. NeverOwnContent'  BY <1>1, <1>4 DEF Balances, NeverOwnContent
  <1> QED  BY <1>6, <1>7, <1>8 DEF Balances

(* The new day owes nobody anything, and the points spent yesterday stay spent. *)
LEMMA NewDayBalances ==
    ASSUME TypeOK, Balances, EmptyTables
    PROVE  Balances'
  <1>1. /\ committed \in [Users -> Int] /\ boosted \in [Users -> Int]
        /\ points \in [Users -> Int]
    BY DEF TypeOK, ProgramTypeOK
  <1>2. /\ rows' = <<>> /\ claims' = {} /\ points' = points
        /\ boosted' = [u \in Users |-> boosted[u] + committed[u]]
        /\ ordinaryCredit' = [u \in Users |-> 0] /\ ordinaryRounds' = [u \in Users |-> 0]
        /\ priorityCredit' = [u \in Users |-> 0] /\ priorityRounds' = [u \in Users |-> 0]
        /\ committed' = [u \in Users |-> 0] /\ claimCount' = [u \in Users |-> 0]
    BY DEF EmptyTables
  <1>3. Published' = {}  BY <1>2 DEF Published, Range
  <1>4. CreditsOK'  BY <1>2, <1>3 DEF CreditsOK
  <1>5. PriorityBalance'
    BY <1>1, <1>2, PointsAreNatural DEF Balances, PriorityBalance
  <1>6. NeverOwnContent'  BY <1>2 DEF NeverOwnContent
  <1> QED  BY <1>4, <1>5, <1>6 DEF Balances

LEMMA NextBalances == TypeOK /\ RequestsOK /\ Balances /\ [Next]_vars => Balances'
  <1> SUFFICES ASSUME TypeOK, ProgramTypeOK, RequestsOK, Balances, [Next]_vars
               PROVE  Balances'
    BY DEF TypeOK
  <1>1. CASE UNCHANGED <<ledger, boosted>>
    BY <1>1 DEF ledger, Balances, CreditsOK, PriorityBalance, NeverOwnContent, Published
  <1>2. ASSUME NEW s \in Slots, Step(s), UNCHANGED night
        PROVE  Balances'
    <2>1. boosted' = boosted  BY <1>2 DEF night
    <2> QED
      BY <1>1, <1>2, <2>1, LedgerFrame, PublishBalances, BoostBalances,
         ServePriorityBalances, ServeOrdinaryBalances
  <1>3. CASE EmptyTables  BY <1>3, NewDayBalances
  <1>4. CASE Crash \/ FlushDay \/ ResetFails
    BY <1>1, <1>4 DEF Crash, FlushDay, ResetFails
  <1> QED  BY <1>1, <1>2, <1>3, <1>4 DEF Next, DailyReset, vars, night

(* The inductive invariant: types, fit requests, balances. *)
LEMMA Inductive == Spec => []IInv
  <1>1. Init => IInv  BY InitTypes, InitBalances DEF IInv
  <1>2. IInv /\ [Next]_vars => IInv'  BY NextTypes, NextBalances DEF IInv
  <1> QED  BY <1>1, <1>2, PTL DEF Spec

(* README.md:168: however claims on a publisher and claims by that publisher
   interleave, and whatever the queues told them, the ordinary credit is the
   grant plus the claims less the rounds, and never goes below zero.         *)
THEOREM OrdinaryBalanceHolds == Spec => []OrdinaryBalance
  <1>1. IInv => OrdinaryBalance
    <2> SUFFICES ASSUME IInv, NEW u \in Published
                 PROVE  /\ ordinaryCredit[u] = Grant + claimCount[u] - ordinaryRounds[u]
                        /\ ordinaryCredit[u] >= 0
      BY DEF OrdinaryBalance
    <2>1. u \in Users  BY DEF IInv, TypeOK, ProgramTypeOK, Published, Range
    <2> QED  BY <2>1 DEF IInv, Balances, CreditsOK
  <1> QED  BY <1>1, Inductive, PTL

(* README.md:169: the priority credit is what was committed less what was
   delivered, the points committed are those that left the account, and neither
   goes below zero.                                                          *)
THEOREM PriorityBalanceHolds == Spec => []PriorityBalance
  <1>1. IInv => PriorityBalance  BY DEF IInv, Balances
  <1> QED  BY <1>1, Inductive, PTL

(* Nobody is ever recorded as having received their own content.             *)
THEOREM NeverOwnContentHolds == Spec => []NeverOwnContent
  <1>1. IInv => NeverOwnContent  BY DEF IInv, Balances
  <1> QED  BY <1>1, Inductive, PTL

-----------------------------------------------------------------------------
(* Who has a claim record of a publisher. A set of them can be counted at any
   time, since records are made one by one.                                  *)
Receivers(p) == {c \in Users : <<c, p>> \in claims}

ReceiversOK ==
    \A p \in Users : /\ IsFiniteSet(Receivers(p))
                     /\ priorityRounds[p] <= Cardinality(Receivers(p))

LEMMA InitReceivers == Init => ReceiversOK
  <1> SUFFICES ASSUME Init, NEW p \in Users
               PROVE  /\ IsFiniteSet(Receivers(p))
                      /\ priorityRounds[p] <= Cardinality(Receivers(p))
    BY DEF ReceiversOK
  <1>1. Receivers(p) = {} /\ priorityRounds[p] = 0  BY DEF Init, Receivers
  <1> QED  BY <1>1, FS_EmptySet

(* A claim of a publisher adds its claimant to the receivers of that publisher
   and to nobody else's.                                                     *)
LEMMA ReceiversGrow ==
    ASSUME NEW c \in Users, NEW p \in Users, NEW q \in Users,
           claims' = claims \union {<<c, p>>}, IsFiniteSet(Receivers(q))
    PROVE  /\ IsFiniteSet(Receivers(q)')
           /\ Cardinality(Receivers(q)) \in Nat
           /\ Cardinality(Receivers(q)') =
                 IF q = p /\ <<c, p>> \notin claims THEN Cardinality(Receivers(q)) + 1
                                                   ELSE Cardinality(Receivers(q))
  <1>1. Cardinality(Receivers(q)) \in Nat  BY FS_CardinalityType
  <1>2. CASE q = p
    <2>1. Receivers(q)' = Receivers(q) \union {c}  BY <1>2 DEF Receivers
    <2>2. c \in Receivers(q) <=> <<c, p>> \in claims  BY <1>2 DEF Receivers
    <2> QED  BY <1>1, <1>2, <2>1, <2>2, FS_AddElement
  <1>3. CASE q # p
    <2>1. Receivers(q)' = Receivers(q)  BY <1>3 DEF Receivers
    <2> QED  BY <1>1, <1>3, <2>1
  <1> QED  BY <1>2, <1>3

LEMMA ServeReceivers ==
    ASSUME ProgramTypeOK, RequestsOK, ReceiversOK, NEW s \in Slots,
           ServePriority(s) \/ ServeOrdinary(s)
    PROVE  ReceiversOK'
  <1> SUFFICES ASSUME NEW q \in Users
               PROVE  /\ IsFiniteSet(Receivers(q)')
                      /\ priorityRounds'[q] <= Cardinality(Receivers(q)')
    BY DEF ReceiversOK
  <1>1. PICK c \in Users, p \in Users : c = req[s].uid /\ p = req[s].cand
    BY DeliveryFacts
  <1>2. claims' = claims \union {<<c, p>>}
    BY <1>1 DEF ServePriority, ServeOrdinary, CountClaim
  <1>3. IsFiniteSet(Receivers(q)) /\ priorityRounds[q] <= Cardinality(Receivers(q))
    BY DEF ReceiversOK
  <1>4. /\ IsFiniteSet(Receivers(q)')
        /\ Cardinality(Receivers(q)) \in Nat
        /\ Cardinality(Receivers(q)') =
              IF q = p /\ <<c, p>> \notin claims THEN Cardinality(Receivers(q)) + 1
                                                ELSE Cardinality(Receivers(q))
    BY <1>2, <1>3, ReceiversGrow
  <1>5. priorityRounds \in [Users -> Int]  BY DEF ProgramTypeOK
  <1>6. CASE ServePriority(s)
    <2>1. /\ <<c, p>> \notin claims
          /\ priorityRounds' = [priorityRounds EXCEPT ![p] = @ + 1]
      BY <1>1, <1>6 DEF ServePriority
    <2>2. priorityRounds'[q] = IF q = p THEN priorityRounds[q] + 1 ELSE priorityRounds[q]
      BY <1>5, <2>1
    <2>3. priorityRounds[q] \in Int  BY <1>5
    <2> HIDE DEF Receivers
    <2> QED  BY <1>3, <1>4, <2>1, <2>2, <2>3
  <1>7. CASE ServeOrdinary(s)
    <2>1. priorityRounds' = priorityRounds  BY <1>7 DEF ServeOrdinary
    <2>2. priorityRounds[q] \in Int  BY <1>5
    <2> QED  BY <1>3, <1>4, <2>1, <2>2
  <1> QED  BY <1>6, <1>7

LEMMA NextReceivers ==
    TypeOK /\ RequestsOK /\ ReceiversOK /\ [Next]_vars => ReceiversOK'
  <1> SUFFICES ASSUME ProgramTypeOK, RequestsOK, ReceiversOK, [Next]_vars
               PROVE  ReceiversOK'
    BY DEF TypeOK
  <1>1. CASE UNCHANGED <<claims, priorityRounds>>
    BY <1>1 DEF ReceiversOK, Receivers
  <1>2. ASSUME NEW s \in Slots, Step(s)
        PROVE  ReceiversOK'
    <2>1. CASE UNCHANGED ledger  BY <1>1, <2>1 DEF ledger
    <2>2. CASE \E u \in Users : Publish(s, u)  BY <1>1, <2>2 DEF Publish
    <2>3. CASE \E u \in Users : \E n \in 1 .. InitialPoints : Boost(s, u, n)
      BY <1>1, <2>3 DEF Boost
    <2>4. CASE ServePriority(s) \/ ServeOrdinary(s)  BY <2>4, ServeReceivers
    <2> QED  BY <1>2, <2>1, <2>2, <2>3, <2>4, LedgerFrame
  <1>3. CASE EmptyTables
    <2> SUFFICES ASSUME NEW p \in Users
                 PROVE  /\ IsFiniteSet(Receivers(p)')
                        /\ priorityRounds'[p] <= Cardinality(Receivers(p)')
      BY DEF ReceiversOK
    <2>1. Receivers(p)' = {} /\ priorityRounds'[p] = 0
      BY <1>3 DEF EmptyTables, Receivers
    <2> QED  BY <2>1, FS_EmptySet
  <1>4. CASE Crash \/ FlushDay \/ ResetFails
    BY <1>1, <1>4 DEF Crash, FlushDay, ResetFails, ledger
  <1> QED  BY <1>1, <1>2, <1>3, <1>4 DEF Next, DailyReset, vars, ledger

(* platform.go:1001, the conflict on a claim record rolls a priority delivery
   back: however many requests of one claimant select the same publisher, that
   publisher spends no two priority chances on one claimant.                 *)
THEOREM PriorityServesOnceHolds == Spec => []PriorityServesOnce
  <1>1. TypeOK /\ RequestsOK /\ ReceiversOK /\ [Next]_vars => ReceiversOK'
    BY NextReceivers
  <1>2. ReceiversOK => PriorityServesOnce
    BY DEF ReceiversOK, Receivers, PriorityServesOnce
  <1> QED  BY <1>1, <1>2, InitReceivers, TypeCorrect, PTL DEF Spec

-----------------------------------------------------------------------------
(* Finite sums. SumFunctionOnSet takes the elements of a set one by one, in an order
   that is not known: the lemmas say that the order does not matter.           *)

(* Induction on a finite set, for a set of its subsets: whatever holds of the empty
   set, and of a set when it holds of the set less any one element, holds of all. *)
LEMMA SubsetInduction ==
    ASSUME NEW T, IsFiniteSet(T), NEW P,
           \A s \in SUBSET T : (\A x \in s : s \ {x} \in P) => s \in P
    PROVE  \A s \in SUBSET T : s \in P
  <1>1. SUFFICES ASSUME NEW b \in SUBSET T, b \notin P  PROVE FALSE  OBVIOUS
  <1> DEFINE bad == {s \in SUBSET T : s \notin P}
             sizes == {Cardinality(s) : s \in bad}
  <1>2. ASSUME NEW s \in SUBSET T  PROVE IsFiniteSet(s) /\ Cardinality(s) \in Nat
    BY FS_Subset, FS_CardinalityType
  <1>3. sizes \in SUBSET Nat /\ sizes # {}  BY <1>1, <1>2
  <1>4. PICK n \in sizes : \A m \in sizes : n <= m
    <2> HIDE DEF sizes
    <2> QED  BY <1>3, LeastElement
  <1>5. PICK s \in bad : n = Cardinality(s)  BY <1>4
  <1>6. PICK x \in s : s \ {x} \notin P  BY <1>5
  <1>7. s \ {x} \in bad /\ Cardinality(s \ {x}) = Cardinality(s) - 1
    BY <1>2, <1>5, <1>6, FS_RemoveElement
  <1>8. Cardinality(s \ {x}) \in sizes  BY <1>7
  <1> HIDE DEF sizes, bad
  <1> QED  BY <1>3, <1>4, <1>5, <1>7, <1>8

(* g adds up f over the subsets of T, the way SumFunctionOnSet does. *)
Any(s) == CHOOSE x \in s : TRUE

AddsUp(f, T, g) ==
    g = [s \in SUBSET T |-> IF s = {} THEN 0 ELSE f[Any(s)] + g[s \ {Any(s)}]]

IntsOn(f, T) == \A x \in T : f[x] \in Int

LEMMA AnyIs == ASSUME NEW s, s # {} PROVE Any(s) \in s
  BY DEF Any

LEMMA SumIsChosen ==
    ASSUME NEW f, NEW T
    PROVE  SumFunctionOnSet(f, T) = (CHOOSE g : AddsUp(f, T, g))[T]
  BY DEF SumFunctionOnSet, FoldFunctionOnSet, MapThenFoldSet, AddsUp, Any

LEMMA AddsUpTypes ==
    ASSUME NEW T, IsFiniteSet(T), NEW f, IntsOn(f, T), NEW g, AddsUp(f, T, g)
    PROVE  /\ \A s \in SUBSET T : g[s] \in Int
           /\ \A s \in SUBSET T : g[s] = IF s = {} THEN 0 ELSE f[Any(s)] + g[s \ {Any(s)}]
  <1>1. \A s \in SUBSET T : g[s] = IF s = {} THEN 0 ELSE f[Any(s)] + g[s \ {Any(s)}]
    BY DEF AddsUp
  <1> DEFINE P == {s \in SUBSET T : g[s] \in Int}
  <1>2. ASSUME NEW s \in SUBSET T, \A x \in s : s \ {x} \in P  PROVE s \in P
    <2>1. CASE s = {}
      <3>1. g[s] = 0  BY <1>1, <2>1
      <3> QED  BY <3>1
    <2>2. CASE s # {}
      <3>1. Any(s) \in s  BY <2>2, AnyIs
      <3>2. f[Any(s)] \in Int  BY <3>1 DEF IntsOn
      <3>3. g[s \ {Any(s)}] \in Int  BY <1>2, <3>1
      <3>4. g[s] = f[Any(s)] + g[s \ {Any(s)}]  BY <1>1, <2>2
      <3> QED  BY <3>2, <3>3, <3>4
    <2> QED  BY <2>1, <2>2
  <1> HIDE DEF P
  <1>3. \A s \in SUBSET T : s \in P  BY <1>2, SubsetInduction
  <1> QED  BY <1>1, <1>3 DEF P

LEMMA SumsExist ==
    ASSUME NEW T, IsFiniteSet(T), NEW f, IntsOn(f, T)
    PROVE  \E g : AddsUp(f, T, g)
  <1> DEFINE Up(n, g) == \A s \in SUBSET T : Cardinality(s) <= n =>
                            g[s] = IF s = {} THEN 0 ELSE f[Any(s)] + g[s \ {Any(s)}]
             N == {n \in Nat : ~\E g : Up(n, g)}
  <1>0. \A s \in SUBSET T : IsFiniteSet(s) /\ Cardinality(s) \in Nat
    BY FS_Subset, FS_CardinalityType
  <1>1. N = {}
    <2>1. SUFFICES ASSUME N # {}  PROVE FALSE  OBVIOUS
    <2>2. N \in SUBSET Nat  OBVIOUS
    <2>3. PICK n \in N : \A m \in N : n <= m
      <3> HIDE DEF N
      <3> QED  BY <2>1, <2>2, LeastElement
    <2>4. CASE n = 0
      <3> DEFINE g == [s \in SUBSET T |-> 0]
      <3>1. \A s \in SUBSET T : Cardinality(s) <= 0 => s = {}
        BY <1>0, FS_EmptySet
      <3>2. Up(0, g)  BY <3>1
      <3> QED  BY <3>2, <2>4
    <2>5. CASE n # 0
      <3>0. n \in Nat  BY <2>3
      <3>1. n - 1 \in Nat /\ n - 1 \notin N
        <4> HIDE DEF N
        <4> QED  BY <2>3, <2>5, <3>0
      <3>2. PICK h : Up(n - 1, h)  BY <3>1
      <3> DEFINE g == [s \in SUBSET T |-> IF s = {} THEN 0 ELSE f[Any(s)] + h[s \ {Any(s)}]]
      <3>3. ASSUME NEW s \in SUBSET T, Cardinality(s) <= n - 1  PROVE g[s] = h[s]
        BY <3>2, <3>3
      <3>4. ASSUME NEW s \in SUBSET T, Cardinality(s) <= n
            PROVE  g[s] = IF s = {} THEN 0 ELSE f[Any(s)] + g[s \ {Any(s)}]
        <4>1. CASE s = {}  BY <4>1
        <4>2. CASE s # {}
          <5>1. Any(s) \in s  BY <4>2, AnyIs
          <5>2. Cardinality(s \ {Any(s)}) = Cardinality(s) - 1  BY <1>0, <5>1, FS_RemoveElement
          <5>3. Cardinality(s \ {Any(s)}) <= n - 1  BY <1>0, <3>4, <5>2
          <5>4. g[s \ {Any(s)}] = h[s \ {Any(s)}]  BY <3>3, <5>3
          <5> QED  BY <4>2, <5>4
        <4> QED  BY <4>1, <4>2
      <3>5. Up(n, g)
        <4> HIDE DEF g
        <4> QED  BY <3>4
      <3> QED  BY <3>5
    <2> QED  BY <2>4, <2>5
  <1>2. Cardinality(T) \in Nat  BY <1>0
  <1>3. PICK h : Up(Cardinality(T), h)
    <2> HIDE DEF Up
    <2> QED BY <1>1, <1>2
  <1>4. ASSUME NEW s \in SUBSET T  PROVE Cardinality(s) <= Cardinality(T)
    BY FS_Subset
  <1> DEFINE g == [s \in SUBSET T |-> h[s]]
  <1>5. ASSUME NEW s \in SUBSET T
        PROVE  g[s] = IF s = {} THEN 0 ELSE f[Any(s)] + g[s \ {Any(s)}]
    BY <1>3, <1>4
  <1>6. AddsUp(f, T, g)
    <2>1. g = [s \in SUBSET T |-> g[s]]  OBVIOUS
    <2> HIDE DEF g
    <2> QED  BY <1>5, <2>1 DEF AddsUp
  <1> QED  BY <1>6

LEMMA SumsAgree ==
    ASSUME NEW T, IsFiniteSet(T), NEW f, NEW U, NEW e,
           NEW g, AddsUp(f, T, g), NEW h, AddsUp(e, U, h),
           T \subseteq U, \A x \in T : f[x] = e[x]
    PROVE  \A s \in SUBSET T : g[s] = h[s]
  <1> DEFINE P == {s \in SUBSET T : g[s] = h[s]}
  <1>1. \A s \in SUBSET T : /\ g[s] = IF s = {} THEN 0 ELSE f[Any(s)] + g[s \ {Any(s)}]
                            /\ h[s] = IF s = {} THEN 0 ELSE e[Any(s)] + h[s \ {Any(s)}]
    BY DEF AddsUp
  <1>2. ASSUME NEW s \in SUBSET T, \A x \in s : s \ {x} \in P  PROVE s \in P
    BY <1>1, <1>2, AnyIs
  <1> HIDE DEF P
  <1>3. \A s \in SUBSET T : s \in P  BY <1>2, SubsetInduction
  <1> QED  BY <1>3 DEF P

LEMMA SumIs ==
    ASSUME NEW T, IsFiniteSet(T), NEW f, IntsOn(f, T),
           NEW U, T \subseteq U, NEW g, AddsUp(f, U, g)
    PROVE  SumFunctionOnSet(f, T) = g[T]
  <1>1. AddsUp(f, T, CHOOSE h : AddsUp(f, T, h))  BY SumsExist
  <1> DEFINE h == CHOOSE h : AddsUp(f, T, h)
  <1>2. SumFunctionOnSet(f, T) = h[T]  BY SumIsChosen
  <1> HIDE DEF h
  <1>3. AddsUp(f, T, h)  BY <1>1 DEF h
  <1>4. \A s \in SUBSET T : h[s] = g[s]  BY <1>3, SumsAgree
  <1> QED  BY <1>2, <1>4

LEMMA InsertAdds ==
    ASSUME NEW T, IsFiniteSet(T), NEW f, IntsOn(f, T), NEW g, AddsUp(f, T, g)
    PROVE  \A s \in SUBSET T : \A a \in s : g[s] = f[a] + g[s \ {a}]
  <1> DEFINE P == {s \in SUBSET T : \A a \in s : g[s] = f[a] + g[s \ {a}]}
  <1>1. ASSUME NEW s \in SUBSET T, \A x \in s : s \ {x} \in P, NEW a \in s
        PROVE g[s] = f[a] + g[s \ {a}]
    <2>1. Any(s) \in s /\ g[s] = f[Any(s)] + g[s \ {Any(s)}]
      <3>1. s # {} /\ s \in SUBSET T  OBVIOUS
      <3>2. g[s] = IF s = {} THEN 0 ELSE f[Any(s)] + g[s \ {Any(s)}]  BY AddsUpTypes, <3>1
      <3> HIDE DEF P
      <3> QED  BY <3>1, <3>2, AnyIs
    <2>2. CASE Any(s) = a  BY <2>1, <2>2
    <2>3. CASE Any(s) # a
      <3> DEFINE x == Any(s)
      <3>1. x \in s  BY <2>1
      <3> HIDE DEF x
      <3>2. g[s \ {x}] = f[a] + g[(s \ {x}) \ {a}]  BY <1>1, <2>3, <3>1 DEF x
      <3>3. g[s \ {a}] = f[x] + g[(s \ {a}) \ {x}]  BY <1>1, <2>3, <3>1 DEF x
      <3>4. (s \ {x}) \ {a} = (s \ {a}) \ {x}  OBVIOUS
      <3>5. f[x] \in Int /\ f[a] \in Int /\ g[(s \ {a}) \ {x}] \in Int
        BY <3>1, AddsUpTypes DEF IntsOn
      <3>6. g[s] = f[x] + g[s \ {x}]  BY <2>1 DEF x
      <3>7. g[s \ {x}] = f[a] + g[(s \ {a}) \ {x}]  BY <3>2, <3>4
      <3> HIDE DEF P
      <3> QED  BY <3>3, <3>5, <3>6, <3>7
    <2> QED  BY <2>2, <2>3
  <1>2. ASSUME NEW s \in SUBSET T, \A x \in s : s \ {x} \in P  PROVE s \in P
    BY <1>1, <1>2
  <1> HIDE DEF P
  <1>3. \A s \in SUBSET T : s \in P  BY <1>2, SubsetInduction
  <1> QED  BY <1>3 DEF P

(* What is cited elsewhere. *)
LEMMA SumType ==
    ASSUME NEW T, IsFiniteSet(T), NEW f, IntsOn(f, T)
    PROVE  SumFunctionOnSet(f, T) \in Int
  BY SumsExist, SumIs, AddsUpTypes

LEMMA SumSame ==
    ASSUME NEW T, IsFiniteSet(T), NEW f, IntsOn(f, T), NEW e, \A x \in T : f[x] = e[x]
    PROVE  SumFunctionOnSet(f, T) = SumFunctionOnSet(e, T)
  <1>1. IntsOn(e, T)  BY DEF IntsOn
  <1>2. PICK g, h : AddsUp(f, T, g) /\ AddsUp(e, T, h)  BY <1>1, SumsExist
  <1> QED  BY <1>1, <1>2, SumIs, SumsAgree

LEMMA SumWithout ==
    ASSUME NEW T, IsFiniteSet(T), NEW f, IntsOn(f, T), NEW a \in T
    PROVE  SumFunctionOnSet(f, T) = f[a] + SumFunctionOnSet(f, T \ {a})
  <1>1. PICK g : AddsUp(f, T, g)  BY SumsExist
  <1>2. IsFiniteSet(T \ {a}) /\ IntsOn(f, T \ {a})  BY FS_Subset DEF IntsOn
  <1> QED  BY <1>1, <1>2, SumIs, InsertAdds

LEMMA SumOfZeros ==
    ASSUME NEW T, IsFiniteSet(T), NEW f, \A x \in T : f[x] = 0
    PROVE  SumFunctionOnSet(f, T) = 0
  <1>1. IntsOn(f, T)  BY DEF IntsOn
  <1>2. PICK g : AddsUp(f, T, g)  BY <1>1, SumsExist
  <1> DEFINE P == {s \in SUBSET T : g[s] = 0}
  <1>3. ASSUME NEW s \in SUBSET T, \A x \in s : s \ {x} \in P  PROVE s \in P
    <2>1. g[s] = IF s = {} THEN 0 ELSE f[Any(s)] + g[s \ {Any(s)}]
      BY <1>1, <1>2, AddsUpTypes
    <2> QED  BY <1>3, <2>1, AnyIs
  <1> HIDE DEF P
  <1>4. \A s \in SUBSET T : s \in P  BY <1>3, SubsetInduction
  <1> QED  BY <1>1, <1>2, <1>4, SumIs DEF P

(* One more for one element is one more in all. *)
LEMMA SumWithOneMore ==
    ASSUME NEW T, IsFiniteSet(T), NEW f, IntsOn(f, T), NEW a \in T,
           NEW e, IntsOn(e, T), \A x \in T \ {a} : f[x] = e[x], e[a] = f[a] + 1
    PROVE  SumFunctionOnSet(e, T) = SumFunctionOnSet(f, T) + 1
  <1>1. IsFiniteSet(T \ {a}) /\ IntsOn(f, T \ {a})  BY FS_Subset DEF IntsOn
  <1>2. SumFunctionOnSet(f, T) = f[a] + SumFunctionOnSet(f, T \ {a})  BY SumWithout
  <1>3. SumFunctionOnSet(e, T) = e[a] + SumFunctionOnSet(e, T \ {a})  BY SumWithout
  <1>4. SumFunctionOnSet(f, T \ {a}) = SumFunctionOnSet(e, T \ {a})  BY <1>1, SumSame
  <1>5. SumFunctionOnSet(f, T \ {a}) \in Int /\ f[a] \in Int  BY <1>1, SumType DEF IntsOn
  <1> QED  BY <1>2, <1>3, <1>4, <1>5

-----------------------------------------------------------------------------
(* Claims and rounds, added up over the users. *)
Total(f) == SumFunctionOnSet(f, Users)

LEMMA TotalIs == ASSUME NEW f, f \in [Users -> Int] PROVE SumFunction(f) = Total(f)
  BY DEF SumFunction, Total

LEMMA TotalType == ASSUME NEW f \in [Users -> Int] PROVE Total(f) \in Int
  <1>1. IntsOn(f, Users)  BY DEF IntsOn
  <1> QED  BY <1>1, UsersAreFinite, SumType DEF Total

LEMMA TotalOfZeros == Total([u \in Users |-> 0]) = 0
  <1> DEFINE f == [u \in Users |-> 0]
  <1>1. \A u \in Users : f[u] = 0  OBVIOUS
  <1> HIDE DEF f
  <1>2. SumFunctionOnSet(f, Users) = 0  BY <1>1, UsersAreFinite, SumOfZeros
  <1> QED  BY <1>2 DEF Total, f

(* One more for one user is one more in all. *)
LEMMA OneMoreInAll ==
    ASSUME NEW f \in [Users -> Int], NEW a \in Users, NEW e, e = [f EXCEPT ![a] = @ + 1]
    PROVE  Total(e) = Total(f) + 1
  <1>1. e[a] = f[a] + 1 /\ \A x \in Users \ {a} : f[x] = e[x]  OBVIOUS
  <1>2. IntsOn(f, Users) /\ IntsOn(e, Users)  BY DEF IntsOn
  <1>3. SumFunctionOnSet(e, Users) = SumFunctionOnSet(f, Users) + 1
    BY <1>1, <1>2, UsersAreFinite, SumWithOneMore
  <1> QED  BY <1>3 DEF Total

TotalsAgree == Total(claimCount) + orphaned = Total(ordinaryRounds) + Total(priorityRounds)

(* A claim is counted for the claimant, or as one whose row is gone. *)
LEMMA ClaimTotals ==
    ASSUME ProgramTypeOK, NEW STATE c, c \in Users, NEW STATE p, NEW STATE credit,
           CountClaim(c, p, credit)
    PROVE  Total(claimCount') + orphaned' = Total(claimCount) + orphaned + 1
  <1>1. claimCount \in [Users -> Int] /\ orphaned \in Int  BY DEF ProgramTypeOK
  <1>2. Total(claimCount) \in Int  BY <1>1, TotalType
  <1>3. CASE c \in Published
    <2>1. claimCount' = [claimCount EXCEPT ![c] = @ + 1] /\ orphaned' = orphaned
      BY <1>3 DEF CountClaim
    <2>2. Total(claimCount') = Total(claimCount) + 1  BY <1>1, <2>1, OneMoreInAll
    <2> QED  BY <1>1, <1>2, <2>1, <2>2
  <1>4. CASE c \notin Published
    <2>1. claimCount' = claimCount /\ orphaned' = orphaned + 1  BY <1>4 DEF CountClaim
    <2> QED  BY <1>1, <1>2, <2>1
  <1> QED  BY <1>3, <1>4

LEMMA ServeTotals ==
    ASSUME ProgramTypeOK, RequestsOK, TotalsAgree, NEW s \in Slots,
           ServePriority(s) \/ ServeOrdinary(s)
    PROVE  TotalsAgree'
  <1>1. PICK c \in Users, p \in Users : c = req[s].uid /\ p = req[s].cand
    BY DeliveryFacts
  <1>2. Total(claimCount') + orphaned' = Total(claimCount) + orphaned + 1
    BY <1>1, ClaimTotals DEF ServePriority, ServeOrdinary
  <1>3. ordinaryRounds \in [Users -> Int] /\ priorityRounds \in [Users -> Int]
    BY DEF ProgramTypeOK
  <1>4. Total(ordinaryRounds) \in Int /\ Total(priorityRounds) \in Int
    BY <1>3, TotalType
  <1>5. Total(ordinaryRounds') + Total(priorityRounds')
            = Total(ordinaryRounds) + Total(priorityRounds) + 1
    <2>1. CASE ServePriority(s)
      <3>1. priorityRounds' = [priorityRounds EXCEPT ![p] = @ + 1] /\ ordinaryRounds' = ordinaryRounds
        BY <1>1, <2>1 DEF ServePriority
      <3>2. Total(priorityRounds') = Total(priorityRounds) + 1  BY <1>3, <3>1, OneMoreInAll
      <3> QED  BY <1>4, <3>1, <3>2
    <2>2. CASE ServeOrdinary(s)
      <3>1. ordinaryRounds' = [ordinaryRounds EXCEPT ![p] = @ + 1] /\ priorityRounds' = priorityRounds
        BY <1>1, <2>2 DEF ServeOrdinary
      <3>2. Total(ordinaryRounds') = Total(ordinaryRounds) + 1  BY <1>3, <3>1, OneMoreInAll
      <3> QED  BY <1>4, <3>1, <3>2
    <2> QED  BY <2>1, <2>2
  <1>6. Total(claimCount') + orphaned' = Total(ordinaryRounds') + Total(priorityRounds')
    BY <1>2, <1>5 DEF TotalsAgree
  <1> QED  BY <1>6 DEF TotalsAgree, Total

LEMMA NextTotals ==
    TypeOK /\ RequestsOK /\ TotalsAgree /\ [Next]_vars => TotalsAgree'
  <1> SUFFICES ASSUME ProgramTypeOK, RequestsOK, TotalsAgree, [Next]_vars
               PROVE  TotalsAgree'
    BY DEF TypeOK
  <1>1. CASE UNCHANGED <<claimCount, orphaned, ordinaryRounds, priorityRounds>>
    BY <1>1 DEF TotalsAgree, Total
  <1>2. ASSUME NEW s \in Slots, Step(s)
        PROVE  TotalsAgree'
    <2>1. CASE UNCHANGED ledger  BY <1>1, <2>1 DEF ledger
    <2>2. CASE \E u \in Users : Publish(s, u)  BY <1>1, <2>2 DEF Publish
    <2>3. CASE \E u \in Users : \E n \in 1 .. InitialPoints : Boost(s, u, n)
      BY <1>1, <2>3 DEF Boost
    <2>4. CASE ServePriority(s) \/ ServeOrdinary(s)  BY <2>4, ServeTotals
    <2> QED  BY <1>2, <2>1, <2>2, <2>3, <2>4, LedgerFrame
  <1>3. CASE EmptyTables
    <2> DEFINE zeros == [u \in Users |-> 0]
    <2>1. claimCount' = zeros /\ ordinaryRounds' = zeros /\ priorityRounds' = zeros /\ orphaned' = 0
      BY <1>3 DEF EmptyTables
    <2>2. Total(zeros) = 0  BY TotalOfZeros
    <2> HIDE DEF zeros
    <2>3. Total(claimCount') + orphaned' = Total(ordinaryRounds') + Total(priorityRounds')
      BY <2>1, <2>2
    <2> QED  BY <2>3 DEF TotalsAgree, Total
  <1>4. CASE Crash \/ FlushDay \/ ResetFails
    BY <1>1, <1>4 DEF Crash, FlushDay, ResetFails, ledger
  <1> QED  BY <1>1, <1>2, <1>3, <1>4 DEF Next, DailyReset, vars, ledger

(* platform.go:1050-1107, one transaction for both sides of a claim: over all users,
   at any time, the claims counted and those whose claimant is gone are as many as
   the rounds delivered, through crashes, lost requests and resets.             *)
THEOREM ClaimsAreRoundsHolds == Spec => []ClaimsAreRounds
  <1>1. Init => TotalsAgree
    <2> SUFFICES ASSUME Init  PROVE Total(claimCount) + orphaned = Total(ordinaryRounds) + Total(priorityRounds)
      BY DEF TotalsAgree
    <2> DEFINE zeros == [u \in Users |-> 0]
    <2>1. claimCount = zeros /\ ordinaryRounds = zeros /\ priorityRounds = zeros /\ orphaned = 0
      BY DEF Init
    <2>2. Total(zeros) = 0  BY TotalOfZeros
    <2> HIDE DEF zeros
    <2> QED  BY <2>1, <2>2
  <1>2. TypeOK /\ TotalsAgree => ClaimsAreRounds
    <2> SUFFICES ASSUME TypeOK, TotalsAgree  PROVE ClaimsAreRounds  OBVIOUS
    <2>1. /\ claimCount \in [Users -> Int] /\ ordinaryRounds \in [Users -> Int]
          /\ priorityRounds \in [Users -> Int]
      BY DEF TypeOK, ProgramTypeOK
    <2>2. /\ SumFunction(claimCount) = Total(claimCount)
          /\ SumFunction(ordinaryRounds) = Total(ordinaryRounds)
          /\ SumFunction(priorityRounds) = Total(priorityRounds)
      BY <2>1, TotalIs
    <2> QED  BY <2>2 DEF TotalsAgree, ClaimsAreRounds
  <1>3. TypeOK /\ RequestsOK /\ TotalsAgree /\ [Next]_vars => TotalsAgree'  BY NextTotals
  <1> QED  BY <1>1, <1>2, <1>3, TypeCorrect, PTL DEF Spec

-----------------------------------------------------------------------------
(* The refinement of ActivityLedger. *)
LEMMA RefineInit == Init => Ledger!Init
  <1> SUFFICES ASSUME Init PROVE Ledger!Init
    OBVIOUS
  <1>1. Published \in SUBSET Users
    BY RowsAreUsers DEF Init, Published, Range
  <1>2. [u \in Users |-> ordinaryRounds[u] + priorityRounds[u]] = [u \in Users |-> 0]
    BY DEF Init
  <1> QED  BY <1>1, <1>2 DEF Init, Ledger!Init

LEMMA RefineServeOrdinary ==
    ASSUME IInv, NEW s \in Slots, ServeOrdinary(s)
    PROVE  Ledger!Next
  <1>1. PICK c \in Users, p \in Users : /\ c = req[s].uid /\ p = req[s].cand
                                        /\ c # p /\ p \in Published
    BY DeliveryFacts DEF IInv, TypeOK
  <1> DEFINE paid == [ordinaryCredit EXCEPT ![p] = @ - 1]
  <1>2. /\ ordinaryRounds' = [ordinaryRounds EXCEPT ![p] = @ + 1] /\ ordinaryCredit[p] > 0
        /\ UNCHANGED <<rows, priorityCredit, priorityRounds, committed, points>>
        /\ CountClaim(c, p, paid)
    BY <1>1 DEF ServeOrdinary, HasCredit
  <1>3. Published' = Published  BY <1>2 DEF Published
  <1>4. /\ ordinaryRounds \in [Users -> Int] /\ priorityRounds \in [Users -> Int]
        /\ ordinaryCredit \in [Users -> Int] /\ paid \in [Users -> Int]
    <2>1. /\ ordinaryRounds \in [Users -> Int] /\ priorityRounds \in [Users -> Int]
          /\ ordinaryCredit \in [Users -> Int]
      BY DEF IInv, TypeOK, ProgramTypeOK
    <2> QED  BY <2>1
  <1>5. /\ claims' = claims \union {<<c, p>>}
        /\ claimCount' = [claimCount EXCEPT ![c] = @ + Ledger!Earned(c)]
        /\ ordinaryCredit' = [paid EXCEPT ![c] = @ + Ledger!Earned(c)]
    <2> HIDE DEF paid
    <2> QED  BY <1>2, <1>4, CountClaimEarns DEF IInv, TypeOK
  <1>6. [u \in Users |-> ordinaryRounds'[u] + priorityRounds'[u]] =
            [[u \in Users |-> ordinaryRounds[u] + priorityRounds[u]] EXCEPT ![p] = @ + 1]
    <2> DEFINE served == [u \in Users |-> ordinaryRounds[u] + priorityRounds[u]]
    <2>1. \A u \in Users : ordinaryRounds'[u] + priorityRounds'[u] =
                                IF u = p THEN served[u] + 1 ELSE served[u]
      BY <1>1, <1>2, <1>4
    <2>2. [served EXCEPT ![p] = @ + 1] =
            [u \in Users |-> IF u = p THEN served[u] + 1 ELSE served[u]]
      OBVIOUS
    <2> QED  BY <2>1, <2>2
  <1>7. Ledger!ServeOrdinary(c, p)
    BY <1>1, <1>2, <1>3, <1>5, <1>6 DEF Ledger!ServeOrdinary, Ledger!Receive
  <1> QED  BY <1>7 DEF Ledger!Next

LEMMA RefineServePriority ==
    ASSUME IInv, NEW s \in Slots, ServePriority(s)
    PROVE  Ledger!Next
  <1>1. PICK c \in Users, p \in Users : /\ c = req[s].uid /\ p = req[s].cand
                                        /\ c # p /\ p \in Published
    BY DeliveryFacts DEF IInv, TypeOK
  <1>2. /\ priorityCredit' = [priorityCredit EXCEPT ![p] = @ - 1] /\ priorityCredit[p] > 0
        /\ priorityRounds' = [priorityRounds EXCEPT ![p] = @ + 1]
        /\ UNCHANGED <<rows, ordinaryRounds, committed, points>>
        /\ <<c, p>> \notin claims
        /\ CountClaim(c, p, ordinaryCredit)
    BY <1>1 DEF ServePriority, HasCredit
  <1>3. Published' = Published  BY <1>2 DEF Published
  <1>4. /\ ordinaryRounds \in [Users -> Int] /\ priorityRounds \in [Users -> Int]
        /\ ordinaryCredit \in [Users -> Int]
    BY DEF IInv, TypeOK, ProgramTypeOK
  <1>5. /\ claims' = claims \union {<<c, p>>}
        /\ claimCount' = [claimCount EXCEPT ![c] = @ + Ledger!Earned(c)]
        /\ ordinaryCredit' = [ordinaryCredit EXCEPT ![c] = @ + Ledger!Earned(c)]
    BY <1>2, <1>4, CountClaimEarns DEF IInv, TypeOK
  <1>6. [u \in Users |-> ordinaryRounds'[u] + priorityRounds'[u]] =
            [[u \in Users |-> ordinaryRounds[u] + priorityRounds[u]] EXCEPT ![p] = @ + 1]
    <2> DEFINE served == [u \in Users |-> ordinaryRounds[u] + priorityRounds[u]]
    <2>1. \A u \in Users : ordinaryRounds'[u] + priorityRounds'[u] =
                                IF u = p THEN served[u] + 1 ELSE served[u]
      BY <1>1, <1>2, <1>4
    <2>2. [served EXCEPT ![p] = @ + 1] =
            [u \in Users |-> IF u = p THEN served[u] + 1 ELSE served[u]]
      OBVIOUS
    <2> QED  BY <2>1, <2>2
  <1>7. Ledger!ServePriority(c, p)
    BY <1>1, <1>2, <1>3, <1>5, <1>6 DEF Ledger!ServePriority, Ledger!Receive
  <1> QED  BY <1>7 DEF Ledger!Next

LEMMA RefineNewDay ==
    ASSUME EmptyTables
    PROVE  Ledger!Next
  <1>1. Published' = {}  BY DEF EmptyTables, Published, Range
  <1>2. [u \in Users |-> ordinaryRounds'[u] + priorityRounds'[u]] = [u \in Users |-> 0]
    BY DEF EmptyTables
  <1>3. Ledger!NewDay  BY <1>1, <1>2 DEF EmptyTables, Ledger!NewDay
  <1> QED  BY <1>3 DEF Ledger!Next

LEMMA RefineFrame ==
    ASSUME UNCHANGED ledger
    PROVE  UNCHANGED Ledger!vars
  BY DEF ledger, Ledger!vars, Published

LEMMA RefinePublish ==
    ASSUME IInv, NEW s \in Slots, NEW u \in Users, Publish(s, u)
    PROVE  [Ledger!Next]_(Ledger!vars)
  <1>1. CASE u \in Published
    <2>1. UNCHANGED ledger  BY <1>1 DEF Publish, ledger
    <2> QED  BY <2>1, RefineFrame
  <1>2. CASE u \notin Published
    <2>1. rows' = Append(rows, u) /\ rows \in Seq(Users)
      BY <1>2 DEF Publish, IInv, TypeOK, ProgramTypeOK
    <2>2. Published' = Published \union {u}  BY <2>1 DEF Published, Range
    <2>3. Ledger!Join(u)  BY <1>2, <2>2 DEF Publish, Ledger!Join
    <2> QED  BY <2>3 DEF Ledger!Next
  <1> QED  BY <1>1, <1>2

LEMMA RefineBoost ==
    ASSUME IInv, NEW s \in Slots, NEW u \in Users, NEW n \in 1 .. InitialPoints,
           Boost(s, u, n)
    PROVE  Ledger!Next
  <1>1. n \in 1 .. points[u]
    BY PointsAreNatural DEF Boost, IInv, TypeOK, ProgramTypeOK
  <1>2. Published' = Published  BY DEF Boost, Published
  <1>3. Ledger!Buy(u, n)  BY <1>1, <1>2 DEF Boost, Ledger!Buy
  <1> QED  BY <1>3 DEF Ledger!Next

(* Whatever the queues, the seeding, the failures and the interleaving do, what
   MySQL goes through is a history of publications, boosts, claims and new days in which
   every claim is paid for by a chance the publisher held at that moment, and a
   priority chance is never spent on a repetition.                           *)
THEOREM ImplementsLedger == Spec => LedgerSpec
  <1>1. Init => Ledger!Init  BY RefineInit
  <1>2. IInv /\ [Next]_vars => [Ledger!Next]_(Ledger!vars)
    <2> SUFFICES ASSUME IInv, [Next]_vars PROVE [Ledger!Next]_(Ledger!vars)
      OBVIOUS
    <2>1. CASE UNCHANGED ledger  BY <2>1, RefineFrame
    <2>2. ASSUME NEW s \in Slots, Step(s)
          PROVE  [Ledger!Next]_(Ledger!vars)
      BY <2>1, <2>2, LedgerFrame, RefinePublish, RefineBoost, RefineServePriority,
         RefineServeOrdinary
    <2>3. CASE EmptyTables  BY <2>3, RefineNewDay
    <2>4. CASE Crash \/ FlushDay \/ ResetFails
      BY <2>1, <2>4 DEF Crash, FlushDay, ResetFails
    <2> QED  BY <2>1, <2>2, <2>3, <2>4 DEF Next, DailyReset, vars
  <1> QED  BY <1>1, <1>2, Inductive, PTL DEF Spec, LedgerSpec, Ledger!Spec

-----------------------------------------------------------------------------
(* MySQL and Redis together. What the queues are to show of the rows can be said when
   requests come one at a time; what follows is about them, down to the theorems on
   CountsMirrorLedger, PlacesFollowRows and EmptyMeansNothing.

   First the scripts: how each changes one entry of a queue and leaves the others. *)
SameElsewhere(r, q, k, u) ==
    \A l \in Kinds, v \in Users : ~(l = k /\ v = u) =>
        q.score[l][v] = r.score[l][v] /\ q.count[l][v] = r.count[l][v]

(* Sign and count agree, and members have places of their own, behind which the next
   one joins. *)
SoundEntry(r, k, u) ==
    /\ r.score[k][u] > 0 <=> r.count[k][u] > 0
    /\ r.score[k][u] = 0 => r.count[k][u] = 0
    /\ Place(r, k, u) <= r.seq
    /\ \A v \in Members(r, k) : v # u => Place(r, k, v) # Place(r, k, u)

Sound(r) ==
    /\ r \in RedisStates
    /\ \A k \in Kinds, u \in Users : SoundEntry(r, k, u)

LEMMA SoundFacts ==
    ASSUME NEW r, Sound(r), NEW k \in Kinds, NEW u \in Users
    PROVE  /\ r.score[k][u] \in Int /\ r.count[k][u] \in Int /\ r.seq \in Nat
           /\ Place(r, k, u) \in Nat /\ Place(r, k, u) <= r.seq
           /\ Place(r, k, u) = 0 <=> r.score[k][u] = 0
           /\ u \in Members(r, k) <=> r.score[k][u] # 0
           /\ u \in Active(r, k) <=> r.count[k][u] > 0
           /\ u \notin Members(r, k) => r.count[k][u] = 0
  <1>1. /\ r.score[k][u] \in Int /\ r.count[k][u] \in Int /\ r.seq \in Nat
    BY DEF Sound, RedisStates
  <1>2. SoundEntry(r, k, u)  BY DEF Sound
  <1> QED  BY <1>1, <1>2 DEF SoundEntry, Place, Abs, Members, Active

(* What a script leaves of one entry: a count, and the place it had or the next one.   *)
Entry(r, q, k, u, n) ==
    /\ q \in RedisStates /\ SameElsewhere(r, q, k, u)
    /\ q.count[k][u] = n /\ (q.score[k][u] > 0 <=> n > 0)

Kept(r, q, k, u, n) ==
    /\ Entry(r, q, k, u, n) /\ q.seq = r.seq
    /\ u \in Members(r, k) /\ Place(q, k, u) = Place(r, k, u)

Joined(r, q, k, u, n) ==
    /\ Entry(r, q, k, u, n) /\ q.seq = r.seq + 1
    /\ Place(q, k, u) = r.seq + 1

Gone(r, q, k, u) ==
    Entry(r, q, k, u, 0) /\ q.seq = r.seq /\ q.score[k][u] = 0

LEMMA SetEntryReads ==
    ASSUME NEW r \in RedisStates, NEW k \in Kinds, NEW u \in Users,
           NEW n \in Int, NEW m \in Int
    PROVE  LET q == SetEntry(r, k, u, n, m)
           IN  /\ SameElsewhere(r, q, k, u)
               /\ q.score[k][u] = m /\ q.count[k][u] = n
               /\ q.seq = r.seq
  BY DEF SetEntry, SameElsewhere, RedisStates

LEMMA JoinTailReads ==
    ASSUME NEW r \in RedisStates, NEW k \in Kinds, NEW u \in Users, NEW n \in Int
    PROVE  Joined(r, JoinTail(r, k, u, n), k, u, n)
  <1> DEFINE b == [r EXCEPT !.seq = @ + 1]
             m == Signed(n, r.seq + 1)
             q == JoinTail(r, k, u, n)
  <1>1. r.seq \in Nat /\ m \in Int  BY DEF RedisStates, Signed
  <1>2. /\ b \in RedisStates
        /\ b.score = r.score /\ b.count = r.count /\ b.seq = r.seq + 1
    BY DEF RedisStates
  <1>3. q = SetEntry(b, k, u, n, m) /\ q \in RedisStates  BY JoinTailType DEF JoinTail
  <1>4. Abs(m) = r.seq + 1 /\ (m > 0 <=> n > 0)  BY <1>1 DEF Signed, Abs
  <1> HIDE DEF b, m, q
  <1>5. /\ SameElsewhere(b, q, k, u)
        /\ q.score[k][u] = m /\ q.count[k][u] = n /\ q.seq = b.seq
    BY <1>1, <1>2, <1>3, SetEntryReads
  <1>6. Joined(r, q, k, u, n)
    BY <1>2, <1>3, <1>4, <1>5 DEF Joined, Entry, SameElsewhere, Place
  <1> QED  BY <1>6 DEF q

LEMMA AdjustReads ==
    ASSUME NEW r, Sound(r), NEW k \in Kinds, NEW u \in Users, NEW delta \in Int
    PROVE  LET q == Adjust(r, k, u, delta)
               n == r.count[k][u] + delta
           IN  Kept(r, q, k, u, n) \/ (u \notin Members(r, k) /\ Joined(r, q, k, u, n))
  <1> DEFINE n == r.count[k][u] + delta
             m == Signed(n, Place(r, k, u))
             q == Adjust(r, k, u, delta)
  <1>1. r \in RedisStates /\ r.count[k][u] \in Int /\ n \in Int /\ q \in RedisStates
    BY SoundFacts, AdjustType DEF Sound
  <1>2. CASE u \in Members(r, k)
    <2>1. q = SetEntry(r, k, u, n, m)  BY <1>2 DEF Adjust
    <2>2. Place(r, k, u) \in Nat /\ Place(r, k, u) # 0  BY <1>2, SoundFacts
    <2>3. m \in Int /\ Abs(m) = Place(r, k, u) /\ (m > 0 <=> n > 0)
      BY <1>1, <2>2 DEF Signed, Abs
    <2> HIDE DEF q, n, m
    <2>4. /\ SameElsewhere(r, q, k, u)
          /\ q.score[k][u] = m /\ q.count[k][u] = n /\ q.seq = r.seq
      BY <1>1, <2>1, <2>3, SetEntryReads
    <2>5. Kept(r, q, k, u, n)
      BY <1>1, <1>2, <2>3, <2>4 DEF Kept, Entry, Place
    <2> QED  BY <2>5 DEF q, n
  <1>3. CASE u \notin Members(r, k)
    <2>1. q = JoinTail(r, k, u, n)  BY <1>3 DEF Adjust
    <2> HIDE DEF n
    <2> QED  BY <1>1, <1>3, <2>1, JoinTailReads DEF n
  <1> QED  BY <1>2, <1>3

LEMMA EnqueueReads ==
    ASSUME NEW r, Sound(r), NEW k \in Kinds, NEW u \in Users, NEW n \in Int
    PROVE  LET q == Enqueue(r, k, u, n)
           IN  /\ u \in Members(r, k) => q = r
               /\ u \notin Members(r, k) => Joined(r, q, k, u, n)
  BY JoinTailReads DEF Enqueue, Sound

LEMMA RemoveReads ==
    ASSUME NEW r, Sound(r), NEW k \in Kinds, NEW u \in Users
    PROVE  Gone(r, RemoveMember(r, k, u), k, u)
  <1>1. r \in RedisStates /\ RemoveMember(r, k, u) \in RedisStates
    BY RemoveMemberType DEF Sound
  <1> QED  BY <1>1, SetEntryReads DEF RemoveMember, Gone, Entry

(* Each of them leaves sound queues. *)
LEMMA EntrySound ==
    ASSUME NEW r, Sound(r), NEW k \in Kinds, NEW u \in Users, NEW q, NEW n \in Int,
           \/ Kept(r, q, k, u, n) \/ (u \notin Members(r, k) /\ Joined(r, q, k, u, n)) \/ Gone(r, q, k, u)
    PROVE  Sound(q)
  <1>1. q \in RedisStates /\ SameElsewhere(r, q, k, u)
    BY DEF Kept, Joined, Gone, Entry
  <1>2. ASSUME NEW l \in Kinds, NEW v \in Users  PROVE SoundEntry(q, l, v)
    <2>1. /\ r.seq \in Nat /\ q.seq \in Nat /\ r.seq <= q.seq
      BY SoundFacts, <1>1 DEF Kept, Joined, Gone, RedisStates
    <2>2. q.score[l][v] \in Int /\ q.count[l][v] \in Int
      BY <1>1 DEF RedisStates
    <2>3. SoundEntry(r, l, v)  BY DEF Sound
    <2>4. CASE ~(l = k /\ v = u)
      <3>1. /\ q.score[l][v] = r.score[l][v] /\ q.count[l][v] = r.count[l][v]
            /\ Place(q, l, v) = Place(r, l, v)
        BY <1>1, <2>4 DEF SameElsewhere, Place
      <3>2. Place(r, l, v) <= r.seq /\ Place(r, l, v) \in Nat  BY SoundFacts
      <3>3. ASSUME NEW w \in Members(q, l), w # v  PROVE Place(q, l, w) # Place(q, l, v)
        <4>1. w \in Users  BY DEF Members
        <4>2. CASE ~(l = k /\ w = u)
          <5>1. q.score[l][w] = r.score[l][w]  BY <1>1, <4>1, <4>2 DEF SameElsewhere
          <5> QED  BY <2>3, <3>1, <3>3, <5>1 DEF SoundEntry, Members, Place
        <4>3. CASE l = k /\ w = u
          <5>1. CASE Kept(r, q, k, u, n)
            BY <2>3, <3>1, <3>3, <4>3, <5>1 DEF Kept, SoundEntry
          <5>2. CASE Joined(r, q, k, u, n)
            BY <2>1, <3>1, <3>2, <4>3, <5>2 DEF Joined
          <5>3. CASE Gone(r, q, k, u)
            BY <3>3, <4>3, <5>3 DEF Gone, Members
          <5> QED  BY <5>1, <5>2, <5>3
        <4> QED  BY <4>2, <4>3
      <3>4. Place(q, l, v) <= q.seq  BY <2>1, <3>1, <3>2
      <3> QED  BY <2>3, <3>1, <3>3, <3>4 DEF SoundEntry
    <2>5. CASE l = k /\ v = u
      <3>1. ASSUME NEW w \in Members(q, k), w # u
            PROVE  /\ w \in Members(r, k) /\ Place(q, k, w) = Place(r, k, w)
                   /\ Place(r, k, w) \in Nat /\ Place(r, k, w) <= r.seq /\ Place(r, k, w) # 0
        <4>1. w \in Users /\ q.score[k][w] # 0  BY DEF Members
        <4>2. q.score[k][w] = r.score[k][w]  BY <1>1, <3>1, <4>1 DEF SameElsewhere
        <4>3. w \in Members(r, k) /\ Place(q, k, w) = Place(r, k, w)
          BY <4>1, <4>2 DEF Members, Place
        <4> QED  BY <4>1, <4>3, SoundFacts
      <3>2. CASE Kept(r, q, k, u, n)
        <4>1. q.score[k][u] # 0
          BY <2>2, <2>5, <3>2, SoundFacts DEF Kept, Place, Abs
        <4> QED  BY <2>3, <2>5, <3>1, <3>2, <4>1 DEF Kept, Entry, SoundEntry
      <3>3. CASE Joined(r, q, k, u, n)
        <4>1. q.score[k][u] # 0
          BY <2>1, <2>2, <2>5, <3>3 DEF Joined, Place, Abs
        <4> QED  BY <2>1, <2>5, <3>1, <3>3, <4>1 DEF Joined, Entry, SoundEntry
      <3>4. CASE Gone(r, q, k, u)
        <4>1. Place(q, k, u) = 0  BY <3>4 DEF Gone, Place, Abs
        <4> QED  BY <2>1, <2>5, <3>1, <3>4, <4>1 DEF Gone, Entry, SoundEntry
      <3> QED  BY <3>2, <3>3, <3>4
    <2> QED  BY <2>4, <2>5
  <1> QED  BY <1>1, <1>2 DEF Sound

LEMMA FlushSound == ASSUME NEW r \in RedisStates PROVE Sound(FlushQueues(r)) /\ Sound(EmptyRedis)
  <1>1. ASSUME NEW q, q \in {FlushQueues(r), EmptyRedis}  PROVE Sound(q)
    <2>1. q \in RedisStates  BY <1>1, FlushQueuesType, EmptyRedisType
    <2>2. \A k \in Kinds, u \in Users : q.score[k][u] = 0 /\ q.count[k][u] = 0
      BY <1>1 DEF FlushQueues, EmptyRedis
    <2>3. q.seq \in Nat  BY <2>1 DEF RedisStates
    <2> QED  BY <2>1, <2>2, <2>3 DEF Sound, SoundEntry, Members, Place, Abs
  <1> QED  BY <1>1

LEMMA CursorMoveReads ==
    ASSUME NEW r \in RedisStates, NEW u \in Users
    PROVE  LET q == CursorMove(r, u)
           IN  q \in RedisStates /\ q.score = r.score /\ q.count = r.count /\ q.seq = r.seq
  <1>1. CursorMove(r, u) \in RedisStates  BY CursorMoveType
  <1> QED  BY <1>1 DEF CursorMove, RedisStates

LEMMA SameSound ==
    ASSUME NEW r, Sound(r), NEW q \in RedisStates,
           q.score = r.score, q.count = r.count, q.seq = r.seq
    PROVE  Sound(q)
  BY DEF Sound, SoundEntry, Members, Place

-----------------------------------------------------------------------------
(* What the queues are to show of a table of rows: the first m rows are in the ordinary
   queue, in their order, with the counts ord; the priority counts are pri.            *)
Listed(rs, m) == {rs[i] : i \in 1 .. m}

Shows(r, rs, m, ord, pri) ==
    /\ Members(r, "ordinary") = Listed(rs, m)
    /\ \A u \in Listed(rs, m) : r.count["ordinary"][u] = ord[u]
    /\ \A i, j \in 1 .. m : i < j => Place(r, "ordinary", rs[i]) < Place(r, "ordinary", rs[j])
    /\ \A u \in Users : r.count["priority"][u] = pri[u]

LEMMA ListedMore ==
    ASSUME NEW rs \in Seq(Users), NEW m \in Nat, m < Len(rs)
    PROVE  /\ Listed(rs, m + 1) = Listed(rs, m) \union {rs[m + 1]}
           /\ rs[m + 1] \in Users /\ Listed(rs, m) \subseteq Users
  <1>1. 1 .. m + 1 = (1 .. m) \union {m + 1}  OBVIOUS
  <1>2. m + 1 \in 1 .. Len(rs) /\ 1 .. m \subseteq 1 .. Len(rs)  OBVIOUS
  <1> QED  BY <1>1, <1>2 DEF Listed

(* An adjustment changes one count, *)
LEMMA ShowsAdjustOrdinary ==
    ASSUME NEW r, Sound(r), NEW rs, NEW m, NEW ord, NEW pri, Shows(r, rs, m, ord, pri),
           Listed(rs, m) \subseteq Users,
           NEW u \in Listed(rs, m), NEW delta \in Int, NEW ord2,
           \A v \in Users : ord2[v] = IF v = u THEN ord[u] + delta ELSE ord[v]
    PROVE  Shows(Adjust(r, "ordinary", u, delta), rs, m, ord2, pri)
  <1> DEFINE q == Adjust(r, "ordinary", u, delta)
             n == r.count["ordinary"][u] + delta
  <1>1. u \in Users /\ u \in Members(r, "ordinary") /\ n = ord[u] + delta  BY DEF Shows
  <1>2. Kept(r, q, "ordinary", u, n)  BY <1>1, AdjustReads DEF Kinds
  <1> HIDE DEF q, n
  <1>3. /\ \A v \in Users \ {u} : q.score["ordinary"][v] = r.score["ordinary"][v]
        /\ \A v \in Users \ {u} : q.count["ordinary"][v] = r.count["ordinary"][v]
        /\ \A v \in Users : q.count["priority"][v] = r.count["priority"][v]
        /\ Place(q, "ordinary", u) = Place(r, "ordinary", u) /\ q.count["ordinary"][u] = n
    BY <1>2 DEF Kept, Entry, SameElsewhere, Kinds
  <1>4. \A v \in Users : Place(q, "ordinary", v) = Place(r, "ordinary", v)
    BY <1>3 DEF Place
  <1>5. q.score["ordinary"][u] # 0
    <2>1. q.score["ordinary"][u] \in Int  BY <1>1, <1>2 DEF Kept, Entry, RedisStates, Kinds
    <2>2. Place(r, "ordinary", u) # 0
      BY <1>1, SoundFacts DEF Kinds
    <2> QED  BY <1>3, <2>1, <2>2 DEF Place, Abs
  <1>6. Members(q, "ordinary") = Members(r, "ordinary")  BY <1>1, <1>3, <1>5 DEF Members
  <1>7. Shows(q, rs, m, ord2, pri)
    <2>1. \A v \in Listed(rs, m) : q.count["ordinary"][v] = ord2[v]
      BY <1>1, <1>3 DEF Shows
    <2>2. \A i \in 1 .. m : rs[i] \in Users  BY DEF Listed
    <2> QED  BY <1>3, <1>4, <1>6, <2>1, <2>2 DEF Shows
  <1> QED  BY <1>7 DEF q

LEMMA ShowsAdjustPriority ==
    ASSUME NEW r, Sound(r), NEW rs, NEW m, NEW ord, NEW pri, Shows(r, rs, m, ord, pri),
           Listed(rs, m) \subseteq Users,
           NEW u \in Users, NEW delta \in Int, NEW pri2,
           \A v \in Users : pri2[v] = IF v = u THEN pri[u] + delta ELSE pri[v]
    PROVE  Shows(Adjust(r, "priority", u, delta), rs, m, ord, pri2)
  <1> DEFINE q == Adjust(r, "priority", u, delta)
             n == r.count["priority"][u] + delta
  <1>1. n = pri[u] + delta  BY DEF Shows
  <1>2. Entry(r, q, "priority", u, n)  BY AdjustReads DEF Kinds, Kept, Joined
  <1> HIDE DEF q, n
  <1>3. \A v \in Users : /\ q.score["ordinary"][v] = r.score["ordinary"][v]
                         /\ q.count["ordinary"][v] = r.count["ordinary"][v]
                         /\ q.count["priority"][v] = IF v = u THEN n ELSE r.count["priority"][v]
    BY <1>2 DEF Entry, SameElsewhere, Kinds
  <1>4. Members(q, "ordinary") = Members(r, "ordinary")  BY <1>3 DEF Members
  <1>5. \A v \in Users : Place(q, "ordinary", v) = Place(r, "ordinary", v)  BY <1>3 DEF Place
  <1>6. \A v \in Users : q.count["priority"][v] = pri2[v]  BY <1>1, <1>3 DEF Shows
  <1>7. Shows(q, rs, m, ord, pri2)
    <2>2. \A i \in 1 .. m : rs[i] \in Users  BY DEF Listed
    <2> QED  BY <1>3, <1>4, <1>5, <1>6, <2>2 DEF Shows
  <1> QED  BY <1>7 DEF q

(* and the next row joins behind the others. *)
LEMMA ShowsEnqueueOrdinary ==
    ASSUME NEW r, Sound(r), NEW rs \in Seq(Users), NEW m \in Nat, m < Len(rs),
           NEW ord, NEW pri, Shows(r, rs, m, ord, pri),
           rs[m + 1] \notin Listed(rs, m), ord[rs[m + 1]] \in Int
    PROVE  Shows(Enqueue(r, "ordinary", rs[m + 1], ord[rs[m + 1]]), rs, m + 1, ord, pri)
  <1> DEFINE u == rs[m + 1]
             n == ord[u]
             q == Enqueue(r, "ordinary", u, n)
  <1>1. /\ Listed(rs, m + 1) = Listed(rs, m) \union {u}
        /\ u \in Users /\ Listed(rs, m) \subseteq Users
    BY ListedMore
  <1>2. u \notin Members(r, "ordinary") /\ n \in Int  BY DEF Shows
  <1>3. Joined(r, q, "ordinary", u, n)
    <2> HIDE DEF u, n
    <2> QED  BY <1>1, <1>2, EnqueueReads DEF Kinds
  <1> HIDE DEF q, n, u
  <1>4. /\ \A v \in Users \ {u} : q.score["ordinary"][v] = r.score["ordinary"][v]
        /\ \A v \in Users \ {u} : q.count["ordinary"][v] = r.count["ordinary"][v]
        /\ \A v \in Users : q.count["priority"][v] = r.count["priority"][v]
        /\ Place(q, "ordinary", u) = r.seq + 1 /\ q.count["ordinary"][u] = n
    BY <1>3 DEF Joined, Entry, SameElsewhere, Kinds
  <1>5. /\ \A v \in Users \ {u} : Place(q, "ordinary", v) = Place(r, "ordinary", v)
        /\ \A v \in Users : Place(r, "ordinary", v) < r.seq + 1
    <2>1. r.seq \in Nat /\ "ordinary" \in Kinds  BY DEF Sound, RedisStates, Kinds
    <2>2. \A v \in Users : Place(r, "ordinary", v) \in Nat /\ Place(r, "ordinary", v) <= r.seq
      BY <2>1, SoundFacts
    <2> QED  BY <1>4, <2>1, <2>2 DEF Place
  <1>6. q.score["ordinary"][u] # 0
    <2>1. r.seq \in Nat  BY DEF Sound, RedisStates
    <2> QED  BY <1>4, <2>1 DEF Place, Abs
  <1>7. Members(q, "ordinary") = Members(r, "ordinary") \union {u}
    BY <1>1, <1>4, <1>6 DEF Members
  <1>8. \A v \in Listed(rs, m + 1) : q.count["ordinary"][v] = ord[v]
    BY <1>1, <1>4 DEF Shows, n
  <1>9. ASSUME NEW i \in 1 .. m + 1, NEW j \in 1 .. m + 1, i < j
        PROVE  Place(q, "ordinary", rs[i]) < Place(q, "ordinary", rs[j])
    <2>1. i \in 1 .. m /\ rs[i] \in Listed(rs, m) /\ rs[i] \in Users \ {u}
      BY <1>1, <1>9 DEF Listed, u
    <2>2. CASE j = m + 1  BY <1>4, <1>5, <2>1, <2>2 DEF u
    <2>3. CASE j # m + 1
      <3>1. j \in 1 .. m /\ rs[j] \in Users \ {u}  BY <1>1, <2>3 DEF Listed, u
      <3> QED  BY <1>5, <1>9, <2>1, <3>1 DEF Shows
    <2> QED  BY <2>2, <2>3
  <1>10. Shows(q, rs, m + 1, ord, pri)
    BY <1>1, <1>4, <1>7, <1>8, <1>9 DEF Shows
  <1> QED  BY <1>10 DEF q, n, u

LEMMA ShowsEnqueuePriority ==
    ASSUME NEW r, Sound(r), NEW rs, NEW m, NEW ord, NEW pri, Shows(r, rs, m, ord, pri),
           Listed(rs, m) \subseteq Users,
           NEW u \in Users \ Members(r, "priority"), NEW n \in Int, NEW pri2,
           \A v \in Users : pri2[v] = IF v = u THEN n ELSE pri[v]
    PROVE  Shows(Enqueue(r, "priority", u, n), rs, m, ord, pri2)
  <1> DEFINE q == Enqueue(r, "priority", u, n)
  <1>2. Entry(r, q, "priority", u, n)  BY EnqueueReads DEF Kinds, Joined
  <1> HIDE DEF q
  <1>3. \A v \in Users : /\ q.score["ordinary"][v] = r.score["ordinary"][v]
                         /\ q.count["ordinary"][v] = r.count["ordinary"][v]
                         /\ q.count["priority"][v] = IF v = u THEN n ELSE r.count["priority"][v]
    BY <1>2 DEF Entry, SameElsewhere, Kinds
  <1>4. Members(q, "ordinary") = Members(r, "ordinary")  BY <1>3 DEF Members
  <1>5. \A v \in Users : Place(q, "ordinary", v) = Place(r, "ordinary", v)  BY <1>3 DEF Place
  <1>6. \A v \in Users : q.count["priority"][v] = pri2[v]  BY <1>3 DEF Shows
  <1>7. Shows(q, rs, m, ord, pri2)
    <2>2. \A i \in 1 .. m : rs[i] \in Users  BY DEF Listed
    <2> QED  BY <1>3, <1>4, <1>5, <1>6, <2>2 DEF Shows
  <1> QED  BY <1>7 DEF q

-----------------------------------------------------------------------------
(* Whatever the calls, failures and resets: the queues stay sound. *)
LEMMA EnqueueSound ==
    ASSUME NEW r, Sound(r), NEW k \in Kinds, NEW u \in Users, NEW n \in Int
    PROVE  Sound(Enqueue(r, k, u, n))
  BY EnqueueReads, EntrySound

LEMMA AdjustSound ==
    ASSUME NEW r, Sound(r), NEW k \in Kinds, NEW u \in Users, NEW delta \in Int
    PROVE  Sound(Adjust(r, k, u, delta))
  <1> DEFINE n == r.count[k][u] + delta
  <1>1. n \in Int  BY SoundFacts
  <1>2. \/ Kept(r, Adjust(r, k, u, delta), k, u, n)
        \/ u \notin Members(r, k) /\ Joined(r, Adjust(r, k, u, delta), k, u, n)
    BY AdjustReads
  <1> HIDE DEF n
  <1> QED  BY <1>1, <1>2, EntrySound

LEMMA RemoveSound ==
    ASSUME NEW r, Sound(r), NEW k \in Kinds, NEW u \in Users
    PROVE  Sound(RemoveMember(r, k, u))
  BY RemoveReads, EntrySound

LEMMA AdjustCallSound ==
    ASSUME Sound(redis), NEW k \in Kinds, NEW STATE u, u \in Users, NEW STATE delta, delta \in Int,
           AdjustCall(k, u, delta) \/ AdjustFault(k, u, delta)
    PROVE  Sound(redis')
  <1>1. Sound(Adjust(redis, k, u, delta))  BY AdjustSound
  <1>2. Sound(Adjust(Adjust(redis, k, u, delta), k, u, delta))  BY <1>1, AdjustSound
  <1> QED  BY <1>1, <1>2 DEF AdjustCall, AdjustFault, RedisWrite, RedisFault, RedisResend

LEMMA NextSound ==
    ASSUME TypeOK, RequestsOK, Sound(redis), [Next]_vars
    PROVE  Sound(redis')
  <1> USE DEF Kinds
  <1>1. CASE redis' = redis  BY <1>1
  <1>2. CASE Crash \/ FlushDay
    <2>1. redis \in RedisStates  BY DEF Sound
    <2> QED  BY <1>2, <2>1, FlushSound DEF Crash, FlushDay
  <1>3. ASSUME NEW s \in Slots, Step(s), redis' # redis
        PROVE  Sound(redis')
    <2>1. /\ redis \in RedisStates /\ req[s] \in Requests /\ RequestOK(req[s])
      BY DEF TypeOK, ProgramTypeOK, RequestsOK
    <2>2. /\ req[s].pc # "idle" => req[s].uid \in Users
          /\ req[s].pc \in CandPCs => req[s].cand \in Users
          /\ req[s].points \in Int
          /\ req[s].todo # <<>> => /\ Head(req[s].todo).uid \in Users
                                   /\ Head(req[s].todo).ordinary \in Int
                                   /\ Head(req[s].todo).priority \in Int
      <3>1. req[s].todo \in Seq(Snapshot) /\ req[s].points \in Nat  BY <2>1 DEF Requests
      <3>2. req[s].todo # <<>> => Head(req[s].todo) \in Snapshot  BY <3>1
      <3> QED  BY <2>1, <3>1, <3>2 DEF RequestOK, Snapshot
    <2> DEFINE row == Head(req[s].todo)
    <2>3. CASE EnqueueOwn(s) \/ EnqueueOwnPriority(s) \/ SeedOrdinary(s) \/ SeedPriority(s)
      <3>1. req[s].todo # <<>>
        BY <2>1, <2>3 DEF EnqueueOwn, EnqueueOwnPriority, SeedOrdinary, SeedPriority, At, RequestOK, HeadPCs
      <3>2. row.uid \in Users /\ row.ordinary \in Int /\ row.priority \in Int  BY <2>2, <3>1
      <3>3. /\ Sound(Enqueue(redis, "ordinary", row.uid, row.ordinary))
            /\ Sound(Enqueue(redis, "priority", row.uid, row.priority))
        BY <3>2, EnqueueSound
      <3> QED
        BY <2>3, <3>3 DEF EnqueueOwn, EnqueueOwnPriority, SeedOrdinary, SeedPriority, RedisWrite, RedisFault
    <2>4. CASE AddBoost(s)
      <3>1. req[s].uid \in Users  BY <2>2, <2>4 DEF AddBoost, At
      <3>2. \/ AdjustCall("priority", req[s].uid, req[s].points)
            \/ AdjustFault("priority", req[s].uid, req[s].points)
        BY <2>4 DEF AddBoost
      <3> QED  BY <2>2, <3>1, <3>2, AdjustCallSound
    <2>5. CASE ConsumePriority(s)
      <3>1. req[s].cand \in Users  BY <2>2, <2>5 DEF ConsumePriority, At, CandPCs
      <3>2. AdjustCall("priority", req[s].cand, -1) \/ AdjustFault("priority", req[s].cand, -1)
        BY <2>5 DEF ConsumePriority
      <3>3. -1 \in Int  OBVIOUS
      <3> QED  BY <3>1, <3>2, <3>3, AdjustCallSound
    <2>6. CASE ConsumeOrdinary(s)
      <3>1. req[s].cand \in Users  BY <2>2, <2>6 DEF ConsumeOrdinary, At, CandPCs
      <3>2. AdjustCall("ordinary", req[s].cand, -1) \/ AdjustFault("ordinary", req[s].cand, -1)
        BY <2>6 DEF ConsumeOrdinary
      <3>3. -1 \in Int  OBVIOUS
      <3> QED  BY <3>1, <3>2, <3>3, AdjustCallSound
    <2>7. CASE Earn(s)
      <3>1. req[s].uid \in Users  BY <2>2, <2>7 DEF Earn, At
      <3>2. AdjustCall("ordinary", req[s].uid, 1) \/ AdjustFault("ordinary", req[s].uid, 1)
        BY <2>7 DEF Earn
      <3> QED  BY <3>1, <3>2, AdjustCallSound
    <2>8. CASE Flush(s)  BY <2>1, <2>8, FlushSound DEF Flush
    <2>9. CASE RemovePriority(s) \/ RemoveOrdinary(s)
      <3>1. req[s].cand \in Users  BY <2>2, <2>9 DEF RemovePriority, RemoveOrdinary, At, CandPCs
      <3> QED  BY <2>9, <3>1, RemoveSound DEF RemovePriority, RemoveOrdinary
    <2>10. CASE NextOrdinary(s)
      <3> DEFINE chosen == CursorChoice(redis, req[s].uid, req[s].claimed)
      <3>1. redis' = CursorMove(redis, chosen) /\ chosen # Nobody  BY <2>10 DEF NextOrdinary
      <3>2. chosen \in Users  BY <2>1, <3>1, CursorChoiceType DEF Active
      <3> HIDE DEF chosen
      <3> QED  BY <2>1, <3>1, <3>2, CursorMoveReads, SameSound
    <2>11. CASE Invalidate(s)  BY <1>3, <2>11 DEF Invalidate, RedisFault
    <2> QED
      BY <1>3, <2>3, <2>4, <2>5, <2>6, <2>7, <2>8, <2>9, <2>10, <2>11
         DEF Step, Publish, Use, Boost, LoadRow, CutOff, CheckSeed, LoadSeed, MarkSeeded, RowGone,
             ListClaims, NextPriority, ServePriority, SkipPriority, StalePriority, QueueEmpty,
             ServeOrdinary, StaleOrdinary, LoseClaim
  <1> QED  BY <1>1, <1>2, <1>3 DEF Next, DailyReset, EmptyTables, ResetFails, vars

-----------------------------------------------------------------------------
(* The rows are of different users, and who has none has no priority credit. *)
RowsInv ==
    /\ IsInjective(rows)
    /\ \A u \in Users \ Published : priorityCredit[u] = 0

LEMMA InitRowsInv == Init => RowsInv
  BY RowsAreUnique DEF Init, RowsInv

LEMMA NextRowsInv ==
    ASSUME TypeOK, RequestsOK, RowsInv, [Next]_vars
    PROVE  RowsInv'
  <1>0. /\ rows \in Seq(Users) /\ priorityCredit \in [Users -> Int]
    BY DEF TypeOK, ProgramTypeOK
  <1>1. CASE UNCHANGED <<rows, priorityCredit>>
    BY <1>1 DEF RowsInv, Published
  <1>2. CASE EmptyTables
    BY <1>2 DEF EmptyTables, RowsInv, Published, IsInjective, Range
  <1>3. ASSUME NEW s \in Slots, NEW u \in Users, Publish(s, u), u \notin Published
        PROVE  RowsInv'
    <2>1. rows' = Append(rows, u) /\ priorityCredit' = priorityCredit  BY <1>3 DEF Publish
    <2>2. /\ DOMAIN rows' = 1 .. Len(rows) + 1 /\ DOMAIN rows = 1 .. Len(rows)
          /\ rows'[Len(rows) + 1] = u /\ \A i \in 1 .. Len(rows) : rows'[i] = rows[i]
      BY <1>0, <2>1
    <2>3. \A i \in 1 .. Len(rows) : rows[i] # u  BY <1>3, <2>2 DEF Published, Range
    <2>4. IsInjective(rows')
      <3> SUFFICES ASSUME NEW i \in 1 .. Len(rows) + 1, NEW j \in 1 .. Len(rows) + 1, rows'[i] = rows'[j]
                   PROVE  i = j
        BY <2>2 DEF IsInjective
      <3>1. Len(rows) \in Nat  BY <1>0
      <3>2. CASE i \in 1 .. Len(rows) /\ j \in 1 .. Len(rows)
        BY <2>2, <3>2 DEF RowsInv, IsInjective
      <3>3. CASE i = Len(rows) + 1 /\ j \in 1 .. Len(rows)  BY <2>2, <2>3, <3>3
      <3>4. CASE j = Len(rows) + 1 /\ i \in 1 .. Len(rows)  BY <2>2, <2>3, <3>4
      <3> QED  BY <3>1, <3>2, <3>3, <3>4
    <2>5. Published \subseteq Published'  BY <1>0, <2>2 DEF Published, Range
    <2> QED  BY <2>1, <2>4, <2>5 DEF RowsInv
  <1>4. ASSUME NEW s \in Slots, NEW u \in Users, NEW n, Boost(s, u, n)
        PROVE  RowsInv'
    BY <1>0, <1>4 DEF Boost, RowsInv, Published
  <1>5. ASSUME NEW s \in Slots, ServePriority(s)
        PROVE  RowsInv'
    <2>1. /\ rows' = rows /\ req[s].cand \in Published
          /\ priorityCredit' = [priorityCredit EXCEPT ![req[s].cand] = @ - 1]
      BY <1>5 DEF ServePriority, HasCredit
    <2> QED  BY <1>0, <2>1 DEF RowsInv, Published
  <1>6. ASSUME NEW s \in Slots, Step(s)
        PROVE  RowsInv' \/ UNCHANGED <<rows, priorityCredit>>
    BY <1>3, <1>4, <1>5, <1>6
       DEF Step, ledger, Publish, Use, LoadRow, EnqueueOwn, EnqueueOwnPriority, Invalidate, CutOff,
           AddBoost, CheckSeed, Flush, LoadSeed, SeedOrdinary, SeedPriority, MarkSeeded, RowGone,
           ListClaims, NextPriority, SkipPriority, StalePriority, RemovePriority, ConsumePriority,
           NextOrdinary, QueueEmpty, ServeOrdinary, StaleOrdinary, RemoveOrdinary, ConsumeOrdinary,
           Earn, LoseClaim
  <1> QED
    BY <1>1, <1>2, <1>6 DEF Next, DailyReset, Crash, FlushDay, ResetFails, ledger, vars

-----------------------------------------------------------------------------
(* One request at a time, no connection that breaks once a write was made, and one
   failed write of a queue at most: what the documentation's promises on the two stores
   need. Users, rows, credits, requests, resets, restarts and lost claims are any number. *)
OneAtATime ==
    /\ \E s \in Slots : Slots = {s}
    /\ MaxBreaks = 0
    /\ MaxRedisFaults \in {0, 1}

(* What a request has yet to make the queues' counts. *)
OwedOrdinary(q, u) ==
    (IF q.pc \in {"consumePriority", "consumeOrdinary", "earn"} /\ u = q.uid THEN 1 ELSE 0)
  - (IF q.pc = "consumeOrdinary" /\ u = q.cand THEN 1 ELSE 0)

OwedPriority(q, u) ==
    (IF q.pc = "addBoost" /\ u = q.uid THEN q.points ELSE 0)
  - (IF q.pc = "consumePriority" /\ u = q.cand THEN 1 ELSE 0)

Ordinary(q) == [u \in Users |-> ordinaryCredit[u] - OwedOrdinary(q, u)]
Priority(q) == [u \in Users |-> priorityCredit[u] - OwedPriority(q, u)]

(* All rows are in the queues, or all but the one just published. *)
Shown(s) == Shows(redis, rows, Len(rows), Ordinary(req[s]), Priority(req[s]))

Fresh(s) ==
    /\ req[s].pc \in {"loadRow", "enqueueOwn"}
    /\ rows # <<>> /\ req[s].uid = rows[Len(rows)]
    /\ Shows(redis, rows, Len(rows) - 1, Ordinary(req[s]), Priority(req[s]))

(* A rebuild has come to the first m rows, of l of which the priority count too. *)
CreditOf(l) == [u \in Users |-> IF u \in Listed(rows, l) THEN priorityCredit[u] ELSE 0]

Rebuilt(m, l) ==
    /\ Members(redis, "priority") = Active(redis, "priority")
    /\ Shows(redis, rows, m, ordinaryCredit, CreditOf(l))

Done(s) == Len(rows) - Len(req[s].todo)

Mirrored(s) ==
    /\ seeded /\ req[s].pc \notin {"invalidate", "invalidateThenEarn"} => Shown(s) \/ Fresh(s)
    /\ req[s].pc = "loadSeed" => Rebuilt(0, 0)
    /\ req[s].pc \in {"seed", "seedPriority"} =>
          /\ Len(req[s].todo) <= Len(rows)
          /\ \A i \in 1 .. Len(req[s].todo) : req[s].todo[i] = RowOf(rows[Done(s) + i])
    /\ req[s].pc = "seed" => Rebuilt(Done(s), Done(s))
    /\ req[s].pc = "seedPriority" =>
          /\ Head(req[s].todo).priority > 0
          /\ Rebuilt(Done(s) + 1, Done(s))

(* What a request knows, as nobody else steps in between. *)
Received(u) == {p \in Users : <<u, p>> \in claims}

Told(s) ==
    LET q == req[s]
    IN  /\ q.pc # "idle" => q.uid \in Published
        /\ q.pc \in {"flush", "loadSeed", "seed", "seedPriority"} => ~seeded
        /\ q.pc \in {"listClaims", "nextPriority", "deliverPriority",
                     "nextOrdinary", "deliverOrdinary"} => seeded
        /\ q.pc \notin {"removePriority", "removeOrdinary"}
        /\ q.pc \in {"invalidate", "invalidateThenEarn"} => spent.faults >= 1
        /\ q.pc \in {"enqueueOwn", "enqueueOwnPriority"} => q.todo = <<RowOf(q.uid)>>
        /\ q.pc = "enqueueOwnPriority" => priorityCredit[q.uid] > 0
        /\ q.pc \in {"nextPriority", "deliverPriority", "nextOrdinary", "deliverOrdinary"} =>
              q.claimed = Received(q.uid)
        /\ q.pc = "nextPriority" => q.excluded = Received(q.uid)
        /\ q.pc \in {"nextPriority", "nextOrdinary"} => q.tries = 0
        /\ q.pc = "deliverPriority" => q.cand \in Active(redis, "priority") \ Received(q.uid)
        /\ q.pc = "deliverOrdinary" => q.cand \in Active(redis, "ordinary")
        /\ q.pc = "consumeOrdinary" => q.cand \in Published
        /\ q.pc = "nextOrdinary" => Active(redis, "priority") \subseteq Received(q.uid) \union {q.uid}

Ready(s) == OneAtATime /\ IInv /\ Sound(redis) /\ RowsInv /\ Told(s) /\ Mirrored(s)
Still(s) == Told(s)' /\ Mirrored(s)'

-----------------------------------------------------------------------------
(* Facts that most steps need. *)
LEMMA ReadyFacts ==
    ASSUME NEW s \in Slots, Ready(s)
    PROVE  /\ req \in [Slots -> Requests] /\ req[s] \in Requests
           /\ rows \in Seq(Users) /\ Len(rows) \in Nat
           /\ redis \in RedisStates
           /\ ordinaryCredit \in [Users -> Int] /\ priorityCredit \in [Users -> Int]
           /\ Published = Listed(rows, Len(rows)) /\ Published \subseteq Users
           /\ Listed(rows, Len(rows) - 1) \subseteq Users
           /\ \A u \in Users : ordinaryCredit[u] >= 0 /\ priorityCredit[u] >= 0
           /\ \A u \in Users \ Published : ordinaryCredit[u] = 0 /\ priorityCredit[u] = 0
           /\ req[s].pc # "idle" => req[s].uid \in Users
           /\ req[s].pc \in CandPCs => req[s].cand \in Users \ {req[s].uid}
           /\ req[s].pc \in HeadPCs => req[s].todo # <<>>
  <1>1. /\ ProgramTypeOK /\ RequestsOK  BY DEF Ready, IInv, TypeOK
  <1>2. /\ req \in [Slots -> Requests] /\ req[s] \in Requests
        /\ rows \in Seq(Users) /\ Len(rows) \in Nat
        /\ redis \in RedisStates
        /\ ordinaryCredit \in [Users -> Int] /\ priorityCredit \in [Users -> Int]
    BY <1>1 DEF ProgramTypeOK
  <1>3. /\ Published = Listed(rows, Len(rows)) /\ Published \subseteq Users
        /\ Listed(rows, Len(rows) - 1) \subseteq Users
    BY <1>2 DEF Published, Range, Listed
  <1>4. /\ \A u \in Users : ordinaryCredit[u] >= 0 /\ priorityCredit[u] >= 0
        /\ \A u \in Users \ Published : ordinaryCredit[u] = 0 /\ priorityCredit[u] = 0
    BY DEF Ready, IInv, Balances, CreditsOK, PriorityBalance, RowsInv
  <1>5. RequestOK(req[s])  BY <1>1 DEF RequestsOK
  <1> QED  BY <1>2, <1>3, <1>4, <1>5 DEF RequestOK

LEMMA GoToIs ==
    ASSUME NEW s \in Slots, Ready(s), NEW label \in PCs, GoTo(s, label)
    PROVE  /\ req'[s] \in Requests /\ req'[s].pc = label
           /\ req'[s].uid = req[s].uid /\ req'[s].cand = req[s].cand
           /\ req'[s].points = req[s].points /\ req'[s].claimed = req[s].claimed
           /\ req'[s].excluded = req[s].excluded /\ req'[s].tries = req[s].tries
           /\ req'[s].todo = req[s].todo
  <1>1. req \in [Slots -> Requests] /\ req[s] \in Requests  BY ReadyFacts
  <1>2. req'[s] = [req[s] EXCEPT !.pc = label]  BY <1>1 DEF GoTo, Become
  <1> QED  BY <1>1, <1>2 DEF Requests

LEMMA FinishIs ==
    ASSUME NEW s \in Slots, Ready(s), Finish(s)
    PROVE  req'[s] = Idle /\ Idle.pc = "idle"
  <1>1. req \in [Slots -> Requests]  BY ReadyFacts
  <1> QED  BY <1>1 DEF Finish, Become, Idle

(* Nothing is owed but at a few steps. *)
Owing == {"addBoost", "consumePriority", "consumeOrdinary", "earn"}

LEMMA NothingOwed ==
    ASSUME NEW s \in Slots, Ready(s), req[s].pc \notin Owing
    PROVE  /\ \A u \in Users : Ordinary(req[s])[u] = ordinaryCredit[u]
           /\ \A u \in Users : Priority(req[s])[u] = priorityCredit[u]
  <1>1. /\ ordinaryCredit \in [Users -> Int] /\ priorityCredit \in [Users -> Int]
    BY ReadyFacts
  <1> QED  BY <1>1 DEF Owing, Ordinary, Priority, OwedOrdinary, OwedPriority

(* A step that keeps the rows and what the counts are to be leaves shown what is. *)
LEMMA StillShown ==
    ASSUME NEW s \in Slots, Ready(s), Shown(s), rows' = rows,
           \A u \in Users : /\ Ordinary(req[s])'[u] = Ordinary(req[s])[u]
                            /\ Priority(req[s])'[u] = Priority(req[s])[u],
           redis'.score = redis.score, redis'.count = redis.count
    PROVE  Shown(s)'
  <1>1. Listed(rows, Len(rows)) \subseteq Users /\ Len(rows) \in Nat  BY ReadyFacts
  <1> DEFINE ord == Ordinary(req[s])
             pri == Priority(req[s])
  <1>2. Shows(redis, rows, Len(rows), ord, pri)  BY DEF Shown
  <1>3. \A u \in Users : ord'[u] = ord[u] /\ pri'[u] = pri[u]  OBVIOUS
  <1> HIDE DEF ord, pri
  <1>4. Shows(redis', rows', Len(rows), ord', pri')
    <2>1. \A u \in Listed(rows, Len(rows)) : ord'[u] = ord[u]  BY <1>1, <1>3
    <2>2. \A i \in 1 .. Len(rows) : rows[i] \in Users  BY <1>1 DEF Listed
    <2>3. Members(redis', "ordinary") = Members(redis, "ordinary")  BY DEF Members
    <2>4. \A u \in Users : Place(redis', "ordinary", u) = Place(redis, "ordinary", u)  BY DEF Place
    <2> QED  BY <1>1, <1>2, <1>3, <2>1, <2>2, <2>3, <2>4 DEF Shows
  <1> QED  BY <1>4 DEF Shown, ord, pri

LEMMA StillQuiet ==
    ASSUME NEW s \in Slots, Ready(s), Shown(s), req[s].pc \notin Owing, req'[s].pc \notin Owing,
           UNCHANGED <<rows, ordinaryCredit, priorityCredit>>,
           redis'.score = redis.score, redis'.count = redis.count
    PROVE  Shown(s)'
  <1>1. /\ ordinaryCredit \in [Users -> Int] /\ priorityCredit \in [Users -> Int]
    BY ReadyFacts
  <1>2. \A u \in Users : Ordinary(req[s])'[u] = Ordinary(req[s])[u] /\ Priority(req[s])'[u] = Priority(req[s])[u]
    BY <1>1 DEF Owing, Ordinary, Priority, OwedOrdinary, OwedPriority
  <1> QED  BY <1>2, StillShown

LEMMA StillMirrored ==
    ASSUME NEW s \in Slots, Ready(s), seeded' => Shown(s)',
           req'[s].pc \notin {"loadSeed", "seed", "seedPriority"}
    PROVE  Mirrored(s)'
  BY DEF Mirrored

LEMMA ShownCounts ==
    ASSUME NEW s \in Slots, Ready(s), Shown(s), req[s].pc \notin Owing
    PROVE  /\ Members(redis, "ordinary") = Published
           /\ \A u \in Users : redis.count["ordinary"][u] = ordinaryCredit[u]
           /\ \A u \in Users : redis.count["priority"][u] = priorityCredit[u]
           /\ \A u \in Users : u \in Active(redis, "ordinary") <=> ordinaryCredit[u] > 0
           /\ \A u \in Users : u \in Active(redis, "priority") <=> priorityCredit[u] > 0
  <1>1. /\ Members(redis, "ordinary") = Published
        /\ \A u \in Published : redis.count["ordinary"][u] = ordinaryCredit[u]
        /\ \A u \in Users : redis.count["priority"][u] = priorityCredit[u]
    BY ReadyFacts, NothingOwed DEF Shown, Shows
  <1>2. "ordinary" \in Kinds /\ "priority" \in Kinds /\ Sound(redis)  BY DEF Ready, Kinds
  <1>3. \A u \in Users \ Published : redis.count["ordinary"][u] = ordinaryCredit[u]
    BY <1>1, <1>2, ReadyFacts, SoundFacts
  <1> QED  BY <1>1, <1>2, <1>3, SoundFacts

-----------------------------------------------------------------------------
(* PublishActivity *)
LEMMA PublishStill ==
    ASSUME NEW s \in Slots, Ready(s), NEW u \in Users, Publish(s, u), TypeOK'
    PROVE  Still(s)
  <1>1. /\ req \in [Slots -> Requests] /\ rows \in Seq(Users) /\ Len(rows) \in Nat
        /\ ordinaryCredit \in [Users -> Int] /\ priorityCredit \in [Users -> Int]
        /\ Published = Listed(rows, Len(rows)) /\ Published \subseteq Users
    BY ReadyFacts
  <1>2. req'[s].pc = "loadRow" /\ req'[s].uid = u /\ req[s].pc = "idle"
    BY <1>1 DEF Publish, Receive, At, Become, Idle
  <1>3. /\ UNCHANGED <<priorityCredit, redis, seeded>>
        /\ req[s].pc \notin Owing /\ req'[s].pc \notin Owing
    BY <1>2 DEF Publish, Owing
  <1>4. seeded => Shown(s)
    BY <1>2 DEF Ready, Mirrored, Fresh
  <1>5. CASE u \in Published
    <2>1. UNCHANGED <<rows, ordinaryCredit>>  BY <1>5 DEF Publish
    <2>2. Told(s)'  BY <1>2, <1>5, <2>1 DEF Told, Published
    <2>3. Mirrored(s)'  BY <1>2, <1>3, <1>4, <2>1, StillQuiet, StillMirrored
    <2> QED  BY <2>2, <2>3 DEF Still
  <1>6. CASE u \notin Published
    <2>1. /\ rows' = Append(rows, u)
          /\ ordinaryCredit' = [ordinaryCredit EXCEPT ![u] = Grant]
      BY <1>6 DEF Publish
    <2>2. /\ Len(rows') = Len(rows) + 1 /\ rows'[Len(rows')] = u /\ rows' # <<>>
          /\ \A i \in 1 .. Len(rows) : rows'[i] = rows[i]
          /\ u \in Published'
      <3>1. /\ Len(rows') = Len(rows) + 1 /\ rows'[Len(rows) + 1] = u
            /\ DOMAIN rows' = 1 .. Len(rows) + 1
            /\ \A i \in 1 .. Len(rows) : rows'[i] = rows[i]
        BY <1>1, <2>1
      <3>2. Len(rows) + 1 \in DOMAIN rows' /\ rows' # <<>>  BY <1>1, <3>1
      <3> QED  BY <3>1, <3>2 DEF Published, Range
    <2>3. Told(s)'  BY <1>2, <2>2 DEF Told
    <2> DEFINE ord == Ordinary(req[s])
               pri == Priority(req[s])
    <2>4. seeded => Shows(redis, rows, Len(rows), ord, pri)  BY <1>4 DEF Shown
    <2>5. /\ \A v \in Published : ord'[v] = ord[v]
          /\ \A v \in Users : pri'[v] = pri[v]
      BY <1>1, <1>2, <1>3, <1>6, <2>1 DEF Owing, Ordinary, Priority, OwedOrdinary, OwedPriority
    <2> HIDE DEF ord, pri
    <2>6. seeded => Shows(redis', rows', Len(rows') - 1, ord', pri')
      <3>1. Len(rows') - 1 = Len(rows)  BY <1>1, <2>2
      <3>2. Listed(rows', Len(rows)) = Listed(rows, Len(rows))  BY <2>2 DEF Listed
      <3>3. redis' = redis  BY <1>3
      <3> QED  BY <1>1, <2>2, <2>4, <2>5, <3>1, <3>2, <3>3 DEF Shows
    <2>7. Mirrored(s)'  BY <1>2, <1>3, <2>2, <2>6 DEF Mirrored, Fresh, ord, pri
    <2> QED  BY <2>3, <2>7 DEF Still
  <1> QED  BY <1>5, <1>6

LEMMA LoadRowStill ==
    ASSUME NEW s \in Slots, Ready(s), LoadRow(s)
    PROVE  Still(s)
  <1>1. /\ req \in [Slots -> Requests] /\ req[s] \in Requests
        /\ ordinaryCredit \in [Users -> Int] /\ priorityCredit \in [Users -> Int]
    BY ReadyFacts
  <1>2. /\ req'[s] = [req[s] EXCEPT !.pc = "enqueueOwn", !.todo = <<RowOf(req[s].uid)>>]
        /\ req[s].pc = "loadRow"
        /\ UNCHANGED <<ledger, redis, seeded, spent>>
    BY <1>1 DEF LoadRow, At, Become
  <1>3. /\ req'[s].pc = "enqueueOwn" /\ req'[s].uid = req[s].uid
        /\ req'[s].todo = <<RowOf(req[s].uid)>>
    BY <1>1, <1>2 DEF Requests
  <1>4. UNCHANGED <<rows, ordinaryCredit, priorityCredit, redis, seeded>>  BY <1>2 DEF ledger
  <1>5. Told(s)'
    <2>1. req[s].uid \in Published  BY DEF LoadRow
    <2> QED  BY <1>3, <1>4, <2>1 DEF Told, Published, RowOf
  <1>6. req[s].pc \notin Owing /\ req'[s].pc \notin Owing  BY <1>2, <1>3 DEF Owing
  <1>7. CASE Fresh(s)
    <2>1. Ordinary(req[s])' = Ordinary(req[s]) /\ Priority(req[s])' = Priority(req[s])
      BY <1>1, <1>2, <1>3, <1>4 DEF Ordinary, Priority, OwedOrdinary, OwedPriority
    <2>2. Fresh(s)'  BY <1>2, <1>3, <1>4, <1>7, <2>1 DEF Fresh
    <2> QED  BY <1>3, <1>5, <2>2 DEF Mirrored, Still
  <1>8. CASE Shown(s)
    BY <1>3, <1>4, <1>5, <1>6, <1>8, StillQuiet, StillMirrored DEF Still
  <1>9. CASE ~seeded
    BY <1>3, <1>4, <1>5, <1>9 DEF Mirrored, Still
  <1> QED  BY <1>2, <1>7, <1>8, <1>9 DEF Ready, Mirrored

(* A failed write is the one failure there may be. *)
LEMMA OneFault ==
    ASSUME NEW s \in Slots, Ready(s), NEW STATE written, RedisFault(written)
    PROVE  spent'.faults >= 1 /\ ~(spent.faults >= 1)
  <1>1. spent \in SpentBounds  BY DEF Ready, IInv, TypeOK, ProgramTypeOK
  <1>2. MaxRedisFaults \in {0, 1}  BY DEF Ready, OneAtATime
  <1> QED  BY <1>1, <1>2 DEF RedisFault, SpentBounds

LEMMA BrokenStill ==
    ASSUME NEW s \in Slots, Ready(s), NEW STATE written, RedisFault(written),
           req'[s].pc \in {"invalidate", "invalidateThenEarn"},
           req'[s].uid = req[s].uid, req[s].pc # "idle", rows' = rows
    PROVE  Still(s)
  <1>1. spent'.faults >= 1  BY OneFault
  <1>2. req[s].uid \in Published  BY DEF Ready, Told
  <1>3. Told(s)'  BY <1>1, <1>2 DEF Told, Published
  <1>4. Mirrored(s)'  BY DEF Mirrored
  <1> QED  BY <1>3, <1>4 DEF Still

LEMMA IdleStill ==
    ASSUME NEW s \in Slots, Ready(s), req'[s].pc = "idle", seeded' => Shown(s)'
    PROVE  Still(s)
  <1>1. Told(s)'  BY DEF Told
  <1> QED  BY <1>1, StillMirrored DEF Still

LEMMA EnqueueOwnStill ==
    ASSUME NEW s \in Slots, Ready(s), EnqueueOwn(s)
    PROVE  Still(s)
  <1>1. /\ req \in [Slots -> Requests] /\ req[s] \in Requests /\ rows \in Seq(Users) /\ Len(rows) \in Nat
        /\ ordinaryCredit \in [Users -> Int] /\ priorityCredit \in [Users -> Int]
        /\ Published = Listed(rows, Len(rows)) /\ Published \subseteq Users
    BY ReadyFacts
  <1> DEFINE u == req[s].uid
  <1>2. /\ req[s].pc = "enqueueOwn" /\ req[s].todo = <<RowOf(u)>> /\ u \in Published
        /\ UNCHANGED <<ledger, seeded>>
    BY DEF EnqueueOwn, At, Ready, Told
  <1>3. UNCHANGED <<rows, ordinaryCredit, priorityCredit, seeded>>  BY <1>2 DEF ledger
  <1>4. /\ Head(req[s].todo).uid = u /\ Head(req[s].todo).ordinary = ordinaryCredit[u]
        /\ Head(req[s].todo).priority = priorityCredit[u]
    BY <1>2 DEF RowOf
  <1> DEFINE written == Enqueue(redis, "ordinary", u, ordinaryCredit[u])
  <1>5. CASE RedisFault(written) /\ GoTo(s, "invalidate")
    <2>1. req'[s].pc = "invalidate" /\ req'[s].uid = req[s].uid  BY <1>5, GoToIs DEF PCs
    <2> QED  BY <1>2, <1>3, <1>5, <2>1, BrokenStill
  <1>6. CASE /\ RedisWrite(written)
             /\ \/ priorityCredit[u] > 0 /\ GoTo(s, "enqueueOwnPriority")
                \/ priorityCredit[u] <= 0 /\ Finish(s)
    <2>1. redis' = written /\ spent' = spent  BY <1>6 DEF RedisWrite
    <2>2. \/ /\ req'[s].pc = "enqueueOwnPriority" /\ req'[s].uid = u /\ req'[s].todo = req[s].todo
             /\ priorityCredit[u] > 0
          \/ req'[s].pc = "idle"
      BY <1>6, GoToIs, FinishIs DEF PCs
    <2>3. Told(s)'
      BY <1>2, <1>3, <2>2 DEF Told, Published, RowOf
    <2>4. req[s].pc \notin Owing /\ req'[s].pc \notin Owing  BY <1>2, <2>2 DEF Owing
    <2>5. seeded => Shown(s)'
      <3>1. CASE Shown(s)
        <4>1. u \in Members(redis, "ordinary")
          BY <1>1, <1>2, <3>1 DEF Shown, Shows
        <4>2. redis' = redis  BY <2>1, <4>1 DEF Enqueue
        <4> QED  BY <1>3, <2>4, <3>1, <4>2, StillQuiet
      <3>2. CASE Fresh(s)
        <4> DEFINE m == Len(rows) - 1
                   ord == Ordinary(req[s])
                   pri == Priority(req[s])
        <4>1. /\ m \in Nat /\ m < Len(rows) /\ m + 1 = Len(rows) /\ rows[m + 1] = u
              /\ Shows(redis, rows, m, ord, pri)
          BY <1>1, <3>2 DEF Fresh
        <4>2. ord[u] = ordinaryCredit[u] /\ ord[u] \in Int
          BY <1>1, <1>2, <2>4, NothingOwed
        <4>3. rows[m + 1] \notin Listed(rows, m)
          <5>1. IsInjective(rows)  BY DEF Ready, RowsInv
          <5>2. \A i \in 1 .. m : i \in DOMAIN rows /\ i # m + 1 /\ m + 1 \in DOMAIN rows  BY <1>1
          <5> QED  BY <5>1, <5>2 DEF IsInjective, Listed
        <4>4. Sound(redis)  BY DEF Ready
        <4>5. /\ \A v \in Users : ord'[v] = ord[v] /\ pri'[v] = pri[v]
              /\ \A i \in 1 .. Len(rows) : rows[i] \in Users
          BY <1>1, <1>3, <2>4 DEF Ordinary, Priority, OwedOrdinary, OwedPriority, Owing
        <4> HIDE DEF ord, pri
        <4>6. Shows(Enqueue(redis, "ordinary", rows[m + 1], ord[rows[m + 1]]), rows, m + 1, ord, pri)
          <5> HIDE DEF m
          <5> QED  BY <1>1, <4>1, <4>2, <4>3, <4>4, ShowsEnqueueOrdinary
        <4>7. Shows(redis', rows, Len(rows), ord, pri)  BY <2>1, <4>1, <4>2, <4>6
        <4>8. Shows(redis', rows, Len(rows), ord', pri')
          BY <1>1, <4>5, <4>7 DEF Shows
        <4> QED  BY <1>3, <4>8 DEF Shown, ord, pri
      <3> QED  BY <1>2, <3>1, <3>2 DEF Ready, Mirrored
    <2>6. Mirrored(s)'  BY <1>3, <2>2, <2>5, StillMirrored
    <2> QED  BY <2>3, <2>6 DEF Still
  <1> QED  BY <1>4, <1>5, <1>6 DEF EnqueueOwn

LEMMA EnqueueOwnPriorityStill ==
    ASSUME NEW s \in Slots, Ready(s), EnqueueOwnPriority(s)
    PROVE  Still(s)
  <1> DEFINE u == req[s].uid
  <1>1. /\ req[s].pc = "enqueueOwnPriority" /\ req[s].todo = <<RowOf(u)>> /\ priorityCredit[u] > 0
        /\ UNCHANGED <<ledger, seeded>> /\ u \in Users
    BY ReadyFacts DEF EnqueueOwnPriority, At, Ready, Told
  <1>2. UNCHANGED <<rows, ordinaryCredit, priorityCredit, seeded>>  BY <1>1 DEF ledger
  <1>3. Head(req[s].todo).uid = u /\ Head(req[s].todo).priority = priorityCredit[u]
    BY <1>1 DEF RowOf
  <1> DEFINE written == Enqueue(redis, "priority", u, priorityCredit[u])
  <1>4. CASE RedisFault(written) /\ GoTo(s, "invalidate")
    <2>1. req'[s].pc = "invalidate" /\ req'[s].uid = req[s].uid  BY <1>4, GoToIs DEF PCs
    <2> QED  BY <1>1, <1>2, <1>4, <2>1, BrokenStill
  <1>5. CASE RedisWrite(written) /\ Finish(s)
    <2>1. redis' = written /\ req'[s].pc = "idle"  BY <1>5, FinishIs DEF RedisWrite
    <2>2. req[s].pc \notin Owing /\ req'[s].pc \notin Owing  BY <1>1, <2>1 DEF Owing
    <2>3. ASSUME seeded  PROVE Shown(s)'
      <3>1. Shown(s)  BY <1>1, <2>3 DEF Ready, Mirrored, Fresh
      <3>2. u \in Members(redis, "priority")
        <4>1. u \in Active(redis, "priority")  BY <1>1, <2>2, <3>1, ShownCounts
        <4> QED  BY <4>1 DEF Active, Members
      <3>3. redis' = redis  BY <2>1, <3>2 DEF Enqueue
      <3> QED  BY <1>2, <2>2, <3>1, <3>3, StillQuiet
    <2> QED  BY <1>2, <2>1, <2>3, IdleStill
  <1> QED  BY <1>3, <1>4, <1>5 DEF EnqueueOwnPriority

LEMMA InvalidateStill ==
    ASSUME NEW s \in Slots, Ready(s), Invalidate(s)
    PROVE  Still(s)
  <1>1. spent.faults >= 1  BY DEF Ready, Told, Invalidate, At
  <1>2. ~RedisFault(redis)  BY <1>1, OneFault
  <1>3. ~seeded' /\ rows' = rows  BY <1>2 DEF Invalidate, ledger
  <1>4. CASE At(s, "invalidate") /\ Finish(s)
    BY <1>3, <1>4, FinishIs, IdleStill
  <1>5. CASE At(s, "invalidateThenEarn") /\ GoTo(s, "earn")
    <2>1. req'[s].pc = "earn" /\ req'[s].uid = req[s].uid  BY <1>5, GoToIs DEF PCs
    <2>2. req[s].uid \in Published  BY <1>5 DEF Ready, Told, At
    <2>3. Told(s)'  BY <1>3, <2>1, <2>2 DEF Told, Published
    <2> QED  BY <1>3, <2>1, <2>3, StillMirrored DEF Still
  <1> QED  BY <1>4, <1>5 DEF Invalidate

LEMMA NeverCutOff ==
    ASSUME NEW s \in Slots, Ready(s), CutOff(s)
    PROVE  FALSE
  <1>1. spent \in SpentBounds /\ MaxBreaks = 0  BY DEF Ready, OneAtATime, IInv, TypeOK, ProgramTypeOK
  <1> QED  BY <1>1 DEF CutOff, SpentBounds

(* Between calls on the queues, and outside a rebuild, all rows are shown. *)
LEMMA SeededShown ==
    ASSUME NEW s \in Slots, Ready(s), seeded,
           req[s].pc \notin {"loadRow", "enqueueOwn", "invalidate", "invalidateThenEarn"}
    PROVE  Shown(s)
  BY DEF Ready, Mirrored, Fresh

(* BoostActivity *)
LEMMA BoostStill ==
    ASSUME NEW s \in Slots, Ready(s), NEW u \in Users, NEW n \in 1 .. InitialPoints, Boost(s, u, n)
    PROVE  Still(s)
  <1>1. /\ req \in [Slots -> Requests]
        /\ ordinaryCredit \in [Users -> Int] /\ priorityCredit \in [Users -> Int] /\ n \in Nat
    BY ReadyFacts, PointsAreNatural
  <1>2. /\ req'[s] = [Idle EXCEPT !.pc = "addBoost", !.uid = u, !.points = n]
        /\ req[s].pc = "idle" /\ u \in Published
        /\ priorityCredit' = [priorityCredit EXCEPT ![u] = @ + n]
        /\ UNCHANGED <<rows, ordinaryCredit, redis, seeded>>
    BY <1>1 DEF Boost, Receive, At, Become
  <1>3. req'[s].pc = "addBoost" /\ req'[s].uid = u /\ req'[s].points = n  BY <1>2 DEF Idle
  <1>4. Told(s)'  BY <1>2, <1>3 DEF Told, Published
  <1>5. \A v \in Users : /\ Ordinary(req[s])'[v] = Ordinary(req[s])[v]
                         /\ Priority(req[s])'[v] = Priority(req[s])[v]
    BY <1>1, <1>2, <1>3 DEF Ordinary, Priority, OwedOrdinary, OwedPriority
  <1>6. seeded' => Shown(s)'  BY <1>2, <1>5, SeededShown, StillShown
  <1> QED  BY <1>3, <1>4, <1>6, StillMirrored DEF Still

LEMMA NeverResent ==
    ASSUME NEW s \in Slots, Ready(s), NEW STATE written, RedisResend(written)
    PROVE  FALSE
  <1>1. spent \in SpentBounds /\ MaxBreaks = 0  BY DEF Ready, OneAtATime, IInv, TypeOK, ProgramTypeOK
  <1> QED  BY <1>1 DEF RedisResend, SpentBounds

(* An adjustment that the request owed. *)
LEMMA AdjustedPriority ==
    ASSUME NEW s \in Slots, Ready(s), Shown(s), rows' = rows, NEW u \in Users, NEW delta \in Int,
           redis' = Adjust(redis, "priority", u, delta),
           \A v \in Users : Ordinary(req[s])'[v] = Ordinary(req[s])[v],
           \A v \in Users : Priority(req[s])'[v] =
               IF v = u THEN Priority(req[s])[u] + delta ELSE Priority(req[s])[v]
    PROVE  Shown(s)'
  <1> DEFINE ord == Ordinary(req[s])
             pri == Priority(req[s])
             pri2 == [v \in Users |-> IF v = u THEN pri[u] + delta ELSE pri[v]]
             written == Adjust(redis, "priority", u, delta)
  <1>1. Listed(rows, Len(rows)) \subseteq Users /\ Len(rows) \in Nat /\ Sound(redis)
    BY ReadyFacts DEF Ready
  <1>2. Shows(redis, rows, Len(rows), ord, pri)  BY DEF Shown
  <1>3. /\ \A v \in Users : ord'[v] = ord[v] /\ pri'[v] = pri2[v]
        /\ \A v \in Users : pri2[v] = IF v = u THEN pri[u] + delta ELSE pri[v]
    OBVIOUS
  <1> HIDE DEF ord, pri, pri2
  <1>4. Shows(written, rows, Len(rows), ord, pri2)
    BY <1>1, <1>2, <1>3, ShowsAdjustPriority
  <1> HIDE DEF written
  <1>5. Shows(redis', rows', Len(rows'), ord', pri')
    <2>1. \A v \in Listed(rows, Len(rows)) : ord'[v] = ord[v]  BY <1>1, <1>3
    <2>2. redis' = written  BY DEF written
    <2> QED  BY <1>3, <1>4, <2>1, <2>2 DEF Shows
  <1> QED  BY <1>5 DEF Shown, ord, pri

LEMMA AdjustedOrdinary ==
    ASSUME NEW s \in Slots, Ready(s), Shown(s), rows' = rows, NEW u \in Published, NEW delta \in Int,
           redis' = Adjust(redis, "ordinary", u, delta),
           \A v \in Users : Priority(req[s])'[v] = Priority(req[s])[v],
           \A v \in Users : Ordinary(req[s])'[v] =
               IF v = u THEN Ordinary(req[s])[u] + delta ELSE Ordinary(req[s])[v]
    PROVE  Shown(s)'
  <1> DEFINE ord == Ordinary(req[s])
             pri == Priority(req[s])
             ord2 == [v \in Users |-> IF v = u THEN ord[u] + delta ELSE ord[v]]
             written == Adjust(redis, "ordinary", u, delta)
  <1>1. /\ Listed(rows, Len(rows)) \subseteq Users /\ Len(rows) \in Nat /\ Sound(redis)
        /\ u \in Listed(rows, Len(rows))
    BY ReadyFacts DEF Ready
  <1>2. Shows(redis, rows, Len(rows), ord, pri)  BY DEF Shown
  <1>3. /\ \A v \in Users : ord'[v] = ord2[v] /\ pri'[v] = pri[v]
        /\ \A v \in Users : ord2[v] = IF v = u THEN ord[u] + delta ELSE ord[v]
    OBVIOUS
  <1> HIDE DEF ord, pri, ord2
  <1>4. Shows(written, rows, Len(rows), ord2, pri)
    BY <1>1, <1>2, <1>3, ShowsAdjustOrdinary
  <1> HIDE DEF written
  <1>5. Shows(redis', rows', Len(rows'), ord', pri')
    <2>1. \A v \in Listed(rows, Len(rows)) : ord'[v] = ord2[v]  BY <1>1, <1>3
    <2>2. redis' = written  BY DEF written
    <2> QED  BY <1>3, <1>4, <2>1, <2>2 DEF Shows
  <1> QED  BY <1>5 DEF Shown, ord, pri

LEMMA AddBoostStill ==
    ASSUME NEW s \in Slots, Ready(s), AddBoost(s)
    PROVE  Still(s)
  <1> DEFINE u == req[s].uid
             n == req[s].points
             written == Adjust(redis, "priority", u, n)
  <1>1. /\ req[s].pc = "addBoost" /\ UNCHANGED <<ledger, seeded>> /\ u \in Users
        /\ n \in Nat /\ priorityCredit \in [Users -> Int] /\ ordinaryCredit \in [Users -> Int]
    BY ReadyFacts DEF AddBoost, At, Requests
  <1>2. UNCHANGED <<rows, ordinaryCredit, priorityCredit, seeded>>  BY <1>1 DEF ledger
  <1>3. CASE RedisFault(written) /\ GoTo(s, "invalidate")
    <2>1. req'[s].pc = "invalidate" /\ req'[s].uid = req[s].uid  BY <1>3, GoToIs DEF PCs
    <2> QED  BY <1>1, <1>2, <1>3, <2>1, BrokenStill
  <1>4. CASE RedisWrite(written) /\ Finish(s)
    <2>1. redis' = written /\ req'[s].pc = "idle"  BY <1>4, FinishIs DEF RedisWrite
    <2>2. /\ \A v \in Users : Ordinary(req[s])'[v] = Ordinary(req[s])[v]
          /\ \A v \in Users : Priority(req[s])'[v] =
                IF v = u THEN Priority(req[s])[u] + n ELSE Priority(req[s])[v]
      BY <1>1, <1>2, <2>1 DEF Ordinary, Priority, OwedOrdinary, OwedPriority
    <2>3. seeded => Shown(s)  BY <1>1, SeededShown
    <2> HIDE DEF u, n
    <2>4. n \in Int  BY <1>1
    <2>5. seeded' => Shown(s)'  BY <1>1, <1>2, <2>1, <2>2, <2>3, <2>4, AdjustedPriority
    <2> QED  BY <2>1, <2>5, IdleStill
  <1> QED  BY <1>3, <1>4, NeverResent DEF AddBoost, AdjustCall, AdjustFault

-----------------------------------------------------------------------------
(* UseActivity: the rebuild *)
LEMMA UseStill ==
    ASSUME NEW s \in Slots, Ready(s), NEW u \in Users, Use(s, u)
    PROVE  Still(s)
  <1>1. req \in [Slots -> Requests]  BY ReadyFacts
  <1>2. /\ req'[s].pc = "checkSeed" /\ req'[s].uid = u /\ req[s].pc = "idle" /\ u \in Published
        /\ UNCHANGED <<ledger, redis, seeded>>
    BY <1>1 DEF Use, Receive, At, Become, Idle
  <1>3. UNCHANGED <<rows, ordinaryCredit, priorityCredit>>  BY <1>2 DEF ledger
  <1>4. Told(s)'  BY <1>2, <1>3 DEF Told, Published
  <1>5. req[s].pc \notin Owing /\ req'[s].pc \notin Owing  BY <1>2 DEF Owing
  <1>6. seeded' => Shown(s)'  BY <1>2, <1>3, <1>5, SeededShown, StillQuiet
  <1> QED  BY <1>2, <1>4, <1>6, StillMirrored DEF Still

LEMMA CheckSeedStill ==
    ASSUME NEW s \in Slots, Ready(s), CheckSeed(s)
    PROVE  Still(s)
  <1>1. /\ req[s].pc = "checkSeed" /\ UNCHANGED <<ledger, redis, seeded>>
        /\ req'[s].pc = IF seeded THEN "listClaims" ELSE "flush"
        /\ req'[s].uid = req[s].uid
    BY GoToIs DEF CheckSeed, At, PCs
  <1>2. UNCHANGED <<rows, ordinaryCredit, priorityCredit>>  BY <1>1 DEF ledger
  <1>3. req[s].uid \in Published  BY <1>1 DEF Ready, Told
  <1>4. Told(s)'  BY <1>1, <1>2, <1>3 DEF Told, Published
  <1>5. req[s].pc \notin Owing /\ req'[s].pc \notin Owing  BY <1>1 DEF Owing
  <1>6. seeded' => Shown(s)'  BY <1>1, <1>2, <1>5, SeededShown, StillQuiet
  <1> QED  BY <1>1, <1>4, <1>6, StillMirrored DEF Still

LEMMA FlushStill ==
    ASSUME NEW s \in Slots, Ready(s), Flush(s)
    PROVE  Still(s)
  <1>1. /\ req[s].pc = "flush" /\ UNCHANGED <<ledger, seeded>> /\ redis' = FlushQueues(redis)
        /\ req'[s].pc = "loadSeed" /\ req'[s].uid = req[s].uid
    BY GoToIs DEF Flush, At, PCs
  <1>2. UNCHANGED rows  BY <1>1 DEF ledger
  <1>3. req[s].uid \in Published /\ ~seeded  BY <1>1 DEF Ready, Told
  <1>4. Told(s)'  BY <1>1, <1>2, <1>3 DEF Told, Published
  <1>5. \A k \in Kinds, u \in Users : redis'.score[k][u] = 0 /\ redis'.count[k][u] = 0
    BY <1>1 DEF FlushQueues, EmptyRedis
  <1>6. /\ Members(redis', "ordinary") = {} /\ Members(redis', "priority") = {}
        /\ Active(redis', "priority") = {}
    BY <1>5 DEF Members, Active, Kinds
  <1>7. Listed(rows', 0) = {}  BY DEF Listed
  <1>8. Shows(redis', rows', 0, ordinaryCredit', CreditOf(0)')
    BY <1>5, <1>6, <1>7 DEF Shows, Kinds, CreditOf
  <1>9. Rebuilt(0, 0)'  BY <1>6, <1>8 DEF Rebuilt
  <1> QED  BY <1>1, <1>3, <1>4, <1>9 DEF Still, Mirrored

LEMMA LoadSeedStill ==
    ASSUME NEW s \in Slots, Ready(s), LoadSeed(s)
    PROVE  Still(s)
  <1>1. /\ req \in [Slots -> Requests] /\ req[s] \in Requests /\ rows \in Seq(Users)
        /\ Len(rows) \in Nat
    BY ReadyFacts
  <1> DEFINE todo == [i \in DOMAIN rows |-> RowOf(rows[i])]
  <1>2. /\ req'[s] = [req[s] EXCEPT !.pc = "seed", !.todo = todo] /\ req[s].pc = "loadSeed"
        /\ UNCHANGED <<ledger, redis, seeded>>
    BY <1>1 DEF LoadSeed, At, Become
  <1>3. req'[s].pc = "seed" /\ req'[s].todo = todo /\ req'[s].uid = req[s].uid
    BY <1>1, <1>2 DEF Requests
  <1>4. UNCHANGED <<rows, ordinaryCredit, priorityCredit>>  BY <1>2 DEF ledger
  <1>5. req[s].uid \in Published /\ ~seeded  BY <1>2 DEF Ready, Told
  <1>6. Told(s)'  BY <1>2, <1>3, <1>4, <1>5 DEF Told, Published
  <1>7. DOMAIN rows = 1 .. Len(rows) /\ Len(todo) = Len(rows)
    BY <1>1
  <1>8. Done(s)' = 0  BY <1>1, <1>3, <1>4, <1>7 DEF Done
  <1>9. ASSUME NEW i \in 1 .. Len(req'[s].todo)
        PROVE  req'[s].todo[i] = RowOf(rows[Done(s) + i])'
    <2>1. i \in DOMAIN rows /\ 0 + i = i  BY <1>1, <1>3, <1>7
    <2>2. req'[s].todo[i] = RowOf(rows[i])  BY <1>3, <2>1
    <2> QED  BY <1>4, <1>8, <2>1, <2>2 DEF RowOf
  <1>10. Rebuilt(0, 0)  BY <1>2 DEF Ready, Mirrored
  <1>11. Rebuilt(Done(s), Done(s))'  BY <1>2, <1>4, <1>8, <1>10 DEF Rebuilt, CreditOf
  <1>12. Len(req'[s].todo) <= Len(rows')  BY <1>1, <1>3, <1>4, <1>7
  <1> QED  BY <1>2, <1>3, <1>5, <1>6, <1>9, <1>11, <1>12 DEF Still, Mirrored

LEMMA SeedFacts ==
    ASSUME NEW s \in Slots, Ready(s), req[s].pc \in {"seed", "seedPriority"}, req[s].todo # <<>>
    PROVE  LET m == Done(s)
           IN  /\ m \in Nat /\ m < Len(rows) /\ Head(req[s].todo) = RowOf(rows[m + 1])
               /\ rows[m + 1] \in Users /\ rows[m + 1] \notin Listed(rows, m)
               /\ Listed(rows, m + 1) = Listed(rows, m) \union {rows[m + 1]}
               /\ Listed(rows, m) \subseteq Users
  <1> DEFINE m == Done(s)
             todo == req[s].todo
  <1>1. /\ todo \in Seq(Snapshot) /\ rows \in Seq(Users) /\ Len(rows) \in Nat
    BY ReadyFacts DEF Requests
  <1>2. /\ Len(todo) <= Len(rows) /\ m = Len(rows) - Len(todo)
        /\ \A i \in 1 .. Len(todo) : todo[i] = RowOf(rows[m + i])
    BY DEF Ready, Mirrored, Done
  <1>3. Len(todo) \in Nat /\ Len(todo) # 0 /\ Head(todo) = todo[1]  BY <1>1
  <1> HIDE DEF m, todo
  <1>4. m \in Nat /\ m < Len(rows) /\ Head(todo) = RowOf(rows[m + 1])  BY <1>1, <1>2, <1>3
  <1>5. /\ Listed(rows, m + 1) = Listed(rows, m) \union {rows[m + 1]}
        /\ rows[m + 1] \in Users /\ Listed(rows, m) \subseteq Users
    BY <1>1, <1>4, ListedMore
  <1>6. rows[m + 1] \notin Listed(rows, m)
    <2>1. IsInjective(rows)  BY DEF Ready, RowsInv
    <2>2. \A i \in 1 .. m : i \in DOMAIN rows /\ i # m + 1 /\ m + 1 \in DOMAIN rows  BY <1>1, <1>4
    <2> QED  BY <2>1, <2>2 DEF IsInjective, Listed
  <1> QED  BY <1>4, <1>5, <1>6 DEF m, todo

LEMMA NextSeed ==
    ASSUME NEW s \in Slots, Ready(s), req[s].pc \in {"seed", "seedPriority"}, req[s].todo # <<>>,
           req'[s].todo = Tail(req[s].todo), UNCHANGED <<rows, ordinaryCredit, priorityCredit>>
    PROVE  /\ Done(s)' = Done(s) + 1
           /\ Len(req'[s].todo) <= Len(rows')
           /\ \A i \in 1 .. Len(req'[s].todo) : req'[s].todo[i] = RowOf(rows[Done(s) + i])'
  <1> DEFINE todo == req[s].todo
  <1>1. /\ todo \in Seq(Snapshot) /\ Len(rows) \in Nat
    BY ReadyFacts DEF Requests
  <1>2. /\ Len(todo) <= Len(rows)
        /\ \A i \in 1 .. Len(todo) : todo[i] = RowOf(rows[Len(rows) - Len(todo) + i])
    BY DEF Ready, Mirrored, Done
  <1>3. /\ Len(todo) \in Nat /\ Len(Tail(todo)) = Len(todo) - 1
        /\ \A i \in 1 .. Len(todo) - 1 : Tail(todo)[i] = todo[i + 1]
    BY <1>1
  <1>4. /\ Len(req'[s].todo) = Len(todo) - 1 /\ Len(rows') = Len(rows)
        /\ Done(s) = Len(rows) - Len(todo) /\ Done(s)' = Len(rows') - Len(req'[s].todo)
    BY <1>3 DEF Done
  <1> HIDE DEF todo
  <1>5. /\ Done(s)' = Done(s) + 1 /\ Done(s) \in Int
        /\ Len(req'[s].todo) <= Len(rows')
    BY <1>1, <1>2, <1>3, <1>4
  <1>6. ASSUME NEW i \in 1 .. Len(req'[s].todo)
        PROVE  req'[s].todo[i] = RowOf(rows[Done(s) + i])'
    <2>1. i + 1 \in 1 .. Len(todo) /\ req'[s].todo[i] = todo[i + 1]  BY <1>3, <1>4 DEF todo
    <2>2. Len(rows) - Len(todo) + (i + 1) = Done(s)' + i  BY <1>1, <1>3, <1>4, <1>5
    <2>3. todo[i + 1] = RowOf(rows[Done(s)' + i])  BY <1>2, <2>1, <2>2
    <2> QED  BY <2>1, <2>3 DEF RowOf
  <1> QED  BY <1>5, <1>6

LEMMA SeedOrdinaryStill ==
    ASSUME NEW s \in Slots, Ready(s), SeedOrdinary(s)
    PROVE  Still(s)
  <1>1. /\ req[s].pc = "seed" /\ req[s].todo # <<>> /\ UNCHANGED <<ledger, seeded>>
    BY DEF SeedOrdinary, At
  <1>2. PICK m \in Nat : m = Done(s)  BY <1>1, SeedFacts
  <1>3. PICK u \in Users : u = rows[m + 1]  BY <1>1, <1>2, SeedFacts
  <1> DEFINE written == Enqueue(redis, "ordinary", u, ordinaryCredit[u])
  <1>4. /\ m < Len(rows) /\ Head(req[s].todo) = RowOf(u)
        /\ u \notin Listed(rows, m) /\ Listed(rows, m) \subseteq Users
        /\ Listed(rows, m + 1) = Listed(rows, m) \union {u}
    BY <1>1, <1>2, <1>3, SeedFacts
  <1>5. UNCHANGED <<rows, ordinaryCredit, priorityCredit, seeded>>  BY <1>1 DEF ledger
  <1>6. Head(req[s].todo).uid = u /\ Head(req[s].todo).ordinary = ordinaryCredit[u]
        /\ Head(req[s].todo).priority = priorityCredit[u]
    BY <1>4 DEF RowOf
  <1>7. redis' = written  BY <1>6 DEF SeedOrdinary
  <1>8. /\ rows \in Seq(Users) /\ ordinaryCredit \in [Users -> Int] /\ priorityCredit \in [Users -> Int]
        /\ Sound(redis) /\ req \in [Slots -> Requests] /\ req[s] \in Requests
        /\ priorityCredit[u] >= 0
    BY ReadyFacts DEF Ready
  <1>9. Rebuilt(m, m)  BY <1>1, <1>2 DEF Ready, Mirrored
  <1>10. Rebuilt(m + 1, m)'
    <2> DEFINE pri == CreditOf(m)
    <2>1. Shows(redis, rows, m, ordinaryCredit, pri)  BY <1>9 DEF Rebuilt
    <2>2. pri' = pri  BY <1>5 DEF CreditOf
    <2>3. ordinaryCredit[u] \in Int /\ u \notin Members(redis, "ordinary")
      BY <1>4, <1>8, <2>1 DEF Shows
    <2> HIDE DEF pri
    <2>4. Shows(written, rows, m + 1, ordinaryCredit, pri)
      BY <1>3, <1>4, <1>8, <2>1, <2>3, ShowsEnqueueOrdinary
    <2>5. Joined(redis, written, "ordinary", u, ordinaryCredit[u])
      BY <1>8, <2>3, EnqueueReads DEF Kinds
    <2>6. \A v \in Users : written.score["priority"][v] = redis.score["priority"][v]
      BY <2>5 DEF Joined, Entry, SameElsewhere, Kinds
    <2>7. /\ Members(redis', "priority") = Members(redis, "priority")
          /\ Active(redis', "priority") = Active(redis, "priority")
      BY <1>7, <2>6 DEF Members, Active
    <2> HIDE DEF written
    <2>8. Shows(redis', rows', m + 1, ordinaryCredit', CreditOf(m)')
      BY <1>5, <1>7, <2>2, <2>4 DEF pri
    <2> QED  BY <1>9, <2>7, <2>8 DEF Rebuilt
  <1>11. req[s].uid \in Published /\ ~seeded  BY <1>1 DEF Ready, Told
  <1>12. CASE priorityCredit[u] > 0 /\ GoTo(s, "seedPriority")
    <2>1. req'[s].pc = "seedPriority" /\ req'[s].uid = req[s].uid /\ req'[s].todo = req[s].todo
      BY <1>12, GoToIs DEF PCs
    <2>2. Told(s)'  BY <1>5, <1>11, <2>1 DEF Told, Published
    <2>3. Done(s)' = m  BY <1>2, <1>5, <2>1 DEF Done
    <2>4. /\ Len(req'[s].todo) <= Len(rows')
          /\ \A i \in 1 .. Len(req'[s].todo) : req'[s].todo[i] = RowOf(rows[m + i])'
      BY <1>1, <1>2, <1>5, <2>1 DEF Ready, Mirrored, RowOf
    <2>5. Head(req'[s].todo).priority > 0  BY <1>6, <1>12, <2>1
    <2>6. Mirrored(s)'
      <3>1. Rebuilt(Done(s) + 1, Done(s))'  BY <1>10, <2>3 DEF Rebuilt, CreditOf
      <3>2. \A i \in 1 .. Len(req'[s].todo) : req'[s].todo[i] = RowOf(rows[Done(s) + i])'
        BY <2>3, <2>4 DEF RowOf
      <3> QED  BY <1>5, <1>11, <2>1, <2>4, <2>5, <3>1, <3>2 DEF Mirrored
    <2> QED  BY <2>2, <2>6 DEF Still
  <1>13. CASE priorityCredit[u] <= 0 /\ Become(s, [req[s] EXCEPT !.todo = Tail(@)])
    <2>1. req'[s].pc = "seed" /\ req'[s].uid = req[s].uid /\ req'[s].todo = Tail(req[s].todo)
      BY <1>1, <1>8, <1>13 DEF Become, Requests
    <2>2. Told(s)'  BY <1>5, <1>11, <2>1 DEF Told, Published
    <2>3. /\ Done(s)' = m + 1 /\ Len(req'[s].todo) <= Len(rows')
          /\ \A i \in 1 .. Len(req'[s].todo) : req'[s].todo[i] = RowOf(rows[Done(s) + i])'
      BY <1>1, <1>2, <1>5, <2>1, NextSeed
    <2>4. priorityCredit[u] = 0 /\ priorityCredit'[u] = 0  BY <1>5, <1>8, <1>13
    <2>5. Rebuilt(m + 1, m + 1)'
      <3>1. \A v \in Users : CreditOf(m + 1)'[v] = CreditOf(m)'[v]
        BY <1>4, <1>5, <2>4 DEF CreditOf
      <3> QED  BY <1>10, <3>1 DEF Rebuilt, Shows
    <2>6. Rebuilt(Done(s), Done(s))'  BY <2>3, <2>5 DEF Rebuilt, CreditOf
    <2>7. Mirrored(s)'
      BY <1>5, <1>11, <2>1, <2>3, <2>6 DEF Mirrored
    <2> QED  BY <2>2, <2>7 DEF Still
  <1> QED  BY <1>6, <1>12, <1>13 DEF SeedOrdinary

LEMMA SeedPriorityStill ==
    ASSUME NEW s \in Slots, Ready(s), SeedPriority(s)
    PROVE  Still(s)
  <1>1. /\ req[s].pc = "seedPriority" /\ req[s].todo # <<>> /\ UNCHANGED <<ledger, seeded>>
    BY ReadyFacts DEF SeedPriority, At, HeadPCs
  <1>2. PICK m \in Nat : m = Done(s)  BY <1>1, SeedFacts
  <1>3. PICK u \in Users : u = rows[m + 1]  BY <1>1, <1>2, SeedFacts
  <1> DEFINE written == Enqueue(redis, "priority", u, priorityCredit[u])
  <1>4. /\ Head(req[s].todo) = RowOf(u)
        /\ u \notin Listed(rows, m) /\ Listed(rows, m) \subseteq Users
        /\ Listed(rows, m + 1) = Listed(rows, m) \union {u}
    BY <1>1, <1>2, <1>3, SeedFacts
  <1>5. UNCHANGED <<rows, ordinaryCredit, priorityCredit, seeded>>  BY <1>1 DEF ledger
  <1>6. Head(req[s].todo).uid = u /\ Head(req[s].todo).priority = priorityCredit[u]
    BY <1>4 DEF RowOf
  <1>7. redis' = written  BY <1>6 DEF SeedPriority
  <1>8. /\ priorityCredit \in [Users -> Int] /\ Sound(redis)
        /\ req \in [Slots -> Requests] /\ req[s] \in Requests
    BY ReadyFacts DEF Ready
  <1>9. Rebuilt(m + 1, m) /\ priorityCredit[u] > 0  BY <1>1, <1>2, <1>6 DEF Ready, Mirrored
  <1>10. u \notin Members(redis, "priority")
    <2>1. CreditOf(m)[u] = 0  BY <1>4 DEF CreditOf
    <2>2. redis.count["priority"][u] = 0  BY <1>9, <2>1 DEF Rebuilt, Shows
    <2>3. u \notin Active(redis, "priority")  BY <1>8, <2>2, SoundFacts DEF Kinds
    <2> QED  BY <1>9, <2>3 DEF Rebuilt
  <1>11. Rebuilt(m + 1, m + 1)'
    <2> DEFINE pri == CreditOf(m)
               pri2 == CreditOf(m + 1)
    <2>1. Shows(redis, rows, m + 1, ordinaryCredit, pri)  BY <1>9 DEF Rebuilt
    <2>2. pri2' = pri2  BY <1>5 DEF CreditOf
    <2>3. /\ priorityCredit[u] \in Int /\ Listed(rows, m + 1) \subseteq Users
          /\ \A v \in Users : pri2[v] = IF v = u THEN priorityCredit[u] ELSE pri[v]
      BY <1>4, <1>8 DEF CreditOf
    <2> HIDE DEF pri, pri2
    <2>4. Shows(written, rows, m + 1, ordinaryCredit, pri2)
      BY <1>8, <1>10, <2>1, <2>3, ShowsEnqueuePriority
    <2>5. Joined(redis, written, "priority", u, priorityCredit[u])
      BY <1>8, <1>10, <2>3, EnqueueReads DEF Kinds
    <2>6. /\ \A v \in Users \ {u} : written.score["priority"][v] = redis.score["priority"][v]
          /\ written.score["priority"][u] > 0 /\ written.score["priority"][u] \in Int
      BY <1>9, <2>5 DEF Joined, Entry, SameElsewhere, Kinds, RedisStates
    <2>7. Members(redis', "priority") = Active(redis', "priority")
      BY <1>7, <1>9, <2>6 DEF Members, Active, Rebuilt
    <2> HIDE DEF written
    <2>8. Shows(redis', rows', m + 1, ordinaryCredit', CreditOf(m + 1)')
      BY <1>5, <1>7, <2>2, <2>4 DEF pri2
    <2> QED  BY <2>7, <2>8 DEF Rebuilt
  <1>12. req[s].uid \in Published /\ ~seeded  BY <1>1 DEF Ready, Told
  <1>13. req'[s].pc = "seed" /\ req'[s].uid = req[s].uid /\ req'[s].todo = Tail(req[s].todo)
    BY <1>8 DEF SeedPriority, Become, Requests
  <1>14. Told(s)'  BY <1>5, <1>12, <1>13 DEF Told, Published
  <1>15. /\ Done(s)' = m + 1 /\ Len(req'[s].todo) <= Len(rows')
         /\ \A i \in 1 .. Len(req'[s].todo) : req'[s].todo[i] = RowOf(rows[Done(s) + i])'
    BY <1>1, <1>2, <1>5, <1>13, NextSeed
  <1>16. Rebuilt(Done(s), Done(s))'  BY <1>11, <1>15 DEF Rebuilt, CreditOf
  <1>17. Mirrored(s)'  BY <1>5, <1>12, <1>13, <1>15, <1>16 DEF Mirrored
  <1> QED  BY <1>14, <1>17 DEF Still

LEMMA MarkSeededStill ==
    ASSUME NEW s \in Slots, Ready(s), MarkSeeded(s)
    PROVE  Still(s)
  <1>1. /\ req[s].pc = "seed" /\ req[s].todo = <<>> /\ UNCHANGED <<ledger, redis>>
        /\ req'[s].pc = "listClaims" /\ req'[s].uid = req[s].uid /\ seeded' = TRUE
    BY GoToIs DEF MarkSeeded, At, PCs
  <1>2. UNCHANGED <<rows, ordinaryCredit, priorityCredit>>  BY <1>1 DEF ledger
  <1>3. req[s].uid \in Published  BY <1>1 DEF Ready, Told
  <1>4. Told(s)'  BY <1>1, <1>2, <1>3 DEF Told, Published
  <1>5. /\ Len(rows) \in Nat /\ Published = Listed(rows, Len(rows)) /\ Published \subseteq Users
        /\ \A u \in Users \ Published : priorityCredit[u] = 0
        /\ ordinaryCredit \in [Users -> Int] /\ priorityCredit \in [Users -> Int]
    BY ReadyFacts
  <1>6. Done(s) = Len(rows)  BY <1>1, <1>5 DEF Done
  <1>7. Shows(redis, rows, Len(rows), ordinaryCredit, CreditOf(Len(rows)))
    BY <1>1, <1>6 DEF Ready, Mirrored, Rebuilt
  <1>8. /\ \A u \in Users : Ordinary(req[s])'[u] = ordinaryCredit[u]
        /\ \A u \in Users : Priority(req[s])'[u] = CreditOf(Len(rows))[u]
    BY <1>1, <1>2, <1>5 DEF Ordinary, Priority, OwedOrdinary, OwedPriority, CreditOf
  <1>9. Shows(redis', rows', Len(rows'), Ordinary(req[s])', Priority(req[s])')
    BY <1>1, <1>2, <1>5, <1>7, <1>8 DEF Shows
  <1>10. Shown(s)'  BY <1>9 DEF Shown
  <1> QED  BY <1>1, <1>4, <1>10, StillMirrored DEF Still

LEMMA RowThere ==
    ASSUME NEW s \in Slots, Ready(s), RowGone(s)
    PROVE  FALSE
  BY DEF Ready, Told, RowGone, At

-----------------------------------------------------------------------------
(* UseActivity: selection and delivery *)
LEMMA QuietMirrored ==
    ASSUME NEW s \in Slots, Ready(s), UNCHANGED <<rows, ordinaryCredit, priorityCredit, seeded>>,
           redis'.score = redis.score, redis'.count = redis.count,
           req[s].pc \notin {"loadRow", "enqueueOwn", "invalidate", "invalidateThenEarn"} \union Owing,
           req'[s].pc \notin {"loadSeed", "seed", "seedPriority"} \union Owing
    PROVE  Mirrored(s)'
  <1>1. seeded' => Shown(s)'  BY SeededShown, StillQuiet
  <1> QED  BY <1>1, StillMirrored

LEMMA ListClaimsStill ==
    ASSUME NEW s \in Slots, Ready(s), ListClaims(s)
    PROVE  Still(s)
  <1> DEFINE received == {p \in Users : <<req[s].uid, p>> \in claims}
  <1>1. req \in [Slots -> Requests] /\ req[s] \in Requests  BY ReadyFacts
  <1>2. /\ req[s].pc = "listClaims" /\ UNCHANGED <<ledger, redis, seeded>>
        /\ req'[s] = [req[s] EXCEPT !.pc = "nextPriority", !.tries = 0,
                                    !.claimed = received, !.excluded = received]
    BY <1>1 DEF ListClaims, At, Become
  <1>3. /\ req'[s].pc = "nextPriority" /\ req'[s].tries = 0 /\ req'[s].uid = req[s].uid
        /\ req'[s].claimed = received /\ req'[s].excluded = received
    BY <1>1, <1>2 DEF Requests
  <1>4. UNCHANGED <<rows, ordinaryCredit, priorityCredit, claims>>  BY <1>2 DEF ledger
  <1>5. req[s].uid \in Published /\ seeded  BY <1>2 DEF Ready, Told
  <1>6. Told(s)'  BY <1>2, <1>3, <1>4, <1>5 DEF Told, Published, Received
  <1>7. Mirrored(s)'  BY <1>2, <1>3, <1>4, QuietMirrored DEF Owing
  <1> QED  BY <1>6, <1>7 DEF Still

LEMMA OneMore ==
    ASSUME NEW S, IsFiniteSet(S), NEW x
    PROVE  /\ IsFiniteSet(S \union {x}) /\ Cardinality(S \union {x}) \in Nat
           /\ Cardinality(S) \in Nat /\ Cardinality(S \union {x}) <= Cardinality(S) + 1
  <1> DEFINE C == Cardinality(S \union {x})
  <1>1. IsFiniteSet(S \union {x}) /\ C = IF x \in S THEN Cardinality(S) ELSE Cardinality(S) + 1
    BY FS_AddElement
  <1>2. Cardinality(S) \in Nat /\ C \in Nat  BY <1>1, FS_CardinalityType
  <1> HIDE DEF C
  <1>3. C <= Cardinality(S) + 1  BY <1>1, <1>2
  <1> QED  BY <1>1, <1>2, <1>3 DEF C

(* The window of nextActivityScript is wide enough: nobody is returned only when every
   active publisher is excluded or the claimant. *)
LEMMA WindowIsWide ==
    ASSUME NEW r, Sound(r), NEW k \in Kinds, NEW c, NEW X \in SUBSET Users, NextActive(r, k, c, X) = Nobody
    PROVE  Active(r, k) \subseteq X \union {c}
  <1> SUFFICES ASSUME Active(r, k) \ (X \union {c}) # {}
               PROVE  FALSE
    OBVIOUS
  <1> DEFINE others == Active(r, k) \ (X \union {c})
             T == {Place(r, k, u) : u \in others}
  <1>1. r \in RedisStates /\ others \subseteq Users  BY DEF Sound, Active
  <1>2. T \in SUBSET Nat /\ T # {}  BY <1>1, SoundFacts
  <1>3. PICK x \in T : \A y \in T : x <= y  BY <1>2, LeastElement
  <1>4. PICK u \in others : x = Place(r, k, u)  OBVIOUS
  <1> DEFINE before == {v \in Active(r, k) : r.score[k][v] <= r.score[k][u]}
  <1>5. before \subseteq (X \union {c}) \union {u}
    <2> SUFFICES ASSUME NEW v \in before, v \notin X \union {c}  PROVE v = u
      OBVIOUS
    <2>1. v \in others /\ v \in Users /\ u \in Users  BY DEF Active
    <2>2. /\ r.score[k][v] \in Int /\ r.score[k][u] \in Int
          /\ r.score[k][v] > 0 /\ r.score[k][u] > 0
      BY <2>1, SoundFacts DEF Active
    <2>3. Place(r, k, u) <= Place(r, k, v)  BY <1>3, <1>4, <2>1
    <2>4. Place(r, k, v) = r.score[k][v] /\ Place(r, k, u) = r.score[k][u]
      BY <2>2 DEF Place, Abs
    <2>5. Place(r, k, v) = Place(r, k, u)  BY <2>2, <2>3, <2>4
    <2>6. v \in Members(r, k) /\ u \in Members(r, k)  BY <2>1, <2>2 DEF Members
    <2>7. SoundEntry(r, k, u)  BY <2>1 DEF Sound
    <2> QED  BY <2>5, <2>6, <2>7 DEF SoundEntry
  <1>6. Cardinality(before) <= Cardinality(X) + 2
    <2>1. IsFiniteSet(X)  BY UsersAreFinite, FS_Subset
    <2>2. /\ IsFiniteSet(X \union {c})
          /\ Cardinality(X) \in Nat /\ Cardinality(X \union {c}) \in Nat
          /\ Cardinality(X \union {c}) <= Cardinality(X) + 1
      BY <2>1, OneMore
    <2>3. /\ IsFiniteSet((X \union {c}) \union {u})
          /\ Cardinality((X \union {c}) \union {u}) \in Nat
          /\ Cardinality((X \union {c}) \union {u}) <= Cardinality(X \union {c}) + 1
      BY <2>2, OneMore
    <2>4. Cardinality(before) <= Cardinality((X \union {c}) \union {u}) /\ Cardinality(before) \in Nat
      BY <1>5, <2>3, FS_Subset, FS_CardinalityType
    <2> HIDE DEF before
    <2> QED  BY <2>2, <2>3, <2>4
  <1> DEFINE free == Window(r, k, Cardinality(X) + 2) \ (X \union {c})
  <1>7. u \in free  BY <1>6 DEF Window
  <1>8. free \in SUBSET Users  BY DEF Window, Active
  <1>9. NextActive(r, k, c, X) = Oldest(free, r, k)  BY <1>7 DEF NextActive
  <1>10. Oldest(free, r, k) \in Users
    <2> HIDE DEF free
    <2> QED  BY <1>1, <1>7, <1>8, OldestType
  <1> QED  BY <1>9, <1>10, NobodyIsNoUser

LEMMA NextPriorityStill ==
    ASSUME NEW s \in Slots, Ready(s), NextPriority(s)
    PROVE  Still(s)
  <1> DEFINE q == req[s]
             chosen == NextActive(redis, "priority", q.uid, q.excluded)
  <1>1. /\ req \in [Slots -> Requests] /\ q \in Requests /\ redis \in RedisStates /\ Sound(redis)
    BY ReadyFacts DEF Ready
  <1>2. /\ q.pc = "nextPriority" /\ UNCHANGED <<ledger, redis, seeded>>
    BY DEF NextPriority, At
  <1>3. UNCHANGED <<rows, ordinaryCredit, priorityCredit, claims>>  BY <1>2 DEF ledger
  <1>4. /\ q.uid \in Published /\ seeded /\ q.tries = 0
        /\ q.claimed = Received(q.uid) /\ q.excluded = Received(q.uid)
    BY <1>2 DEF Ready, Told
  <1>5. MaxTries > 0 /\ MaxTries \in Nat  BY TriesArePositive
  <1>6. CASE /\ chosen # Nobody
             /\ Become(s, [q EXCEPT !.pc = "deliverPriority", !.cand = chosen, !.tries = @ + 1])
    <2>1. chosen \in Active(redis, "priority") \ Received(q.uid)
      BY <1>1, <1>4, <1>6, NextActiveType DEF Kinds
    <2> HIDE DEF chosen
    <2>2. /\ req'[s].pc = "deliverPriority" /\ req'[s].cand = chosen
          /\ req'[s].uid = q.uid /\ req'[s].claimed = q.claimed
      BY <1>1, <1>6 DEF Become, Requests
    <2>3. Told(s)'  BY <1>2, <1>3, <1>4, <2>1, <2>2 DEF Told, Published, Received
    <2>4. Mirrored(s)'  BY <1>2, <1>3, <2>2, QuietMirrored DEF Owing
    <2> QED  BY <2>3, <2>4 DEF Still
  <1>7. CASE /\ q.tries >= MaxTries \/ chosen = Nobody
             /\ Become(s, [q EXCEPT !.pc = "nextOrdinary", !.tries = 0])
    <2>1. chosen = Nobody  BY <1>4, <1>5, <1>7
    <2>2. Active(redis, "priority") \subseteq Received(q.uid) \union {q.uid}
      <3>1. q.excluded \in SUBSET Users /\ "priority" \in Kinds  BY <1>1 DEF Requests, Kinds
      <3> HIDE DEF q
      <3> QED  BY <1>1, <1>4, <2>1, <3>1, WindowIsWide
    <2>3. /\ req'[s].pc = "nextOrdinary" /\ req'[s].tries = 0
          /\ req'[s].uid = q.uid /\ req'[s].claimed = q.claimed
      BY <1>1, <1>7 DEF Become, Requests
    <2>4. Told(s)'  BY <1>2, <1>3, <1>4, <2>2, <2>3 DEF Told, Published, Received
    <2>5. Mirrored(s)'  BY <1>2, <1>3, <2>3, QuietMirrored DEF Owing
    <2> QED  BY <2>4, <2>5 DEF Still
  <1> QED  BY <1>6, <1>7 DEF NextPriority

LEMMA ServePriorityStill ==
    ASSUME NEW s \in Slots, Ready(s), ServePriority(s)
    PROVE  Still(s)
  <1>1. ProgramTypeOK /\ RequestsOK  BY DEF Ready, IInv, TypeOK
  <1>2. PICK c \in Users, p \in Users : c = req[s].uid /\ p = req[s].cand /\ c # p
    BY <1>1, DeliveryFacts
  <1>3. /\ req[s].pc = "deliverPriority" /\ UNCHANGED <<rows, redis, seeded>>
        /\ req'[s].pc = "consumePriority" /\ req'[s].uid = c /\ req'[s].cand = p
    BY <1>2, GoToIs DEF ServePriority, At, PCs
  <1>4. c \in Published  BY <1>2, <1>3 DEF Ready, Told
  <1>5. /\ priorityCredit' = [priorityCredit EXCEPT ![p] = @ - 1]
        /\ ordinaryCredit' = [ordinaryCredit EXCEPT ![c] = @ + 1]
    BY <1>2, <1>4 DEF ServePriority, CountClaim
  <1>6. Told(s)'  BY <1>3, <1>4 DEF Told, Published
  <1>7. /\ \A v \in Users : Ordinary(req[s])'[v] = Ordinary(req[s])[v]
        /\ \A v \in Users : Priority(req[s])'[v] = Priority(req[s])[v]
    <2>1. ordinaryCredit \in [Users -> Int] /\ priorityCredit \in [Users -> Int]  BY ReadyFacts
    <2> QED  BY <1>2, <1>3, <1>5, <2>1 DEF Ordinary, Priority, OwedOrdinary, OwedPriority
  <1>8. seeded' => Shown(s)'  BY <1>3, <1>7, SeededShown, StillShown
  <1> QED  BY <1>3, <1>6, <1>8, StillMirrored DEF Still

LEMMA ServeOrdinaryStill ==
    ASSUME NEW s \in Slots, Ready(s), ServeOrdinary(s)
    PROVE  Still(s)
  <1>1. ProgramTypeOK /\ RequestsOK  BY DEF Ready, IInv, TypeOK
  <1>2. PICK c \in Users, p \in Users : c = req[s].uid /\ p = req[s].cand /\ c # p /\ p \in Published
    BY <1>1, DeliveryFacts
  <1>3. /\ req[s].pc = "deliverOrdinary" /\ UNCHANGED <<rows, priorityCredit, redis, seeded>>
        /\ req'[s].pc = "consumeOrdinary" /\ req'[s].uid = c /\ req'[s].cand = p
    BY <1>2, GoToIs DEF ServeOrdinary, At, PCs
  <1>4. c \in Published  BY <1>2, <1>3 DEF Ready, Told
  <1>5. ordinaryCredit \in [Users -> Int] /\ priorityCredit \in [Users -> Int]  BY ReadyFacts
  <1>6. \A v \in Users : ordinaryCredit'[v] = ordinaryCredit[v] + (IF v = c THEN 1 ELSE 0)
                                                                - (IF v = p THEN 1 ELSE 0)
    <2>1. ordinaryCredit' = [[ordinaryCredit EXCEPT ![p] = @ - 1] EXCEPT ![c] = @ + 1]
      BY <1>2, <1>4 DEF ServeOrdinary, CountClaim
    <2> QED  BY <1>2, <1>5, <2>1
  <1>7. Told(s)'  BY <1>2, <1>3, <1>4 DEF Told, Published
  <1>8. \A v \in Users : /\ Ordinary(req[s])'[v] = Ordinary(req[s])[v]
                         /\ Priority(req[s])'[v] = Priority(req[s])[v]
    BY <1>2, <1>3, <1>5, <1>6 DEF Ordinary, Priority, OwedOrdinary, OwedPriority
  <1>9. seeded' => Shown(s)'  BY <1>3, <1>8, SeededShown, StillShown
  <1> QED  BY <1>3, <1>7, <1>9, StillMirrored DEF Still

(* No selection is stale, and none has been received before. *)
LEMMA NeverStale ==
    ASSUME NEW s \in Slots, Ready(s),
           \/ SkipPriority(s) \/ StalePriority(s) \/ RemovePriority(s)
           \/ StaleOrdinary(s) \/ RemoveOrdinary(s)
    PROVE  FALSE
  <1>1. Told(s)  BY DEF Ready
  <1>2. CASE RemovePriority(s) \/ RemoveOrdinary(s)
    BY <1>1, <1>2 DEF Told, RemovePriority, RemoveOrdinary, At
  <1>3. CASE SkipPriority(s) \/ StalePriority(s)
    <2>1. /\ req[s].pc = "deliverPriority" /\ seeded
          /\ req[s].cand \in Active(redis, "priority") /\ req[s].cand \notin Received(req[s].uid)
      BY <1>1, <1>3 DEF Told, SkipPriority, StalePriority, At
    <2>2. req[s].cand \in Users /\ req[s].pc \notin Owing  BY <2>1 DEF Active, Owing
    <2>3. priorityCredit[req[s].cand] > 0 /\ req[s].cand \in Published
      <3>1. priorityCredit[req[s].cand] > 0  BY <2>1, <2>2, SeededShown, ShownCounts
      <3> QED  BY <2>2, <3>1, ReadyFacts
    <2> QED  BY <1>3, <2>1, <2>2, <2>3 DEF SkipPriority, StalePriority, HasCredit, Received
  <1>4. CASE StaleOrdinary(s)
    <2>1. req[s].pc = "deliverOrdinary" /\ seeded /\ req[s].cand \in Active(redis, "ordinary")
      BY <1>1, <1>4 DEF Told, StaleOrdinary, At
    <2>2. req[s].cand \in Users /\ req[s].pc \notin Owing  BY <2>1 DEF Active, Owing
    <2>3. ordinaryCredit[req[s].cand] > 0 /\ req[s].cand \in Published
      <3>1. ordinaryCredit[req[s].cand] > 0  BY <2>1, <2>2, SeededShown, ShownCounts
      <3> QED  BY <2>2, <3>1, ReadyFacts
    <2> QED  BY <1>4, <2>3 DEF StaleOrdinary, HasCredit
  <1> QED  BY <1>2, <1>3, <1>4

LEMMA NextOrdinaryStill ==
    ASSUME NEW s \in Slots, Ready(s), NextOrdinary(s)
    PROVE  Still(s)
  <1> DEFINE q == req[s]
             chosen == CursorChoice(redis, q.uid, q.claimed)
  <1>1. req \in [Slots -> Requests] /\ q \in Requests /\ redis \in RedisStates  BY ReadyFacts
  <1>2. /\ q.pc = "nextOrdinary" /\ UNCHANGED <<ledger, seeded>>
        /\ redis' = CursorMove(redis, chosen) /\ chosen # Nobody
    BY DEF NextOrdinary, At
  <1>3. UNCHANGED <<rows, ordinaryCredit, priorityCredit, claims>>  BY <1>2 DEF ledger
  <1>4. chosen \in Active(redis, "ordinary") /\ chosen \in Users
    BY <1>1, <1>2, CursorChoiceType DEF Active
  <1>5. /\ req'[s].pc = "deliverOrdinary" /\ req'[s].cand = chosen
        /\ req'[s].uid = q.uid /\ req'[s].claimed = q.claimed
    BY <1>1, <1>4 DEF NextOrdinary, Become, Requests
  <1> HIDE DEF chosen
  <1>6. redis'.score = redis.score /\ redis'.count = redis.count
    BY <1>1, <1>2, <1>4, CursorMoveReads
  <1>7. q.uid \in Published /\ seeded /\ q.claimed = Received(q.uid)  BY <1>2 DEF Ready, Told
  <1>8. Told(s)'  BY <1>2, <1>3, <1>4, <1>5, <1>6, <1>7 DEF Told, Published, Received, Active
  <1>9. Mirrored(s)'  BY <1>2, <1>3, <1>5, <1>6, QuietMirrored DEF Owing
  <1> QED  BY <1>8, <1>9 DEF Still

LEMMA EndStill ==
    ASSUME NEW s \in Slots, Ready(s), QueueEmpty(s) \/ LoseClaim(s)
    PROVE  Still(s)
  <1>1. /\ Finish(s) /\ UNCHANGED <<ledger, redis, seeded>>
        /\ req[s].pc \notin {"loadRow", "enqueueOwn", "invalidate", "invalidateThenEarn"} \union Owing
    BY DEF QueueEmpty, LoseClaim, At, Owing
  <1>2. req'[s].pc = "idle"  BY <1>1, FinishIs
  <1>3. UNCHANGED <<rows, ordinaryCredit, priorityCredit>>  BY <1>1 DEF ledger
  <1>4. Mirrored(s)'  BY <1>1, <1>2, <1>3, QuietMirrored DEF Owing
  <1> QED  BY <1>2, <1>4 DEF Still, Told

LEMMA ConsumePriorityStill ==
    ASSUME NEW s \in Slots, Ready(s), ConsumePriority(s)
    PROVE  Still(s)
  <1> DEFINE c == req[s].uid
             p == req[s].cand
             written == Adjust(redis, "priority", p, -1)
  <1>1. /\ req[s].pc = "consumePriority" /\ UNCHANGED <<ledger, seeded>>
        /\ c \in Published /\ c \in Users /\ p \in Users
        /\ priorityCredit \in [Users -> Int] /\ ordinaryCredit \in [Users -> Int]
    BY ReadyFacts DEF ConsumePriority, At, CandPCs, Ready, Told
  <1>2. UNCHANGED <<rows, ordinaryCredit, priorityCredit, seeded>>  BY <1>1 DEF ledger
  <1>3. CASE RedisFault(written) /\ GoTo(s, "invalidateThenEarn")
    <2>1. req'[s].pc = "invalidateThenEarn" /\ req'[s].uid = req[s].uid  BY <1>3, GoToIs DEF PCs
    <2> QED  BY <1>1, <1>2, <1>3, <2>1, BrokenStill
  <1>4. CASE RedisWrite(written) /\ GoTo(s, "earn")
    <2>1. redis' = written /\ req'[s].pc = "earn" /\ req'[s].uid = c
      BY <1>4, GoToIs DEF RedisWrite, PCs
    <2>2. /\ \A v \in Users : Ordinary(req[s])'[v] = Ordinary(req[s])[v]
          /\ \A v \in Users : Priority(req[s])'[v] =
                IF v = p THEN Priority(req[s])[p] + (-1) ELSE Priority(req[s])[v]
      BY <1>1, <1>2, <2>1 DEF Ordinary, Priority, OwedOrdinary, OwedPriority
    <2>3. seeded => Shown(s)  BY <1>1, SeededShown
    <2>4. Told(s)'  BY <1>1, <1>2, <2>1 DEF Told, Published
    <2> HIDE DEF c, p
    <2>5. seeded' => Shown(s)'  BY <1>1, <1>2, <2>1, <2>2, <2>3, AdjustedPriority
    <2> QED  BY <2>1, <2>4, <2>5, StillMirrored DEF Still
  <1> QED  BY <1>3, <1>4, NeverResent DEF ConsumePriority, AdjustCall, AdjustFault

LEMMA ConsumeOrdinaryStill ==
    ASSUME NEW s \in Slots, Ready(s), ConsumeOrdinary(s)
    PROVE  Still(s)
  <1> DEFINE c == req[s].uid
             p == req[s].cand
             written == Adjust(redis, "ordinary", p, -1)
  <1>1. /\ req[s].pc = "consumeOrdinary" /\ UNCHANGED <<ledger, seeded>>
        /\ c \in Published /\ c \in Users /\ p \in Published /\ p \in Users /\ c # p
        /\ priorityCredit \in [Users -> Int] /\ ordinaryCredit \in [Users -> Int]
    BY ReadyFacts DEF ConsumeOrdinary, At, CandPCs, Ready, Told
  <1>2. UNCHANGED <<rows, ordinaryCredit, priorityCredit, seeded>>  BY <1>1 DEF ledger
  <1>3. CASE RedisFault(written) /\ GoTo(s, "invalidateThenEarn")
    <2>1. req'[s].pc = "invalidateThenEarn" /\ req'[s].uid = req[s].uid  BY <1>3, GoToIs DEF PCs
    <2> QED  BY <1>1, <1>2, <1>3, <2>1, BrokenStill
  <1>4. CASE RedisWrite(written) /\ GoTo(s, "earn")
    <2>1. redis' = written /\ req'[s].pc = "earn" /\ req'[s].uid = c
      BY <1>4, GoToIs DEF RedisWrite, PCs
    <2>2. /\ \A v \in Users : Priority(req[s])'[v] = Priority(req[s])[v]
          /\ \A v \in Users : Ordinary(req[s])'[v] =
                IF v = p THEN Ordinary(req[s])[p] + (-1) ELSE Ordinary(req[s])[v]
      BY <1>1, <1>2, <2>1 DEF Ordinary, Priority, OwedOrdinary, OwedPriority
    <2>3. seeded => Shown(s)  BY <1>1, SeededShown
    <2>4. Told(s)'  BY <1>1, <1>2, <2>1 DEF Told, Published
    <2> HIDE DEF c, p
    <2>5. seeded' => Shown(s)'  BY <1>1, <1>2, <2>1, <2>2, <2>3, AdjustedOrdinary
    <2> QED  BY <2>1, <2>4, <2>5, StillMirrored DEF Still
  <1> QED  BY <1>3, <1>4, NeverResent DEF ConsumeOrdinary, AdjustCall, AdjustFault

LEMMA EarnStill ==
    ASSUME NEW s \in Slots, Ready(s), Earn(s)
    PROVE  Still(s)
  <1> DEFINE c == req[s].uid
             written == Adjust(redis, "ordinary", c, 1)
  <1>1. /\ req[s].pc = "earn" /\ UNCHANGED <<ledger, seeded>>
        /\ c \in Published /\ c \in Users
        /\ priorityCredit \in [Users -> Int] /\ ordinaryCredit \in [Users -> Int]
    BY ReadyFacts DEF Earn, At, Ready, Told
  <1>2. UNCHANGED <<rows, ordinaryCredit, priorityCredit, seeded>>  BY <1>1 DEF ledger
  <1>3. CASE RedisFault(written) /\ GoTo(s, "invalidate")
    <2>1. req'[s].pc = "invalidate" /\ req'[s].uid = req[s].uid  BY <1>3, GoToIs DEF PCs
    <2> QED  BY <1>1, <1>2, <1>3, <2>1, BrokenStill
  <1>4. CASE RedisWrite(written) /\ Finish(s)
    <2>1. redis' = written /\ req'[s].pc = "idle"  BY <1>4, FinishIs DEF RedisWrite
    <2>2. /\ \A v \in Users : Priority(req[s])'[v] = Priority(req[s])[v]
          /\ \A v \in Users : Ordinary(req[s])'[v] =
                IF v = c THEN Ordinary(req[s])[c] + 1 ELSE Ordinary(req[s])[v]
      BY <1>1, <1>2, <2>1 DEF Ordinary, Priority, OwedOrdinary, OwedPriority
    <2>3. seeded => Shown(s)  BY <1>1, SeededShown
    <2> HIDE DEF c
    <2>4. seeded' => Shown(s)'  BY <1>1, <1>2, <2>1, <2>2, <2>3, AdjustedOrdinary
    <2> QED  BY <2>1, <2>4, IdleStill
  <1> QED  BY <1>3, <1>4, NeverResent DEF Earn, AdjustCall, AdjustFault

LEMMA StepStill ==
    ASSUME NEW s \in Slots, Ready(s), TypeOK', Step(s)
    PROVE  Still(s)
  BY PublishStill, UseStill, BoostStill, LoadRowStill, EnqueueOwnStill, EnqueueOwnPriorityStill,
     InvalidateStill, NeverCutOff, AddBoostStill, CheckSeedStill, FlushStill, LoadSeedStill,
     SeedOrdinaryStill, SeedPriorityStill, MarkSeededStill, RowThere, ListClaimsStill,
     NextPriorityStill, ServePriorityStill, NeverStale, ConsumePriorityStill, NextOrdinaryStill,
     EndStill, ServeOrdinaryStill, ConsumeOrdinaryStill, EarnStill
     DEF Step

-----------------------------------------------------------------------------
(* The invariant: sound queues, rows of their own, and, unless a request or a rebuild
   ran across a reset, queues that say what MySQL says but for what is owed. *)
SeqInv ==
    /\ Sound(redis) /\ RowsInv
    /\ ~crossed => \A s \in Slots : Told(s) /\ Mirrored(s)

LEMMA QuietNight ==
    ASSUME NEW s \in Slots, req[s].pc = "idle", ~seeded
    PROVE  Told(s) /\ Mirrored(s)
  BY DEF Told, Mirrored

LEMMA InitSequential == Init => SeqInv
  <1> SUFFICES ASSUME Init PROVE SeqInv
    OBVIOUS
  <1>1. Sound(redis)  BY EmptyRedisType, FlushSound DEF Init
  <1>2. RowsInv  BY InitRowsInv
  <1>3. \A s \in Slots : req[s].pc = "idle" /\ ~seeded  BY DEF Init, Idle
  <1> QED  BY <1>1, <1>2, <1>3, QuietNight DEF SeqInv

LEMMA NextSequential ==
    ASSUME OneAtATime, IInv, IInv', SeqInv, [Next]_vars
    PROVE  SeqInv'
  <1>1. TypeOK /\ RequestsOK /\ TypeOK'  BY DEF IInv
  <1>2. Sound(redis)'  BY <1>1, NextSound DEF SeqInv
  <1>3. RowsInv'  BY <1>1, NextRowsInv DEF SeqInv
  <1>4. ASSUME ~crossed', NEW s \in Slots
        PROVE  Told(s)' /\ Mirrored(s)'
    <2>1. CASE UNCHANGED <<ledger, redis, seeded, req, crossed, spent>>
      <3>1. Told(s) /\ Mirrored(s)  BY <1>4, <2>1 DEF SeqInv
      <3>2. /\ UNCHANGED <<rows, ordinaryCredit, priorityCredit, claims, redis, seeded, req, spent>>
        BY <2>1 DEF ledger
      <3>3. Told(s)'  BY <3>1, <3>2 DEF Told, Published, RowOf, Received
      <3>4. /\ Ordinary(req[s])' = Ordinary(req[s]) /\ Priority(req[s])' = Priority(req[s])
            /\ \A l : CreditOf(l)' = CreditOf(l)
        BY <3>2 DEF Ordinary, Priority, OwedOrdinary, OwedPriority, CreditOf
      <3>5. Shown(s)' = Shown(s) /\ Fresh(s)' = Fresh(s)
        BY <3>2, <3>4 DEF Shown, Fresh
      <3>6. Done(s)' = Done(s)  BY <3>2 DEF Done
      <3>7. /\ Rebuilt(0, 0)' = Rebuilt(0, 0)
            /\ Rebuilt(Done(s), Done(s))' = Rebuilt(Done(s), Done(s))
            /\ Rebuilt(Done(s) + 1, Done(s))' = Rebuilt(Done(s) + 1, Done(s))
        BY <3>2, <3>4, <3>6 DEF Rebuilt, CreditOf
      <3>8. Mirrored(s)'
        BY <3>1, <3>2, <3>5, <3>6, <3>7 DEF Mirrored, RowOf
      <3> QED  BY <3>3, <3>8
    <2>2. CASE Crash
      <3>1. req'[s].pc = "idle" /\ ~seeded'  BY <2>2 DEF Crash, Idle
      <3> QED  BY <3>1 DEF Told, Mirrored
    <2>3. CASE FlushDay \/ EmptyTables
      <3>1. req'[s].pc = "idle" /\ ~seeded'
        <4>1. crossed' = ~AllIdle \/ crossed' = (crossed \/ seeded \/ ~AllIdle)
          BY <2>3 DEF FlushDay, EmptyTables
        <4>2. AllIdle /\ req' = req  BY <1>4, <2>3, <4>1 DEF FlushDay, EmptyTables
        <4>3. req'[s].pc = "idle"  BY <4>2 DEF AllIdle, At
        <4>4. CASE FlushDay  BY <4>3, <4>4 DEF FlushDay
        <4>5. CASE EmptyTables
          <5>1. crossed' = (crossed \/ seeded \/ ~AllIdle) /\ seeded' = seeded
            BY <4>5 DEF EmptyTables
          <5> QED  BY <1>4, <4>3, <5>1
        <4> QED  BY <2>3, <4>4, <4>5
      <3> QED  BY <3>1 DEF Told, Mirrored
    <2>4. ASSUME NEW t \in Slots, Step(t), UNCHANGED night
          PROVE  Told(s)' /\ Mirrored(s)'
      <3>1. s = t  BY DEF OneAtATime
      <3>2. Ready(s)  BY <1>4, <2>4 DEF SeqInv, Ready, night
      <3> QED  BY <1>1, <2>4, <3>1, <3>2, StepStill DEF Still
    <2> QED
      BY <2>1, <2>2, <2>3, <2>4 DEF Next, DailyReset, ResetFails, vars, night
  <1> QED  BY <1>2, <1>3, <1>4 DEF SeqInv

LEMMA Sequential == ASSUME OneAtATime PROVE Spec => [](IInv /\ SeqInv)
  <1>1. Init => SeqInv  BY InitSequential
  <1>2. IInv /\ IInv' /\ SeqInv /\ [Next]_vars => SeqInv'  BY NextSequential
  <1> QED  BY <1>1, <1>2, Inductive, PTL DEF Spec

(* At rest the queues show all rows. *)
LEMMA AtRest ==
    ASSUME OneAtATime, IInv, SeqInv, AllIdle, seeded, ~crossed
    PROVE  \E s \in Slots : Ready(s) /\ Shown(s) /\ req[s].pc \notin Owing
  <1>1. PICK s \in Slots : TRUE  BY DEF OneAtATime
  <1>2. Ready(s) /\ req[s].pc = "idle"  BY DEF Ready, SeqInv, AllIdle, At
  <1> QED  BY <1>2, SeededShown DEF Owing

(* README.md:165, :215: when nothing is under way, what the queues hold is what
   MySQL says, through publications, boosts, claims, resets, restarts and a failed write. *)
THEOREM CountsMirrorLedgerHolds == ASSUME OneAtATime PROVE Spec => []CountsMirrorLedger
  <1>1. IInv /\ SeqInv => CountsMirrorLedger
    <2> SUFFICES ASSUME IInv, SeqInv, AllIdle, seeded, ~crossed, NEW u \in Users
                 PROVE  /\ u \in Members(redis, "ordinary") <=> u \in Published
                        /\ redis.count["ordinary"][u] = ordinaryCredit[u]
                        /\ redis.count["priority"][u] = priorityCredit[u]
                        /\ u \in Active(redis, "priority") <=> priorityCredit[u] > 0
      BY DEF CountsMirrorLedger
    <2> QED  BY AtRest, ShownCounts
  <1> QED  BY <1>1, Sequential, PTL

(* README.md:202: and the places follow the order of the rows. *)
THEOREM PlacesFollowRowsHolds == ASSUME OneAtATime PROVE Spec => []PlacesFollowRows
  <1>1. IInv /\ SeqInv => PlacesFollowRows
    <2> SUFFICES ASSUME IInv, SeqInv, AllIdle, seeded, ~crossed,
                        NEW i \in DOMAIN rows, NEW j \in DOMAIN rows, i < j
                 PROVE  Place(redis, "ordinary", rows[i]) < Place(redis, "ordinary", rows[j])
      BY DEF PlacesFollowRows
    <2>1. PICK s \in Slots : Ready(s) /\ Shown(s)  BY AtRest
    <2>2. i \in 1 .. Len(rows) /\ j \in 1 .. Len(rows)  BY <2>1, ReadyFacts
    <2> QED  BY <2>1, <2>2 DEF Shown, Shows
  <1> QED  BY <1>1, Sequential, PTL

(* nextByCursorScript finds whom there is to find. *)
LEMMA CursorFinds ==
    ASSUME NEW r \in RedisStates, NEW c, NEW X, CursorChoice(r, c, X) = Nobody
    PROVE  Active(r, "ordinary") \subseteq X \union {c}
  <1> DEFINE eligible == Active(r, "ordinary") \ (X \union {c})
             ahead    == {u \in eligible : Place(r, "ordinary", u) > r.cursor}
  <1>1. /\ "ordinary" \in Kinds /\ eligible \in SUBSET Users /\ ahead \in SUBSET Users
    BY DEF Kinds, Active
  <1>2. CASE ahead # {}
    <2>1. CursorChoice(r, c, X) = Oldest(ahead, r, "ordinary")  BY <1>2 DEF CursorChoice
    <2> HIDE DEF ahead
    <2> QED  BY <1>1, <1>2, <2>1, OldestType, NobodyIsNoUser
  <1>3. CASE ahead = {} /\ eligible # {}
    <2>1. CursorChoice(r, c, X) = Oldest(eligible, r, "ordinary")  BY <1>3 DEF CursorChoice
    <2> HIDE DEF eligible
    <2> QED  BY <1>1, <1>3, <2>1, OldestType, NobodyIsNoUser
  <1>4. CASE eligible = {}  BY <1>4
  <1> QED  BY <1>2, <1>3, <1>4

(* platform.go:1235: who is told that the queue is empty has nothing to claim. *)
THEOREM EmptyMeansNothingHolds == ASSUME OneAtATime PROVE Spec => EmptyMeansNothing
  <1>1. IInv /\ SeqInv /\ [Next]_vars =>
            [\A s \in Slots : QueueEmpty(s) => ~CanClaim(req[s].uid) \/ crossed]_vars
    <2> SUFFICES ASSUME IInv, SeqInv, NEW s \in Slots, QueueEmpty(s), ~crossed, CanClaim(req[s].uid)
                 PROVE  FALSE
      OBVIOUS
    <2> DEFINE c == req[s].uid
    <2>1. Ready(s) /\ Told(s)  BY DEF Ready, SeqInv
    <2>2. req[s].pc = "nextOrdinary" /\ req[s].pc \notin Owing  BY DEF QueueEmpty, At, Owing
    <2>3. /\ req[s].tries = 0 /\ req[s].claimed = Received(c) /\ seeded
          /\ Active(redis, "priority") \subseteq Received(c) \union {c}
      BY <2>1, <2>2 DEF Told
    <2>4. CursorChoice(redis, c, req[s].claimed) = Nobody
      BY <2>3, TriesArePositive DEF QueueEmpty
    <2>5. Active(redis, "ordinary") \subseteq Received(c) \union {c}
      BY <2>1, <2>3, <2>4, ReadyFacts, CursorFinds
    <2>6. PICK p \in Published \ {c} : /\ ordinaryCredit[p] > 0 \/ priorityCredit[p] > 0
                                       /\ <<c, p>> \notin claims
      BY DEF CanClaim
    <2>7. p \in Users  BY <2>1, ReadyFacts
    <2>8. p \in Active(redis, "ordinary") \/ p \in Active(redis, "priority")
      BY <2>1, <2>2, <2>3, <2>6, <2>7, SeededShown, ShownCounts
    <2> QED  BY <2>3, <2>5, <2>6, <2>8 DEF Received
  <1> QED  BY <1>1, Sequential, PTL DEF Spec, EmptyMeansNothing
=============================================================================
