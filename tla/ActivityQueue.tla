--------------------------- MODULE ActivityQueue ---------------------------
(* One activity type's queues under any sequence of calls of ActivityQueue's
   methods (queue/activity.go). The rest of the program calls them from many
   requests at once, but each call is one script, so all that concurrency comes
   to is an order of the calls, which Next leaves open.                      *)
EXTENDS ActivityQueueScripts

CONSTANTS MaxSeq,     \* bound: sequence numbers handed out
          MaxCount    \* bound: absolute value of a member's count

ASSUME UsersAreFinite   == IsFiniteSet(Users)
ASSUME BoundsAreNatural == MaxSeq \in Nat /\ MaxCount \in Nat

VARIABLES redis,      \* what Redis holds for the activity type
          \* History of the rotation, read by no action's guard:
          pending,    \* members whose turn in the current lap is still to come
          owed        \* owed[u]: members that must be served before u is (again)

vars == <<redis, pending, owed>>

Init == /\ redis = EmptyRedis
        /\ pending = {}
        /\ owed = [u \in Users |-> {}]

(* A newcomer stands behind everyone the lap has still to serve. *)
NoteJoin(u) ==
    /\ owed' = [owed EXCEPT ![u] = pending \intersect Active(redis, "ordinary")]
    /\ pending' = pending \union {u}

NoteParking(u) ==
    /\ owed' = [v \in Users |-> owed[v] \ {u}]
    /\ UNCHANGED pending

EnqueueCall(k, u, n) ==
    /\ redis' = Enqueue(redis, k, u, n)
    /\ IF k = "ordinary" /\ u \notin Members(redis, k)
       THEN NoteJoin(u) ELSE UNCHANGED <<pending, owed>>

AddCall(k, u, delta) ==
    /\ redis' = Adjust(redis, k, u, delta)
    /\ CASE k = "priority" -> UNCHANGED <<pending, owed>>
         [] k = "ordinary" /\ u \notin Members(redis, k) -> NoteJoin(u)
         [] k = "ordinary" /\ u \in Members(redis, k) ->
                IF u \in Active(redis', k)
                THEN UNCHANGED <<pending, owed>> ELSE NoteParking(u)

RemoveCall(k, u) ==
    /\ redis' = RemoveMember(redis, k, u)
    /\ IF k = "ordinary"
       THEN /\ owed' = [v \in Users |-> IF v = u THEN {} ELSE owed[v] \ {u}]
            /\ pending' = pending \ {u}
       ELSE UNCHANGED <<pending, owed>>

FlushCall ==
    /\ redis' = FlushQueues(redis)
    /\ pending' = {}
    /\ owed' = [u \in Users |-> {}]

(* NextByCursor, called by the claimant with the publishers already received. *)
NextByCursorCall(claimant, excluded) ==
    LET chosen   == CursorChoice(redis, claimant, excluded)
        eligible == Active(redis, "ordinary") \ (excluded \union {claimant})
        behind   == {u \in Members(redis, "ordinary") :
                        Place(redis, "ordinary", u) > Place(redis, "ordinary", chosen)}
    IN  /\ chosen # Nobody
        /\ redis' = CursorMove(redis, chosen)
        /\ pending' = IF behind = {} THEN Members(redis, "ordinary") ELSE behind
        /\ owed' = [u \in Users |->
                        IF u = chosen THEN Active(redis, "ordinary") \ {u}
                                      ELSE (owed[u] \intersect eligible) \ {chosen}]

WithinBounds(k, u, n) == redis.seq < MaxSeq /\ n \in -MaxCount .. MaxCount

Next ==
    \/ \E k \in Kinds, u \in Users :
          \/ \E n \in 0 .. MaxCount : WithinBounds(k, u, n) /\ EnqueueCall(k, u, n)
          \/ \E delta \in {-1, 1} :
                WithinBounds(k, u, redis.count[k][u] + delta) /\ AddCall(k, u, delta)
          \/ RemoveCall(k, u)
    \/ \E claimant \in Users : \E excluded \in SUBSET (Users \ {claimant}) :
          NextByCursorCall(claimant, excluded)
    \/ FlushCall

Spec == Init /\ [][Next]_vars

-----------------------------------------------------------------------------
(* The type invariant: what the keys of one activity type may hold. *)
TypeOK ==
    /\ redis \in RedisStates
    /\ pending \subseteq Users
    /\ owed \in [Users -> SUBSET Users]

(* The sign of a member's score says whether its count is above zero, and a
   uid that is no member has left no count behind, so the selection scripts,
   which read scores only, never skip a publisher with chances nor pick one
   without. Every script that moves one of the two must move the other.     *)
SignMatchesCount ==
    \A k \in Kinds, u \in Users :
        /\ u \in Members(redis, k) => (redis.score[k][u] > 0 <=> redis.count[k][u] > 0)
        /\ u \notin Members(redis, k) => redis.count[k][u] = 0

(* No two members of the two queues share a place and none is ahead of the
   sequence counter: FIFO order is a strict order, a newcomer joins at the tail
   and the cursor names one place. The counter must survive a flush.        *)
PlacesDistinct ==
    /\ \A k, l \in Kinds : \A u \in Members(redis, k), v \in Members(redis, l) :
          Place(redis, k, u) = Place(redis, l, v) => k = l /\ u = v
    /\ \A k \in Kinds : \A u \in Members(redis, k) : Place(redis, k, u) <= redis.seq

(* Fetching only #ARGV + 1 active members loses no candidate: the script
   finds what a scan of the whole queue would find.                          *)
WindowIsWideEnough ==
    \A k \in Kinds, claimant \in Users : \A excluded \in SUBSET (Users \ {claimant}) :
        LET free == Active(redis, k) \ (excluded \union {claimant})
        IN  NextActive(redis, k, claimant, excluded) =
                IF free = {} THEN Nobody ELSE Oldest(free, redis, k)

(* The rank the admin monitor shows is where the rotation lands next: when
   the member of that rank is active, it is what a claimant who has received
   nothing, and who is not that member, is given.                            *)
RankPredictsChoice ==
    \A u \in Active(redis, "ordinary") :
        Cardinality({v \in Members(redis, "ordinary") :
            Place(redis, "ordinary", v) < Place(redis, "ordinary", u)}) = CursorRank(redis)
        => \A claimant \in (Users \union {Nobody}) \ {u} :
                CursorChoice(redis, claimant, {}) = u

(* A member's place never changes while it is a member: parking and
   re-activation, which flip the sign of its score, keep it.                *)
PlaceIsForever ==
    [][\A k \in Kinds : \A u \in Members(redis, k) :
          u \in Members(redis', k) => Place(redis', k, u) = Place(redis, k, u)]_vars

(* Nobody overtakes the rotation. A member is not served again before every
   member that was active at its last turn, and has been eligible for each
   selection since, has had a turn; and a newcomer is not served before those
   the lap it joined in had still to serve.                                  *)
NobodyOvertakes ==
    [][\A claimant \in Users : \A excluded \in SUBSET (Users \ {claimant}) :
          NextByCursorCall(claimant, excluded) =>
            LET chosen == CursorChoice(redis, claimant, excluded)
            IN  owed[chosen] \ (excluded \union {claimant}) = {}]_vars
=============================================================================
