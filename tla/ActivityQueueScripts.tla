------------------------ MODULE ActivityQueueScripts ------------------------
(* The Lua scripts of the activity queue (queue/activity.go), each an operator
   from what Redis holds for one activity type to what it holds afterwards.
   Redis runs a script atomically, so a script is one step of its callers.

   A queue is a sorted set and a hash of counts. The absolute score of a member
   is the sequence number it was enqueued with and fixes its place; the sign
   says whether its count is above zero (selectable) or not (parked).
   score[k][u] = 0 stands for "u is no member of queue k", which no score is:
   sequence numbers start above zero. A count that the hash does not hold reads
   as 0, as every script reads it.                                           *)
EXTENDS Integers, FiniteSets

CONSTANTS Users,    \* the publishers' and claimants' uids
          Nobody    \* the empty string a selection script returns

ASSUME NobodyIsNoUser == Nobody \notin Users

Kinds == {"ordinary", "priority"}

EmptyRedis == [score  |-> [k \in Kinds |-> [u \in Users |-> 0]],
               count  |-> [k \in Kinds |-> [u \in Users |-> 0]],
               cursor |-> 0,
               seq    |-> 0]

RedisStates == [score  : [Kinds -> [Users -> Int]],
                count  : [Kinds -> [Users -> Int]],
                cursor : Nat,
                seq    : Nat]

(* MUTANT of Signed: `>=` for `>` where the scripts test the count. *)
SignedAtZero(n, seq) == IF n >= 0 THEN seq ELSE -seq

Abs(n) == IF n < 0 THEN -n ELSE n

Members(r, k)   == {u \in Users : r.score[k][u] # 0}
Active(r, k)    == {u \in Users : r.score[k][u] > 0}
Place(r, k, u)  == Abs(r.score[k][u])
Signed(n, seq)  == IF n > 0 THEN seq ELSE -seq
Oldest(S, r, k) == CHOOSE u \in S : \A v \in S : Place(r, k, u) <= Place(r, k, v)

(* What the hash and the sorted set hold for u, written by one script. *)
SetEntry(r, k, u, count, score) ==
    [r EXCEPT !.count[k][u] = count, !.score[k][u] = score]

(* MUTANT of JoinTail: the sequence number is read, not incremented. *)
JoinTailSameSeq(r, k, u, n) == SetEntry(r, k, u, n, Signed(n, r.seq + 1))

(* Give u, who is no member, the next sequence number and a count. *)
JoinTail(r, k, u, n) ==
    SetEntry([r EXCEPT !.seq = @ + 1], k, u, n, Signed(n, r.seq + 1))

(* enqueueActivityScript: a member keeps its place and its count. *)
Enqueue(r, k, u, n) ==
    IF u \in Members(r, k) THEN r ELSE JoinTail(r, k, u, n)

(* MUTANT of Adjust: a parked member that is active again goes to the tail. *)
AdjustRequeues(r, k, u, delta) ==
    LET n == r.count[k][u] + delta
    IN  IF u \in Members(r, k) /\ (n <= 0 \/ u \in Active(r, k))
        THEN SetEntry(r, k, u, n, Signed(n, Place(r, k, u)))
        ELSE JoinTail(r, k, u, n)

(* adjustActivityScript: move the count, flip the sign when it crosses zero;
   a missing member joins at the tail with what its count comes to. *)
Adjust(r, k, u, delta) ==
    LET n == r.count[k][u] + delta
    IN  IF u \in Members(r, k)
        THEN SetEntry(r, k, u, n, Signed(n, Place(r, k, u)))
        ELSE JoinTail(r, k, u, n)

(* removeActivityScript: ZREM and HDEL. *)
RemoveMember(r, k, u) ==
    SetEntry(r, k, u, 0, 0)

(* MUTANT of FlushQueues: the priority keys are forgotten. *)
FlushOrdinaryOnly(r) ==
    [r EXCEPT !.score["ordinary"] = EmptyRedis.score["ordinary"],
              !.count["ordinary"] = EmptyRedis.count["ordinary"],
              !.cursor = 0]

(* Flush: both queues and the cursor go, the sequence counter stays. *)
FlushQueues(r) == [EmptyRedis EXCEPT !.seq = r.seq]

(* nextActivityScript: the script only looks at the first #ARGV + 1 active
   members, ARGV being the claimant and the excluded publishers. *)
Window(r, k, size) ==
    {u \in Active(r, k) :
        Cardinality({v \in Active(r, k) : r.score[k][v] <= r.score[k][u]}) <= size}

(* MUTANT of NextActive: the claimant, who is in ARGV too, is not counted in
   the LIMIT. *)
NextActiveShortWindow(r, k, claimant, excluded) ==
    LET free == Window(r, k, Cardinality(excluded) + 1) \ (excluded \union {claimant})
    IN  IF free = {} THEN Nobody ELSE Oldest(free, r, k)

NextActive(r, k, claimant, excluded) ==
    LET free == Window(r, k, Cardinality(excluded) + 2) \ (excluded \union {claimant})
    IN  IF free = {} THEN Nobody ELSE Oldest(free, r, k)

(* MUTANT of CursorChoice: past the cursor only, no second pass from the top. *)
CursorChoiceNoWrap(r, claimant, excluded) ==
    LET ahead == {u \in Active(r, "ordinary") \ (excluded \union {claimant}) :
                    Place(r, "ordinary", u) > r.cursor}
    IN  IF ahead = {} THEN Nobody ELSE Oldest(ahead, r, "ordinary")

(* MUTANT of CursorMove: the end of a lap does not bring the cursor home. *)
CursorMoveNoReset(r, chosen) ==
    IF chosen = Nobody THEN r ELSE [r EXCEPT !.cursor = Place(r, "ordinary", chosen)]

(* nextByCursorScript: the first eligible member past the cursor, else the
   first from the top; the cursor moves there, or home from the last member. *)
CursorChoice(r, claimant, excluded) ==
    LET eligible == Active(r, "ordinary") \ (excluded \union {claimant})
        ahead    == {u \in eligible : Place(r, "ordinary", u) > r.cursor}
    IN  CASE ahead # {}                      -> Oldest(ahead, r, "ordinary")
          [] ahead = {} /\ eligible # {}     -> Oldest(eligible, r, "ordinary")
          [] OTHER                           -> Nobody

CursorMove(r, chosen) ==
    IF chosen = Nobody
    THEN r
    ELSE [r EXCEPT !.cursor =
            IF \E v \in Members(r, "ordinary") :
                    Place(r, "ordinary", v) > Place(r, "ordinary", chosen)
            THEN Place(r, "ordinary", chosen)
            ELSE 0]

(* MUTANT of CursorRank: the member the cursor stands on is not passed. *)
CursorRankOnCursor(r) ==
    LET passed == Cardinality({u \in Members(r, "ordinary") :
                                    Place(r, "ordinary", u) < r.cursor})
    IN  IF r.cursor = 0 \/ passed >= Cardinality(Members(r, "ordinary"))
        THEN 0 ELSE passed

(* OrdinaryStatus: the cursor as a zero-based rank, for the admin monitor. *)
CursorRank(r) ==
    LET passed == Cardinality({u \in Members(r, "ordinary") :
                                    Place(r, "ordinary", u) <= r.cursor})
    IN  IF r.cursor = 0 \/ passed >= Cardinality(Members(r, "ordinary"))
        THEN 0 ELSE passed
=============================================================================
