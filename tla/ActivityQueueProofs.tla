------------------------ MODULE ActivityQueueProofs ------------------------
(* The properties of the activity queues, for any users and any sequence of
   calls: sign and count agree, places are distinct and permanent, the bounded
   fetch finds what a full scan would, and nobody overtakes the rotation.     *)
EXTENDS ActivityQueue, TLAPS, FiniteSetTheorems, WellFoundedInduction

-----------------------------------------------------------------------------
(* What the scripts return has its type. *)

(* Writing one member's count and score keeps the state well-formed.         *)
LEMMA SetEntryType ==
    ASSUME NEW r \in RedisStates, NEW k \in Kinds, NEW u \in Users,
           NEW n \in Int, NEW m \in Int
    PROVE  SetEntry(r, k, u, n, m) \in RedisStates
  <1> DEFINE counts == [r.count EXCEPT ![k][u] = n]
             scores == [r.score EXCEPT ![k][u] = m]
  <1>1. /\ counts \in [Kinds -> [Users -> Int]]
        /\ scores \in [Kinds -> [Users -> Int]]
    BY DEF RedisStates
  <1>2. SetEntry(r, k, u, n, m) = [r EXCEPT !.count = counts, !.score = scores]
    BY DEF SetEntry, RedisStates
  <1>3. [r EXCEPT !.count = counts, !.score = scores] \in RedisStates
    <2> HIDE DEF counts, scores
    <2> QED  BY <1>1 DEF RedisStates
  <1> QED  BY <1>2, <1>3

(* The places of members are natural numbers.                                *)
LEMMA PlaceType ==
    ASSUME NEW r \in RedisStates, NEW k \in Kinds, NEW u \in Users
    PROVE  Place(r, k, u) \in Nat
  <1>1. r.score[k][u] \in Int  BY DEF RedisStates
  <1> QED  BY <1>1 DEF Place, Abs

(* A join at the tail, adjustActivityScript and removeActivityScript return
   well-formed states.                                                       *)
LEMMA JoinTailType ==
    ASSUME NEW r \in RedisStates, NEW k \in Kinds, NEW u \in Users, NEW n \in Int
    PROVE  JoinTail(r, k, u, n) \in RedisStates
  <1> DEFINE q == [r EXCEPT !.seq = @ + 1]
             m == Signed(n, r.seq + 1)
  <1>1. r.seq \in Nat /\ m \in Int  BY DEF RedisStates, Signed
  <1>2. q \in RedisStates  BY <1>1 DEF RedisStates
  <1>3. JoinTail(r, k, u, n) = SetEntry(q, k, u, n, m)
    BY DEF JoinTail
  <1> HIDE DEF q, m
  <1> QED  BY <1>1, <1>2, <1>3, SetEntryType

LEMMA AdjustType ==
    ASSUME NEW r \in RedisStates, NEW k \in Kinds, NEW u \in Users, NEW delta \in Int
    PROVE  Adjust(r, k, u, delta) \in RedisStates
  <1> DEFINE n == r.count[k][u] + delta
             m == Signed(n, Place(r, k, u))
  <1>1. r.count[k][u] \in Int  BY DEF RedisStates
  <1>2. n \in Int /\ m \in Int  BY <1>1, PlaceType DEF Signed
  <1>3. Adjust(r, k, u, delta) =
            IF u \in Members(r, k) THEN SetEntry(r, k, u, n, m) ELSE JoinTail(r, k, u, n)
    BY DEF Adjust
  <1> HIDE DEF n, m
  <1> QED  BY <1>2, <1>3, JoinTailType, SetEntryType

LEMMA RemoveMemberType ==
    ASSUME NEW r \in RedisStates, NEW k \in Kinds, NEW u \in Users
    PROVE  RemoveMember(r, k, u) \in RedisStates
  BY SetEntryType DEF RemoveMember

LEMMA EmptyRedisType == EmptyRedis \in RedisStates
  BY DEF EmptyRedis, RedisStates

LEMMA FlushQueuesType ==
    ASSUME NEW r \in RedisStates
    PROVE  FlushQueues(r) \in RedisStates
  <1>1. r.seq \in Nat  BY DEF RedisStates
  <1> QED  BY <1>1, EmptyRedisType DEF FlushQueues, RedisStates

LEMMA CursorMoveType ==
    ASSUME NEW r \in RedisStates, NEW u \in Users
    PROVE  CursorMove(r, u) \in RedisStates
  <1>1. Place(r, "ordinary", u) \in Nat  BY PlaceType DEF Kinds
  <1> QED  BY <1>1 DEF CursorMove, RedisStates

(* A set of natural numbers that is not empty has a least element.           *)
LEMMA LeastElement ==
    ASSUME NEW T \in SUBSET Nat, T # {}
    PROVE  \E x \in T : \A y \in T : x <= y
  <1> DEFINE Less == {ss \in Nat \X Nat : ss[1] < ss[2]}
  <1>1. OpToRel(<, Nat) = Less  BY DEF OpToRel
  <1>2. IsWellFoundedOn(Less, Nat)  BY <1>1, NatLessThanWellFounded
  <1>3. PICK x \in T : \A y \in T : <<y, x>> \notin Less  BY <1>2, WFMin
  <1>4. ASSUME NEW y \in T
        PROVE  x <= y
    <2>1. x \in Nat /\ y \in Nat  OBVIOUS
    <2>2. <<y, x>> \notin Less  BY <1>3
    <2>3. ~(y < x)  BY <2>1, <2>2
    <2> QED  BY <2>1, <2>3
  <1> QED  BY <1>4

(* The member in front of a set of publishers is one of them, and none of them is
   before it,                                                                *)
LEMMA OldestFirst ==
    ASSUME NEW r \in RedisStates, NEW k \in Kinds, NEW S \in SUBSET Users, S # {}
    PROVE  /\ Oldest(S, r, k) \in S
           /\ \A v \in S : Place(r, k, Oldest(S, r, k)) <= Place(r, k, v)
  <1> DEFINE T == {Place(r, k, u) : u \in S}
  <1>1. T \in SUBSET Nat /\ T # {}  BY PlaceType
  <1>2. PICK x \in T : \A y \in T : x <= y  BY <1>1, LeastElement
  <1>3. PICK u \in S : x = Place(r, k, u)  OBVIOUS
  <1>4. \A v \in S : Place(r, k, u) <= Place(r, k, v)  BY <1>2, <1>3
  <1> QED  BY <1>4 DEF Oldest

(* so what claimOrdinaryCursorScript returns is an active member, other than the
   claimant and outside the excluded set, or nobody.                         *)
LEMMA CursorChoiceType ==
    ASSUME NEW r \in RedisStates, NEW c, NEW X, CursorChoice(r, c, X) # Nobody
    PROVE  CursorChoice(r, c, X) \in Active(r, "ordinary") \ (X \union {c})
  <1> DEFINE eligible == Active(r, "ordinary") \ (X \union {c})
             ahead    == {u \in eligible : Place(r, "ordinary", u) > r.cursor}
  <1>1. "ordinary" \in Kinds  BY DEF Kinds
  <1>2. eligible \in SUBSET Users /\ ahead \in SUBSET Users /\ ahead \subseteq eligible
    BY DEF Active
  <1>3. CASE ahead # {}
    <2>1. CursorChoice(r, c, X) = Oldest(ahead, r, "ordinary")
      BY <1>3 DEF CursorChoice
    <2> QED  BY <1>1, <1>2, <1>3, <2>1, OldestFirst
  <1>4. CASE ahead = {}
    <2>1. eligible # {} /\ CursorChoice(r, c, X) = Oldest(eligible, r, "ordinary")
      BY <1>4 DEF CursorChoice
    <2> QED  BY <1>1, <1>2, <2>1, OldestFirst
  <1> QED  BY <1>3, <1>4

-----------------------------------------------------------------------------
(* What the scripts leave in the entries of the two queues.                  *)

(* The entry of u in queue k is the only one in which q differs from r.      *)
SameElsewhere(r, q, k, u) ==
    \A l \in Kinds, v \in Users : ~(l = k /\ v = u) =>
        q.score[l][v] = r.score[l][v] /\ q.count[l][v] = r.count[l][v]

LEMMA SetEntryReads ==
    ASSUME NEW r \in RedisStates, NEW k \in Kinds, NEW u \in Users,
           NEW n \in Int, NEW m \in Int
    PROVE  LET q == SetEntry(r, k, u, n, m)
           IN  /\ SameElsewhere(r, q, k, u)
               /\ q.score[k][u] = m /\ q.count[k][u] = n
               /\ q.seq = r.seq /\ q.cursor = r.cursor
  BY DEF SetEntry, SameElsewhere, RedisStates

(* A join takes the next place, a call on a member keeps its place.          *)
LEMMA JoinTailReads ==
    ASSUME NEW r \in RedisStates, NEW k \in Kinds, NEW u \in Users, NEW n \in Int
    PROVE  LET q == JoinTail(r, k, u, n)
           IN  /\ SameElsewhere(r, q, k, u)
               /\ q.score[k][u] = Signed(n, r.seq + 1) /\ q.count[k][u] = n
               /\ q.seq = r.seq + 1 /\ q.cursor = r.cursor
  <1> DEFINE b == [r EXCEPT !.seq = @ + 1]
             m == Signed(n, r.seq + 1)
  <1>1. m \in Int  BY DEF RedisStates, Signed
  <1>2. /\ b \in RedisStates
        /\ b.score = r.score /\ b.count = r.count
        /\ b.seq = r.seq + 1 /\ b.cursor = r.cursor
    BY DEF RedisStates
  <1>3. JoinTail(r, k, u, n) = SetEntry(b, k, u, n, m)  BY DEF JoinTail
  <1> HIDE DEF b, m
  <1>4. /\ SameElsewhere(b, SetEntry(b, k, u, n, m), k, u)
        /\ SetEntry(b, k, u, n, m).score[k][u] = m
        /\ SetEntry(b, k, u, n, m).count[k][u] = n
        /\ SetEntry(b, k, u, n, m).seq = b.seq
        /\ SetEntry(b, k, u, n, m).cursor = b.cursor
    BY <1>1, <1>2, SetEntryReads
  <1> QED  BY <1>2, <1>3, <1>4 DEF SameElsewhere, m

LEMMA AdjustReads ==
    ASSUME NEW r \in RedisStates, NEW k \in Kinds, NEW u \in Members(r, k),
           NEW delta \in Int
    PROVE  LET q == Adjust(r, k, u, delta)
               n == r.count[k][u] + delta
           IN  /\ SameElsewhere(r, q, k, u)
               /\ q.score[k][u] = Signed(n, Place(r, k, u)) /\ q.count[k][u] = n
               /\ q.seq = r.seq /\ q.cursor = r.cursor
  <1> DEFINE n == r.count[k][u] + delta
             m == Signed(n, Place(r, k, u))
  <1>1. u \in Users  BY DEF Members
  <1>2. r.count[k][u] \in Int  BY <1>1 DEF RedisStates
  <1>3. n \in Int /\ m \in Int  BY <1>1, <1>2, PlaceType DEF Signed
  <1>4. Adjust(r, k, u, delta) = SetEntry(r, k, u, n, m)  BY DEF Adjust
  <1> HIDE DEF n, m
  <1>5. /\ SameElsewhere(r, SetEntry(r, k, u, n, m), k, u)
        /\ SetEntry(r, k, u, n, m).score[k][u] = m
        /\ SetEntry(r, k, u, n, m).count[k][u] = n
        /\ SetEntry(r, k, u, n, m).seq = r.seq
        /\ SetEntry(r, k, u, n, m).cursor = r.cursor
    BY <1>1, <1>3, SetEntryReads
  <1> QED  BY <1>4, <1>5 DEF n, m

(* One entry between two Redis states: what it may have become, and the rest
   as it was. Every call but Flush and the cursor's move is such a change.   *)
KeepsPlace(r, q, k, u) ==
    u \in Members(r, k) /\ u \in Members(q, k) /\ Place(q, k, u) = Place(r, k, u)
TakesTail(r, q, k, u) ==
    u \notin Members(r, k) /\ u \in Members(q, k) /\ Place(q, k, u) = q.seq /\ q.seq > r.seq

EntryChange(r, q, k, u) ==
    /\ SameElsewhere(r, q, k, u)
    /\ q.seq >= r.seq /\ q.cursor = r.cursor
    /\ \/ /\ KeepsPlace(r, q, k, u) \/ TakesTail(r, q, k, u)
          /\ q.score[k][u] > 0 <=> q.count[k][u] > 0
       \/ q.score[k][u] = 0 /\ q.count[k][u] = 0

LEMMA JoinChanges ==
    ASSUME NEW r \in RedisStates, NEW k \in Kinds, NEW u \in Users \ Members(r, k),
           NEW n \in Int
    PROVE  LET q == JoinTail(r, k, u, n)
           IN  EntryChange(r, q, k, u) /\ TakesTail(r, q, k, u)
  <1> DEFINE q == JoinTail(r, k, u, n)
  <1>1. /\ SameElsewhere(r, q, k, u)
        /\ q.score[k][u] = Signed(n, r.seq + 1) /\ q.count[k][u] = n
        /\ q.seq = r.seq + 1 /\ q.cursor = r.cursor
    BY JoinTailReads
  <1>2. r.seq \in Nat  BY DEF RedisStates
  <1> HIDE DEF q
  <1>3. q.score[k][u] # 0 /\ Place(q, k, u) = q.seq /\ (q.score[k][u] > 0 <=> n > 0)
    BY <1>1, <1>2 DEF Place, Abs, Signed
  <1>4. TakesTail(r, q, k, u)  BY <1>1, <1>2, <1>3 DEF TakesTail, Members
  <1>5. EntryChange(r, q, k, u)  BY <1>1, <1>2, <1>3, <1>4 DEF EntryChange
  <1> QED  BY <1>4, <1>5 DEF q

LEMMA AdjustChanges ==
    ASSUME NEW r \in RedisStates, NEW k \in Kinds, NEW u \in Members(r, k),
           NEW delta \in Int
    PROVE  LET q == Adjust(r, k, u, delta)
           IN  EntryChange(r, q, k, u) /\ KeepsPlace(r, q, k, u)
  <1> DEFINE q == Adjust(r, k, u, delta)
             n == r.count[k][u] + delta
  <1>1. /\ SameElsewhere(r, q, k, u)
        /\ q.score[k][u] = Signed(n, Place(r, k, u)) /\ q.count[k][u] = n
        /\ q.seq = r.seq /\ q.cursor = r.cursor
    BY AdjustReads
  <1>2. u \in Users /\ r.score[k][u] # 0  BY DEF Members
  <1>3. r.seq \in Nat /\ r.score[k][u] \in Int /\ r.count[k][u] \in Int
    BY <1>2 DEF RedisStates
  <1>4. n \in Int  BY <1>3
  <1> HIDE DEF q, n
  <1>5. Place(r, k, u) \in Nat /\ Place(r, k, u) # 0  BY <1>2, <1>3 DEF Place, Abs
  <1>6. /\ q.score[k][u] # 0 /\ Abs(q.score[k][u]) = Place(r, k, u)
        /\ q.score[k][u] > 0 <=> n > 0
    BY <1>1, <1>4, <1>5 DEF Abs, Signed
  <1>7. KeepsPlace(r, q, k, u)  BY <1>2, <1>6 DEF KeepsPlace, Members, Place
  <1>8. EntryChange(r, q, k, u)  BY <1>1, <1>3, <1>6, <1>7 DEF EntryChange
  <1> QED  BY <1>7, <1>8 DEF q

LEMMA RemoveChanges ==
    ASSUME NEW r \in RedisStates, NEW k \in Kinds, NEW u \in Users
    PROVE  LET q == RemoveMember(r, k, u)
           IN  EntryChange(r, q, k, u) /\ u \notin Members(q, k)
  <1> DEFINE q == RemoveMember(r, k, u)
  <1>1. /\ SameElsewhere(r, q, k, u)
        /\ q.score[k][u] = 0 /\ q.count[k][u] = 0
        /\ q.seq = r.seq /\ q.cursor = r.cursor
    BY SetEntryReads DEF RemoveMember
  <1>2. r.seq \in Nat  BY DEF RedisStates
  <1> HIDE DEF q
  <1> QED  BY <1>1, <1>2 DEF EntryChange, Members, q

-----------------------------------------------------------------------------
(* The order of the queues.                                                  *)
Signs(r) ==
    \A k \in Kinds, u \in Users :
        /\ u \in Members(r, k) => (r.score[k][u] > 0 <=> r.count[k][u] > 0)
        /\ u \notin Members(r, k) => r.count[k][u] = 0

Places(r) ==
    /\ \A k, l \in Kinds : \A u \in Members(r, k), v \in Members(r, l) :
          Place(r, k, u) = Place(r, l, v) => k = l /\ u = v
    /\ \A k \in Kinds : \A u \in Members(r, k) : Place(r, k, u) <= r.seq

Sound(r) == r \in RedisStates /\ Signs(r) /\ Places(r)

(* Every entry that did not change is the member, or not, that it was.       *)
LEMMA OthersStay ==
    ASSUME NEW r, NEW q, NEW k \in Kinds, NEW u \in Users, SameElsewhere(r, q, k, u),
           NEW l \in Kinds, NEW v \in Users, ~(l = k /\ v = u)
    PROVE  /\ v \in Members(q, l) <=> v \in Members(r, l)
           /\ v \in Active(q, l) <=> v \in Active(r, l)
           /\ Place(q, l, v) = Place(r, l, v)
  BY DEF SameElsewhere, Members, Active, Place

LEMMA EntryChangeSound ==
    ASSUME NEW r, Sound(r), NEW q \in RedisStates, NEW k \in Kinds, NEW u \in Users,
           EntryChange(r, q, k, u)
    PROVE  Sound(q)
  <1>1. /\ SameElsewhere(r, q, k, u)
        /\ q.seq >= r.seq
        /\ u \in Members(q, k) => KeepsPlace(r, q, k, u) \/ TakesTail(r, q, k, u)
    BY DEF EntryChange, Members
  <1>2. r.seq \in Nat /\ q.seq \in Nat  BY DEF Sound, RedisStates
  <1>3. Signs(q)
    <2> SUFFICES ASSUME NEW l \in Kinds, NEW v \in Users
                 PROVE  /\ v \in Members(q, l) => (q.score[l][v] > 0 <=> q.count[l][v] > 0)
                        /\ v \notin Members(q, l) => q.count[l][v] = 0
      BY DEF Signs
    <2>1. CASE l = k /\ v = u
      BY <2>1 DEF EntryChange, Members, KeepsPlace, TakesTail
    <2>2. CASE ~(l = k /\ v = u)
      BY <1>1, <2>2 DEF SameElsewhere, Sound, Signs, Members
    <2> QED  BY <2>1, <2>2
  <1>4. ASSUME NEW l \in Kinds, NEW v \in Members(q, l)
        PROVE  /\ Place(q, l, v) \in Nat /\ Place(q, l, v) <= q.seq
               /\ \/ v \in Members(r, l) /\ Place(q, l, v) = Place(r, l, v)
                  \/ l = k /\ v = u /\ TakesTail(r, q, k, u)
    <2>1. v \in Users /\ Place(q, l, v) \in Nat  BY PlaceType DEF Members
    <2>2. CASE l = k /\ v = u
      <3>1. CASE KeepsPlace(r, q, k, u)
        BY <1>1, <1>2, <2>1, <2>2, <3>1 DEF KeepsPlace, Sound, Places
      <3>2. CASE TakesTail(r, q, k, u)
        BY <1>2, <2>1, <2>2, <3>2 DEF TakesTail
      <3> QED  BY <1>1, <2>2, <3>1, <3>2
    <2>3. CASE ~(l = k /\ v = u)
      <3>1. v \in Members(r, l) /\ Place(q, l, v) = Place(r, l, v)
        BY <1>1, <2>1, <2>3, OthersStay
      <3> QED  BY <1>1, <1>2, <2>1, <3>1 DEF Sound, Places
    <2> QED  BY <2>2, <2>3
  <1>5. ASSUME NEW l1 \in Kinds, NEW l2 \in Kinds,
               NEW v \in Members(q, l1), NEW w \in Members(q, l2),
               Place(q, l1, v) = Place(q, l2, w)
        PROVE  l1 = l2 /\ v = w
    <2>1. CASE v \in Members(r, l1) /\ Place(q, l1, v) = Place(r, l1, v)
      <3>1. Place(r, l1, v) <= r.seq /\ Place(q, l1, v) \in Nat
        BY <1>4, <2>1 DEF Sound, Places
      <3>2. CASE w \in Members(r, l2) /\ Place(q, l2, w) = Place(r, l2, w)
        <4>1. Places(r) /\ Place(r, l1, v) = Place(r, l2, w)  BY <1>5, <2>1, <3>2 DEF Sound
        <4> QED  BY <2>1, <3>2, <4>1 DEF Places
      <3>3. CASE l2 = k /\ w = u /\ TakesTail(r, q, k, u)
        <4>1. Place(q, l1, v) = q.seq /\ q.seq > r.seq  BY <1>5, <3>3 DEF TakesTail
        <4> QED  BY <1>2, <2>1, <3>1, <4>1
      <3> QED  BY <1>4, <3>2, <3>3
    <2>2. CASE l1 = k /\ v = u /\ TakesTail(r, q, k, u)
      <3>1. CASE w \in Members(r, l2) /\ Place(q, l2, w) = Place(r, l2, w)
        <4>1. Place(r, l2, w) <= r.seq /\ Place(q, l2, w) \in Nat
          BY <1>4, <3>1 DEF Sound, Places
        <4> QED  BY <1>2, <1>5, <2>2, <3>1, <4>1 DEF TakesTail
      <3>2. CASE l2 = k /\ w = u
        BY <2>2, <3>2
      <3> QED  BY <1>4, <3>1, <3>2
    <2> QED  BY <1>4, <2>1, <2>2
  <1>6. Places(q)  BY <1>4, <1>5 DEF Places
  <1> QED  BY <1>3, <1>6 DEF Sound

LEMMA FlushSound ==
    ASSUME NEW r, Sound(r)
    PROVE  Sound(FlushQueues(r)) /\ \A k \in Kinds : Members(FlushQueues(r), k) = {}
  <1> DEFINE q == FlushQueues(r)
  <1>1. r \in RedisStates  BY DEF Sound
  <1>2. q \in RedisStates  BY <1>1, FlushQueuesType
  <1>3. \A k \in Kinds, u \in Users : q.score[k][u] = 0 /\ q.count[k][u] = 0
    BY DEF FlushQueues, EmptyRedis
  <1> HIDE DEF q
  <1>4. \A k \in Kinds : Members(q, k) = {}  BY <1>3 DEF Members
  <1>5. Signs(q) /\ Places(q)  BY <1>3, <1>4 DEF Signs, Places
  <1> QED  BY <1>2, <1>4, <1>5 DEF Sound, q

LEMMA CursorMoveReads ==
    ASSUME NEW r \in RedisStates, NEW u
    PROVE  LET q == CursorMove(r, u)
           IN  q.score = r.score /\ q.count = r.count /\ q.seq = r.seq
  BY DEF CursorMove, RedisStates

(* A state with the same entries and sequence number is as sound.            *)
LEMMA SameEntriesSound ==
    ASSUME NEW r, Sound(r), NEW q \in RedisStates,
           q.score = r.score, q.count = r.count, q.seq = r.seq
    PROVE  Sound(q)
  <1>1. \A k \in Kinds : Members(q, k) = Members(r, k)  BY DEF Members
  <1>2. \A k \in Kinds, u \in Users : Place(q, k, u) = Place(r, k, u)  BY DEF Place
  <1>3. \A k \in Kinds : Members(r, k) \subseteq Users  BY DEF Members
  <1>4. Signs(q)  BY <1>1 DEF Signs, Sound
  <1>5. Places(r)  BY DEF Sound
  <1>6. Places(q)  BY <1>1, <1>2, <1>3, <1>5 DEF Places
  <1> QED  BY <1>4, <1>6 DEF Sound

-----------------------------------------------------------------------------
(* The lap. The cursor splits the ordinary queue in those that it has passed
   and those that it has not; the latter come first, each part in its order.  *)
Turn(r, u)      == Place(r, "ordinary", u)
Passed(r, u)    == Turn(r, u) <= r.cursor
Before(r, v, u) == IF Passed(r, v) <=> Passed(r, u) THEN Turn(r, v) < Turn(r, u)
                                                     ELSE Passed(r, u)

(* A member is owed to the members that the lap comes to before it only.      *)
Lap(r, coming, debts) ==
    /\ r.cursor <= r.seq
    /\ coming = {u \in Members(r, "ordinary") : ~Passed(r, u)}
    /\ debts \in [Users -> SUBSET Users]
    /\ \A u \in Users : \A v \in debts[u] :
          u \in Members(r, "ordinary") /\ v \in Active(r, "ordinary") /\ Before(r, v, u)

(* Facts about the members of the ordinary queue that every step needs.       *)
LEMMA TurnFacts ==
    ASSUME NEW r, Sound(r)
    PROVE  /\ r \in RedisStates /\ r.cursor \in Nat /\ r.seq \in Nat
           /\ Active(r, "ordinary") \subseteq Members(r, "ordinary")
           /\ Members(r, "ordinary") \subseteq Users
           /\ \A u \in Members(r, "ordinary") :
                 Turn(r, u) \in Nat /\ Turn(r, u) > 0 /\ Turn(r, u) <= r.seq
           /\ \A u, v \in Members(r, "ordinary") : Turn(r, u) = Turn(r, v) => u = v
  <1>1. "ordinary" \in Kinds  BY DEF Kinds
  <1>2. r \in RedisStates /\ Places(r)  BY DEF Sound
  <1>3. r.cursor \in Nat /\ r.seq \in Nat  BY <1>2 DEF RedisStates
  <1>4. /\ Active(r, "ordinary") \subseteq Members(r, "ordinary")
        /\ Members(r, "ordinary") \subseteq Users
    BY DEF Active, Members
  <1>5. ASSUME NEW u \in Members(r, "ordinary")
        PROVE  Turn(r, u) \in Nat /\ Turn(r, u) > 0 /\ Turn(r, u) <= r.seq
    <2>1. r.score["ordinary"][u] \in Int /\ r.score["ordinary"][u] # 0
      BY <1>1, <1>2 DEF Members, RedisStates
    <2>2. Turn(r, u) \in Nat /\ Turn(r, u) > 0  BY <2>1 DEF Turn, Place, Abs
    <2> QED  BY <1>1, <1>2, <2>2 DEF Places, Turn
  <1>6. \A u, v \in Members(r, "ordinary") : Turn(r, u) = Turn(r, v) => u = v
    BY <1>1, <1>2 DEF Places, Turn
  <1> QED  BY <1>2, <1>3, <1>4, <1>5, <1>6

(* What nextByCursorScript chooses is the first of the eligible in the lap.   *)
Eligible(r, c, X) == Active(r, "ordinary") \ (X \union {c})

LEMMA ChoiceIsFirst ==
    ASSUME NEW r, Sound(r), NEW c, NEW X, CursorChoice(r, c, X) # Nobody
    PROVE  /\ CursorChoice(r, c, X) \in Eligible(r, c, X)
           /\ \A v \in Eligible(r, c, X) \ {CursorChoice(r, c, X)} :
                 Before(r, CursorChoice(r, c, X), v)
  <1> DEFINE E     == Eligible(r, c, X)
             ahead == {u \in E : Place(r, "ordinary", u) > r.cursor}
             s     == CursorChoice(r, c, X)
  <1>1. "ordinary" \in Kinds  BY DEF Kinds
  <1>2. E \subseteq Members(r, "ordinary") /\ E \subseteq Users /\ ahead \subseteq E
    BY TurnFacts DEF Eligible
  <1>3. /\ r \in RedisStates /\ r.cursor \in Nat
        /\ \A u \in E : Turn(r, u) \in Nat
        /\ \A u, v \in E : Turn(r, u) = Turn(r, v) => u = v
    BY <1>2, TurnFacts
  <1>4. \A u \in E : u \in ahead <=> ~Passed(r, u)
    BY <1>3 DEF Passed, Turn
  <1>5. CASE ahead # {}
    <2>1. s = Oldest(ahead, r, "ordinary")
      BY <1>5 DEF CursorChoice, Eligible
    <2> HIDE DEF s, E, ahead
    <2>2. s \in ahead /\ \A v \in ahead : Turn(r, s) <= Turn(r, v)
      BY <1>1, <1>2, <1>3, <1>5, <2>1, OldestFirst DEF Turn
    <2>3. ASSUME NEW v \in E \ {s}
          PROVE  Before(r, s, v)
      <3>1. ~Passed(r, s)  BY <1>2, <1>4, <2>2
      <3>2. CASE Passed(r, v)  BY <3>1, <3>2 DEF Before
      <3>3. CASE ~Passed(r, v)
        <4>1. Turn(r, s) <= Turn(r, v) /\ Turn(r, s) # Turn(r, v)
          BY <1>2, <1>3, <1>4, <2>2, <3>3
        <4>2. Turn(r, s) < Turn(r, v)  BY <1>2, <1>3, <2>2, <4>1
        <4> QED  BY <3>1, <3>3, <4>2 DEF Before
      <3> QED  BY <3>2, <3>3
    <2> QED  BY <1>2, <2>2, <2>3 DEF s, E
  <1>6. CASE ahead = {}
    <2>1. E # {} /\ s = Oldest(E, r, "ordinary")
      BY <1>6 DEF CursorChoice, Eligible
    <2> HIDE DEF s, E, ahead
    <2>2. s \in E /\ \A v \in E : Turn(r, s) <= Turn(r, v)
      BY <1>1, <1>2, <1>3, <2>1, OldestFirst DEF Turn
    <2>3. ASSUME NEW v \in E \ {s}
          PROVE  Before(r, s, v)
      <3>1. Passed(r, s) /\ Passed(r, v)  BY <1>4, <1>6, <2>2
      <3>2. Turn(r, s) <= Turn(r, v) /\ Turn(r, s) # Turn(r, v)  BY <1>3, <2>2
      <3>3. Turn(r, s) < Turn(r, v)  BY <1>3, <2>2, <3>2
      <3> QED  BY <3>1, <3>3 DEF Before
    <2> QED  BY <2>2, <2>3 DEF s, E
  <1> QED  BY <1>5, <1>6

(* When the cursor moves to c, which was before v, which was before u, then v is
   still before u; and c has become the last of the lap.                      *)
LEMMA CursorTurnsTheLap ==
    ASSUME NEW r, Sound(r), NEW c \in Members(r, "ordinary")
    PROVE  LET q == CursorMove(r, c)
           IN  /\ \A v, u \in Members(r, "ordinary") :
                     Before(r, c, v) /\ Before(r, v, u) => Before(q, v, u)
               /\ \A v \in Members(r, "ordinary") \ {c} : Before(q, v, c)
               /\ q.cursor <= q.seq
               /\ {u \in Members(q, "ordinary") : ~Passed(q, u)} =
                     LET behind == {u \in Members(r, "ordinary") : Turn(r, u) > Turn(r, c)}
                     IN  IF behind = {} THEN Members(r, "ordinary") ELSE behind
  <1> DEFINE q      == CursorMove(r, c)
             M      == Members(r, "ordinary")
             behind == {u \in M : Turn(r, u) > Turn(r, c)}
  <1>1. /\ r \in RedisStates /\ r.cursor \in Nat /\ r.seq \in Nat /\ M \subseteq Users
        /\ \A u \in M : Turn(r, u) \in Nat /\ Turn(r, u) > 0 /\ Turn(r, u) <= r.seq
        /\ \A u, v \in M : Turn(r, u) = Turn(r, v) => u = v
    BY TurnFacts
  <1>2. c \in Users /\ c # Nobody  BY <1>1, NobodyIsNoUser
  <1>3. /\ q.score = r.score /\ q.seq = r.seq
        /\ q.cursor = IF behind = {} THEN 0 ELSE Turn(r, c)
    BY <1>1, <1>2 DEF CursorMove, Turn, RedisStates
  <1> HIDE DEF q
  <1>4. Members(q, "ordinary") = M /\ \A u : Turn(q, u) = Turn(r, u)
    BY <1>3 DEF Members, Turn, Place
  <1> HIDE DEF M
  <1>5. \A u \in M : Passed(q, u) <=> behind # {} /\ Turn(r, u) <= Turn(r, c)
    BY <1>1, <1>3, <1>4 DEF Passed
  <1>6. \A u \in M : behind = {} => Turn(r, u) <= Turn(r, c)
    BY <1>1 DEF M
  <1>7. ASSUME NEW v \in M, NEW u \in M, Before(r, c, v), Before(r, v, u)
        PROVE  Before(q, v, u)
    <2>1. /\ Turn(r, c) \in Nat /\ Turn(r, v) \in Nat /\ Turn(r, u) \in Nat
          /\ r.cursor \in Nat
      BY <1>1 DEF M
    <2>2. /\ Passed(r, c) <=> Turn(r, c) <= r.cursor
          /\ Passed(r, v) <=> Turn(r, v) <= r.cursor
          /\ Passed(r, u) <=> Turn(r, u) <= r.cursor
      BY DEF Passed
    <2>3. CASE behind = {}
      <3>1. ~Passed(q, v) /\ ~Passed(q, u)  BY <1>5, <2>3
      <3>2. Turn(r, v) <= Turn(r, c)  BY <1>6, <2>3
      <3>3. Turn(r, v) < Turn(r, u)  BY <1>7, <2>1, <2>2, <3>2 DEF Before
      <3> QED  BY <1>4, <3>1, <3>3 DEF Before
    <2>4. CASE behind # {}
      <3>1. /\ Passed(q, v) <=> Turn(r, v) <= Turn(r, c)
            /\ Passed(q, u) <=> Turn(r, u) <= Turn(r, c)
        BY <1>5, <2>4
      <3> QED  BY <1>4, <1>7, <2>1, <2>2, <3>1 DEF Before
    <2> QED  BY <2>3, <2>4
  <1>8. ASSUME NEW v \in M \ {c}
        PROVE  Before(q, v, c)
    <2>1. Turn(r, v) # Turn(r, c) /\ Turn(r, c) \in Nat /\ Turn(r, v) \in Nat
      BY <1>1 DEF M
    <2>2. /\ Passed(q, v) <=> behind # {} /\ Turn(r, v) <= Turn(r, c)
          /\ Passed(q, c) <=> behind # {}
      BY <1>5, <2>1 DEF M
    <2>3. behind = {} => Turn(r, v) <= Turn(r, c)  BY <1>6
    <2> QED  BY <1>4, <2>1, <2>2, <2>3 DEF Before
  <1>9. q.cursor <= q.seq  BY <1>1, <1>3 DEF M
  <1>10. {u \in Members(q, "ordinary") : ~Passed(q, u)} = IF behind = {} THEN M ELSE behind
    <2>1. \A u \in M : ~(Turn(r, u) <= Turn(r, c)) <=> Turn(r, u) > Turn(r, c)
      BY <1>1 DEF M
    <2> QED  BY <1>4, <1>5, <2>1
  <1> QED  BY <1>7, <1>8, <1>9, <1>10 DEF q, M

(* What a call on one entry makes of the lap.                                *)
LEMMA LapElsewhere ==
    ASSUME NEW r, Sound(r), NEW q, Sound(q), NEW u \in Users,
           EntryChange(r, q, "priority", u), NEW p, NEW o, Lap(r, p, o)
    PROVE  Lap(q, p, o)
  <1>1. "ordinary" \in Kinds /\ "priority" \in Kinds  BY DEF Kinds
  <1>2. /\ SameElsewhere(r, q, "priority", u)
        /\ q.cursor = r.cursor /\ q.seq >= r.seq
    BY DEF EntryChange
  <1>3. \A v \in Users : /\ v \in Members(q, "ordinary") <=> v \in Members(r, "ordinary")
                         /\ v \in Active(q, "ordinary") <=> v \in Active(r, "ordinary")
                         /\ Turn(q, v) = Turn(r, v)
    BY <1>1, <1>2, OthersStay DEF Turn
  <1>4. /\ Members(q, "ordinary") = Members(r, "ordinary")
        /\ Active(q, "ordinary") = Active(r, "ordinary")
    BY <1>3 DEF Members, Active
  <1>5. Active(r, "ordinary") \subseteq Users /\ Members(r, "ordinary") \subseteq Users
    BY DEF Active, Members
  <1>6. \A v \in Users : Passed(q, v) <=> Passed(r, v)  BY <1>2, <1>3 DEF Passed
  <1>7. \A v, w \in Users : Before(q, v, w) <=> Before(r, v, w)
    BY <1>3, <1>6 DEF Before
  <1>8. q.cursor <= q.seq
    BY <1>2, TurnFacts DEF Lap
  <1> QED  BY <1>4, <1>5, <1>6, <1>7, <1>8 DEF Lap

LEMMA LapJoin ==
    ASSUME NEW r, Sound(r), NEW q, Sound(q), NEW u \in Users,
           EntryChange(r, q, "ordinary", u), TakesTail(r, q, "ordinary", u),
           NEW p, NEW o, Lap(r, p, o)
    PROVE  Lap(q, p \union {u}, [o EXCEPT ![u] = p \intersect Active(r, "ordinary")])
  <1> DEFINE M == Members(r, "ordinary")
             A == Active(r, "ordinary")
             d == [o EXCEPT ![u] = p \intersect A]
  <1>1. /\ SameElsewhere(r, q, "ordinary", u)
        /\ q.cursor = r.cursor /\ q.seq >= r.seq
    BY DEF EntryChange
  <1>2. \A v \in Users \ {u} : /\ v \in Members(q, "ordinary") <=> v \in M
                               /\ v \in Active(q, "ordinary") <=> v \in A
                               /\ Turn(q, v) = Turn(r, v)
    BY <1>1, OthersStay DEF Turn, Kinds
  <1>3. /\ M \subseteq Users \ {u} /\ A \subseteq M
        /\ Members(q, "ordinary") = M \union {u}
    BY <1>2 DEF Members, Active, TakesTail
  <1>4. /\ r.cursor \in Nat /\ r.seq \in Nat /\ q.seq \in Nat
        /\ \A v \in M : Turn(r, v) \in Nat /\ Turn(r, v) <= r.seq
    BY TurnFacts
  <1>5. Turn(q, u) = q.seq /\ q.seq > r.seq  BY DEF TakesTail, Turn
  <1>6. q.cursor <= r.seq /\ q.cursor <= q.seq  BY <1>1, <1>4 DEF Lap
  <1>7. ~Passed(q, u)  BY <1>4, <1>5, <1>6, <1>1 DEF Passed
  <1>8. \A v \in M : Passed(q, v) <=> Passed(r, v)  BY <1>1, <1>2, <1>3 DEF Passed
  <1>9. p = {v \in M : ~Passed(r, v)} /\ o \in [Users -> SUBSET Users]  BY DEF Lap
  <1>10. p \union {u} = {v \in Members(q, "ordinary") : ~Passed(q, v)}
    BY <1>3, <1>7, <1>8, <1>9
  <1>11. d \in [Users -> SUBSET Users]  BY <1>3, <1>9
  <1>12. ASSUME NEW w \in Users, NEW v \in d[w]
         PROVE  /\ w \in Members(q, "ordinary") /\ v \in Active(q, "ordinary")
                /\ Before(q, v, w)
    <2>1. CASE w = u
      <3>1. v \in A /\ v \in M /\ ~Passed(r, v)  BY <1>3, <1>9, <2>1
      <3>2. Turn(q, v) <= r.seq /\ Turn(q, v) \in Nat /\ v \in Active(q, "ordinary")
        BY <1>2, <1>3, <1>4, <3>1
      <3>3. Turn(q, v) < Turn(q, u)  BY <1>4, <1>5, <3>2
      <3> QED  BY <1>3, <1>7, <1>8, <2>1, <3>1, <3>2, <3>3 DEF Before
    <2>2. CASE w # u
      <3>1. v \in o[w]  BY <1>9, <2>2
      <3>2. w \in M /\ v \in A /\ Before(r, v, w)  BY <3>1 DEF Lap
      <3>3. v \in M /\ Turn(q, v) = Turn(r, v) /\ Turn(q, w) = Turn(r, w)
            /\ v \in Active(q, "ordinary")
        BY <1>2, <1>3, <3>2
      <3> QED  BY <1>3, <1>8, <3>2, <3>3 DEF Before
    <2> QED  BY <2>1, <2>2
  <1> QED  BY <1>6, <1>10, <1>11, <1>12 DEF Lap

LEMMA LapKeepsPlace ==
    ASSUME NEW r, Sound(r), NEW q, Sound(q), NEW u \in Users,
           EntryChange(r, q, "ordinary", u), KeepsPlace(r, q, "ordinary", u),
           NEW p, NEW o, Lap(r, p, o)
    PROVE  /\ u \in Active(q, "ordinary") => Lap(q, p, o)
           /\ Lap(q, p, [v \in Users |-> o[v] \ {u}])
  <1> DEFINE M == Members(r, "ordinary")
             A == Active(r, "ordinary")
             d == [v \in Users |-> o[v] \ {u}]
  <1>1. /\ SameElsewhere(r, q, "ordinary", u)
        /\ q.cursor = r.cursor /\ q.seq >= r.seq
    BY DEF EntryChange
  <1>2. \A v \in Users \ {u} : /\ v \in Members(q, "ordinary") <=> v \in M
                               /\ v \in Active(q, "ordinary") <=> v \in A
                               /\ Turn(q, v) = Turn(r, v)
    BY <1>1, OthersStay DEF Turn, Kinds
  <1>3. Turn(q, u) = Turn(r, u) /\ u \in M /\ u \in Members(q, "ordinary")
    BY DEF KeepsPlace, Turn
  <1>4. Members(q, "ordinary") = M /\ M \subseteq Users /\ A \subseteq M
    BY <1>2, <1>3 DEF Members, Active
  <1>5. \A v \in M : Turn(q, v) = Turn(r, v)  BY <1>2, <1>3, <1>4
  <1>6. \A v \in M : Passed(q, v) <=> Passed(r, v)  BY <1>1, <1>5 DEF Passed
  <1>7. \A v, w \in M : Before(r, v, w) => Before(q, v, w)  BY <1>5, <1>6 DEF Before
  <1>8. q.cursor <= q.seq  BY <1>1, TurnFacts DEF Lap
  <1>9. p = {v \in Members(q, "ordinary") : ~Passed(q, v)} /\ o \in [Users -> SUBSET Users]
    BY <1>4, <1>6 DEF Lap
  <1>10. ASSUME NEW w \in Users, NEW v \in o[w], v # u \/ u \in Active(q, "ordinary")
         PROVE  /\ w \in Members(q, "ordinary") /\ v \in Active(q, "ordinary")
                /\ Before(q, v, w)
    <2>1. w \in M /\ v \in A /\ v \in M /\ Before(r, v, w)  BY <1>4 DEF Lap
    <2> QED  BY <1>2, <1>4, <1>7, <1>10, <2>1
  <1>11. u \in Active(q, "ordinary") => Lap(q, p, o)
    BY <1>8, <1>9, <1>10 DEF Lap
  <1>12. d \in [Users -> SUBSET Users]  BY <1>9
  <1>13. Lap(q, p, d)
    BY <1>8, <1>9, <1>10, <1>12 DEF Lap
  <1> QED  BY <1>11, <1>13

LEMMA LapRemove ==
    ASSUME NEW r, Sound(r), NEW q, Sound(q), NEW u \in Users,
           EntryChange(r, q, "ordinary", u), u \notin Members(q, "ordinary"),
           NEW p, NEW o, Lap(r, p, o)
    PROVE  Lap(q, p \ {u}, [v \in Users |-> IF v = u THEN {} ELSE o[v] \ {u}])
  <1> DEFINE M == Members(r, "ordinary")
             A == Active(r, "ordinary")
             d == [v \in Users |-> IF v = u THEN {} ELSE o[v] \ {u}]
  <1>1. /\ SameElsewhere(r, q, "ordinary", u)
        /\ q.cursor = r.cursor /\ q.seq >= r.seq
    BY DEF EntryChange
  <1>2. \A v \in Users \ {u} : /\ v \in Members(q, "ordinary") <=> v \in M
                               /\ v \in Active(q, "ordinary") <=> v \in A
                               /\ Turn(q, v) = Turn(r, v)
    BY <1>1, OthersStay DEF Turn, Kinds
  <1>3. Members(q, "ordinary") = M \ {u} /\ M \subseteq Users /\ A \subseteq M
    BY <1>2 DEF Members, Active
  <1>4. \A v \in M \ {u} : Turn(q, v) = Turn(r, v) /\ (Passed(q, v) <=> Passed(r, v))
    BY <1>1, <1>2, <1>3 DEF Passed
  <1>5. \A v, w \in M \ {u} : Before(r, v, w) => Before(q, v, w)  BY <1>4 DEF Before
  <1>6. q.cursor <= q.seq  BY <1>1, TurnFacts DEF Lap
  <1>7. p \ {u} = {v \in Members(q, "ordinary") : ~Passed(q, v)}
        /\ o \in [Users -> SUBSET Users]
    BY <1>3, <1>4 DEF Lap
  <1>8. d \in [Users -> SUBSET Users]  BY <1>7
  <1>9. ASSUME NEW w \in Users, NEW v \in d[w]
        PROVE  /\ w \in Members(q, "ordinary") /\ v \in Active(q, "ordinary")
               /\ Before(q, v, w)
    <2>1. w # u /\ v # u /\ v \in o[w]  OBVIOUS
    <2>2. w \in M /\ v \in A /\ v \in M /\ Before(r, v, w)  BY <1>3, <2>1 DEF Lap
    <2> QED  BY <1>2, <1>3, <1>5, <2>1, <2>2
  <1> QED  BY <1>6, <1>7, <1>8, <1>9 DEF Lap

(* A selection ends the turn of the chosen and keeps every other debt.       *)
LEMMA LapSelect ==
    ASSUME NEW r, Sound(r), NEW p, NEW o, Lap(r, p, o), NEW c, NEW X,
           CursorChoice(r, c, X) # Nobody
    PROVE  LET s      == CursorChoice(r, c, X)
               behind == {u \in Members(r, "ordinary") : Turn(r, u) > Turn(r, s)}
           IN  Lap(CursorMove(r, s),
                   IF behind = {} THEN Members(r, "ordinary") ELSE behind,
                   [u \in Users |-> IF u = s THEN Active(r, "ordinary") \ {u}
                                    ELSE (o[u] \intersect Eligible(r, c, X)) \ {s}])
  <1> DEFINE s == CursorChoice(r, c, X)
             E == Eligible(r, c, X)
             q == CursorMove(r, s)
             M == Members(r, "ordinary")
             A == Active(r, "ordinary")
             behind == {u \in M : Turn(r, u) > Turn(r, s)}
             d == [u \in Users |-> IF u = s THEN A \ {u} ELSE (o[u] \intersect E) \ {s}]
  <1>1. s \in E /\ \A v \in E \ {s} : Before(r, s, v)  BY ChoiceIsFirst
  <1>2. /\ r \in RedisStates /\ E \subseteq A /\ A \subseteq M /\ M \subseteq Users
        /\ o \in [Users -> SUBSET Users]
    BY TurnFacts DEF Eligible, Lap
  <1>3. s \in M  BY <1>1, <1>2
  <1> HIDE DEF s, E
  <1>4. /\ \A v, u \in M : Before(r, s, v) /\ Before(r, v, u) => Before(q, v, u)
        /\ \A v \in M \ {s} : Before(q, v, s)
        /\ q.cursor <= q.seq
        /\ {u \in Members(q, "ordinary") : ~Passed(q, u)} = IF behind = {} THEN M ELSE behind
    BY <1>3, CursorTurnsTheLap
  <1>5. q.score = r.score  BY <1>2, CursorMoveReads
  <1>6. Members(q, "ordinary") = M /\ Active(q, "ordinary") = A
    BY <1>5 DEF Members, Active
  <1> HIDE DEF q, M, A
  <1>7. d \in [Users -> SUBSET Users]  BY <1>2
  <1>8. ASSUME NEW u \in Users, NEW v \in d[u]
        PROVE  u \in Members(q, "ordinary") /\ v \in Active(q, "ordinary") /\ Before(q, v, u)
    <2>1. CASE u = s
      <3>1. v \in A /\ v \in M \ {s}  BY <1>2, <2>1
      <3> QED  BY <1>3, <1>4, <1>6, <2>1, <3>1
    <2>2. CASE u # s
      <3>1. v \in o[u] /\ v \in E /\ v # s  BY <2>2
      <3>2. u \in M /\ v \in A /\ Before(r, v, u)  BY <3>1 DEF Lap, M, A
      <3>3. v \in M /\ Before(r, s, v)  BY <1>1, <1>2, <3>1
      <3> QED  BY <1>4, <1>6, <3>2, <3>3
    <2> QED  BY <2>1, <2>2
  <1> HIDE DEF d
  <1>9. Lap(q, IF behind = {} THEN M ELSE behind, d)
    BY <1>4, <1>6, <1>7, <1>8 DEF Lap
  <1> QED  BY <1>9 DEF q, d, M, A, E, s

LEMMA LapFlush ==
    ASSUME NEW r, Sound(r)
    PROVE  Lap(FlushQueues(r), {}, [u \in Users |-> {}])
  <1>1. \A k \in Kinds : Members(FlushQueues(r), k) = {}  BY FlushSound
  <1>2. Members(FlushQueues(r), "ordinary") = {}  BY <1>1 DEF Kinds
  <1>3. FlushQueues(r).cursor = 0 /\ FlushQueues(r).seq = r.seq /\ r.seq \in Nat
    BY TurnFacts DEF FlushQueues, EmptyRedis
  <1> QED  BY <1>2, <1>3 DEF Lap

-----------------------------------------------------------------------------
(* The inductive invariant.                                                  *)
IInv == Sound(redis) /\ pending \subseteq Users /\ Lap(redis, pending, owed)

LEMMA InitHolds == Init => IInv
  <1> SUFFICES ASSUME Init PROVE IInv  OBVIOUS
  <1>1. redis = EmptyRedis /\ pending = {} /\ owed = [u \in Users |-> {}]  BY DEF Init
  <1>2. \A k \in Kinds, u \in Users : redis.score[k][u] = 0 /\ redis.count[k][u] = 0
    BY <1>1 DEF EmptyRedis
  <1>3. redis.cursor = 0 /\ redis.seq = 0  BY <1>1 DEF EmptyRedis
  <1>4. \A k \in Kinds : Members(redis, k) = {}  BY <1>2 DEF Members
  <1>5. Members(redis, "ordinary") = {}  BY <1>4 DEF Kinds
  <1>6. Signs(redis) /\ Places(redis)  BY <1>2, <1>4 DEF Signs, Places
  <1>7. Sound(redis)  BY <1>1, <1>6, EmptyRedisType DEF Sound
  <1>8. Lap(redis, pending, owed)  BY <1>1, <1>3, <1>5 DEF Lap
  <1> QED  BY <1>1, <1>7, <1>8 DEF IInv

(* The members whose turn is to come, and those before a newcomer, are users. *)
LEMMA LapType ==
    ASSUME NEW r, NEW p, NEW o, Lap(r, p, o)
    PROVE  p \subseteq Users /\ o \in [Users -> SUBSET Users]
  BY DEF Lap, Members

(* The places of members stay through a call on one entry.                   *)
PlacesStay ==
    \A k \in Kinds : \A u \in Members(redis, k) :
        u \in Members(redis', k) => Place(redis', k, u) = Place(redis, k, u)

LEMMA EntryChangePlaces ==
    ASSUME NEW k \in Kinds, NEW u \in Users, EntryChange(redis, redis', k, u)
    PROVE  PlacesStay
  <1> SUFFICES ASSUME NEW l \in Kinds, NEW v \in Members(redis, l), v \in Members(redis', l)
               PROVE  Place(redis', l, v) = Place(redis, l, v)
    BY DEF PlacesStay
  <1>1. v \in Users  BY DEF Members
  <1>2. CASE l = k /\ v = u
    BY <1>2 DEF EntryChange, KeepsPlace, TakesTail, Members
  <1>3. CASE ~(l = k /\ v = u)
    BY <1>1, <1>3, OthersStay DEF EntryChange
  <1> QED  BY <1>2, <1>3

LEMMA SamePlaces ==
    ASSUME redis'.score = redis.score
    PROVE  PlacesStay
  BY DEF PlacesStay, Place

(* Enqueue and Add of someone who is no member.                              *)
LEMMA JoinKeeps ==
    ASSUME IInv, NEW k \in Kinds, NEW u \in Users \ Members(redis, k), NEW n \in Int,
           redis' = JoinTail(redis, k, u, n),
           IF k = "ordinary" THEN NoteJoin(u) ELSE UNCHANGED <<pending, owed>>
    PROVE  IInv' /\ PlacesStay
  <1>1. Sound(redis) /\ redis \in RedisStates /\ Lap(redis, pending, owed)
    BY DEF IInv, Sound
  <1>2. EntryChange(redis, redis', k, u) /\ TakesTail(redis, redis', k, u)
    BY <1>1, JoinChanges
  <1>3. redis' \in RedisStates  BY <1>1, JoinTailType
  <1>4. Sound(redis')  BY <1>1, <1>2, <1>3, EntryChangeSound
  <1>5. ASSUME k = "ordinary"
        PROVE  Lap(redis', pending', owed')
    <2>1. /\ owed' = [owed EXCEPT ![u] = pending \intersect Active(redis, "ordinary")]
          /\ pending' = pending \union {u}
      BY <1>5 DEF NoteJoin
    <2>2. Lap(redis', pending \union {u},
              [owed EXCEPT ![u] = pending \intersect Active(redis, "ordinary")])
      BY <1>1, <1>2, <1>4, <1>5, LapJoin
    <2> QED  BY <2>1, <2>2
  <1>6. ASSUME k = "priority"
        PROVE  Lap(redis', pending', owed')
    <2>1. pending' = pending /\ owed' = owed  BY <1>6
    <2>2. Lap(redis', pending, owed)  BY <1>1, <1>2, <1>4, <1>6, LapElsewhere
    <2> QED  BY <2>1, <2>2
  <1>7. Lap(redis', pending', owed')  BY <1>5, <1>6 DEF Kinds
  <1> QED  BY <1>2, <1>4, <1>7, LapType, EntryChangePlaces DEF IInv

LEMMA EnqueueKeeps ==
    ASSUME IInv, NEW k \in Kinds, NEW u \in Users, NEW n \in Int, EnqueueCall(k, u, n)
    PROVE  IInv' /\ PlacesStay
  <1>1. CASE u \in Members(redis, k)
    <2>1. redis' = redis /\ pending' = pending /\ owed' = owed
      BY <1>1 DEF EnqueueCall, Enqueue
    <2> QED  BY <2>1, SamePlaces DEF IInv
  <1>2. CASE u \notin Members(redis, k)
    <2>1. /\ redis' = JoinTail(redis, k, u, n)
          /\ IF k = "ordinary" THEN NoteJoin(u) ELSE UNCHANGED <<pending, owed>>
      BY <1>2 DEF EnqueueCall, Enqueue
    <2> QED  BY <1>2, <2>1, JoinKeeps
  <1> QED  BY <1>1, <1>2

LEMMA AddKeeps ==
    ASSUME IInv, NEW k \in Kinds, NEW u \in Users, NEW delta \in Int, AddCall(k, u, delta)
    PROVE  IInv' /\ PlacesStay
  <1>1. Sound(redis) /\ redis \in RedisStates /\ Lap(redis, pending, owed)
    BY DEF IInv, Sound
  <1>2. redis' = Adjust(redis, k, u, delta)  BY DEF AddCall
  <1>3. k = "ordinary" \/ k = "priority"  BY DEF Kinds
  <1>4. CASE u \notin Members(redis, k)
    <2> DEFINE n == redis.count[k][u] + delta
    <2>1. n \in Int  BY <1>1 DEF RedisStates
    <2>2. redis' = JoinTail(redis, k, u, n)  BY <1>2, <1>4 DEF Adjust
    <2>3. IF k = "ordinary" THEN NoteJoin(u) ELSE UNCHANGED <<pending, owed>>
      BY <1>3, <1>4 DEF AddCall
    <2> HIDE DEF n
    <2> QED  BY <1>4, <2>1, <2>2, <2>3, JoinKeeps
  <1>5. CASE u \in Members(redis, k)
    <2>1. EntryChange(redis, redis', k, u) /\ KeepsPlace(redis, redis', k, u)
      BY <1>1, <1>2, <1>5, AdjustChanges
    <2>2. redis' \in RedisStates  BY <1>1, <1>2, AdjustType
    <2>3. Sound(redis')  BY <1>1, <2>1, <2>2, EntryChangeSound
    <2>4. CASE k = "ordinary" /\ u \in Active(redis', k)
      <3>1. pending' = pending /\ owed' = owed  BY <1>5, <2>4 DEF AddCall
      <3>2. Lap(redis', pending, owed)  BY <1>1, <2>1, <2>3, <2>4, LapKeepsPlace
      <3> QED  BY <2>1, <2>3, <3>1, <3>2, LapType, EntryChangePlaces DEF IInv
    <2>5. CASE k = "ordinary" /\ u \notin Active(redis', k)
      <3>1. pending' = pending /\ owed' = [v \in Users |-> owed[v] \ {u}]
        BY <1>5, <2>5 DEF AddCall, NoteParking
      <3>2. Lap(redis', pending, [v \in Users |-> owed[v] \ {u}])
        BY <1>1, <2>1, <2>3, <2>5, LapKeepsPlace
      <3> QED  BY <2>1, <2>3, <3>1, <3>2, LapType, EntryChangePlaces DEF IInv
    <2>6. CASE k = "priority"
      <3>1. pending' = pending /\ owed' = owed  BY <2>6 DEF AddCall
      <3>2. Lap(redis', pending, owed)  BY <1>1, <2>1, <2>3, <2>6, LapElsewhere
      <3> QED  BY <2>1, <2>3, <3>1, <3>2, LapType, EntryChangePlaces DEF IInv
    <2> QED  BY <1>3, <2>4, <2>5, <2>6
  <1> QED  BY <1>4, <1>5

LEMMA RemoveKeeps ==
    ASSUME IInv, NEW k \in Kinds, NEW u \in Users, RemoveCall(k, u)
    PROVE  IInv' /\ PlacesStay
  <1>1. Sound(redis) /\ redis \in RedisStates /\ Lap(redis, pending, owed)
    BY DEF IInv, Sound
  <1>2. redis' = RemoveMember(redis, k, u)  BY DEF RemoveCall
  <1>3. k = "ordinary" \/ k = "priority"  BY DEF Kinds
  <1>4. EntryChange(redis, redis', k, u) /\ u \notin Members(redis', k)
    BY <1>1, <1>2, RemoveChanges
  <1>5. redis' \in RedisStates  BY <1>1, <1>2, RemoveMemberType
  <1>6. Sound(redis')  BY <1>1, <1>4, <1>5, EntryChangeSound
  <1>7. CASE k = "ordinary"
    <2>1. /\ owed' = [v \in Users |-> IF v = u THEN {} ELSE owed[v] \ {u}]
          /\ pending' = pending \ {u}
      BY <1>7 DEF RemoveCall
    <2>2. Lap(redis', pending \ {u}, [v \in Users |-> IF v = u THEN {} ELSE owed[v] \ {u}])
      BY <1>1, <1>4, <1>6, <1>7, LapRemove
    <2> QED  BY <1>4, <1>6, <2>1, <2>2, LapType, EntryChangePlaces DEF IInv
  <1>8. CASE k = "priority"
    <2>1. pending' = pending /\ owed' = owed  BY <1>8 DEF RemoveCall
    <2>2. Lap(redis', pending, owed)  BY <1>1, <1>4, <1>6, <1>8, LapElsewhere
    <2> QED  BY <1>4, <1>6, <2>1, <2>2, LapType, EntryChangePlaces DEF IInv
  <1> QED  BY <1>3, <1>7, <1>8

LEMMA NextByCursorKeeps ==
    ASSUME IInv, NEW claimant \in Users, NEW excluded, NextByCursorCall(claimant, excluded)
    PROVE  IInv' /\ PlacesStay
  <1> DEFINE s == CursorChoice(redis, claimant, excluded)
             behind == {u \in Members(redis, "ordinary") : Turn(redis, u) > Turn(redis, s)}
  <1>1. Sound(redis) /\ redis \in RedisStates /\ Lap(redis, pending, owed)
    BY DEF IInv, Sound
  <1>2. s # Nobody /\ redis' = CursorMove(redis, s)  BY DEF NextByCursorCall
  <1>3. s \in Users  BY <1>1, <1>2, CursorChoiceType DEF Active
  <1>4. /\ pending' = IF behind = {} THEN Members(redis, "ordinary") ELSE behind
        /\ owed' = [u \in Users |->
                      IF u = s THEN Active(redis, "ordinary") \ {u}
                               ELSE (owed[u] \intersect Eligible(redis, claimant, excluded)) \ {s}]
    BY DEF NextByCursorCall, Turn, Eligible
  <1>5. Lap(redis', pending', owed')  BY <1>1, <1>2, <1>4, LapSelect
  <1>6. redis' \in RedisStates  BY <1>1, <1>2, <1>3, CursorMoveType
  <1>7. /\ redis'.score = redis.score /\ redis'.count = redis.count
        /\ redis'.seq = redis.seq
    BY <1>1, <1>2, CursorMoveReads
  <1>8. Sound(redis')  BY <1>1, <1>6, <1>7, SameEntriesSound
  <1> QED  BY <1>5, <1>7, <1>8, LapType, SamePlaces DEF IInv

LEMMA FlushKeeps ==
    ASSUME IInv, FlushCall
    PROVE  IInv' /\ PlacesStay
  <1>1. Sound(redis)  BY DEF IInv
  <1>2. /\ redis' = FlushQueues(redis)
        /\ pending' = {} /\ owed' = [u \in Users |-> {}]
    BY DEF FlushCall
  <1>3. Sound(redis') /\ \A k \in Kinds : Members(redis', k) = {}
    BY <1>1, <1>2, FlushSound
  <1>4. Lap(redis', pending', owed')  BY <1>1, <1>2, LapFlush
  <1> QED  BY <1>3, <1>4, LapType DEF IInv, PlacesStay

LEMMA NextKeeps == IInv /\ [Next]_vars => IInv' /\ PlacesStay
  <1> SUFFICES ASSUME IInv, [Next]_vars PROVE IInv' /\ PlacesStay  OBVIOUS
  <1>1. ASSUME NEW k \in Kinds, NEW u \in Users, NEW n \in 0 .. MaxCount,
               EnqueueCall(k, u, n)
        PROVE  IInv' /\ PlacesStay
    <2>1. n \in Int  BY BoundsAreNatural
    <2> QED  BY <1>1, <2>1, EnqueueKeeps
  <1>2. ASSUME NEW k \in Kinds, NEW u \in Users, NEW delta \in {-1, 1},
               AddCall(k, u, delta)
        PROVE  IInv' /\ PlacesStay
    <2>1. delta \in Int  OBVIOUS
    <2> QED  BY <1>2, <2>1, AddKeeps
  <1>3. ASSUME NEW k \in Kinds, NEW u \in Users, RemoveCall(k, u)
        PROVE  IInv' /\ PlacesStay
    BY <1>3, RemoveKeeps
  <1>4. ASSUME NEW claimant \in Users, NEW excluded \in SUBSET (Users \ {claimant}),
               NextByCursorCall(claimant, excluded)
        PROVE  IInv' /\ PlacesStay
    BY <1>4, NextByCursorKeeps
  <1>5. CASE FlushCall  BY <1>5, FlushKeeps
  <1>6. CASE UNCHANGED vars  BY <1>6, SamePlaces DEF vars, IInv
  <1> QED  BY <1>1, <1>2, <1>3, <1>4, <1>5, <1>6 DEF Next

LEMMA Invariant == Spec => []IInv
  <1>1. IInv /\ [Next]_vars => IInv'  BY NextKeeps
  <1> QED  BY <1>1, InitHolds, PTL DEF Spec

-----------------------------------------------------------------------------
(* What Redis holds for the queues, and the history, is well typed (the five
   scripts of queue/activity.go write no other values).                      *)
THEOREM TypeCorrect == Spec => []TypeOK
  <1>1. IInv => TypeOK  BY LapType DEF IInv, Sound, TypeOK
  <1> QED  BY <1>1, Invariant, PTL

(* The sign of a score always says whether the count is above zero, so the
   selections skip nobody with chances and pick nobody without.              *)
THEOREM SignsAlwaysMatch == Spec => []SignMatchesCount
  <1>1. IInv => SignMatchesCount  BY DEF IInv, Sound, Signs, SignMatchesCount
  <1> QED  BY <1>1, Invariant, PTL

(* Places are distinct across both queues and none is ahead of the counter.  *)
THEOREM PlacesAlwaysDistinct == Spec => []PlacesDistinct
  <1>1. IInv => PlacesDistinct  BY DEF IInv, Sound, Places, PlacesDistinct
  <1> QED  BY <1>1, Invariant, PTL

(* No call changes the place of someone who stays a member.                  *)
THEOREM PlacesArePermanent == Spec => PlaceIsForever
  <1>1. IInv /\ [Next]_vars =>
            [\A k \in Kinds : \A u \in Members(redis, k) :
                u \in Members(redis', k) => Place(redis', k, u) = Place(redis, k, u)]_vars
    BY NextKeeps DEF PlacesStay
  <1> QED  BY <1>1, Invariant, PTL DEF Spec, PlaceIsForever

(* Whoever nextByCursorScript serves, nobody eligible was owed a turn before. *)
LEMMA NobodyEligibleOwed ==
    ASSUME IInv, NEW claimant, NEW excluded,
           CursorChoice(redis, claimant, excluded) # Nobody
    PROVE  owed[CursorChoice(redis, claimant, excluded)] \ (excluded \union {claimant}) = {}
  <1> DEFINE s == CursorChoice(redis, claimant, excluded)
             E == Eligible(redis, claimant, excluded)
  <1>1. Sound(redis) /\ Lap(redis, pending, owed)  BY DEF IInv
  <1>2. s \in E /\ \A v \in E \ {s} : Before(redis, s, v)  BY <1>1, ChoiceIsFirst
  <1>3. s \in Users /\ s \in Members(redis, "ordinary")  BY <1>1, <1>2, TurnFacts DEF Eligible
  <1> SUFFICES ASSUME NEW v \in owed[s], v \notin excluded \union {claimant}
               PROVE  FALSE
    OBVIOUS
  <1>4. v \in Active(redis, "ordinary") /\ Before(redis, v, s)  BY <1>1, <1>3 DEF Lap
  <1>5. v \in E /\ v \in Members(redis, "ordinary")  BY <1>1, <1>4, TurnFacts DEF Eligible
  <1>6. Turn(redis, s) \in Nat /\ Turn(redis, v) \in Nat  BY <1>1, <1>3, <1>5, TurnFacts
  <1> HIDE DEF s, E
  <1>7. CASE v = s  BY <1>4, <1>6, <1>7 DEF Before
  <1>8. CASE v # s
    <2>1. Before(redis, s, v)  BY <1>2, <1>5, <1>8
    <2> QED  BY <1>4, <1>6, <2>1 DEF Before
  <1> QED  BY <1>7, <1>8

(* Nobody overtakes the rotation: a publisher is not served again before all
   those that were waiting and could be served.                              *)
THEOREM RotationIsFair == Spec => NobodyOvertakes
  <1> DEFINE Fair == \A claimant \in Users : \A excluded \in SUBSET (Users \ {claimant}) :
          NextByCursorCall(claimant, excluded) =>
            LET chosen == CursorChoice(redis, claimant, excluded)
            IN  owed[chosen] \ (excluded \union {claimant}) = {}
  <1>1. IInv => Fair  BY NobodyEligibleOwed DEF NextByCursorCall
  <1>2. IInv /\ [Next]_vars => [Fair]_vars  BY <1>1
  <1> QED  BY <1>2, Invariant, PTL DEF Spec, NobodyOvertakes

-----------------------------------------------------------------------------
(* Distinct places: the member in front of a set is one.                     *)
LEMMA OldestUnique ==
    ASSUME NEW r, Sound(r), NEW k \in Kinds, NEW S \in SUBSET Members(r, k),
           NEW u \in S, \A v \in S : Place(r, k, u) <= Place(r, k, v)
    PROVE  Oldest(S, r, k) = u
  <1>1. r \in RedisStates /\ S \in SUBSET Users /\ S # {}  BY DEF Sound, Members
  <1> DEFINE o == Oldest(S, r, k)
  <1>2. o \in S /\ \A v \in S : Place(r, k, o) <= Place(r, k, v)  BY <1>1, OldestFirst
  <1> HIDE DEF o
  <1>3. Place(r, k, o) \in Nat /\ Place(r, k, u) \in Nat  BY <1>1, <1>2, PlaceType
  <1>4. Place(r, k, o) = Place(r, k, u)  BY <1>2, <1>3
  <1>5. o \in Members(r, k) /\ u \in Members(r, k)  BY <1>2
  <1>6. o = u  BY <1>4, <1>5 DEF Sound, Places
  <1> QED  BY <1>6 DEF o

(* The first member that is neither the claimant nor excluded has at most these
   in front of it, so it is within the window that nextActivityScript fetches. *)
LEMMA WindowHoldsFirst ==
    ASSUME NEW r, Sound(r), NEW k \in Kinds, NEW c, NEW X \in SUBSET Users,
           NEW u \in Active(r, k) \ (X \union {c}),
           \A v \in Active(r, k) \ (X \union {c}) : Place(r, k, u) <= Place(r, k, v)
    PROVE  u \in Window(r, k, Cardinality(X) + 2)
  <1> DEFINE front == {v \in Active(r, k) : r.score[k][v] <= r.score[k][u]}
             A     == Active(r, k)
  <1>1. A \subseteq Users /\ A \subseteq Members(r, k)
        /\ \A v \in A : r.score[k][v] \in Int /\ Place(r, k, v) = r.score[k][v]
    BY DEF Sound, RedisStates, Active, Members, Place, Abs
  <1>2. IsFiniteSet(X) /\ Cardinality(X) \in Nat
    BY UsersAreFinite, FS_Subset, FS_CardinalityType
  <1>3. ASSUME NEW S, IsFiniteSet(S), NEW x
        PROVE  /\ IsFiniteSet(S \union {x}) /\ Cardinality(S \union {x}) \in Nat
               /\ Cardinality(S) \in Nat
               /\ Cardinality(S \union {x}) <= Cardinality(S) + 1
    <2>1. /\ IsFiniteSet(S \union {x})
          /\ \/ Cardinality(S \union {x}) = Cardinality(S)
             \/ Cardinality(S \union {x}) = Cardinality(S) + 1
      BY <1>3, FS_AddElement
    <2>2. Cardinality(S \union {x}) \in Nat  BY <2>1, FS_CardinalityType
    <2>3. Cardinality(S) \in Nat  BY <1>3, FS_CardinalityType
    <2> QED  BY <2>1, <2>2, <2>3
  <1>4. /\ IsFiniteSet((X \union {c}) \union {u})
        /\ Cardinality((X \union {c}) \union {u}) <= Cardinality(X) + 2
        /\ Cardinality((X \union {c}) \union {u}) \in Nat
    <2>1. /\ IsFiniteSet(X \union {c}) /\ Cardinality(X \union {c}) \in Nat
          /\ Cardinality(X \union {c}) <= Cardinality(X) + 1
      BY <1>2, <1>3
    <2>2. /\ IsFiniteSet((X \union {c}) \union {u})
          /\ Cardinality((X \union {c}) \union {u}) \in Nat
          /\ Cardinality((X \union {c}) \union {u}) <= Cardinality(X \union {c}) + 1
      BY <1>3, <2>1
    <2> QED  BY <1>2, <2>1, <2>2
  <1>5. ASSUME NEW v \in front, v \notin X \union {c}
        PROVE  v = u
    <2>1. v \in A /\ r.score[k][v] <= r.score[k][u]  OBVIOUS
    <2>2. Place(r, k, u) <= Place(r, k, v)  BY <1>5, <2>1
    <2>3. Place(r, k, u) = Place(r, k, v)  BY <1>1, <2>1, <2>2
    <2>4. Places(r) /\ v \in Members(r, k) /\ u \in Members(r, k)
      BY <1>1, <2>1 DEF Sound
    <2> QED  BY <2>3, <2>4 DEF Places
  <1>6. front \in SUBSET ((X \union {c}) \union {u})  BY <1>5
  <1>7. Cardinality(front) <= Cardinality(X) + 2
    <2>1. IsFiniteSet(front) /\ Cardinality(front) <= Cardinality((X \union {c}) \union {u})
      BY <1>4, <1>6, FS_Subset
    <2>2. Cardinality(front) \in Nat  BY <2>1, FS_CardinalityType
    <2> QED  BY <1>2, <1>4, <2>1, <2>2
  <1> QED  BY <1>7 DEF Window

(* So the first in the window is the first of all.                           *)
LEMMA WindowSuffices == IInv => WindowIsWideEnough
  <1> SUFFICES ASSUME IInv PROVE WindowIsWideEnough  OBVIOUS
  <1> SUFFICES ASSUME NEW k \in Kinds, NEW c \in Users, NEW X \in SUBSET (Users \ {c})
               PROVE  LET free == Active(redis, k) \ (X \union {c})
                      IN  NextActive(redis, k, c, X) =
                              IF free = {} THEN Nobody ELSE Oldest(free, redis, k)
    BY DEF WindowIsWideEnough
  <1> DEFINE free   == Active(redis, k) \ (X \union {c})
             window == Window(redis, k, Cardinality(X) + 2)
             found  == window \ (X \union {c})
  <1>1. Sound(redis) /\ redis \in RedisStates  BY DEF IInv, Sound
  <1>2. /\ window \subseteq Active(redis, k) /\ found \subseteq free
        /\ free \subseteq Members(redis, k) /\ free \subseteq Users
    BY DEF Window, Active, Members
  <1>3. NextActive(redis, k, c, X) = IF found = {} THEN Nobody ELSE Oldest(found, redis, k)
    BY DEF NextActive
  <1>4. CASE free = {}  BY <1>2, <1>3, <1>4
  <1>5. CASE free # {}
    <2> DEFINE o == Oldest(free, redis, k)
    <2>1. o \in free /\ \A v \in free : Place(redis, k, o) <= Place(redis, k, v)
      BY <1>1, <1>2, <1>5, OldestFirst
    <2> HIDE DEF o
    <2>2. o \in window  BY <1>1, <2>1, WindowHoldsFirst
    <2>3. o \in found /\ \A v \in found : Place(redis, k, o) <= Place(redis, k, v)
      BY <1>2, <2>1, <2>2
    <2>4. found \in SUBSET Members(redis, k)  BY <1>2
    <2> HIDE DEF found, window
    <2>5. Oldest(found, redis, k) = o  BY <1>1, <2>3, <2>4, OldestUnique
    <2> QED  BY <1>3, <1>5, <2>3, <2>5 DEF o
  <1> QED  BY <1>4, <1>5

(* The bounded fetch of the selection finds what a scan of the queue would.  *)
THEOREM WindowAlwaysWide == Spec => []WindowIsWideEnough
  BY WindowSuffices, Invariant, PTL

(* Of two sets of members up to some place, one contains the other.          *)
LEMMA SameSizeSameFront ==
    ASSUME NEW S, NEW T, IsFiniteSet(S), IsFiniteSet(T), S \subseteq T \/ T \subseteq S,
           Cardinality(S) = Cardinality(T)
    PROVE  S = T
  BY FS_Subset

(* As many members in front of u as the cursor has passed: the same ones.    *)
LEMMA RankPredicts == IInv => RankPredictsChoice
  <1> SUFFICES ASSUME IInv PROVE RankPredictsChoice  OBVIOUS
  <1> DEFINE M == Members(redis, "ordinary")
             passed == {v \in M : Place(redis, "ordinary", v) <= redis.cursor}
             front(u) == {v \in M : Place(redis, "ordinary", v) < Place(redis, "ordinary", u)}
  <1> SUFFICES ASSUME NEW u \in Active(redis, "ordinary"),
                      Cardinality(front(u)) = CursorRank(redis),
                      NEW c \in (Users \union {Nobody}) \ {u}
               PROVE  CursorChoice(redis, c, {}) = u
    BY DEF RankPredictsChoice
  <1>1. Sound(redis)  BY DEF IInv
  <1>2. /\ redis.cursor \in Nat /\ M \subseteq Users /\ u \in M
        /\ Active(redis, "ordinary") \subseteq M
        /\ \A v \in M : Turn(redis, v) \in Nat /\ Turn(redis, v) > 0
    BY <1>1, TurnFacts
  <1>3. IsFiniteSet(M) /\ IsFiniteSet(passed) /\ IsFiniteSet(front(u))
    <2>1. IsFiniteSet(M)  BY <1>2, UsersAreFinite, FS_Subset
    <2> QED  BY <2>1, FS_Subset
  <1> DEFINE E     == Active(redis, "ordinary") \ ({} \union {c})
             ahead == {v \in E : Place(redis, "ordinary", v) > redis.cursor}
  <1>4. u \in E /\ E \subseteq M /\ "ordinary" \in Kinds  BY <1>2 DEF Kinds
  <1>5. CursorChoice(redis, c, {}) = IF ahead # {} THEN Oldest(ahead, redis, "ordinary")
                                                   ELSE Oldest(E, redis, "ordinary")
    BY <1>4 DEF CursorChoice
  <1>6. CASE redis.cursor = 0 \/ Cardinality(passed) >= Cardinality(M)
    <2>1. CursorRank(redis) = 0  BY <1>6 DEF CursorRank
    <2>2. front(u) = {}  BY <1>3, <2>1, FS_EmptySet
    <2>3. \A v \in E : Place(redis, "ordinary", u) <= Place(redis, "ordinary", v)
      BY <1>2, <1>4, <2>2 DEF Turn
    <2>4. Oldest(E, redis, "ordinary") = u  BY <1>1, <1>4, <2>3, OldestUnique
    <2>5. ahead = E \/ ahead = {}
      <3>1. CASE redis.cursor = 0  BY <1>2, <1>4, <3>1 DEF Turn
      <3>2. CASE Cardinality(passed) >= Cardinality(M)
        <4>1. passed \in SUBSET M  OBVIOUS
        <4>2. /\ Cardinality(passed) <= Cardinality(M)
              /\ Cardinality(passed) \in Nat /\ Cardinality(M) \in Nat
          BY <1>3, <4>1, FS_Subset, FS_CardinalityType
        <4>3. Cardinality(M) = Cardinality(passed)  BY <3>2, <4>2
        <4>4. passed = M  BY <1>3, <4>1, <4>3, FS_Subset
        <4>5. \A v \in E : ~(Place(redis, "ordinary", v) > redis.cursor)
          BY <1>2, <1>4, <4>4 DEF Turn
        <4> QED  BY <4>5
      <3> QED  BY <1>6, <3>1, <3>2
    <2> QED  BY <1>4, <1>5, <2>4, <2>5
  <1>7. CASE ~(redis.cursor = 0 \/ Cardinality(passed) >= Cardinality(M))
    <2>1. CursorRank(redis) = Cardinality(passed)  BY <1>7 DEF CursorRank
    <2>2. front(u) \subseteq passed \/ passed \subseteq front(u)
      <3>1. CASE Turn(redis, u) <= redis.cursor
        BY <1>2, <3>1 DEF Turn
      <3>2. CASE ~(Turn(redis, u) <= redis.cursor)
        BY <1>2, <3>2 DEF Turn
      <3> QED  BY <3>1, <3>2
    <2>3. front(u) = passed  BY <1>3, <2>1, <2>2, SameSizeSameFront
    <2>4. u \in ahead
      BY <1>2, <1>4, <2>3 DEF Turn
    <2>5. \A v \in ahead : Place(redis, "ordinary", u) <= Place(redis, "ordinary", v)
      BY <1>2, <1>4, <2>3 DEF Turn
    <2>6. ahead \in SUBSET M  BY <1>4
    <2> HIDE DEF ahead
    <2>7. Oldest(ahead, redis, "ordinary") = u
      BY <1>1, <1>4, <2>4, <2>5, <2>6, OldestUnique
    <2> QED  BY <1>5, <2>4, <2>7
  <1> QED  BY <1>6, <1>7

(* The rank that the admin monitor shows names the next to be served: the
   cursor is where OrdinaryStatus says it is.                                *)
THEOREM RankAlwaysPredicts == Spec => []RankPredictsChoice
  BY RankPredicts, Invariant, PTL
=============================================================================
