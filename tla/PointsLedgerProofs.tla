------------------------- MODULE PointsLedgerProofs -------------------------
(* Theorems about PointsLedger, for any users, phones, codes, requests and bounds.
   The inductive invariant is the types and ReadsHold: a transaction that goes on
   finds what it has read, for nobody writes to what another has locked.          *)
EXTENDS PointsLedger, FiniteSetTheorems, TLAPS

Inv == TypeOK /\ ReadsHold

USE DEF At, Free

-----------------------------------------------------------------------------
(* The records a transaction starts with. *)
LEMMA StartRecords ==
    /\ Absent \in CodeRecords
    /\ Idle \in RequestRecords
    /\ [Idle EXCEPT !.pc = "done"] \in RequestRecords
    /\ \A u \in Users, p \in Phones, v \in Users \union {None} :
           [Idle EXCEPT !.pc = "phone", !.user = u, !.phone = p, !.inviter = v] \in RequestRecords
    /\ \A u \in Users, v \in Users :
           [Idle EXCEPT !.pc = "refer", !.user = u, !.inviter = v] \in RequestRecords
    /\ \A u \in Users, c \in Codes, x \in CodeRecords :
           [Idle EXCEPT !.pc = "credit", !.user = u, !.code = c, !.seen = x] \in RequestRecords
    /\ \A u \in Users, n \in Amounts :
           [Idle EXCEPT !.pc = "pay", !.user = u, !.amount = n] \in RequestRecords
  <1>1. Absent \in CodeRecords  BY DEF Absent, CodeRecords
  <1>2. Idle \in RequestRecords  BY <1>1 DEF Idle, RequestRecords, PCs
  <1>3. Amounts \subseteq Nat  BY LedgerNumbers
  <1> QED  BY <1>1, <1>2, <1>3 DEF Idle, RequestRecords, PCs

(* A request that is not under way holds whatever it reads. *)
LEMMA DoneHolds ==
    ASSUME NEW r \in Requests, request'[r] = [Idle EXCEPT !.pc = "done"]
    PROVE  Holds(r, request[r])'
  BY DEF Holds, Idle

-----------------------------------------------------------------------------
(* What a step of r leaves to the others. Nobody writes to what s has locked. *)
Unwritten(x) ==
    /\ x \in Users  => phone'[x] = phone[x] /\ inviter'[x] = inviter[x] /\ points'[x] = points[x]
    /\ x \in Codes  => SameCode(codes'[x], codes[x])
    /\ x \in Phones => (Owner(x) = {} => Owner(x)' = {})

Untouched(r) ==
    \A x \in Resources : lock[x] \notin {None, r} => lock'[x] = lock[x] /\ Unwritten(x)

LEMMA OthersHold ==
    ASSUME Inv, TypeOK', NEW r \in Requests, NEW s \in Requests \ {r}, Untouched(r),
           request'[s] = request[s]
    PROVE  Holds(s, request[s])'
  <1> DEFINE q == request[s]
  <1>1. Holds(s, q) /\ s # None /\ q \in RequestRecords
    BY LedgerDistinct DEF Inv, ReadsHold, TypeOK
  <1>2. ASSUME q.pc \in {"phone", "reward"}  PROVE BindHolds(s, q)'
    BY <1>1, <1>2 DEF Holds, BindHolds, Untouched, Unwritten, Resources
  <1>3. ASSUME q.pc = "reward"
        PROVE  lock'[q.phone] = s /\ Owner(q.phone)' = {}
    <2>1. q.phone \in Phones /\ lock[q.phone] = s /\ Owner(q.phone) = {}
      BY <1>1, <1>3 DEF Holds, BindHolds
    <2> QED  BY <1>1, <2>1 DEF Untouched, Unwritten, Resources
  <1>4. ASSUME q.pc = "credit"
        PROVE  lock'[q.code] = s /\ SameCode(codes'[q.code], q.seen)
    <2>1. q.code \in Codes /\ lock[q.code] = s /\ SameCode(codes[q.code], q.seen)
      BY <1>1, <1>4 DEF Holds
    <2>2. lock'[q.code] = s /\ SameCode(codes'[q.code], codes[q.code])
      BY <1>1, <2>1 DEF Untouched, Unwritten, Resources
    <2> QED  BY <2>1, <2>2 DEF SameCode
  <1>5. ASSUME q.pc = "pay"  PROVE lock'[q.user] = s /\ points'[q.user] >= q.amount
    BY <1>1, <1>5 DEF Holds, Untouched, Unwritten, Resources
  <1> QED  BY <1>1, <1>2, <1>3, <1>4, <1>5 DEF Holds


(* A step of r keeps the invariant if r holds what it has read, and others theirs. *)
LEMMA StepOfRequest ==
    ASSUME Inv, TypeOK', NEW r \in Requests, Untouched(r), Holds(r, request[r])',
           \A s \in Requests \ {r} : request'[s] = request[s]
    PROVE  Inv'
  <1>1. ASSUME NEW s \in Requests  PROVE Holds(s, request[s])'
    BY <1>1, OthersHold
  <1> QED  BY <1>1 DEF Inv, ReadsHold

(* The end of a transaction, its locks released. *)
LEMMA EndOfRequest ==
    ASSUME Inv, NEW r \in Requests, Ended(r)
    PROVE  /\ request' \in [Requests -> RequestRecords]
           /\ Holds(r, request[r])'
           /\ \A s \in Requests \ {r} : request'[s] = request[s]
  <1>1. request'[r] = [Idle EXCEPT !.pc = "done"]  BY DEF Ended, Inv, TypeOK
  <1>2. Holds(r, request[r])'  BY <1>1, DoneHolds
  <1> QED  BY <1>2, StartRecords DEF Ended, Inv, TypeOK

LEMMA ReleasedLocks ==
    ASSUME Inv, NEW r \in Requests, Released(r)
    PROVE  /\ lock' \in [Resources -> Requests \union {None}]
           /\ \A x \in Resources : lock[x] # r => lock'[x] = lock[x]
  BY DEF Released, Inv, TypeOK

(* A step of r that leaves the tables, and the locks of the others. *)
LEMMA TablesUntouched ==
    ASSUME UNCHANGED tables, NEW r, \A x \in Resources : lock[x] \notin {None, r} => lock'[x] = lock[x]
    PROVE  Untouched(r)
  BY DEF Untouched, Unwritten, tables, SameCode, Owner

LEMMA RollbackInv ==
    ASSUME Inv, NEW r \in Requests, Rollback(r), late' = late, faults' \in 0 .. MaxFaults
    PROVE  Inv'
  <1>1. TypeOK'  BY EndOfRequest, ReleasedLocks DEF Rollback, tables, Inv, TypeOK
  <1>2. Untouched(r)  BY ReleasedLocks, TablesUntouched DEF Rollback
  <1> QED  BY <1>1, <1>2, EndOfRequest, StepOfRequest DEF Rollback

LEMMA RefusedInv ==
    ASSUME Inv, NEW r \in Requests, Refused(r), UNCHANGED <<late, faults>>
    PROVE  Inv'
  <1>1. TypeOK'  BY EndOfRequest DEF Refused, tables, Inv, TypeOK
  <1>2. Untouched(r)  BY TablesUntouched DEF Refused
  <1> QED  BY <1>1, <1>2, EndOfRequest, StepOfRequest DEF Refused

(* A request goes on to a stage with record a, and may lock x. *)
LEMMA GoOn ==
    ASSUME Inv, NEW r \in Requests, NEW a \in RequestRecords, Goto(r, a), UNCHANGED tables,
           UNCHANGED <<late, faults>>,
           \/ UNCHANGED lock
           \/ \E x \in Resources : Free(x) /\ Locked(r, x),
           Holds(r, request[r])'
    PROVE  Inv'
  <1>1. \A x \in Resources : lock[x] \notin {None, r} => lock'[x] = lock[x]
    BY DEF Locked, Inv, TypeOK
  <1>2. TypeOK'
    <2>1. lock' \in [Resources -> Requests \union {None}]  BY DEF Locked, Inv, TypeOK
    <2>2. request' \in [Requests -> RequestRecords]  BY DEF Goto, Inv, TypeOK
    <2> QED  BY <2>1, <2>2 DEF tables, Inv, TypeOK
  <1>3. Untouched(r)  BY <1>1, TablesUntouched
  <1>4. \A s \in Requests \ {r} : request'[s] = request[s]  BY DEF Goto, Inv, TypeOK
  <1> QED  BY <1>2, <1>3, <1>4, StepOfRequest

-----------------------------------------------------------------------------
(* The first step of each kind of request. *)
LEMMA BindReadInv ==
    ASSUME Inv, NEW r \in Requests, NEW u \in Users, NEW p \in Phones, BindRead(r, u, p)
    PROVE  Inv'
  <1>1. CASE Refused(r)  BY <1>1, RefusedInv DEF BindRead
  <1>2. CASE ~Refused(r)
    <2> DEFINE a == [Idle EXCEPT !.pc = "phone", !.user = u, !.phone = p, !.inviter = inviter[u]]
    <2>1. /\ phone[u] = None /\ Locked(r, u) /\ Free(u) /\ Goto(r, a)
          /\ UNCHANGED tables /\ UNCHANGED <<late, faults>>
      BY <1>2 DEF BindRead
    <2>2. a \in RequestRecords  BY StartRecords DEF Inv, TypeOK
    <2>3. a.pc = "phone" /\ a.user = u /\ a.phone = p /\ a.inviter = inviter[u]  BY DEF Idle
    <2>4. request'[r] = a /\ lock'[u] = r
      BY <2>1 DEF Goto, Locked, Inv, TypeOK, Resources
    <2>5. Holds(r, request[r])'
      BY <2>1, <2>3, <2>4 DEF Holds, BindHolds, tables
    <2> QED  BY <2>1, <2>2, <2>5, GoOn DEF Resources
  <1> QED  BY <1>1, <1>2

LEMMA ReferReadInv ==
    ASSUME Inv, NEW r \in Requests, NEW u \in Users, NEW v \in Users, ReferRead(r, u, v)
    PROVE  Inv'
  <1>1. CASE Refused(r)  BY <1>1, RefusedInv DEF ReferRead
  <1>2. CASE ~Refused(r)
    <2> DEFINE a == [Idle EXCEPT !.pc = "refer", !.user = u, !.inviter = v]
    <2>1. u # v /\ Goto(r, a) /\ UNCHANGED tables /\ UNCHANGED <<lock, late, faults>>
      BY <1>2 DEF ReferRead
    <2>2. a \in RequestRecords  BY StartRecords
    <2>3. a.pc = "refer" /\ a.user = u /\ a.inviter = v  BY DEF Idle
    <2>4. request'[r] = a  BY <2>1 DEF Goto, Inv, TypeOK
    <2>5. Holds(r, request[r])'  BY <2>1, <2>3, <2>4 DEF Holds
    <2> QED  BY <2>1, <2>2, <2>5, GoOn
  <1> QED  BY <1>1, <1>2

LEMMA ExchangeReadInv ==
    ASSUME Inv, NEW r \in Requests, NEW u \in Users, NEW c \in Codes, ExchangeRead(r, u, c)
    PROVE  Inv'
  <1>1. CASE Refused(r)  BY <1>1, RefusedInv DEF ExchangeRead
  <1>2. CASE ~Refused(r)
    <2> DEFINE a == [Idle EXCEPT !.pc = "credit", !.user = u, !.code = c, !.seen = codes[c]]
    <2>1. /\ codes[c].status = "unused" /\ ~Exhausted(codes[c])
          /\ Locked(r, c) /\ Free(c) /\ Goto(r, a)
          /\ UNCHANGED tables /\ UNCHANGED <<late, faults>>
      BY <1>2 DEF ExchangeRead
    <2>2. a \in RequestRecords  BY StartRecords DEF Inv, TypeOK
    <2>3. a.pc = "credit" /\ a.user = u /\ a.code = c /\ a.seen = codes[c]  BY DEF Idle
    <2>4. request'[r] = a /\ lock'[c] = r
      BY <2>1 DEF Goto, Locked, Inv, TypeOK, Resources
    <2>5. Holds(r, request[r])'
      BY <2>1, <2>3, <2>4 DEF Holds, SameCode, Exhausted, tables
    <2> QED  BY <2>1, <2>2, <2>5, GoOn DEF Resources
  <1> QED  BY <1>1, <1>2

LEMMA BoostReadInv ==
    ASSUME Inv, NEW r \in Requests, NEW u \in Users, NEW n \in Amounts, BoostRead(r, u, n)
    PROVE  Inv'
  <1>1. CASE Refused(r)  BY <1>1, RefusedInv DEF BoostRead
  <1>2. CASE ~Refused(r)
    <2> DEFINE a == [Idle EXCEPT !.pc = "pay", !.user = u, !.amount = n]
    <2>1. /\ points[u] >= n /\ Locked(r, u) /\ Free(u) /\ Goto(r, a)
          /\ UNCHANGED tables /\ UNCHANGED <<late, faults>>
      BY <1>2 DEF BoostRead
    <2>2. a \in RequestRecords  BY StartRecords
    <2>3. a.pc = "pay" /\ a.user = u /\ a.amount = n  BY DEF Idle
    <2>4. request'[r] = a /\ lock'[u] = r
      BY <2>1 DEF Goto, Locked, Inv, TypeOK, Resources
    <2>5. Holds(r, request[r])'  BY <2>1, <2>3, <2>4 DEF Holds, tables
    <2> QED  BY <2>1, <2>2, <2>5, GoOn DEF Resources
  <1> QED  BY <1>1, <1>2

-----------------------------------------------------------------------------
(* The steps of a transaction. *)
TablesTyped ==
    /\ points   \in [Users -> Int]
    /\ phone    \in [Users -> Phones \union {None}]
    /\ inviter  \in [Users -> Users \union {None}]
    /\ records  \in [Users -> [Sources -> Int]]
    /\ codes    \in [Codes -> CodeRecords]
    /\ redeemed \subseteq Codes \X Users
    /\ late     \subseteq Users
    /\ faults   \in 0 .. MaxFaults

LEMMA CommitInv ==
    ASSUME Inv, NEW r \in Requests, Commit(r), TablesTyped',
           \A x \in Resources : lock[x] \notin {None, r} => Unwritten(x)
    PROVE  Inv'
  <1>1. TypeOK'  BY EndOfRequest, ReleasedLocks DEF Commit, TablesTyped, TypeOK
  <1>2. Untouched(r)  BY ReleasedLocks DEF Commit, Untouched
  <1> QED  BY <1>1, <1>2, EndOfRequest, StepOfRequest DEF Commit

LEMMA PayTypes ==
    ASSUME TypeOK, NEW u \in Users, NEW source \in Sources, NEW n \in Int, Pay(u, source, n)
    PROVE  /\ points' \in [Users -> Int] /\ records' \in [Users -> [Sources -> Int]]
           /\ \A v \in Users \ {u} : points'[v] = points[v]
           /\ points'[u] = points[u] + n
  BY DEF Pay, TypeOK

LEMMA BindPhoneInv ==
    ASSUME Inv, NEW r \in Requests, BindPhone(r)
    PROVE  Inv'
  <1> DEFINE q == request[r]
  <1>1. /\ q \in RequestRecords /\ q.pc = "phone" /\ Free(q.phone) /\ BindHolds(r, q)
        /\ UNCHANGED <<late, faults>>
    BY DEF BindPhone, Inv, TypeOK, ReadsHold, Holds
  <1>2. CASE Rollback(r)
    BY <1>1, <1>2, RollbackInv DEF Inv, TypeOK
  <1>3. CASE /\ Owner(q.phone) \ {q.user} = {} /\ q.inviter # None
             /\ Locked(r, q.phone) /\ Goto(r, [q EXCEPT !.pc = "reward"]) /\ UNCHANGED tables
    <2> DEFINE a == [q EXCEPT !.pc = "reward"]
    <2>1. /\ a \in RequestRecords /\ a.pc = "reward" /\ a.user = q.user /\ a.phone = q.phone
          /\ a.inviter = q.inviter /\ q.inviter \in Users
      BY <1>1, <1>3 DEF RequestRecords, PCs
    <2>2. q.user \in Users /\ q.phone \in Phones  BY <1>1 DEF BindHolds
    <2>3. request'[r] = a /\ lock'[q.phone] = r /\ lock'[q.user] = r
      BY <1>1, <1>3, <2>2 DEF Goto, Locked, Inv, TypeOK, Resources, BindHolds
    <2>4. Owner(q.phone) = {}
      BY <1>1, <1>3, <2>2, LedgerDistinct DEF Owner, BindHolds
    <2>5. Holds(r, request[r])'
      BY <1>1, <1>3, <2>1, <2>2, <2>3, <2>4 DEF Holds, BindHolds, tables, Owner
    <2> QED  BY <1>1, <1>3, <2>1, <2>2, <2>5, GoOn DEF Resources
  <1>4. CASE /\ phone' = [phone EXCEPT ![q.user] = q.phone]
             /\ UNCHANGED <<points, inviter, records, codes, redeemed>> /\ Commit(r)
    <2>1. TablesTyped'  BY <1>1, <1>4 DEF TablesTyped, Inv, TypeOK, RequestRecords
    <2>2. ASSUME NEW x \in Resources, lock[x] \notin {None, r}  PROVE Unwritten(x)
      <3>1. x # q.user /\ x # q.phone  BY <1>1, <2>2 DEF BindHolds
      <3> QED  BY <1>4, <3>1 DEF Unwritten, SameCode, Owner, Inv, TypeOK
    <2> QED  BY <1>4, <2>1, <2>2, CommitInv
  <1> QED  BY <1>2, <1>3, <1>4 DEF BindPhone

LEMMA BindRewardInv ==
    ASSUME Inv, NEW r \in Requests, BindReward(r)
    PROVE  Inv'
  <1> DEFINE q == request[r]
  <1>1. /\ q \in RequestRecords /\ BindHolds(r, q) /\ q.inviter \in Users
        /\ lock[q.phone] = r /\ Free(q.inviter) /\ Commit(r)
        /\ UNCHANGED <<inviter, codes, redeemed, late, faults>>
    BY DEF BindReward, Inv, TypeOK, ReadsHold, Holds
  <1>2. /\ phone'   = [phone EXCEPT ![q.user] = q.phone]
        /\ points'  = [u \in Users |-> points[u] + IF u \in Rewarded(q) THEN Reward ELSE 0]
        /\ records' = [u \in Users |-> [records[u] EXCEPT !["invite"] =
                                           @ + IF u \in Recorded(q) THEN Reward ELSE 0]]
    BY DEF BindReward
  <1>3. TablesTyped'
    <2>1. phone' \in [Users -> Phones \union {None}]
      BY <1>1, <1>2 DEF Inv, TypeOK, BindHolds
    <2>2. points' \in [Users -> Int]  BY <1>2, LedgerNumbers DEF Inv, TypeOK
    <2>3. records' \in [Users -> [Sources -> Int]]
      BY <1>2, LedgerNumbers DEF Inv, TypeOK, Sources
    <2> QED  BY <1>1, <2>1, <2>2, <2>3 DEF TablesTyped, Inv, TypeOK
  <1>4. ASSUME NEW x \in Resources, lock[x] \notin {None, r}  PROVE Unwritten(x)
    <2>1. x # q.user /\ x # q.phone /\ x # q.inviter  BY <1>1, <1>4 DEF BindHolds
    <2>2. x \in Users => x \notin Rewarded(q) /\ points'[x] = points[x]
      BY <1>2, <2>1 DEF Rewarded, Inv, TypeOK
    <2> QED  BY <1>1, <1>2, <2>1, <2>2 DEF Unwritten, SameCode, Owner, Inv, TypeOK
  <1> QED  BY <1>1, <1>3, <1>4, CommitInv

LEMMA ReferInv ==
    ASSUME Inv, NEW r \in Requests, Refer(r)
    PROVE  Inv'
  <1> DEFINE q == request[r]
  <1>1. /\ q.user \in Users /\ q.inviter \in Users /\ Free(q.user) /\ Commit(r)
        /\ UNCHANGED <<points, phone, records, codes, redeemed, faults>>
        /\ \/ UNCHANGED <<inviter, late>>
           \/ /\ inviter' = [inviter EXCEPT ![q.user] = q.inviter]
              /\ late' \in {late, late \union {q.user}}
    BY DEF Refer, Inv, ReadsHold, Holds
  <1>2. TablesTyped'  BY <1>1 DEF TablesTyped, Inv, TypeOK
  <1>3. ASSUME NEW x \in Resources, lock[x] \notin {None, r}  PROVE Unwritten(x)
    <2>1. x # q.user  BY <1>1, <1>3
    <2> QED  BY <1>1, <2>1 DEF Unwritten, SameCode, Owner, Inv, TypeOK
  <1> QED  BY <1>1, <1>2, <1>3, CommitInv

(* The row of a code that is used. *)
LEMMA UsedUpTypes ==
    ASSUME NEW q, q.code \in Codes, q.user \in Users, codes[q.code] \in CodeRecords
    PROVE  UsedUp(q) \in CodeRecords
  <1> DEFINE x == codes[q.code]
             closing == q.seen.max > 0 /\ q.seen.used + 1 >= q.seen.max
             s == IF closing THEN "used" ELSE x.status
  <1>1. s \in {"absent", "unused", "used"} /\ x.used + 1 \in Nat  BY DEF CodeRecords
  <1>2. [x EXCEPT !.used = @ + 1, !.status = s] \in CodeRecords
    <2> HIDE DEF s
    <2> QED  BY <1>1 DEF CodeRecords
  <1>3. [x EXCEPT !.status = "used", !.usedBy = q.user] \in CodeRecords  BY DEF CodeRecords
  <1>4. UsedUp(q) = IF q.seen.public THEN [x EXCEPT !.used = @ + 1, !.status = s]
                                     ELSE [x EXCEPT !.status = "used", !.usedBy = q.user]
    BY Zenon DEF UsedUp
  <1> QED  BY <1>2, <1>3, <1>4

LEMMA CreditInv ==
    ASSUME Inv, NEW r \in Requests, Credit(r)
    PROVE  Inv'
  <1> DEFINE q == request[r]
  <1>1. CASE Rollback(r)
    BY <1>1, RollbackInv DEF Credit, Inv, TypeOK
  <1>2. CASE ~Rollback(r)
    <2>1. /\ q.user \in Users /\ q.code \in Codes /\ lock[q.code] = r /\ q.seen \in CodeRecords
      BY DEF Credit, Inv, TypeOK, ReadsHold, Holds, RequestRecords
    <2>2. /\ Free(q.user) /\ Commit(r)
          /\ redeemed' = redeemed \union (IF q.seen.public THEN {<<q.code, q.user>>} ELSE {})
          /\ codes' = [codes EXCEPT ![q.code] = UsedUp(q)]
          /\ Pay(q.user, "exchange_code", q.seen.points)
          /\ UNCHANGED <<phone, inviter, late, faults>>
      BY <1>2 DEF Credit
    <2>3. UsedUp(q) \in CodeRecords
      <3>1. codes[q.code] \in CodeRecords  BY <2>1 DEF Inv, TypeOK
      <3> QED  BY <2>1, <3>1, UsedUpTypes
    <2>4. q.seen.points \in Int  BY <2>1 DEF CodeRecords
    <2>5. /\ points' \in [Users -> Int] /\ records' \in [Users -> [Sources -> Int]]
          /\ \A v \in Users \ {q.user} : points'[v] = points[v]
      BY <2>1, <2>2, <2>4, PayTypes DEF Inv, Sources
    <2>6. codes' \in [Codes -> CodeRecords] /\ redeemed' \subseteq Codes \X Users
      BY <2>1, <2>2, <2>3 DEF Inv, TypeOK
    <2>7. TablesTyped'
      BY <2>2, <2>5, <2>6 DEF TablesTyped, Inv, TypeOK
    <2>8. ASSUME NEW x \in Resources, lock[x] \notin {None, r}  PROVE Unwritten(x)
      <3>1. x # q.user /\ x # q.code  BY <2>1, <2>2, <2>8
      <3> QED  BY <2>2, <2>5, <3>1 DEF Unwritten, SameCode, Owner, Inv, TypeOK
    <2> QED  BY <2>2, <2>7, <2>8, CommitInv
  <1> QED  BY <1>1, <1>2

LEMMA BoostPayInv ==
    ASSUME Inv, NEW r \in Requests, BoostPay(r)
    PROVE  Inv'
  <1> DEFINE q == request[r]
  <1>1. /\ q.user \in Users /\ lock[q.user] = r /\ -q.amount \in Int /\ Commit(r)
        /\ Pay(q.user, "activity_boost", -q.amount)
        /\ UNCHANGED <<phone, inviter, codes, redeemed, late, faults>>
    BY DEF BoostPay, Inv, TypeOK, ReadsHold, Holds, RequestRecords
  <1>2. /\ points' \in [Users -> Int] /\ records' \in [Users -> [Sources -> Int]]
        /\ \A v \in Users \ {q.user} : points'[v] = points[v]
    BY <1>1, PayTypes DEF Inv, Sources
  <1>3. TablesTyped'  BY <1>1, <1>2 DEF TablesTyped, Inv, TypeOK
  <1>4. ASSUME NEW x \in Resources, lock[x] \notin {None, r}  PROVE Unwritten(x)
    <2>1. x # q.user  BY <1>1, <1>4
    <2> QED  BY <1>1, <1>2, <2>1 DEF Unwritten, SameCode, Owner
  <1> QED  BY <1>1, <1>3, <1>4, CommitInv

LEMMA RechargeInv ==
    ASSUME Inv, NEW r \in Requests, NEW p \in Phones, NEW n \in Amounts, Recharge(r, p, n)
    PROVE  Inv'
  <1>1. PICK u \in Users : Free(u) /\ Pay(u, "admin_recharge", n)
    BY DEF Recharge, Owner
  <1>2. n \in Int  BY LedgerNumbers
  <1>3. /\ points' \in [Users -> Int] /\ records' \in [Users -> [Sources -> Int]]
        /\ \A v \in Users \ {u} : points'[v] = points[v]
    BY <1>1, <1>2, PayTypes DEF Inv, Sources
  <1>4. Ended(r) /\ UNCHANGED <<phone, inviter, codes, redeemed, lock, late, faults>>
    BY DEF Recharge
  <1>5. TypeOK'  BY <1>3, <1>4, EndOfRequest DEF Inv, TypeOK
  <1>6. Untouched(r)
    <2>1. ASSUME NEW x \in Resources, lock[x] \notin {None, r}  PROVE Unwritten(x)
      BY <1>1, <1>3, <1>4, <2>1 DEF Unwritten, SameCode, Owner
    <2> QED  BY <1>4, <2>1 DEF Untouched
  <1> QED  BY <1>4, <1>5, <1>6, EndOfRequest, StepOfRequest

(* Codes come and expire under the locks of others: only an absent code is made. *)
LEMMA CodesInv ==
    ASSUME Inv, NEW c \in Codes,
           codes' = [codes EXCEPT ![c] = codes'[c]], codes'[c] \in CodeRecords,
           codes[c].status = "unused" => SameCode(codes'[c], codes[c]),
           UNCHANGED <<points, phone, inviter, records, redeemed, lock, request, late, faults>>
    PROVE  Inv'
  <1>1. TypeOK'  BY DEF Inv, TypeOK
  <1>2. ASSUME NEW s \in Requests  PROVE Holds(s, request[s])'
    <2> DEFINE q == request[s]
    <2>1. Holds(s, q)  BY DEF Inv, ReadsHold
    <2>2. ASSUME q.pc = "credit"  PROVE SameCode(codes'[q.code], q.seen)
      <3>1. q.code \in Codes /\ SameCode(codes[q.code], q.seen) /\ codes[q.code].status = "unused"
        BY <2>1, <2>2 DEF Holds, SameCode
      <3>2. SameCode(codes'[q.code], codes[q.code])
        BY <3>1 DEF SameCode, Inv, TypeOK
      <3> QED  BY <3>1, <3>2 DEF SameCode
    <2> QED  BY <2>1, <2>2 DEF Holds, BindHolds, Owner
  <1> QED  BY <1>1, <1>2 DEF Inv, ReadsHold

LEMMA CreateInv ==
    ASSUME Inv, NEW c \in Codes, NEW n \in Amounts, Create(c, n)
    PROVE  Inv'
  <1>1. codes[c].status = "absent"
    <2>1. codes[c] = Absent  BY Zenon DEF Create
    <2>2. Absent.status = "absent"  BY DEF Absent
    <2> QED  BY <2>1, <2>2
  <1>2. codes'[c] \in CodeRecords /\ codes' = [codes EXCEPT ![c] = codes'[c]]
    <2>1. n \in Nat /\ Limits \subseteq Nat  BY LedgerNumbers
    <2>2. [Absent EXCEPT !.status = "unused", !.points = n] \in CodeRecords
      BY <2>1, StartRecords DEF Absent, CodeRecords
    <2>3. \A m \in Limits :
            [Absent EXCEPT !.status = "unused", !.points = n, !.public = TRUE, !.max = m] \in CodeRecords
      BY <2>1, StartRecords DEF Absent, CodeRecords
    <2>4. PICK new \in CodeRecords : codes' = [codes EXCEPT ![c] = new]
      BY <2>2, <2>3 DEF Create
    <2> QED  BY <2>4 DEF Inv, TypeOK
  <1> QED  BY <1>1, <1>2, CodesInv DEF Create

LEMMA ExpireInv ==
    ASSUME Inv, NEW c \in Codes, Expire(c)
    PROVE  Inv'
  <1>1. codes[c] \in CodeRecords  BY DEF Inv, TypeOK
  <1>2. codes'[c] = [codes[c] EXCEPT !.expired = TRUE] /\ codes' = [codes EXCEPT ![c] = codes'[c]]
    <2> DEFINE new == [codes[c] EXCEPT !.expired = TRUE]
    <2>1. codes' = [codes EXCEPT ![c] = new]  BY <1>1, Zenon DEF Expire
    <2> HIDE DEF new
    <2>2. codes'[c] = new  BY <2>1 DEF Inv, TypeOK
    <2> QED  BY <2>1, <2>2 DEF new
  <1>3. codes'[c] \in CodeRecords /\ SameCode(codes'[c], codes[c])
    BY <1>1, <1>2 DEF CodeRecords, SameCode
  <1> QED  BY <1>2, <1>3, CodesInv DEF Expire

(* Whatever an ending transaction is, it leaves by Rollback: victims and failures. *)
LEMMA EndedInv ==
    ASSUME Inv, NEW r \in Requests, Victim(r) \/ Fail(r)
    PROVE  Inv'
  BY RollbackInv, LedgerNumbers DEF Victim, Fail, Inv, TypeOK

LEMMA InitInv == Init => Inv
  <1> SUFFICES ASSUME Init PROVE Inv  OBVIOUS
  <1>1. TypeOK
    <2>1. records \in [Users -> [Sources -> Int]] /\ points \in [Users -> Int]  BY DEF Init
    <2>2. codes \in [Codes -> CodeRecords] /\ request \in [Requests -> RequestRecords]
      BY StartRecords DEF Init
    <2>3. faults \in 0 .. MaxFaults  BY LedgerNumbers DEF Init
    <2> QED  BY <2>1, <2>2, <2>3 DEF Init, TypeOK
  <1>2. ReadsHold  BY DEF Init, ReadsHold, Holds, Idle
  <1> QED  BY <1>1, <1>2 DEF Inv

LEMMA NextInv ==
    ASSUME Inv, [Next]_vars
    PROVE  Inv'
  <1>1. CASE UNCHANGED vars
    BY <1>1 DEF vars, tables, Inv, TypeOK, ReadsHold, Holds, BindHolds, SameCode, Owner
  <1>2. ASSUME NEW r \in Requests, Proceed(r) \/ Fail(r)  PROVE Inv'
    BY <1>2, BindPhoneInv, BindRewardInv, ReferInv, CreditInv, BoostPayInv, EndedInv DEF Proceed
  <1>3. ASSUME NEW r \in Requests, NEW u \in Users,
               \/ \E p \in Phones : BindRead(r, u, p)
               \/ \E v \in Users : ReferRead(r, u, v)
               \/ \E c \in Codes : ExchangeRead(r, u, c)
               \/ \E n \in Amounts : BoostRead(r, u, n)
        PROVE Inv'
    BY <1>3, BindReadInv, ReferReadInv, ExchangeReadInv, BoostReadInv
  <1>4. ASSUME NEW r \in Requests, NEW p \in Phones, NEW n \in Amounts, Recharge(r, p, n)  PROVE Inv'
    BY <1>4, RechargeInv
  <1>5. ASSUME NEW c \in Codes, Expire(c) \/ \E n \in Amounts : Create(c, n)  PROVE Inv'
    BY <1>5, ExpireInv, CreateInv
  <1> QED  BY <1>1, <1>2, <1>3, <1>4, <1>5 DEF Next

-----------------------------------------------------------------------------
(* Every state is well typed (TypeOK). *)
THEOREM TypeCorrect == Spec => []TypeOK
  BY InitInv, NextInv, PTL DEF Spec, Inv

(* What a transaction has read under its locks is still so when it writes: the locks
   BindPhone, Exchange and BoostActivity take are enough (ReadsHold).              *)
THEOREM ReadsStayTrue == Spec => []ReadsHold
  BY InitInv, NextInv, PTL DEF Spec, Inv

-----------------------------------------------------------------------------
(* The balance of a user is the sum of its records: each step pays both or neither. *)
Total(rec) == rec["invite"] + rec["exchange_code"] + rec["admin_recharge"] + rec["activity_boost"]

Grown(rec, source, n) == [rec EXCEPT ![source] = rec[source] + n]

LEMMA TotalGrows ==
    ASSUME NEW rec \in [Sources -> Int], NEW source \in Sources, NEW n \in Int
    PROVE  Total(Grown(rec, source, n)) = Total(rec) + n
  <1>1. /\ Grown(rec, source, n)[source] = rec[source] + n
        /\ \A t \in Sources \ {source} : Grown(rec, source, n)[t] = rec[t]
    BY DEF Grown
  <1>2. \A t \in Sources : rec[t] \in Int  OBVIOUS
  <1> QED  BY <1>1, <1>2 DEF Total, Sources

LEMMA BalanceStep ==
    ASSUME Inv, BalanceIsSum, [Next]_vars
    PROVE  BalanceIsSum'
  <1> USE DEF Inv, TypeOK
  <1>1. ASSUME UNCHANGED <<points, records>>  PROVE BalanceIsSum'
    BY <1>1 DEF BalanceIsSum
  <1>2. ASSUME NEW u \in Users, NEW source \in Sources, NEW n \in Int, Pay(u, source, n)
        PROVE  BalanceIsSum'
    <2>1. ASSUME NEW v \in Users \ {u}
          PROVE  points'[v] = points[v] /\ records'[v] = records[v]
      BY <1>2, <2>1 DEF Pay
    <2>2. points'[u] = points[u] + n /\ records'[u] = Grown(records[u], source, n)
      BY <1>2 DEF Pay, Grown
    <2>3. records[u] \in [Sources -> Int]  OBVIOUS
    <2>4. Total(records'[u]) = Total(records[u]) + n  BY <2>2, <2>3, TotalGrows
    <2>5. points'[u] = Total(records'[u])  BY <2>2, <2>4 DEF BalanceIsSum, Total
    <2> QED  BY <2>1, <2>5 DEF BalanceIsSum, Total
  <1>3. ASSUME NEW r \in Requests, BindReward(r)  PROVE BalanceIsSum'
    <2> DEFINE q == request[r]
               bonus(u) == IF u \in Rewarded(q) THEN Reward ELSE 0
    <2>1. ASSUME NEW u \in Users
          PROVE  /\ points'[u] = points[u] + bonus(u)
                 /\ records'[u] = Grown(records[u], "invite", bonus(u))
      BY <1>3 DEF BindReward, Recorded, Grown
    <2>2. ASSUME NEW u \in Users  PROVE bonus(u) \in Int /\ records[u] \in [Sources -> Int]
      BY LedgerNumbers
    <2> HIDE DEF bonus
    <2>3. ASSUME NEW u \in Users  PROVE points'[u] = Total(records'[u])
      <3>1. "invite" \in Sources  BY DEF Sources
      <3>2. Total(records'[u]) = Total(records[u]) + bonus(u)
        BY <2>1, <2>2, <3>1, TotalGrows
      <3> QED  BY <2>1, <3>2 DEF BalanceIsSum, Total
    <2> QED  BY <2>3 DEF BalanceIsSum, Total
  <1>4. ASSUME NEW r \in Requests, Proceed(r) \/ Fail(r)  PROVE BalanceIsSum'
    <2>1. CASE Credit(r)
      <3>1. CASE Pay(request[r].user, "exchange_code", request[r].seen.points)
        <4>1. request[r].user \in Users /\ request[r].seen.points \in Int
          BY <2>1 DEF Credit, ReadsHold, Holds, RequestRecords, CodeRecords
        <4> QED  BY <3>1, <4>1, <1>2 DEF Sources
      <3>2. CASE Rollback(r)  BY <3>2, <1>1 DEF Rollback, tables
      <3> QED  BY <2>1, <3>1, <3>2 DEF Credit
    <2>2. CASE BoostPay(r)
      <3>1. request[r].user \in Users /\ -request[r].amount \in Int
        BY <2>2 DEF BoostPay, ReadsHold, Holds, RequestRecords
      <3> QED  BY <2>2, <3>1, <1>2 DEF BoostPay, Sources
    <2>3. CASE BindPhone(r)
      BY <2>3, <1>1 DEF BindPhone, Rollback, tables
    <2>4. CASE Refer(r) \/ Victim(r) \/ Fail(r)
      BY <2>4, <1>1 DEF Refer, Victim, Fail, Rollback, tables
    <2> QED  BY <1>3, <1>4, <2>1, <2>2, <2>3, <2>4 DEF Proceed
  <1>5. ASSUME NEW r \in Requests, NEW p \in Phones, NEW n \in Amounts, Recharge(r, p, n)
        PROVE BalanceIsSum'
    BY <1>5, <1>2, LedgerNumbers DEF Recharge, Owner, Sources
  <1>6. ASSUME NEW r \in Requests, NEW u \in Users,
               \/ \E p \in Phones : BindRead(r, u, p)
               \/ \E v \in Users : ReferRead(r, u, v)
               \/ \E c \in Codes : ExchangeRead(r, u, c)
               \/ \E n \in Amounts : BoostRead(r, u, n)
        PROVE BalanceIsSum'
    BY <1>6, <1>1 DEF BindRead, ReferRead, ExchangeRead, BoostRead, Refused, tables
  <1>7. CASE UNCHANGED vars \/ \E c \in Codes : Expire(c) \/ \E n \in Amounts : Create(c, n)
    BY <1>7, <1>1, Zenon DEF vars, tables, Expire, Create
  <1> QED  BY <1>4, <1>5, <1>6, <1>7 DEF Next

(* A user's points are at any time the sum of their point records, whatever binds,
   redeems, recharges and boosts run against each other (BalanceIsSum).           *)
THEOREM BalanceIsAlwaysSum == Spec => []BalanceIsSum
  <1>1. Init => BalanceIsSum  BY DEF Init, BalanceIsSum, Sources
  <1> QED  BY <1>1, InitInv, NextInv, BalanceStep, PTL DEF Spec

-----------------------------------------------------------------------------
(* Points are spent from a row that is locked since it was seen to have them. *)
LEMMA PointsStep ==
    ASSUME Inv, NeverOverspent, [Next]_vars
    PROVE  NeverOverspent'
  <1> USE DEF Inv, TypeOK
  <1>1. ASSUME UNCHANGED points  PROVE NeverOverspent'
    BY <1>1 DEF NeverOverspent
  <1>2. ASSUME NEW u \in Users, NEW source, NEW n \in Int, Pay(u, source, n), points[u] + n >= 0
        PROVE  NeverOverspent'
    BY <1>2 DEF Pay, NeverOverspent
  <1>3. ASSUME NEW r \in Requests, BindReward(r)  PROVE NeverOverspent'
    BY <1>3, LedgerNumbers DEF BindReward, NeverOverspent
  <1>4. ASSUME NEW r \in Requests, Proceed(r) \/ Fail(r)  PROVE NeverOverspent'
    <2>1. CASE Credit(r)
      <3>1. CASE Pay(request[r].user, "exchange_code", request[r].seen.points)
        <4>1. request[r].user \in Users /\ request[r].seen.points \in Nat
          BY <2>1 DEF Credit, ReadsHold, Holds, RequestRecords, CodeRecords
        <4> QED  BY <3>1, <4>1, <1>2 DEF NeverOverspent
      <3>2. CASE Rollback(r)  BY <3>2, <1>1 DEF Rollback, tables
      <3> QED  BY <2>1, <3>1, <3>2 DEF Credit
    <2>2. CASE BoostPay(r)
      <3>1. request[r].user \in Users /\ request[r].amount \in Nat
            /\ points[request[r].user] >= request[r].amount
        BY <2>2 DEF BoostPay, ReadsHold, Holds, RequestRecords
      <3> QED  BY <2>2, <3>1, <1>2 DEF BoostPay
    <2>3. CASE BindPhone(r)
      BY <2>3, <1>1 DEF BindPhone, Rollback, tables
    <2>4. CASE Refer(r) \/ Victim(r) \/ Fail(r)
      BY <2>4, <1>1 DEF Refer, Victim, Fail, Rollback, tables
    <2> QED  BY <1>3, <1>4, <2>1, <2>2, <2>3, <2>4 DEF Proceed
  <1>5. ASSUME NEW r \in Requests, NEW p \in Phones, NEW n \in Amounts, Recharge(r, p, n)
        PROVE NeverOverspent'
    BY <1>5, <1>2, LedgerNumbers DEF Recharge, Owner, NeverOverspent
  <1>6. ASSUME NEW r \in Requests, NEW u \in Users,
               \/ \E p \in Phones : BindRead(r, u, p)
               \/ \E v \in Users : ReferRead(r, u, v)
               \/ \E c \in Codes : ExchangeRead(r, u, c)
               \/ \E n \in Amounts : BoostRead(r, u, n)
        PROVE NeverOverspent'
    BY <1>6, <1>1 DEF BindRead, ReferRead, ExchangeRead, BoostRead, Refused, tables
  <1>7. CASE UNCHANGED vars \/ \E c \in Codes : Expire(c) \/ \E n \in Amounts : Create(c, n)
    BY <1>7, <1>1, Zenon DEF vars, tables, Expire, Create
  <1> QED  BY <1>4, <1>5, <1>6, <1>7 DEF Next

(* Nobody's points fall below zero, however many boosts of a user run at once
   (NeverOverspent).                                                         *)
THEOREM PointsNeverOverspent == Spec => []NeverOverspent
  <1>1. Init => NeverOverspent  BY DEF Init, NeverOverspent
  <1> QED  BY <1>1, InitInv, NextInv, PointsStep, PTL DEF Spec

-----------------------------------------------------------------------------
(* Codes: only Credit writes to a redemption and to the use of a code. *)
WithinLimits(c) ==
    /\ codes[c].used = Cardinality(Redeemers(c))
    /\ codes[c].public /\ codes[c].max > 0 =>
           /\ codes[c].used <= codes[c].max
           /\ codes[c].status = "used" <=> codes[c].used = codes[c].max

LEMMA RedeemersFinite == ASSUME NEW c PROVE IsFiniteSet(Redeemers(c))
  BY FS_Subset, LedgerNumbers DEF Redeemers

LEMMA CreditLimits ==
    ASSUME Inv, CodesWithinLimits, NEW r \in Requests, Credit(r), ~Rollback(r)
    PROVE  CodesWithinLimits'
  <1>1. PICK u \in Users, c \in Codes, seen \in CodeRecords :
          u = request[r].user /\ c = request[r].code /\ seen = request[r].seen
    BY DEF Credit, Inv, TypeOK, ReadsHold, Holds, RequestRecords
  <1> DEFINE x == codes[c]
  <1>2. SameCode(x, seen) /\ seen.status = "unused" /\ ~Exhausted(seen) /\ x \in CodeRecords
    BY <1>1 DEF Credit, Inv, TypeOK, ReadsHold, Holds
  <1>3. /\ redeemed' = redeemed \union (IF seen.public THEN {<<c, u>>} ELSE {})
        /\ codes' = [codes EXCEPT ![c] = UsedUp(request[r])]
        /\ ~(seen.public /\ <<c, u>> \in redeemed)
    BY <1>1 DEF Credit, Again
  <1>4. codes'[c] = UsedUp(request[r])  BY <1>3 DEF Inv, TypeOK
  <1>5. ASSUME NEW d \in Codes \ {c}  PROVE WithinLimits(d)'
    <2>1. codes'[d] = codes[d] /\ Redeemers(d)' = Redeemers(d)
      BY <1>3 DEF Redeemers, Inv, TypeOK
    <2> QED  BY <2>1 DEF WithinLimits, CodesWithinLimits
  <1>6. x.used = Cardinality(Redeemers(c)) /\ x.public = seen.public
    BY <1>2 DEF CodesWithinLimits, SameCode
  <1>7. CASE seen.public
    <2>1. Redeemers(c)' = Redeemers(c) \union {u} /\ u \notin Redeemers(c)
      BY <1>3, <1>7 DEF Redeemers
    <2>2. Cardinality(Redeemers(c)') = Cardinality(Redeemers(c)) + 1
      BY <2>1, RedeemersFinite, FS_AddElement
    <2>3. /\ codes'[c].used = x.used + 1
          /\ codes'[c].max = x.max /\ codes'[c].public = x.public
          /\ codes'[c].status =
                IF seen.max > 0 /\ seen.used + 1 >= seen.max THEN "used" ELSE x.status
      BY <1>1, <1>2, <1>4, <1>7 DEF UsedUp, CodeRecords
    <2>4. /\ x.used \in Nat /\ x.max \in Nat /\ x.used = seen.used /\ x.max = seen.max
          /\ x.status = "unused"
          /\ x.max > 0 => x.used < x.max
      BY <1>2, <1>7 DEF SameCode, Exhausted, CodeRecords
    <2>5. codes'[c].used = Cardinality(Redeemers(c)')  BY <1>6, <2>2, <2>3
    <2>6. ASSUME x.max > 0
          PROVE  x.used + 1 <= x.max /\ (codes'[c].status = "used" <=> x.used + 1 = x.max)
      <3>1. seen.max > 0 /\ (seen.used + 1 >= seen.max <=> x.used + 1 = x.max) /\ x.used + 1 <= x.max
        BY <2>4, <2>6
      <3>2. codes'[c].status = IF x.used + 1 = x.max THEN "used" ELSE "unused"
        BY <2>3, <2>4, <3>1
      <3> QED  BY <3>1, <3>2
    <2>7. WithinLimits(c)'
      BY <2>3, <2>5, <2>6 DEF WithinLimits
    <2> QED  BY <1>5, <2>7 DEF CodesWithinLimits, WithinLimits
  <1>8. CASE ~seen.public
    <2>1. Redeemers(c)' = Redeemers(c)  BY <1>3, <1>8 DEF Redeemers
    <2>2. codes'[c].used = x.used /\ codes'[c].public = x.public
      BY <1>1, <1>2, <1>4, <1>8 DEF UsedUp, CodeRecords
    <2>3. WithinLimits(c)'  BY <1>6, <1>8, <2>1, <2>2 DEF WithinLimits
    <2> QED  BY <1>5, <2>3 DEF CodesWithinLimits, WithinLimits
  <1> QED  BY <1>7, <1>8

LEMMA CreateLimits ==
    ASSUME Inv, CodesWithinLimits, NEW c \in Codes, NEW n \in Amounts, Create(c, n)
    PROVE  CodesWithinLimits'
  <1>1. codes[c] = Absent /\ UNCHANGED redeemed  BY Zenon DEF Create
  <1>2. Redeemers(c)' = Redeemers(c) /\ Cardinality(Redeemers(c)) = 0
    BY <1>1 DEF Redeemers, CodesWithinLimits, Absent
  <1>3. PICK new : /\ codes' = [codes EXCEPT ![c] = new]
                   /\ new.used = 0 /\ new.status = "unused"
                   /\ new.public => new.max \in Nat
    <2>1. Limits \subseteq Nat  BY LedgerNumbers
    <2> DEFINE private   == [Absent EXCEPT !.status = "unused", !.points = n]
               public(m) == [Absent EXCEPT !.status = "unused", !.points = n, !.public = TRUE, !.max = m]
    <2>2. private.used = 0 /\ private.status = "unused" /\ private.public = FALSE  BY DEF Absent
    <2>3. \A m \in Limits : public(m).used = 0 /\ public(m).status = "unused" /\ public(m).max = m
      BY DEF Absent
    <2>4. PICK new \in {private} \union {public(m) : m \in Limits} : codes' = [codes EXCEPT ![c] = new]
      BY Zenon DEF Create
    <2> HIDE DEF private, public
    <2> QED  BY <2>1, <2>2, <2>3, <2>4
  <1>4. codes'[c] = new  BY <1>3 DEF Inv, TypeOK
  <1>5. WithinLimits(c)'  BY <1>2, <1>3, <1>4 DEF WithinLimits
  <1>6. ASSUME NEW d \in Codes \ {c}  PROVE WithinLimits(d)'
    <2>1. codes'[d] = codes[d] /\ Redeemers(d)' = Redeemers(d)
      BY <1>1, <1>3 DEF Redeemers, Inv, TypeOK
    <2> QED  BY <2>1 DEF WithinLimits, CodesWithinLimits
  <1> QED  BY <1>5, <1>6 DEF CodesWithinLimits, WithinLimits

LEMMA LimitsStep ==
    ASSUME Inv, CodesWithinLimits, [Next]_vars
    PROVE  CodesWithinLimits'
  <1>1. ASSUME UNCHANGED <<codes, redeemed>>  PROVE CodesWithinLimits'
    BY <1>1 DEF CodesWithinLimits, Redeemers
  <1>2. ASSUME NEW r \in Requests, Proceed(r) \/ Fail(r)  PROVE CodesWithinLimits'
    <2>1. CASE Credit(r)
      BY <2>1, <1>1, CreditLimits DEF Rollback, tables
    <2>2. CASE BindPhone(r)
      BY <2>2, <1>1 DEF BindPhone, Rollback, tables
    <2>3. CASE BindReward(r) \/ Refer(r) \/ BoostPay(r)
      BY <2>3, <1>1 DEF BindReward, Refer, BoostPay
    <2>4. CASE Victim(r) \/ Fail(r)
      BY <2>4, <1>1 DEF Victim, Fail, Rollback, tables
    <2> QED  BY <1>2, <2>1, <2>2, <2>3, <2>4 DEF Proceed
  <1>3. ASSUME NEW r \in Requests,
               \/ \E p \in Phones, n \in Amounts : Recharge(r, p, n)
               \/ \E u \in Users :
                    \/ \E p \in Phones : BindRead(r, u, p)
                    \/ \E v \in Users : ReferRead(r, u, v)
                    \/ \E c \in Codes : ExchangeRead(r, u, c)
                    \/ \E n \in Amounts : BoostRead(r, u, n)
        PROVE CodesWithinLimits'
    BY <1>3, <1>1 DEF Recharge, BindRead, ReferRead, ExchangeRead, BoostRead, Refused, tables
  <1>4. ASSUME NEW c \in Codes, Expire(c)  PROVE CodesWithinLimits'
    <2>1. \A d \in Codes : /\ codes'[d].used = codes[d].used /\ codes'[d].max = codes[d].max
                           /\ codes'[d].public = codes[d].public
                           /\ codes'[d].status = codes[d].status
      BY <1>4 DEF Expire, Inv, TypeOK, CodeRecords
    <2>2. redeemed' = redeemed  BY <1>4 DEF Expire
    <2> QED  BY <2>1, <2>2 DEF CodesWithinLimits, Redeemers
  <1>5. CASE UNCHANGED vars
    BY <1>5, <1>1 DEF vars, tables
  <1> QED  BY <1>2, <1>3, <1>4, <1>5, CreateLimits DEF Next

(* A public code is used as often as it was redeemed, never beyond its limit, and
   closed exactly at it, whoever redeems at the same time (CodesWithinLimits).   *)
THEOREM CodesStayWithinLimits == Spec => []CodesWithinLimits
  <1>1. Init => CodesWithinLimits
    <2> SUFFICES ASSUME Init, NEW c \in Codes  PROVE WithinLimits(c)
      BY DEF CodesWithinLimits, WithinLimits
    <2>1. codes[c].used = 0 /\ codes[c].public = FALSE  BY DEF Init, Absent
    <2>2. Redeemers(c) = {}  BY DEF Init, Redeemers
    <2> QED  BY <2>1, <2>2, FS_EmptySet DEF WithinLimits
  <1> QED  BY <1>1, InitInv, NextInv, LimitsStep, PTL DEF Spec

-----------------------------------------------------------------------------
(* What codes pay. A code is written down for somebody only by a redemption, if it is
   public, or by its use, if it is private; for each user the points of the codes
   written down for them are finitely many, whether or not the codes are.          *)
Coins(u) == UNION {PointsOf(c) : c \in WrittenFor(u)}

CodesWrittenDown ==
    /\ \A c \in Codes : /\ codes[c].status # "used" \/ codes[c].public => codes[c].usedBy = None
                        /\ ~codes[c].public => Redeemers(c) = {}
    /\ \A u \in Users : IsFiniteSet(Coins(u))

LEMMA PointsOfSize ==
    ASSUME NEW c, codes[c].points \in Nat
    PROVE  IsFiniteSet(PointsOf(c)) /\ Cardinality(PointsOf(c)) = codes[c].points
  <1>1. IsFiniteSet(1 .. codes[c].points) /\ Cardinality(1 .. codes[c].points) = codes[c].points
    <2>1. ASSUME NEW n \in Nat  PROVE IsFiniteSet(1 .. n) /\ Cardinality(1 .. n) = n
      BY FS_Interval
    <2> QED  BY <2>1
  <1>2. IsFiniteSet({c}) /\ Cardinality({c}) = 1  BY FS_Singleton
  <1>3. /\ IsFiniteSet(PointsOf(c))
        /\ Cardinality(PointsOf(c)) = Cardinality({c}) * Cardinality(1 .. codes[c].points)
    BY <1>1, <1>2, FS_Product DEF PointsOf
  <1> QED  BY <1>1, <1>2, <1>3

(* Who has the same codes, worth the same, is paid the same. *)
LEMMA SameCodesSameCoins ==
    ASSUME NEW u, WrittenFor(u)' = WrittenFor(u),
           \A c \in WrittenFor(u) : codes'[c].points = codes[c].points
    PROVE  Coins(u)' = Coins(u)
  BY DEF Coins, PointsOf

LEMMA SamePayments ==
    ASSUME CodesPayOnce, CodesWrittenDown,
           \A u \in Users : /\ Coins(u)' = Coins(u)
                            /\ records'[u]["exchange_code"] = records[u]["exchange_code"]
    PROVE  CodesPayOnce' /\ \A u \in Users : IsFiniteSet(Coins(u)')
  BY DEF CodesPayOnce, CodesWrittenDown, Worth, Coins

LEMMA CreditPaysOnce ==
    ASSUME Inv, CodesWrittenDown, CodesPayOnce, NEW r \in Requests, Credit(r), ~Rollback(r)
    PROVE  CodesWrittenDown' /\ CodesPayOnce'
  <1>1. PICK u \in Users, c \in Codes, seen \in CodeRecords :
          u = request[r].user /\ c = request[r].code /\ seen = request[r].seen
    BY DEF Credit, Inv, TypeOK, ReadsHold, Holds, RequestRecords
  <1>2. /\ codes[c].status = "unused" /\ codes[c].points = seen.points
        /\ codes[c].public = seen.public /\ codes[c] \in CodeRecords
    BY <1>1 DEF Credit, Inv, TypeOK, ReadsHold, Holds, SameCode
  <1>3. /\ redeemed' = redeemed \union (IF seen.public THEN {<<c, u>>} ELSE {})
        /\ codes' = [codes EXCEPT ![c] = UsedUp(request[r])]
        /\ ~(seen.public /\ <<c, u>> \in redeemed)
        /\ records' = [records EXCEPT ![u]["exchange_code"] = @ + seen.points]
    BY <1>1 DEF Credit, Again, Pay
  <1>4. /\ codes'[c].points = codes[c].points /\ codes'[c].public = codes[c].public
        /\ codes'[c].usedBy = IF seen.public THEN codes[c].usedBy ELSE u
        /\ ~seen.public => codes'[c].status = "used"
    BY <1>1, <1>2, <1>3 DEF UsedUp, CodeRecords, Inv, TypeOK
  <1>5. \A d \in Codes \ {c} : codes'[d] = codes[d] /\ Redeemers(d)' = Redeemers(d)
    BY <1>3 DEF Redeemers, Inv, TypeOK
  <1>6. Redeemers(c)' = Redeemers(c) \union (IF seen.public THEN {u} ELSE {})
    BY <1>3 DEF Redeemers
  <1>7. codes[c].usedBy = None /\ (~seen.public => Redeemers(c) = {})
    BY <1>2 DEF CodesWrittenDown
  <1>8. None \notin Users  BY LedgerDistinct
  (* The code is new to the user, and written down for nobody else. *)
  <1>9. c \notin WrittenFor(u) /\ WrittenFor(u)' = WrittenFor(u) \union {c}
    <2>1. u \notin Redeemers(c)  BY <1>3, <1>7 DEF Redeemers
    <2>2. u \in Redeemers(c)' \/ codes'[c].usedBy = u  BY <1>4, <1>6
    <2> QED  BY <1>5, <1>7, <1>8, <2>1, <2>2 DEF WrittenFor
  <1>10. ASSUME NEW v \in Users \ {u}  PROVE Coins(v)' = Coins(v)
    <2>1. v \in Redeemers(c)' \/ codes'[c].usedBy = v <=> v \in Redeemers(c) \/ codes[c].usedBy = v
      BY <1>4, <1>6, <1>7, <1>8
    <2>2. WrittenFor(v)' = WrittenFor(v)  BY <1>5, <2>1 DEF WrittenFor
    <2>3. \A d \in WrittenFor(v) : codes'[d].points = codes[d].points
      BY <1>4, <1>5 DEF WrittenFor
    <2> QED  BY <2>2, <2>3, SameCodesSameCoins
  <1>11. Coins(u)' = Coins(u) \union PointsOf(c) /\ Coins(u) \intersect PointsOf(c) = {}
    <2>1. \A d \in WrittenFor(u) \union {c} : PointsOf(d)' = PointsOf(d)
      BY <1>4, <1>5 DEF WrittenFor, PointsOf
    <2>2. Coins(u)' = UNION {PointsOf(d) : d \in WrittenFor(u) \union {c}}
      BY <1>9, <2>1 DEF Coins
    <2> QED  BY <1>9, <2>2 DEF Coins, PointsOf
  <1>12. codes[c].points \in Nat /\ IsFiniteSet(Coins(u))
    BY <1>2 DEF CodeRecords, CodesWrittenDown
  <1>13. /\ IsFiniteSet(PointsOf(c)) /\ Cardinality(PointsOf(c)) = codes[c].points
    BY <1>12, PointsOfSize
  <1>14. IsFiniteSet(Coins(u)') /\ Cardinality(Coins(u)') = Cardinality(Coins(u)) + codes[c].points
    <2>1. Cardinality(Coins(u)) \in Nat /\ Cardinality(Coins(u) \intersect PointsOf(c)) = 0
      BY <1>11, <1>12, FS_CardinalityType, FS_EmptySet
    <2>2. /\ IsFiniteSet(Coins(u) \union PointsOf(c))
          /\ Cardinality(Coins(u) \union PointsOf(c)) = Cardinality(Coins(u))
                + Cardinality(PointsOf(c)) - Cardinality(Coins(u) \intersect PointsOf(c))
      BY <1>12, <1>13, FS_Union
    <2> QED  BY <1>11, <1>12, <1>13, <2>1, <2>2
  <1>15. \A v \in Users : records'[v]["exchange_code"] =
                             records[v]["exchange_code"] + IF v = u THEN codes[c].points ELSE 0
    BY <1>2, <1>3, <1>12 DEF Inv, TypeOK, Sources
  <1>16. CodesPayOnce'
    <2>1. ASSUME NEW v \in Users  PROVE records'[v]["exchange_code"] = Cardinality(Coins(v)')
      <3>1. records[v]["exchange_code"] = Cardinality(Coins(v)) /\ records[v]["exchange_code"] \in Int
        BY DEF CodesPayOnce, Worth, Coins, Inv, TypeOK, Sources
      <3>2. CASE v = u  BY <1>14, <1>15, <3>1, <3>2
      <3>3. CASE v # u  BY <1>10, <1>15, <3>1, <3>3
      <3> QED  BY <3>2, <3>3
    <2> QED  BY <2>1 DEF CodesPayOnce, Worth, Coins
  <1>17. CodesWrittenDown'
    <2>1. ASSUME NEW d \in Codes
          PROVE  /\ codes'[d].status # "used" \/ codes'[d].public => codes'[d].usedBy = None
                 /\ ~codes'[d].public => Redeemers(d)' = {}
      <3>1. CASE d = c  BY <1>2, <1>4, <1>6, <1>7, <3>1
      <3>2. CASE d # c  BY <1>5, <3>2 DEF CodesWrittenDown
      <3> QED  BY <3>1, <3>2
    <2>2. ASSUME NEW v \in Users  PROVE IsFiniteSet(Coins(v)')
      BY <1>10, <1>14 DEF CodesWrittenDown
    <2> QED  BY <2>1, <2>2 DEF CodesWrittenDown
  <1> QED  BY <1>16, <1>17

LEMMA CreatePaysNobody ==
    ASSUME Inv, CodesWrittenDown, CodesPayOnce,
           NEW c \in Codes, NEW n \in Amounts, Create(c, n)
    PROVE  CodesWrittenDown' /\ CodesPayOnce'
  <1>1. codes[c] = Absent /\ UNCHANGED <<redeemed, records>>  BY Zenon DEF Create
  <1>2. PICK new : codes' = [codes EXCEPT ![c] = new] /\ new.usedBy = None
    <2> DEFINE private   == [Absent EXCEPT !.status = "unused", !.points = n]
               public(m) == [Absent EXCEPT !.status = "unused", !.points = n, !.public = TRUE, !.max = m]
    <2>1. private.usedBy = None /\ \A m \in Limits : public(m).usedBy = None  BY DEF Absent
    <2>2. PICK new \in {private} \union {public(m) : m \in Limits} : codes' = [codes EXCEPT ![c] = new]
      BY Zenon DEF Create
    <2> HIDE DEF private, public
    <2>3. new.usedBy = None  BY <2>1, <2>2
    <2> QED  BY <2>2, <2>3, Zenon
  <1>3. codes'[c].usedBy = None /\ \A d \in Codes \ {c} : codes'[d] = codes[d]
    BY <1>2 DEF Inv, TypeOK
  <1>4. \A d : Redeemers(d)' = Redeemers(d)  BY <1>1 DEF Redeemers
  <1>5. Redeemers(c) = {} /\ codes[c].usedBy = None
    BY <1>1 DEF CodesWrittenDown, Absent
  <1>6. ASSUME NEW v \in Users  PROVE Coins(v)' = Coins(v)
    <2>1. v # None  BY LedgerDistinct
    <2>2. c \notin WrittenFor(v)  BY <1>5, <2>1 DEF WrittenFor
    <2>3. WrittenFor(v)' = WrittenFor(v)  BY <1>3, <1>4, <1>5, <2>1 DEF WrittenFor
    <2>4. \A d \in WrittenFor(v) : codes'[d].points = codes[d].points
      BY <1>3, <2>2 DEF WrittenFor
    <2> QED  BY <2>3, <2>4, SameCodesSameCoins
  <1>7. CodesPayOnce' /\ \A v \in Users : IsFiniteSet(Coins(v)')
    BY <1>1, <1>6, SamePayments
  <1>8. ASSUME NEW d \in Codes
        PROVE  /\ codes'[d].status # "used" \/ codes'[d].public => codes'[d].usedBy = None
               /\ ~codes'[d].public => Redeemers(d)' = {}
    BY <1>3, <1>4, <1>5 DEF CodesWrittenDown
  <1> QED  BY <1>7, <1>8 DEF CodesWrittenDown

LEMMA PaysOnceStep ==
    ASSUME Inv, CodesWrittenDown, CodesPayOnce, [Next]_vars
    PROVE  CodesWrittenDown' /\ CodesPayOnce'
  <1> DEFINE Unpaid == \A u \in Users : records'[u]["exchange_code"] = records[u]["exchange_code"]
  <1>1. ASSUME UNCHANGED <<codes, redeemed>>, Unpaid  PROVE CodesWrittenDown' /\ CodesPayOnce'
    BY <1>1, SamePayments DEF CodesWrittenDown, Coins, WrittenFor, PointsOf, Redeemers
  <1>2. ASSUME NEW u, NEW source \in Sources \ {"exchange_code"}, NEW n, Pay(u, source, n)
        PROVE  Unpaid
    BY <1>2 DEF Pay, Inv, TypeOK, Sources
  <1>3. ASSUME NEW r \in Requests, BindReward(r)  PROVE Unpaid
    BY <1>3 DEF BindReward, Inv, TypeOK, Sources
  <1> HIDE DEF Unpaid
  <1>4. ASSUME UNCHANGED records  PROVE Unpaid
    BY <1>4 DEF Unpaid
  <1>5. ASSUME NEW r \in Requests, Proceed(r) \/ Fail(r)  PROVE CodesWrittenDown' /\ CodesPayOnce'
    <2>1. CASE Credit(r)
      BY <2>1, <1>1, <1>4, CreditPaysOnce DEF Rollback, tables
    <2>2. CASE BindPhone(r)
      BY <2>2, <1>1, <1>4 DEF BindPhone, Rollback, tables
    <2>3. CASE BindReward(r)
      BY <2>3, <1>1, <1>3 DEF BindReward
    <2>4. CASE Refer(r)
      BY <2>4, <1>1, <1>4 DEF Refer
    <2>5. CASE BoostPay(r)
      BY <2>5, <1>1, <1>2 DEF BoostPay, Sources
    <2>6. CASE Victim(r) \/ Fail(r)
      BY <2>6, <1>1, <1>4 DEF Victim, Fail, Rollback, tables
    <2> QED  BY <1>5, <2>1, <2>2, <2>3, <2>4, <2>5, <2>6 DEF Proceed
  <1>6. ASSUME NEW r \in Requests, NEW p \in Phones, NEW n \in Amounts, Recharge(r, p, n)
        PROVE CodesWrittenDown' /\ CodesPayOnce'
    BY <1>6, <1>1, <1>2 DEF Recharge, Sources
  <1>7. ASSUME NEW r \in Requests, NEW u \in Users,
               \/ \E p \in Phones : BindRead(r, u, p)
               \/ \E v \in Users : ReferRead(r, u, v)
               \/ \E c \in Codes : ExchangeRead(r, u, c)
               \/ \E n \in Amounts : BoostRead(r, u, n)
        PROVE CodesWrittenDown' /\ CodesPayOnce'
    BY <1>7, <1>1, <1>4 DEF BindRead, ReferRead, ExchangeRead, BoostRead, Refused, tables
  <1>8. ASSUME NEW c \in Codes, Expire(c)  PROVE CodesWrittenDown' /\ CodesPayOnce'
    <2>1. \A d \in Codes : /\ codes'[d].status = codes[d].status /\ codes'[d].public = codes[d].public
                           /\ codes'[d].points = codes[d].points /\ codes'[d].usedBy = codes[d].usedBy
      BY <1>8 DEF Expire, Inv, TypeOK, CodeRecords
    <2>2. redeemed' = redeemed /\ records' = records  BY <1>8 DEF Expire
    <2>3. \A d : Redeemers(d)' = Redeemers(d)  BY <2>2 DEF Redeemers
    <2>4. ASSUME NEW u \in Users  PROVE Coins(u)' = Coins(u)
      <3>1. WrittenFor(u)' = WrittenFor(u)  BY <2>1, <2>3 DEF WrittenFor
      <3> QED  BY <2>1, <3>1, SameCodesSameCoins DEF WrittenFor
    <2>5. CodesPayOnce' /\ \A u \in Users : IsFiniteSet(Coins(u)')
      BY <2>2, <2>4, SamePayments
    <2> QED  BY <2>1, <2>3, <2>5 DEF CodesWrittenDown
  <1>9. CASE UNCHANGED vars
    BY <1>9, <1>1, <1>4 DEF vars, tables
  <1> QED  BY <1>5, <1>6, <1>7, <1>8, <1>9, CreatePaysNobody DEF Next

(* A code pays a user once: at any time the points a user has from codes are those of
   the codes that are written down for them, whoever redeems at the same time and
   whatever fails (CodesPayOnce).                                                   *)
THEOREM CodesAlwaysPayOnce == Spec => []CodesPayOnce
  <1>1. Init => CodesWrittenDown /\ CodesPayOnce
    <2> SUFFICES ASSUME Init  PROVE CodesWrittenDown /\ CodesPayOnce
      OBVIOUS
    <2>1. \A c \in Codes : /\ codes[c].used = 0 /\ codes[c].public = FALSE
                           /\ codes[c].status = "absent" /\ codes[c].usedBy = None
      BY DEF Init, Absent
    <2>2. \A c \in Codes : Redeemers(c) = {}  BY DEF Init, Redeemers
    <2>3. \A u \in Users : WrittenFor(u) = {}  BY <2>1, <2>2, LedgerDistinct DEF WrittenFor
    <2>4. \A u \in Users : Coins(u) = {}  BY <2>3 DEF Coins
    <2>5. \A u \in Users : records[u]["exchange_code"] = 0  BY DEF Init, Sources
    <2>6. CodesWrittenDown  BY <2>1, <2>2, <2>4, FS_EmptySet DEF CodesWrittenDown
    <2>7. CodesPayOnce  BY <2>4, <2>5, FS_EmptySet DEF CodesPayOnce, Worth, Coins
    <2> QED  BY <2>6, <2>7
  <1> QED  BY <1>1, InitInv, NextInv, PaysOnceStep, PTL DEF Spec

-----------------------------------------------------------------------------
(* Invitations. Nobody is their own inviter, and who is late has a phone. *)
Invitations ==
    \A u \in Users : inviter[u] # u /\ (u \in late => phone[u] # None)

InvitedBy(v) == {u \in Invited : inviter[u] = v}
Paid(v)      == Cardinality(InvitedBy(v)) + IF v \in Invited THEN 1 ELSE 0

LEMMA InvitedByFinite == ASSUME NEW v PROVE IsFiniteSet(InvitedBy(v))
  BY FS_Subset, LedgerNumbers DEF InvitedBy, Invited

LEMMA PaidNat == ASSUME NEW v PROVE Paid(v) \in Nat
  BY InvitedByFinite, FS_CardinalityType DEF Paid

(* Steps that pay no invitation and leave the set of who was invited in time. *)
LEMMA NobodyInvited ==
    ASSUME InvitesPaidOnce, Invited' = Invited,
           \A u \in Invited : inviter'[u] = inviter[u],
           \A v \in Users : records'[v]["invite"] = records[v]["invite"]
    PROVE  InvitesPaidOnce'
  <1>1. ASSUME NEW v \in Users
        PROVE  {u \in Invited' : inviter'[u] = v} = {u \in Invited : inviter[u] = v}
    OBVIOUS
  <1> QED  BY <1>1 DEF InvitesPaidOnce

LEMMA PayNoInvite ==
    ASSUME TypeOK, NEW u, NEW source \in Sources \ {"invite"}, NEW n, Pay(u, source, n)
    PROVE  \A v \in Users : records'[v]["invite"] = records[v]["invite"]
  BY DEF Pay, TypeOK, Sources

LEMMA RewardInvites ==
    ASSUME Inv, Invitations, InvitesPaidOnce, NEW r \in Requests, BindReward(r)
    PROVE  InvitesPaidOnce'
  <1>1. PICK u \in Users, w \in Users, p \in Phones :
          u = request[r].user /\ w = request[r].inviter /\ p = request[r].phone
    BY DEF BindReward, Inv, ReadsHold, Holds, BindHolds
  <1>2. phone[u] = None /\ inviter[u] = w /\ w # u /\ w # None /\ p # None /\ u \notin late
    BY <1>1, LedgerDistinct DEF BindReward, Inv, ReadsHold, Holds, BindHolds, Invitations
  <1>3. phone' = [phone EXCEPT ![u] = p] /\ UNCHANGED <<inviter, late>>
    BY <1>1 DEF BindReward
  <1>4. Invited' = Invited \union {u} /\ u \notin Invited
    BY <1>2, <1>3 DEF Invited, Inv, TypeOK
  <1>5. ASSUME NEW v \in Users
        PROVE  records'[v]["invite"] = records[v]["invite"] + IF v \in {u, w} THEN Reward ELSE 0
    BY <1>1 DEF BindReward, Recorded, Rewarded, Inv, TypeOK, Sources
  <1>6. ASSUME NEW v \in Users
        PROVE  Paid(v)' = Paid(v) + IF v \in {u, w} THEN 1 ELSE 0
    <2>1. InvitedBy(v)' = InvitedBy(v) \union (IF v = w THEN {u} ELSE {}) /\ u \notin InvitedBy(v)
      BY <1>2, <1>3, <1>4 DEF InvitedBy
    <2>2. Cardinality(InvitedBy(v)') = Cardinality(InvitedBy(v)) + IF v = w THEN 1 ELSE 0
      <3>1. CASE v = w   BY <2>1, <3>1, InvitedByFinite, FS_AddElement
      <3>2. CASE v # w   BY <2>1, <3>2, InvitedByFinite, FS_CardinalityType
      <3> QED  BY <3>1, <3>2
    <2>3. (IF v \in Invited' THEN 1 ELSE 0) = (IF v \in Invited THEN 1 ELSE 0) + IF v = u THEN 1 ELSE 0
      BY <1>4
    <2>4. Cardinality(InvitedBy(v)) \in Nat  BY InvitedByFinite, FS_CardinalityType
    <2> QED  BY <1>2, <2>2, <2>3, <2>4 DEF Paid
  <1>7. ASSUME NEW v \in Users  PROVE records'[v]["invite"] = Reward * Paid(v)'
    <2>1. records[v]["invite"] = Reward * Paid(v)
      BY DEF InvitesPaidOnce, Paid, InvitedBy
    <2>2. Paid(v) \in Nat /\ Reward \in Nat  BY PaidNat, LedgerNumbers
    <2>3. Reward * (Paid(v) + 1) = Reward * Paid(v) + Reward
      <3>1. \A a, b \in Nat : a * (b + 1) = a * b + a  OBVIOUS
      <3> QED  BY <3>1, <2>2
    <2>4. Paid(v)' = Paid(v) + IF v \in {u, w} THEN 1 ELSE 0  BY <1>6
    <2>5. CASE v \in {u, w}   BY <1>5, <2>1, <2>3, <2>4, <2>5
    <2>6. CASE v \notin {u, w}
      <3>1. Paid(v)' = Paid(v)  BY <2>2, <2>4, <2>6
      <3>2. records'[v]["invite"] = records[v]["invite"]
        <4>1. records[v]["invite"] \in Int  BY DEF Inv, TypeOK, Sources
        <4> QED  BY <1>5, <2>6, <4>1
      <3> QED  BY <2>1, <3>1, <3>2
    <2> QED  BY <2>5, <2>6
  <1> QED  BY <1>7 DEF InvitesPaidOnce, Paid, InvitedBy

LEMMA InvitesStep ==
    ASSUME Inv, Invitations, InvitesPaidOnce, [Next]_vars
    PROVE  Invitations' /\ InvitesPaidOnce'
  <1> DEFINE Both == Invitations' /\ InvitesPaidOnce'
  <1>1. ASSUME UNCHANGED <<phone, inviter, late>>,
               \A v \in Users : records'[v]["invite"] = records[v]["invite"]
        PROVE  Both
    BY <1>1, NobodyInvited DEF Invited, Invitations
  <1>2. ASSUME UNCHANGED <<phone, inviter, records, late>>  PROVE Both
    BY <1>1, <1>2
  <1>3. ASSUME NEW r \in Requests, Rollback(r), UNCHANGED late  PROVE Both
    BY <1>2, <1>3 DEF Rollback, tables
  <1>4. ASSUME NEW r \in Requests, BindReward(r)  PROVE Both
    <2>1. InvitesPaidOnce'  BY <1>4, RewardInvites
    <2>2. Invitations'
      <3>1. request[r].phone # None  BY <1>4, LedgerDistinct DEF BindReward, Inv, ReadsHold, Holds, BindHolds
      <3> QED  BY <1>4, <3>1 DEF BindReward, Invitations, Inv, TypeOK
    <2> QED  BY <2>1, <2>2
  <1>5. ASSUME NEW r \in Requests, BindPhone(r)  PROVE Both
    <2>1. CASE Rollback(r)  BY <1>3, <1>5, <2>1 DEF BindPhone
    <2>2. CASE UNCHANGED tables  BY <1>2, <1>5, <2>2 DEF BindPhone, tables
    <2>3. CASE /\ phone' = [phone EXCEPT ![request[r].user] = request[r].phone]
               /\ request[r].inviter = None
               /\ UNCHANGED <<points, inviter, records, codes, redeemed>>
      (* Who binds here has no inviter, and is invited by nobody before and after. *)
      <3>1. PICK u \in Users, p \in Phones : u = request[r].user /\ p = request[r].phone
        BY <1>5 DEF BindPhone, Inv, ReadsHold, Holds, BindHolds
      <3>2. inviter[u] = None /\ p # None /\ late' = late
        BY <1>5, <2>3, <3>1, LedgerDistinct DEF BindPhone, Inv, ReadsHold, Holds, BindHolds
      <3>3. Invited' = Invited  BY <2>3, <3>1, <3>2 DEF Invited, Inv, TypeOK
      <3>4. InvitesPaidOnce'  BY <2>3, <3>3, NobodyInvited
      <3>5. Invitations'  BY <2>3, <3>1, <3>2 DEF Invitations, Inv, TypeOK
      <3> QED  BY <3>4, <3>5
    <2> QED  BY <1>5, <2>1, <2>2, <2>3 DEF BindPhone
  <1>6. ASSUME NEW r \in Requests, Refer(r)  PROVE Both
    <2>1. PICK u \in Users, w \in Users : w # u /\ u = request[r].user /\ w = request[r].inviter
      BY <1>6 DEF Refer, Inv, ReadsHold, Holds
    <2>2. UNCHANGED <<phone, records>>  BY <1>6 DEF Refer
    <2>3. CASE UNCHANGED <<inviter, late>>  BY <1>2, <2>2, <2>3
    <2>4. CASE /\ inviter[u] = None /\ inviter' = [inviter EXCEPT ![u] = w]
               /\ late' = IF phone[u] = None THEN late ELSE late \union {u}
      (* Who has no phone yet is not invited in time before and after; who has is late. *)
      <3>1. Invited' = Invited  BY <2>2, <2>4 DEF Invited, Inv, TypeOK
      <3>2. \A v \in Invited : inviter'[v] = inviter[v]  BY <2>4 DEF Invited, Inv, TypeOK
      <3>3. InvitesPaidOnce'  BY <2>2, <3>1, <3>2, NobodyInvited
      <3>4. Invitations'  BY <2>1, <2>2, <2>4 DEF Invitations, Inv, TypeOK
      <3> QED  BY <3>3, <3>4
    <2> QED  BY <1>6, <2>1, <2>3, <2>4 DEF Refer
  <1>7. ASSUME NEW r \in Requests, Proceed(r) \/ Fail(r)  PROVE Both
    <2>1. CASE Credit(r)
      <3>1. CASE Rollback(r)  BY <1>3, <2>1, <3>1 DEF Credit
      <3>2. CASE ~Rollback(r)
        <4>1. Pay(request[r].user, "exchange_code", request[r].seen.points)
              /\ UNCHANGED <<phone, inviter, late>>
          BY <2>1, <3>2 DEF Credit
        <4> QED  BY <1>1, <4>1, PayNoInvite DEF Inv, Sources
      <3> QED  BY <3>1, <3>2
    <2>2. CASE BoostPay(r)
      BY <1>1, <2>2, PayNoInvite DEF BoostPay, Inv, Sources
    <2>3. CASE Victim(r) \/ Fail(r)
      BY <1>3, <2>3 DEF Victim, Fail
    <2> QED  BY <1>4, <1>5, <1>6, <1>7, <2>1, <2>2, <2>3 DEF Proceed
  <1>8. ASSUME NEW r \in Requests, NEW p \in Phones, NEW n \in Amounts, Recharge(r, p, n)  PROVE Both
    <2>1. PICK u \in Users : Pay(u, "admin_recharge", n)  BY <1>8 DEF Recharge, Owner
    <2> QED  BY <1>1, <1>8, <2>1, PayNoInvite DEF Recharge, Inv, Sources
  <1>9. ASSUME NEW r \in Requests, NEW u \in Users,
               \/ \E p \in Phones : BindRead(r, u, p)
               \/ \E v \in Users : ReferRead(r, u, v)
               \/ \E c \in Codes : ExchangeRead(r, u, c)
               \/ \E n \in Amounts : BoostRead(r, u, n)
        PROVE Both
    BY <1>2, <1>9 DEF BindRead, ReferRead, ExchangeRead, BoostRead, Refused, tables
  <1>10. CASE UNCHANGED vars \/ \E c \in Codes : Expire(c) \/ \E n \in Amounts : Create(c, n)
    <2>1. UNCHANGED <<phone, inviter, records, late>>  BY <1>10, Zenon DEF vars, tables, Expire, Create
    <2> QED  BY <1>2, <2>1
  <1> QED  BY <1>7, <1>8, <1>9, <1>10 DEF Next

(* Each invitation that is complete before the phone is bound is paid once to both
   sides, however binds, referrals and deadlocks interleave (InvitesPaidOnce).   *)
THEOREM InvitationsPaidOnce == Spec => []InvitesPaidOnce
  <1>1. Init => Invitations /\ InvitesPaidOnce
    <2> SUFFICES ASSUME Init PROVE Invitations /\ InvitesPaidOnce  OBVIOUS
    <2>1. Invited = {} /\ \A v \in Users : records[v]["invite"] = 0
      BY DEF Init, Invited, Sources
    <2>2. ASSUME NEW v \in Users  PROVE Paid(v) = 0
      <3>1. InvitedBy(v) = {}  BY <2>1 DEF InvitedBy
      <3> QED  BY <2>1, <3>1, FS_EmptySet DEF Paid
    <2>3. InvitesPaidOnce
      BY <2>1, <2>2, LedgerNumbers DEF InvitesPaidOnce, Paid, InvitedBy
    <2> QED  BY <2>3, LedgerDistinct DEF Invitations, Init
  <1>2. Inv /\ Invitations /\ InvitesPaidOnce /\ [Next]_vars => (Invitations /\ InvitesPaidOnce)'
    BY InvitesStep
  <1> QED  BY <1>1, <1>2, InitInv, NextInv, PTL DEF Spec

=============================================================================
