---------------------------- MODULE PointsLedger ----------------------------
(* Points (platform/platform.go, admin.go): binding a phone and the reward of an
   invitation, referrals, exchange codes, recharges and the points a boost spends,
   as transactions of MySQL that run against each other.

   A transaction takes the locks of its rows and index entries one by one, and
   writes when it commits: the rows it writes are locked by then. Deltas
   ("points + ?") are applied to the row as it is; what a transaction has read
   before is kept in its request.                                             *)
EXTENDS Integers, FiniteSets

CONSTANTS Users, Phones, Codes, None,
          Requests,      \* requests of a run (a bound)
          Reward,        \* referralRewardPoints
          Amounts,       \* points of a code, a recharge or a boost
          Limits,        \* max_uses of a public code, 0 for none
          MaxFaults      \* transactions that end in an error (a bound)

ASSUME LedgerDistinct ==
    /\ Users \intersect Phones = {} /\ Users \intersect Codes = {} /\ Phones \intersect Codes = {}
    /\ None \notin Users \union Phones \union Codes \union Requests
ASSUME LedgerNumbers ==
    IsFiniteSet(Users) /\ Reward \in Nat /\ Amounts \subseteq Nat \ {0} /\ Limits \subseteq Nat /\ MaxFaults \in Nat

VARIABLES
    points,     \* users.points
    phone,      \* users.phone
    inviter,    \* users.invited_by_uid
    records,    \* point_records: the sum of each user and source
    codes,      \* exchange_codes
    redeemed,   \* exchange_redemptions: pairs of a public code and a user
    lock,       \* the transaction that holds a user's row, a phone or a code
    request,    \* the requests, each with what its transaction has read
    late,       \* history: users whose inviter was stored when their phone was bound
    faults      \* transactions that have ended in an error

tables == <<points, phone, inviter, records, codes, redeemed>>
vars   == <<tables, lock, request, late, faults>>

Sources   == {"invite", "exchange_code", "admin_recharge", "activity_boost"}
Resources == Users \union Phones \union Codes

CodeRecords ==
    [status : {"absent", "unused", "used"}, public : BOOLEAN, points : Nat,
     max : Nat, used : Nat, usedBy : Users \union {None}, expired : BOOLEAN]

Absent == [status |-> "absent", public |-> FALSE, points |-> 0,
           max |-> 0, used |-> 0, usedBy |-> None, expired |-> FALSE]

Idle == [pc |-> "new", user |-> None, phone |-> None, inviter |-> None,
         code |-> None, seen |-> Absent, amount |-> 0]

PCs == {"new", "phone", "reward", "refer", "credit", "pay", "done"}

(* EnsureUser stores a user without phone, inviter and points: users that have not
   come yet are as good as stored.                                              *)
Init ==
    /\ points   = [u \in Users |-> 0]
    /\ phone    = [u \in Users |-> None]
    /\ inviter  = [u \in Users |-> None]
    /\ records  = [u \in Users |-> [s \in Sources |-> 0]]
    /\ codes    = [c \in Codes |-> Absent]
    /\ redeemed = {}
    /\ lock     = [x \in Resources |-> None]
    /\ request  = [r \in Requests |-> Idle]
    /\ late     = {}
    /\ faults   = 0

-----------------------------------------------------------------------------
(* Transactions. *)
At(r, pc)   == request[r].pc = pc
Free(x)     == lock[x] = None
Locked(r,x) == lock' = [lock EXCEPT ![x] = r]
Goto(r, a)  == request' = [request EXCEPT ![r] = a]
Ended(r)    == request' = [request EXCEPT ![r] = [Idle EXCEPT !.pc = "done"]]

Released(r) == lock' = [x \in Resources |-> IF lock[x] = r THEN None ELSE lock[x]]

(* A transaction that wrote nothing ends, with an answer or an error. *)
Rollback(r) == Released(r) /\ Ended(r) /\ UNCHANGED tables
Refused(r)  == Ended(r) /\ UNCHANGED <<tables, lock>>
Commit(r)   == Released(r) /\ Ended(r)

(* A user's points change by n, and a record says why. *)
Pay(u, source, n) ==
    /\ points'  = [points EXCEPT ![u] = @ + n]
    /\ records' = [records EXCEPT ![u][source] = @ + n]

-----------------------------------------------------------------------------
(* BindPhone. The own row is locked, and found unbound; the look for another owner
   of the phone locks nothing.                                                    *)
Owner(p) == {u \in Users : phone[u] = p}

(* Mutant: the row is not locked. *)
BindReadUnlocked(r, u, p) ==
    /\ At(r, "new")
    /\ phone[u] = None /\ Owner(p) = {}
    /\ Goto(r, [Idle EXCEPT !.pc = "phone", !.user = u, !.phone = p, !.inviter = inviter[u]])
    /\ UNCHANGED <<tables, lock, late, faults>>

BindRead(r, u, p) ==
    /\ At(r, "new") /\ Free(u)
    /\ \/ /\ phone[u] # None \/ Owner(p) # {}
          /\ Refused(r)
       \/ /\ phone[u] = None /\ Owner(p) = {}
          /\ Locked(r, u)
          /\ Goto(r, [Idle EXCEPT !.pc = "phone", !.user = u, !.phone = p,
                                  !.inviter = inviter[u]])
          /\ UNCHANGED tables
    /\ UNCHANGED <<late, faults>>

(* The phone is written: the entry of the unique index is locked, or taken. Without
   an inviter the transaction commits here.                                       *)
BindPhone(r) ==
    /\ At(r, "phone")
    /\ LET q == request[r] IN
        /\ Free(q.phone)
        /\ \/ Owner(q.phone) \ {q.user} # {} /\ Rollback(r)
           \/ /\ Owner(q.phone) \ {q.user} = {} /\ q.inviter # None
              /\ Locked(r, q.phone)
              /\ Goto(r, [q EXCEPT !.pc = "reward"])
              /\ UNCHANGED tables
           \/ /\ Owner(q.phone) \ {q.user} = {} /\ q.inviter = None
              /\ phone' = [phone EXCEPT ![q.user] = q.phone]
              /\ UNCHANGED <<points, inviter, records, codes, redeemed>>
              /\ Commit(r)
    /\ UNCHANGED <<late, faults>>

(* Both are rewarded: the inviter's row is locked last. *)
Rewarded(q) == {q.user, q.inviter}

(* Mutant: the inviter gets the points, and no record. *)
RecordedOwn(q) == {q.user}
Recorded(q)    == Rewarded(q)

BindReward(r) ==
    /\ At(r, "reward")
    /\ LET q == request[r] IN
        /\ Free(q.inviter)
        /\ phone'   = [phone EXCEPT ![q.user] = q.phone]
        /\ points'  = [u \in Users |-> points[u] + IF u \in Rewarded(q) THEN Reward ELSE 0]
        /\ records' = [u \in Users |-> [records[u] EXCEPT !["invite"] =
                                           @ + IF u \in Recorded(q) THEN Reward ELSE 0]]
    /\ UNCHANGED <<inviter, codes, redeemed>>
    /\ Commit(r)
    /\ UNCHANGED <<late, faults>>

(* ApplyReferral: the user, without a phone, and the inviter are read first ... *)
ReferRead(r, u, v) ==
    /\ At(r, "new")
    /\ \/ (phone[u] # None \/ u = v) /\ Refused(r)
       \/ /\ phone[u] = None /\ u # v
          /\ Goto(r, [Idle EXCEPT !.pc = "refer", !.user = u, !.inviter = v])
          /\ UNCHANGED <<tables, lock>>
    /\ UNCHANGED <<late, faults>>

(* ... and the transaction looks at the inviter only. *)
Refer(r) ==
    /\ At(r, "refer")
    /\ LET q == request[r] IN
        /\ Free(q.user)
        /\ \/ inviter[q.user] # None /\ UNCHANGED <<inviter, late>>
           \/ /\ inviter[q.user] = None
              /\ inviter' = [inviter EXCEPT ![q.user] = q.inviter]
              /\ late' = IF phone[q.user] = None THEN late ELSE late \union {q.user}
    /\ UNCHANGED <<points, phone, records, codes, redeemed, faults>>
    /\ Commit(r)

-----------------------------------------------------------------------------
(* AdminCreateExchangeCodes and AdminCreatePublicExchangeCode, one code. *)
Create(c, n) ==
    /\ codes[c] = Absent
    /\ \E new \in {[Absent EXCEPT !.status = "unused", !.points = n]} \union
                  {[Absent EXCEPT !.status = "unused", !.points = n, !.public = TRUE, !.max = m] :
                        m \in Limits} :
           codes' = [codes EXCEPT ![c] = new]
    /\ UNCHANGED <<points, phone, inviter, records, redeemed, lock, request, late, faults>>

(* The time limit of a public code passes. *)
Expire(c) ==
    /\ codes[c].public /\ ~codes[c].expired
    /\ codes' = [codes EXCEPT ![c].expired = TRUE]
    /\ UNCHANGED <<points, phone, inviter, records, redeemed, lock, request, late, faults>>

Exhausted(code) == code.public /\ code.max > 0 /\ code.used >= code.max

(* Exchange: the code's row is locked, and checked. *)
(* Mutant: the row is not locked. *)
ExchangeReadUnlocked(r, u, c) ==
    /\ At(r, "new")
    /\ codes[c].status = "unused" /\ ~codes[c].expired /\ ~Exhausted(codes[c])
    /\ Goto(r, [Idle EXCEPT !.pc = "credit", !.user = u, !.code = c, !.seen = codes[c]])
    /\ UNCHANGED <<tables, lock, late, faults>>

ExchangeRead(r, u, c) ==
    /\ At(r, "new") /\ Free(c)
    /\ LET open == codes[c].status = "unused" /\ ~codes[c].expired /\ ~Exhausted(codes[c])
       IN \/ ~open /\ Refused(r)
          \/ /\ open
             /\ Locked(r, c)
             /\ Goto(r, [Idle EXCEPT !.pc = "credit", !.user = u, !.code = c,
                                     !.seen = codes[c]])
             /\ UNCHANGED tables
    /\ UNCHANGED <<late, faults>>

(* The redemption, unique for a public code and a user; the code's use, which closes
   a private code, and a public one at its limit; the user's points.               *)
(* Mutant: a redemption that was there before is not noticed. *)
AgainUnnoticed(q) == FALSE

Again(q) == q.seen.public /\ <<q.code, q.user>> \in redeemed

UsedUp(q) ==
    IF q.seen.public
        THEN [codes[q.code] EXCEPT
                 !.used = @ + 1,
                 !.status = IF q.seen.max > 0 /\ q.seen.used + 1 >= q.seen.max THEN "used" ELSE @]
        ELSE [codes[q.code] EXCEPT !.status = "used", !.usedBy = q.user]

Credit(r) ==
    /\ At(r, "credit")
    /\ LET q == request[r] IN
        \/ Again(q) /\ Rollback(r)
        \/ /\ ~Again(q) /\ Free(q.user)
           /\ redeemed' = redeemed \union (IF q.seen.public THEN {<<q.code, q.user>>} ELSE {})
           /\ codes' = [codes EXCEPT ![q.code] = UsedUp(q)]
           /\ Pay(q.user, "exchange_code", q.seen.points)
           /\ UNCHANGED <<phone, inviter>>
           /\ Commit(r)
    /\ UNCHANGED <<late, faults>>

-----------------------------------------------------------------------------
(* AdminRecharge: whoever has the phone; one row is locked. *)
Recharge(r, p, n) ==
    /\ At(r, "new") /\ Free(p)
    /\ \E u \in Owner(p) : Free(u) /\ Pay(u, "admin_recharge", n)
    /\ Ended(r)
    /\ UNCHANGED <<phone, inviter, codes, redeemed, lock, late, faults>>

(* BoostActivity: the user's row is locked, and has the points ... *)
(* Mutant: the row is not locked. *)
BoostReadUnlocked(r, u, n) ==
    /\ At(r, "new") /\ points[u] >= n
    /\ Goto(r, [Idle EXCEPT !.pc = "pay", !.user = u, !.amount = n])
    /\ UNCHANGED <<tables, lock, late, faults>>

BoostRead(r, u, n) ==
    /\ At(r, "new") /\ Free(u)
    /\ \/ points[u] < n /\ Refused(r)
       \/ /\ points[u] >= n
          /\ Locked(r, u)
          /\ Goto(r, [Idle EXCEPT !.pc = "pay", !.user = u, !.amount = n])
          /\ UNCHANGED tables
    /\ UNCHANGED <<late, faults>>

(* ... and pays them, for the credit that ActivityClaim follows. *)
BoostPay(r) ==
    /\ At(r, "pay")
    /\ Pay(request[r].user, "activity_boost", -request[r].amount)
    /\ UNCHANGED <<phone, inviter, codes, redeemed, late, faults>>
    /\ Commit(r)

-----------------------------------------------------------------------------
(* What a transaction waits for. *)
Needs(r) ==
    LET q == request[r]
    IN CASE q.pc = "phone"  -> {q.phone}
         [] q.pc = "reward" -> {q.inviter}
         [] q.pc = "credit" -> {q.user}
         [] OTHER           -> {}

WaitsFor(r, s) == r # s /\ \E x \in Needs(r) : lock[x] = s

(* Waiting in a circle: MySQL rolls one of them back. *)
Deadlocked(r) ==
    \E circle \in SUBSET Requests :
        /\ r \in circle
        /\ \A a \in circle : \E b, c \in circle : WaitsFor(a, b) /\ WaitsFor(c, a)

InTransaction(r) == request[r].pc \notin {"new", "done"}

Victim(r) == InTransaction(r) /\ Deadlocked(r) /\ Rollback(r) /\ UNCHANGED <<late, faults>>

(* A statement or the commit fails, or the client has gone. *)
Fail(r) ==
    /\ InTransaction(r) /\ faults < MaxFaults
    /\ faults' = faults + 1
    /\ Rollback(r)
    /\ UNCHANGED late

Proceed(r) ==
    BindPhone(r) \/ BindReward(r) \/ Refer(r) \/ Credit(r) \/ BoostPay(r) \/ Victim(r)

Next ==
    \/ \E r \in Requests :
        \/ Proceed(r) \/ Fail(r)
        \/ \E u \in Users :
            \/ \E p \in Phones : BindRead(r, u, p)
            \/ \E v \in Users : ReferRead(r, u, v)
            \/ \E c \in Codes : ExchangeRead(r, u, c)
            \/ \E n \in Amounts : BoostRead(r, u, n)
        \/ \E p \in Phones, n \in Amounts : Recharge(r, p, n)
    \/ \E c \in Codes : Expire(c) \/ \E n \in Amounts : Create(c, n)

Spec == Init /\ [][Next]_vars

-----------------------------------------------------------------------------
RequestRecords ==
    [pc : PCs, user : Users \union {None}, phone : Phones \union {None},
     inviter : Users \union {None}, code : Codes \union {None},
     seen : CodeRecords, amount : Nat]

TypeOK ==
    /\ points   \in [Users -> Int]
    /\ phone    \in [Users -> Phones \union {None}]
    /\ inviter  \in [Users -> Users \union {None}]
    /\ records  \in [Users -> [Sources -> Int]]
    /\ codes    \in [Codes -> CodeRecords]
    /\ redeemed \subseteq Codes \X Users
    /\ lock     \in [Resources -> Requests \union {None}]
    /\ request  \in [Requests -> RequestRecords]
    /\ late     \subseteq Users
    /\ faults   \in 0 .. MaxFaults

(* What a transaction read is still so when it writes, for it holds the lock: the row
   without a phone and its inviter, the free phone, the open code, enough points. *)
BindHolds(r, q) ==
    /\ lock[q.user] = r /\ q.user \in Users /\ q.phone \in Phones
    /\ phone[q.user] = None /\ inviter[q.user] = q.inviter

SameCode(a, b) ==
    /\ a.status = b.status /\ a.public = b.public /\ a.points = b.points
    /\ a.max = b.max /\ a.used = b.used

Holds(r, q) ==
    /\ q.pc \in {"phone", "reward"} => BindHolds(r, q)
    /\ q.pc = "reward" => /\ q.inviter \in Users
                          /\ lock[q.phone] = r /\ Owner(q.phone) = {}
    /\ q.pc = "refer"  => q.user \in Users /\ q.inviter \in Users \ {q.user}
    /\ q.pc = "credit" => /\ lock[q.code] = r /\ q.user \in Users /\ q.code \in Codes
                          /\ SameCode(codes[q.code], q.seen)
                          /\ q.seen.status = "unused" /\ ~Exhausted(q.seen)
    /\ q.pc = "pay"    => lock[q.user] = r /\ q.user \in Users /\ points[q.user] >= q.amount

ReadsHold == \A r \in Requests : Holds(r, request[r])

(* A user's points are what the records say, whatever ran at the same time and
   whatever was rolled back, and nobody spends points they do not have.      *)
BalanceIsSum ==
    \A u \in Users : points[u] = records[u]["invite"] + records[u]["exchange_code"]
                               + records[u]["admin_recharge"] + records[u]["activity_boost"]

NeverOverspent == \A u \in Users : points[u] >= 0

(* Each invited user who binds a phone pays the reward once, to both sides: however
   often the phone is sent, and when two who invited each other bind at once. Only
   an inviter stored behind the binding pays nobody.                               *)
Invited == {u \in Users : phone[u] # None /\ inviter[u] # None /\ u \notin late}

InvitesPaidOnce ==
    \A v \in Users :
        records[v]["invite"] =
            Reward * (Cardinality({u \in Invited : inviter[u] = v})
                        + IF v \in Invited THEN 1 ELSE 0)

Redeemers(c) == {u \in Users : <<c, u>> \in redeemed}

(* A public code is used as often as it was redeemed, never beyond its limit, and
   closed exactly when it is used up.                                            *)
CodesWithinLimits ==
    \A c \in Codes :
        /\ codes[c].used = Cardinality(Redeemers(c))
        /\ codes[c].public /\ codes[c].max > 0 =>
               /\ codes[c].used <= codes[c].max
               /\ codes[c].status = "used" <=> codes[c].used = codes[c].max

(* A code pays a user once: what users got from codes is what the codes they are
   written down for are worth, point by point. A private code has one such user. *)
WrittenFor(u) == {c \in Codes : u \in Redeemers(c) \/ codes[c].usedBy = u}
PointsOf(c)   == {c} \X (1 .. codes[c].points)
Worth(u)      == Cardinality(UNION {PointsOf(c) : c \in WrittenFor(u)})

CodesPayOnce == \A u \in Users : records[u]["exchange_code"] = Worth(u)

=============================================================================
