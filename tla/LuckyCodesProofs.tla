-------------------------- MODULE LuckyCodesProofs --------------------------
(* Theorems about LuckyCodes, for any users, slots, codes and bounds: it
   implements LuckyLedger, and what the ledger's rules preserve it preserves; the
   list keeps its order, claims exclude each other but for Releases sent twice, and
   without failures nothing disappears.

   For the rows what the list and the claim keys hold plays no part: they are safe
   by the guards of the statements on them alone, whatever Redis has lost or mixed
   up. That the entries of the list and the keys are ids of rows is in IInv for
   the theorems about Redis. *)
EXTENDS LuckyCodesRefinement, FiniteSetTheorems, SequenceTheorems, TLAPS

(* The rows and the answers: their types and HandedOnce. *)
LedgerInv ==
    /\ status \in [Codes -> Statuses]
    /\ owner \in [Codes -> Users \union {Nobody}]
    /\ usedBy \in [Codes -> Users \union {Nobody}]
    /\ handed \subseteq Codes \X Users
    /\ HandedOnce

(* A request has a caller, and what it is about, once it is about a code, is the
   id of a row, as is every entry of the list and every id that has a claim key. *)
Existing == {id \in Codes : status[id] # "none"}

NoCodePCs == {"idle", "receive"}

RequestOK(r, existing) ==
    /\ r \in Requests
    /\ r.pc # "idle" => r.uid \in Users
    /\ r.pc \notin NoCodePCs => r.id \in existing

RequestsOK ==
    /\ req \in [Slots -> Requests]
    /\ \A s \in Slots : RequestOK(req[s], Existing)

RedisOK ==
    /\ queue \in Seq(Existing)
    /\ holder \in [Codes -> Users \union {Nobody}]
    /\ \A id \in Codes : holder[id] # Nobody => id \in Existing

SpentOK == spent \in [{"requests", "faults", "lost", "restarts", "resends"} -> Nat]

IInv == LedgerInv /\ RequestsOK /\ RedisOK /\ SpentOK

-----------------------------------------------------------------------------
(* What the script leaves of the list. *)
(* A set of natural numbers that is not empty has a least element. *)
LEMMA LeastElement ==
    ASSUME NEW T \in SUBSET Nat, T # {}
    PROVE  \E x \in T : \A y \in T : x <= y
  <1> DEFINE Less == {ss \in Nat \X Nat : ss[1] < ss[2]}
  <1>1. OpToRel(<, Nat) = Less  BY DEF OpToRel
  <1>2. IsWellFoundedOn(Less, Nat)  BY <1>1, NatLessThanWellFounded
  <1>3. PICK x \in T : \A y \in T : <<y, x>> \notin Less  BY <1>2, WFMin
  <1>4. ASSUME NEW y \in T
        PROVE  x <= y
    <2>1. x \in Nat /\ y \in Nat  OBVIOUS
    <2>2. <<y, x>> \notin Less  BY <1>3
    <2>3. ~(y < x)  BY <2>1, <2>2
    <2> QED  BY <2>1, <2>3
  <1> QED  BY <1>4

(* so a set of them that has 0 and the successors of its members has all. *)
LEMMA AllNaturals ==
    ASSUME NEW T \in SUBSET Nat, 0 \in T, \A n \in T : n + 1 \in T
    PROVE  T = Nat
  <1>1. SUFFICES ASSUME Nat \ T # {} PROVE FALSE  OBVIOUS
  <1>2. PICK m \in Nat \ T : \A n \in Nat \ T : m <= n  BY <1>1, LeastElement
  <1>3. m # 0 /\ m - 1 \in Nat  BY <1>2
  <1>4. m - 1 \in T  BY <1>2, <1>3
  <1> QED  BY <1>2, <1>3, <1>4

LEMMA IntervalPart ==
    ASSUME NEW n \in Nat, NEW D \in SUBSET (1 .. n)
    PROVE  IsFiniteSet(D)
  <1>1. IsFiniteSet(1 .. n)  BY FS_Interval
  <1> QED  BY <1>1, FS_Subset

IsAscending(f, D) ==
    /\ f \in [1 .. Cardinality(D) -> D]
    /\ \A i, j \in DOMAIN f : i < j => f[i] < f[j]

(* Every set of positions can be listed in ascending order: by induction on the
   largest of them. *)
LEMMA AscendingExists ==
    ASSUME NEW N \in Nat, NEW D \in SUBSET (1 .. N)
    PROVE  \E f : IsAscending(f, D)
  <1> DEFINE T == {n \in Nat : \A E \in SUBSET (1 .. n) : \E f : IsAscending(f, E)}
  <1>1. 0 \in T
    <2>1. Cardinality({}) = 0  BY FS_EmptySet
    <2>2. IsAscending([i \in 1 .. 0 |-> 0], {})  BY <2>1 DEF IsAscending
    <2>3. 1 .. 0 = {} OBVIOUS
    <2> QED  BY <2>2, <2>3
  <1>2. ASSUME NEW n \in T
        PROVE  n + 1 \in T
    <2>1. SUFFICES ASSUME NEW E \in SUBSET (1 .. n + 1)
                   PROVE  \E f : IsAscending(f, E)
      OBVIOUS
    <2>2. CASE n + 1 \notin E
      <3>1. E \in SUBSET (1 .. n)  BY <2>2
      <3> QED  BY <3>1
    <2>3. CASE n + 1 \in E
      <3> DEFINE R == E \ {n + 1}
                 c == Cardinality(R)
      <3>1. R \in SUBSET (1 .. n)  OBVIOUS
      <3>2. PICK f : IsAscending(f, R)  BY <3>1
      <3>3. IsFiniteSet(R)  BY <3>1, IntervalPart
      <3>4. E = R \union {n + 1} /\ n + 1 \notin R  BY <2>3
      <3>5. c \in Nat /\ Cardinality(E) = c + 1  BY <3>3, <3>4, FS_AddElement, FS_CardinalityType
      <3>6. f \in [1 .. c -> R] /\ \A i, j \in 1 .. c : i < j => f[i] < f[j]  BY <3>2 DEF IsAscending
      <3> DEFINE g == [i \in 1 .. c + 1 |-> IF i = c + 1 THEN n + 1 ELSE f[i]]
      <3> HIDE DEF c, R
      <3>7. g \in [1 .. c + 1 -> E]  BY <3>4, <3>5, <3>6
      <3>8. \A i, j \in 1 .. c + 1 : i < j => g[i] < g[j]
        <4>1. \A i \in 1 .. c : f[i] \in 1 .. n  BY <3>1, <3>6
        <4> QED  BY <3>5, <3>6, <4>1
      <3> HIDE DEF g
      <3> QED  BY <3>5, <3>7, <3>8 DEF IsAscending
    <2> QED  BY <2>2, <2>3
  <1>3. T = Nat
    <2> HIDE DEF T
    <2>1. T \in SUBSET Nat BY DEF T
    <2> QED  BY <1>1, <1>2, <2>1, AllNaturals
  <1> QED  BY <1>3

LEMMA AscendingIs ==
    ASSUME NEW N \in Nat, NEW D \in SUBSET (1 .. N)
    PROVE  /\ IsAscending(Ascending(D), D)
           /\ Cardinality(D) \in Nat
           /\ \A d \in D : \E i \in 1 .. Cardinality(D) : Ascending(D)[i] = d
  <1> DEFINE n == Cardinality(D)
             f == Ascending(D)
  <1>1. IsAscending(f, D)  BY AscendingExists DEF IsAscending, Ascending
  <1>2. IsFiniteSet(D) /\ n \in Nat  BY IntervalPart, FS_CardinalityType
  <1>3. IsFiniteSet(1 .. n) /\ Cardinality(1 .. n) = n  BY <1>2, FS_Interval
  <1> HIDE DEF f, n
  <1>4. f \in [1 .. n -> D] /\ \A i, j \in 1 .. n : i < j => f[i] < f[j]  BY <1>1 DEF IsAscending, n
  <1>5. f \in Injection(1 .. n, D)
    <2>4. \A d \in D : d \in Nat  OBVIOUS
    <2>1. \A i \in 1 .. n : f[i] \in Nat  BY <1>4, <2>4
    <2>2. \A i, j \in 1 .. n : i < j \/ i = j \/ j < i  BY <1>2
    <2>3. \A i, j \in 1 .. n : f[i] = f[j] => i = j  BY <1>4, <2>1, <2>2
    <2> QED  BY <1>4, <2>3 DEF Injection, IsInjective
  <1>6. f \in Surjection(1 .. n, D)  BY <1>2, <1>3, <1>5, FS_Injection DEF n
  <1> QED  BY <1>1, <1>2, <1>6 DEF Surjection, f, n

(* p is s without some of its entries. *)
EmbeddedBy(f, p, s) ==
    /\ f \in [DOMAIN p -> DOMAIN s]
    /\ \A i, j \in DOMAIN p : i < j => f[i] < f[j]
    /\ \A i \in DOMAIN p : p[i] = s[f[i]]

Embedded(p, s) == \E f : EmbeddedBy(f, p, s)

Contents(s) == {s[i] : i \in DOMAIN s}

LEMMA KeptIs ==
    ASSUME NEW S, NEW s \in Seq(S), NEW D \in SUBSET DOMAIN s
    PROVE  /\ Kept(s, D) \in Seq(S)
           /\ Embedded(Kept(s, D), s)
           /\ Contents(Kept(s, D)) = {s[i] : i \in D}
  <1> DEFINE n == Cardinality(D)
             f == Ascending(D)
             k == Kept(s, D)
  <1>1. Len(s) \in Nat /\ DOMAIN s = 1 .. Len(s)  OBVIOUS
  <1>2. /\ IsAscending(f, D) /\ n \in Nat
        /\ \A d \in D : \E i \in 1 .. n : f[i] = d
    BY <1>1, AscendingIs
  <1>3. f \in [1 .. n -> D] /\ \A i, j \in 1 .. n : i < j => f[i] < f[j]  BY <1>2 DEF IsAscending
  <1>4. k = [i \in 1 .. n |-> s[f[i]]]  BY DEF Kept
  <1> HIDE DEF f, n, k
  <1>5. \A i \in 1 .. n : f[i] \in DOMAIN s /\ s[f[i]] \in S  BY <1>1, <1>3
  <1>6. k \in Seq(S)  BY <1>2, <1>4, <1>5
  <1>7. DOMAIN k = 1 .. n  BY <1>4
  <1>8. EmbeddedBy(f, k, s)  BY <1>3, <1>4, <1>5, <1>7 DEF EmbeddedBy
  <1>9. Contents(k) = {s[i] : i \in D}
    BY <1>2, <1>3, <1>4, <1>7 DEF Contents
  <1> QED  BY <1>6, <1>8, <1>9 DEF Embedded, k

(* What precedes in the one order does not follow in the other. *)
LEMMA EmbeddingKeepsOrder ==
    ASSUME NEW p, NEW s, NEW n \in Nat, DOMAIN s = 1 .. n, Embedded(p, s),
           NEW a, NEW b, Precedes(s, a, b)
    PROVE  ~Precedes(p, b, a)
  <1>1. PICK f : EmbeddedBy(f, p, s)  BY DEF Embedded
  <1>2. SUFFICES ASSUME NEW i \in Occurrences(p, b), NEW j \in Occurrences(p, a), i < j
                 PROVE  FALSE
    BY DEF Precedes
  <1>3. PICK k \in Occurrences(s, a), l \in Occurrences(s, b) : k < l  BY DEF Precedes
  <1>4. \A c : IsFiniteSet(Occurrences(s, c))  BY IntervalPart DEF Occurrences
  <1>5. f[j] \in Occurrences(s, a) /\ f[i] \in Occurrences(s, b)
    BY <1>1, <1>2 DEF EmbeddedBy, Occurrences
  <1>6. f[j] = k /\ f[i] = l
    <2>1. Cardinality(Occurrences(s, a)) = 1 /\ Cardinality(Occurrences(s, b)) = 1  BY DEF Precedes
    <2>2. (\E x : Occurrences(s, a) = {x}) /\ (\E x : Occurrences(s, b) = {x})
      BY <1>4, <2>1, FS_Singleton
    <2> QED  BY <1>3, <1>5, <2>2
  <1>7. f[i] < f[j]  BY <1>1, <1>2 DEF EmbeddedBy, Occurrences
  <1>8. k \in Nat /\ l \in Nat  BY DEF Occurrences
  <1> QED  BY <1>3, <1>6, <1>7, <1>8

(* The script removes the entry at i, and those before it that are not the caller's. *)
LEMMA PopIs ==
    ASSUME NEW S, NEW q \in Seq(S), NEW i \in DOMAIN q, NEW D \in SUBSET (1 .. i - 1)
    PROVE  LET p == Kept(SubSeq(q, 1, i - 1), D) \o SubSeq(q, i + 1, Len(q))
           IN  /\ p \in Seq(S)
               /\ Embedded(p, q)
               /\ \A j \in DOMAIN q : j \in D \/ j > i => q[j] \in Contents(p)
  <1> DEFINE front == SubSeq(q, 1, i - 1)
             back  == SubSeq(q, i + 1, Len(q))
             k     == Kept(front, D)
             p     == k \o back
             m     == Len(q) - i
  <1>1. i \in Nat /\ i >= 1 /\ i <= Len(q) /\ Len(q) \in Nat /\ DOMAIN q = 1 .. Len(q)  OBVIOUS
  <1>2. /\ front \in Seq(S) /\ Len(front) = i - 1 /\ DOMAIN front = 1 .. i - 1
        /\ \A j \in 1 .. i - 1 : front[j] = q[j]
    BY <1>1, SubSeqProperties
  <1>3. /\ back \in Seq(S) /\ Len(back) = m /\ m \in Nat
        /\ \A j \in 1 .. m : back[j] = q[i + j]
    <2>1. \A j \in i + 1 .. Len(q) : q[j] \in S  BY <1>1
    <2>2. i + 1 \in Int /\ Len(q) \in Int  BY <1>1
    <2>3. /\ back \in Seq(S)
          /\ Len(back) = IF i + 1 <= Len(q) THEN Len(q) - (i + 1) + 1 ELSE 0
          /\ \A j \in 1 .. Len(q) - (i + 1) + 1 : back[j] = q[(i + 1) + j - 1]
      BY <2>1, <2>2, SubSeqProperties
    <2>4. m \in Nat /\ Len(back) = m /\ Len(q) - (i + 1) + 1 = m  BY <1>1, <2>3
    <2>5. \A j \in 1 .. m : (i + 1) + j - 1 = i + j  BY <1>1
    <2> HIDE DEF m, back
    <2> QED  BY <2>3, <2>4, <2>5
  <1>4. /\ k \in Seq(S)
        /\ Embedded(k, front)
        /\ Contents(k) = {front[j] : j \in D}
    BY <1>2, KeptIs
  <1> HIDE DEF front, back, k, m
  <1>5. PICK f : EmbeddedBy(f, k, front)  BY <1>4 DEF Embedded
  <1> DEFINE c == Len(k)
             g == [j \in 1 .. c + m |-> IF j <= c THEN f[j] ELSE i + (j - c)]
  <1>6. c \in Nat /\ DOMAIN k = 1 .. c  BY <1>4
  <1>7. /\ p \in Seq(S) /\ DOMAIN p = 1 .. c + m
        /\ \A j \in 1 .. c : p[j] = k[j]
        /\ \A j \in 1 .. m : p[c + j] = back[j]
    <2>1. /\ k \o back \in Seq(S)
          /\ Len(k \o back) = Len(k) + Len(back)
          /\ \A j \in 1 .. Len(k) + Len(back) :
                (k \o back)[j] = IF j <= Len(k) THEN k[j] ELSE back[j - Len(k)]
      BY <1>3, <1>4, ConcatProperties
    <2> HIDE DEF p, c
    <2>2. p = k \o back /\ c = Len(k)  BY DEF p, c
    <2>3. p \in Seq(S) /\ Len(p) = c + m  BY <1>3, <2>1, <2>2
    <2>4. \A j \in 1 .. c + m : (j <= c => p[j] = k[j]) /\ (~(j <= c) => p[j] = back[j - c])
      BY <1>3, <2>1, <2>2
    <2>5. \A j \in 1 .. m : c + j \in 1 .. c + m /\ ~(c + j <= c) /\ c + j - c = j
      BY <1>3, <1>6
    <2>6. \A j \in 1 .. c : j \in 1 .. c + m /\ j <= c  BY <1>3, <1>6
    <2>7. c + m \in Nat /\ DOMAIN p = 1 .. c + m  BY <1>3, <1>6, <2>3
    <2>8. \A j \in 1 .. c : p[j] = k[j]  BY <2>4, <2>6
    <2>9. ASSUME NEW j \in 1 .. m
          PROVE  p[c + j] = back[j]
      <3>1. c + j \in 1 .. c + m /\ ~(c + j <= c) /\ c + j - c = j  BY <2>5
      <3>2. ~(c + j <= c) => p[c + j] = back[c + j - c]  BY <1>3, <1>6, <2>4, <3>1
      <3> QED  BY <3>1, <3>2
    <2> QED  BY <2>3, <2>7, <2>8, <2>9
  <1> HIDE DEF p, c
  <1>8. EmbeddedBy(g, p, q)
    <2>1. \A j \in 1 .. c : f[j] \in 1 .. i - 1 /\ k[j] = front[f[j]]  BY <1>2, <1>5, <1>6 DEF EmbeddedBy
    <2>2. \A j \in 1 .. c + m : g[j] \in 1 .. Len(q)  BY <1>1, <1>3, <1>6, <2>1 DEF m
    <2>3. ASSUME NEW j \in 1 .. c + m
          PROVE  p[j] = q[g[j]]
      <3>1. CASE j <= c  BY <1>2, <1>6, <1>7, <2>1, <3>1
      <3>2. CASE j > c
        <4>1. j - c \in 1 .. m /\ g[j] = i + (j - c) /\ j = c + (j - c)  BY <1>3, <1>6, <3>2
        <4>2. p[c + (j - c)] = back[j - c] /\ back[j - c] = q[i + (j - c)]  BY <1>3, <1>7, <4>1
        <4> QED  BY <4>1, <4>2
      <3> QED  BY <1>6, <3>1, <3>2
    <2>4. ASSUME NEW j \in 1 .. c + m, NEW l \in 1 .. c + m, j < l
          PROVE  g[j] < g[l]
      <3>1. \A x, y \in 1 .. c : x < y => f[x] < f[y]  BY <1>5, <1>6 DEF EmbeddedBy
      <3> QED  BY <1>1, <1>3, <1>6, <2>1, <2>4, <3>1
    <2> HIDE DEF g
    <2>5. g \in [1 .. c + m -> 1 .. Len(q)]  BY <2>2 DEF g
    <2> QED  BY <1>1, <1>7, <2>3, <2>4, <2>5 DEF EmbeddedBy
  <1> HIDE DEF g
  <1>9. ASSUME NEW j \in DOMAIN q, j \in D \/ j > i
        PROVE  q[j] \in Contents(p)
    <2>1. CASE j \in D
      <3>1. q[j] \in Contents(k)  BY <1>2, <1>4, <2>1
      <3>2. PICK x \in 1 .. c : k[x] = q[j]  BY <1>6, <3>1 DEF Contents
      <3>3. p[x] = q[j] /\ x \in DOMAIN p  BY <1>3, <1>6, <1>7, <3>2
      <3> QED  BY <3>3 DEF Contents
    <2>2. CASE j > i
      <3>1. j - i \in 1 .. m /\ i + (j - i) = j  BY <1>1, <2>2 DEF m
      <3>2. p[c + (j - i)] = q[j] /\ c + (j - i) \in 1 .. c + m  BY <1>3, <1>6, <1>7, <3>1
      <3> QED  BY <1>7, <3>2 DEF Contents
    <2> QED  BY <1>9, <2>1, <2>2
  <1> QED  BY <1>7, <1>8, <1>9 DEF Embedded, p, k, front, back

-----------------------------------------------------------------------------
(* What the ledger's rules preserve. *)
LEMMA LedgerStep ==
    ASSUME LedgerInv, [Ledger!Next]_(Ledger!vars)
    PROVE  LedgerInv'
  <1>1. CASE UNCHANGED Ledger!vars
    BY <1>1 DEF LedgerInv, HandedOnce, Ledger!vars
  <1>2. ASSUME NEW id \in Codes, Ledger!Retract(id)
        PROVE  LedgerInv'
    BY <1>2 DEF LedgerInv, HandedOnce, Ledger!Retract, Statuses
  <1>3. ASSUME NEW id \in Codes, NEW u \in Users, Ledger!Offer(id, u)
        PROVE  LedgerInv'
    (* The row is new, so nothing has been answered with it. *)
    <2>1. \A v \in Users : <<id, v>> \notin handed  BY <1>3 DEF LedgerInv, HandedOnce, Ledger!Offer
    <2>2. \A j \in Codes, v \in Users :
            <<j, v>> \in handed => status'[j] = status[j] /\ owner'[j] = owner[j]
      BY <1>3, <2>1 DEF LedgerInv, Ledger!Offer
    <2> QED  BY <1>3, <2>2 DEF LedgerInv, HandedOnce, Ledger!Offer, Statuses
  <1>4. ASSUME NEW id \in Codes, NEW u \in Users, Ledger!TakeCode(id, u)
        PROVE  LedgerInv'
    (* The row is available, so nothing has been answered with it either. *)
    <2>1. \A v \in Users : <<id, v>> \notin handed  BY <1>4 DEF LedgerInv, HandedOnce, Ledger!TakeCode
    <2>2. \A j \in Codes, v \in Users :
            <<j, v>> \in handed => status'[j] = status[j] /\ usedBy'[j] = usedBy[j]
      BY <1>4, <2>1 DEF LedgerInv, Ledger!TakeCode
    <2>3. status'[id] = "used" /\ usedBy'[id] = u /\ owner'[id] # u
      BY <1>4 DEF LedgerInv, Ledger!TakeCode
    <2>4. handed' \subseteq handed \union {<<id, u>>}  BY <1>4 DEF Ledger!TakeCode
    <2>5. HandedOnce'
      BY <1>4, <2>2, <2>3, <2>4 DEF LedgerInv, HandedOnce, Ledger!TakeCode
    <2> QED  BY <1>4, <2>4, <2>5 DEF LedgerInv, Ledger!TakeCode, Statuses
  <1> QED  BY <1>1, <1>2, <1>3, <1>4 DEF Ledger!Next

-----------------------------------------------------------------------------
(* Each step of the program is a step of the ledger, or none. *)
LEMMA NoStep ==
    ASSUME UNCHANGED <<rows, handed>>
    PROVE  UNCHANGED Ledger!vars
  BY DEF rows, Ledger!vars

LEMMA UseIsTaking ==
    ASSUME NEW id, NEW u \in Users, Use(id, u), UNCHANGED owner,
           handed' = handed \/ handed' = handed \union {<<id, u>>}
    PROVE  Ledger!Next
  <1>1. id \in Codes /\ Ledger!TakeCode(id, u)
    BY DEF Use, Available, Ledger!TakeCode
  <1> QED  BY <1>1 DEF Ledger!Next

LEMMA Refines ==
    ASSUME IInv, [Next]_vars
    PROVE  [Ledger!Next]_(Ledger!vars)
  <1>1. ASSUME NEW s \in Slots, Call(s)
        PROVE  [Ledger!Next]_(Ledger!vars)
    <2>1. ASSUME NEW u \in Users, Publish(s, u)
          PROVE  Ledger!Next
      BY <2>1 DEF Publish, Ledger!Next, Ledger!Offer
    <2>2. ASSUME NEW u \in Users, ReceiveCall(s, u) \/ \E id \in Codes : UseCall(s, u, id)
          PROVE  UNCHANGED Ledger!vars
      BY <2>2, NoStep DEF ReceiveCall, UseCall
    <2> QED  BY <1>1, <2>1, <2>2 DEF Call
  <1>2. ASSUME NEW s \in Slots, Withdraw(s)
        PROVE  [Ledger!Next]_(Ledger!vars)
    <2>1. req[s].id \in Existing
      BY <1>2 DEF Withdraw, At, IInv, RequestsOK, RequestOK, NoCodePCs
    <2>2. CASE UNCHANGED status  BY <1>2, <2>2, NoStep DEF Withdraw, rows
    <2>3. CASE status' = [status EXCEPT ![req[s].id] = "deleted"]
      BY <1>2, <2>1, <2>3 DEF Withdraw, Existing, Ledger!Next, Ledger!Retract
    <2> QED  BY <1>2, <2>2, <2>3 DEF Withdraw
  <1>3. ASSUME NEW s \in Slots, Take(s) \/ TakeFails(s) \/ UseRow(s)
        PROVE  [Ledger!Next]_(Ledger!vars)
    <2>1. req[s].uid \in Users
      BY <1>3 DEF Take, TakeFails, UseRow, At, IInv, RequestsOK, RequestOK
    <2>2. CASE Use(req[s].id, req[s].uid)
      <3>1. UNCHANGED owner  BY <1>3 DEF Take, TakeFails, UseRow
      <3>2. handed' = handed \/ handed' = handed \union {<<req[s].id, req[s].uid>>}
        BY <1>3 DEF Take, TakeFails, UseRow, Answer
      <3> QED  BY <2>1, <2>2, <3>1, <3>2, UseIsTaking
    <2>3. CASE ~Use(req[s].id, req[s].uid)
      BY <1>3, <2>3, NoStep DEF Take, TakeFails, UseRow, rows
    <2> QED  BY <2>2, <2>3
  <1>4. ASSUME NEW s \in Slots, Push(s) \/ PopEntry(s) \/ PopNothing(s) \/ TakeRefused(s) \/ Drop(s)
                                \/ Requeue(s) \/ Claim(s) \/ Free(s) \/ Lose(s)
        PROVE  UNCHANGED Ledger!vars
    BY <1>4, NoStep DEF Push, PopEntry, PopNothing, TakeRefused, Drop, Requeue, Claim, Free, Release, Lose
  <1>5. ASSUME NEW id \in Codes, Expire(id)
        PROVE  UNCHANGED Ledger!vars
    BY <1>5, NoStep DEF Expire
  <1>6. CASE Restart \/ RedisLoss
    BY <1>6, NoStep DEF Restart, RedisLoss
  <1>7. CASE UNCHANGED vars
    BY <1>7, NoStep DEF vars, rows
  <1> QED  BY <1>1, <1>2, <1>3, <1>4, <1>5, <1>6, <1>7 DEF Next, Work

-----------------------------------------------------------------------------
(* How the calls of the program change one request. A row never vanishes from
   the table's history, so a request that has one keeps it.                  *)
LEMMA BecomeStep ==
    ASSUME RequestsOK, Existing \subseteq Existing', NEW s \in Slots, NEW r, Become(s, r),
           RequestOK(r, Existing')
    PROVE  RequestsOK'
  <1>1. req' = [t \in Slots |-> IF t = s THEN r ELSE req[t]]  BY DEF RequestsOK, Become
  <1>2. \A t \in Slots : RequestOK(req'[t], Existing')  BY <1>1 DEF RequestsOK, RequestOK
  <1>3. req' \in [Slots -> Requests]  BY <1>1, <1>2 DEF RequestOK
  <1> QED  BY <1>2, <1>3 DEF RequestsOK

LEMMA GoToIs ==
    ASSUME RequestsOK, NEW s \in Slots, NEW label \in PCs, GoTo(s, label)
    PROVE  LET r == [pc |-> label, uid |-> req[s].uid, id |-> req[s].id, tries |-> req[s].tries]
           IN  r \in Requests /\ Become(s, r)
  <1>1. req[s] \in Requests  BY DEF RequestsOK
  <1> QED  BY <1>1 DEF GoTo, Requests

LEMMA GoToHas ==
    ASSUME RequestsOK, NEW s \in Slots, NEW label \in PCs, GoTo(s, label)
    PROVE  \E r : Become(s, r) /\ r.pc = label /\ r.id = req[s].id
  <1> DEFINE r == [pc |-> label, uid |-> req[s].uid, id |-> req[s].id, tries |-> req[s].tries]
  <1>1. Become(s, r)  BY GoToIs
  <1>2. r.pc = label /\ r.id = req[s].id  OBVIOUS
  <1> QED  BY <1>1, <1>2

LEMMA GoToStep ==
    ASSUME RequestsOK, Existing \subseteq Existing', NEW s \in Slots, NEW label \in PCs,
           GoTo(s, label), ~At(s, "idle"), label \in NoCodePCs \/ req[s].pc \notin NoCodePCs
    PROVE  RequestsOK'
  <1> DEFINE r == [pc |-> label, uid |-> req[s].uid, id |-> req[s].id, tries |-> req[s].tries]
  <1>1. RequestOK(req[s], Existing)  BY DEF RequestsOK
  <1>2. r \in Requests /\ Become(s, r)  BY GoToIs
  <1>3. RequestOK(r, Existing')  BY <1>1, <1>2 DEF RequestOK, At
  <1> QED  BY <1>2, <1>3, BecomeStep

LEMMA CodesAreIds == Codes \subseteq 0 .. MaxCodes /\ 0 \in 0 .. MaxCodes
  BY CodesAreNatural DEF Codes

LEMMA IdleOK == \A existing : RequestOK(Idle, existing)
  <1>1. Idle \in Requests  BY CodesAreIds DEF Requests, PCs, Idle, Request
  <1>2. Idle.pc = "idle"  BY DEF Idle, Request
  <1> QED  BY <1>1, <1>2 DEF RequestOK, NoCodePCs

LEMMA FinishStep ==
    ASSUME RequestsOK, Existing \subseteq Existing', NEW s \in Slots, Finish(s)
    PROVE  RequestsOK'
  BY IdleOK, BecomeStep DEF Finish

LEMMA NewRequestOK ==
    ASSUME NEW label \in PCs, NEW u \in Users, NEW id \in 0 .. MaxCodes, NEW n \in Nat,
           NEW existing, label \notin NoCodePCs => id \in existing
    PROVE  RequestOK(Request(label, u, id, n), existing)
  BY DEF RequestOK, Requests, Request

LEMMA RequestsStep ==
    ASSUME IInv, Existing \subseteq Existing', [Next]_vars
    PROVE  RequestsOK'
  <1> USE DEF IInv
  <1>1. ASSUME NEW s \in Slots, NEW u \in Users, Publish(s, u)
        PROVE  RequestsOK'
    <2>1. PICK id \in Codes :
            /\ status' = [status EXCEPT ![id] = "available"]
            /\ Become(s, Request("push", u, id, 0))
      BY <1>1 DEF Publish
    <2>2. id \in Existing'  BY <2>1 DEF Existing, LedgerInv
    <2>3. RequestOK(Request("push", u, id, 0), Existing')
      BY <2>2, CodesAreIds, NewRequestOK DEF PCs
    <2> QED  BY <2>1, <2>3, BecomeStep
  <1>2. ASSUME NEW s \in Slots, NEW u \in Users, ReceiveCall(s, u)
        PROVE  RequestsOK'
    <2>1. RequestOK(Request("receive", u, 0, 0), Existing')
      BY CodesAreIds, NewRequestOK DEF PCs, NoCodePCs
    <2> QED  BY <1>2, <2>1, BecomeStep DEF ReceiveCall
  <1>3. ASSUME NEW s \in Slots, NEW u \in Users, NEW id \in Codes, UseCall(s, u, id)
        PROVE  RequestsOK'
    <2>1. id \in Existing'  BY <1>3 DEF UseCall, Available, Existing
    <2>2. RequestOK(Request("claim", u, id, 0), Existing')
      BY <2>1, CodesAreIds, NewRequestOK DEF PCs
    <2> QED  BY <1>3, <2>2, BecomeStep DEF UseCall
  <1>4. ASSUME NEW s \in Slots, PopEntry(s)
        PROVE  RequestsOK'
    <2>1. RequestOK(req[s], Existing) /\ req[s].pc = "receive"
      BY <1>4 DEF PopEntry, At, RequestsOK
    <2>2. req[s].uid \in Users /\ req[s].tries + 1 \in Nat
      BY <2>1 DEF RequestOK, Requests
    <2>3. ASSUME NEW i \in DOMAIN queue,
                 Become(s, Request("take", req[s].uid, queue[i], req[s].tries + 1))
          PROVE  RequestsOK'
      <3>1. queue[i] \in Existing'  BY DEF RedisOK
      <3>2. queue[i] \in 0 .. MaxCodes  BY CodesAreIds DEF RedisOK, Existing
      <3>3. RequestOK(Request("take", req[s].uid, queue[i], req[s].tries + 1), Existing')
        BY <2>2, <3>1, <3>2, NewRequestOK DEF PCs
      <3> QED  BY <2>3, <3>3, BecomeStep
    <2>4. CASE UNCHANGED req  BY <2>4 DEF RequestsOK, RequestOK
    <2> QED  BY <1>4, <2>3, <2>4, FinishStep DEF PopEntry
  <1>5. ASSUME NEW s \in Slots,
               Push(s) \/ Withdraw(s) \/ PopNothing(s) \/ Take(s) \/ TakeRefused(s) \/ TakeFails(s)
               \/ Drop(s) \/ Requeue(s) \/ Claim(s) \/ UseRow(s) \/ Free(s) \/ Lose(s)
        PROVE  RequestsOK'
    <2>1. \/ Finish(s)
          \/ UNCHANGED req
          \/ /\ ~At(s, "idle")
             /\ \E label \in PCs :
                    GoTo(s, label) /\ (label \in NoCodePCs \/ req[s].pc \notin NoCodePCs)
      BY <1>5 DEF Push, Withdraw, PopNothing, Take, TakeRefused, TakeFails, Drop, Requeue,
                  Claim, UseRow, Free, Release, Lose, Answer, At, NoCodePCs, PCs
    <2>2. CASE UNCHANGED req  BY <2>2 DEF RequestsOK, RequestOK
    <2> QED  BY <2>1, <2>2, FinishStep, GoToStep
  <1>6. CASE Restart
    BY <1>6, IdleOK DEF Restart, RequestsOK, RequestOK
  <1>7. ASSUME UNCHANGED req
        PROVE  RequestsOK'
    BY <1>7 DEF RequestsOK, RequestOK
  <1> QED
    BY <1>1, <1>2, <1>3, <1>4, <1>5, <1>6, <1>7
       DEF Next, Call, Work, Expire, RedisLoss, vars

-----------------------------------------------------------------------------
(* What a step does to the list: it takes entries out of it, or puts some in. *)
LEMMA SameEmbeds ==
    ASSUME NEW S, NEW q \in Seq(S)
    PROVE  Embedded(q, q)
  <1>1. EmbeddedBy([i \in DOMAIN q |-> i], q, q)  BY DEF EmbeddedBy
  <1> QED  BY <1>1 DEF Embedded

LEMMA NothingEmbeds ==
    ASSUME NEW S, NEW q \in Seq(S)
    PROVE  Embedded(<<>>, q)
  <1>1. EmbeddedBy([i \in {} |-> i], <<>>, q)  BY DEF EmbeddedBy
  <1> QED  BY <1>1 DEF Embedded

LEMMA ShiftEmbeds ==
    ASSUME NEW S, NEW p \in Seq(S), NEW q \in Seq(S), NEW k \in Nat, Len(p) + k <= Len(q),
           \A i \in 1 .. Len(p) : q[i + k] = p[i]
    PROVE  Embedded(p, q)
  <1> DEFINE f == [i \in 1 .. Len(p) |-> i + k]
  <1>1. EmbeddedBy(f, p, q)  BY DEF EmbeddedBy
  <1> QED  BY <1>1 DEF Embedded

LEMMA PushEmbeds ==
    ASSUME NEW S, NEW q \in Seq(S), NEW x \in S
    PROVE  /\ Append(q, x) \in Seq(S) /\ Embedded(q, Append(q, x))
           /\ <<x>> \o q \in Seq(S) /\ Embedded(q, <<x>> \o q)
  <1>1. Append(q, x) \in Seq(S) /\ Embedded(q, Append(q, x))
    <2> DEFINE r == Append(q, x)
    <2>1. r \in Seq(S) /\ Len(q) + 0 <= Len(r)  OBVIOUS
    <2>2. \A i \in 1 .. Len(q) : r[i + 0] = q[i]  OBVIOUS
    <2> HIDE DEF r
    <2>3. Embedded(q, r)  BY <2>1, <2>2, ShiftEmbeds
    <2> QED  BY <2>1, <2>3 DEF r
  <1>2. ASSUME NEW r \in Seq(S)
        PROVE  r \o q \in Seq(S) /\ Embedded(q, r \o q)
    <2>1. /\ r \o q \in Seq(S) /\ Len(r \o q) = Len(r) + Len(q)
          /\ \A i \in 1 .. Len(q) : (r \o q)[i + Len(r)] = q[i]
      OBVIOUS
    <2> DEFINE p == r \o q
               k == Len(r)
    <2>2. k \in Nat /\ Len(q) + k <= Len(p)  BY <2>1
    <2> HIDE DEF p, k
    <2>3. p \in Seq(S) /\ \A i \in 1 .. Len(q) : p[i + k] = q[i]  BY <2>1 DEF p, k
    <2>4. Embedded(q, p)  BY <2>2, <2>3, ShiftEmbeds
    <2> QED  BY <2>1, <2>4 DEF p
  <1>3. <<x>> \in Seq(S)  OBVIOUS
  <1> QED  BY <1>1, <1>2, <1>3

LEMMA QueueStep ==
    ASSUME IInv, [Next]_vars
    PROVE  queue' \in Seq(Existing) /\ (Embedded(queue', queue) \/ Embedded(queue, queue'))
  <1>1. queue \in Seq(Existing)  BY DEF IInv, RedisOK
  <1>2. CASE UNCHANGED queue  BY <1>1, <1>2, SameEmbeds
  <1>3. ASSUME NEW s \in Slots, Push(s) \/ Requeue(s), queue' # queue
        PROVE  queue' \in Seq(Existing) /\ Embedded(queue, queue')
    <2> DEFINE x == req[s].id
    <2>1. x \in Existing
      BY <1>3 DEF Push, Requeue, Release, At, IInv, RequestsOK, RequestOK, NoCodePCs
    <2>2. queue' \in {Append(queue, x), <<x>> \o queue}
      BY <1>3 DEF Push, Requeue, Release
    <2> QED  BY <1>1, <2>1, <2>2, PushEmbeds
  <1>4. ASSUME NEW s \in Slots, PopEntry(s)
        PROVE  queue' \in Seq(Existing) /\ Embedded(queue', queue)
    <2>1. PICK i \in DOMAIN queue :
            queue' = PutBack(SubSeq(queue, 1, i - 1), req[s].uid) \o SubSeq(queue, i + 1, Len(queue))
      BY <1>4 DEF PopEntry
    <2>2. OwnAt(SubSeq(queue, 1, i - 1), req[s].uid) \in SUBSET (1 .. i - 1)
      BY <1>1 DEF OwnAt
    <2> QED  BY <1>1, <2>1, <2>2, PopIs DEF PutBack
  <1>5. ASSUME NEW s \in Slots, PopNothing(s), queue' # queue
        PROVE  queue' \in Seq(Existing) /\ Embedded(queue', queue)
    <2>1. queue' = PutBack(queue, req[s].uid)  BY <1>5 DEF PopNothing
    <2>2. OwnAt(queue, req[s].uid) \in SUBSET DOMAIN queue  BY DEF OwnAt
    <2> QED  BY <1>1, <2>1, <2>2, KeptIs DEF PutBack
  <1>6. CASE RedisLoss  BY <1>1, <1>6, NothingEmbeds DEF RedisLoss
  <1>7. ASSUME NEW s \in Slots,
               Call(s) \/ Withdraw(s) \/ Take(s) \/ TakeRefused(s) \/ TakeFails(s) \/ Drop(s)
               \/ Claim(s) \/ UseRow(s) \/ Free(s) \/ Lose(s)
        PROVE  UNCHANGED queue
    BY <1>7 DEF Call, Publish, ReceiveCall, UseCall, Withdraw, Take, TakeRefused, TakeFails, Drop,
                Claim, UseRow, Free, Release, Lose
  <1>8. CASE (\E id \in Codes : Expire(id)) \/ Restart \/ UNCHANGED vars
    BY <1>2, <1>8 DEF Expire, Restart, vars
  <1> QED  BY <1>2, <1>3, <1>4, <1>5, <1>6, <1>7, <1>8 DEF Next, Work

(* What it does to the claim keys and to what the run has spent. *)
LEMMA RedisStep ==
    ASSUME IInv, Existing \subseteq Existing', [Next]_vars
    PROVE  RedisOK'
  <1>1. queue' \in Seq(Existing')  BY QueueStep
  <1>2. \A s \in Slots : req[s].pc \notin NoCodePCs => req[s].id \in Existing /\ req[s].uid \in Users
    BY DEF IInv, RequestsOK, RequestOK, NoCodePCs
  <1>3. \A s \in Slots : req[s].pc # "idle" => req[s].uid \in Users
    BY DEF IInv, RequestsOK, RequestOK
  <1> DEFINE SetTo(id, u) == holder' = [holder EXCEPT ![id] = u]
  <1>4. \/ UNCHANGED holder
        \/ \E id \in Codes : SetTo(id, Nobody)
        \/ \E id \in Existing, u \in Users : SetTo(id, u)
        \/ holder' = [id \in Codes |-> Nobody]
    <2>1. ASSUME NEW s \in Slots, PopEntry(s)
          PROVE  \E id \in Existing, u \in Users : SetTo(id, u)
      <3>1. req[s].uid \in Users  BY <1>3, <2>1 DEF PopEntry, At
      <3>2. PICK i \in DOMAIN queue : holder' = [holder EXCEPT ![queue[i]] = req[s].uid]
        BY <2>1 DEF PopEntry
      <3>3. queue[i] \in Existing  BY DEF IInv, RedisOK
      <3> QED  BY <3>1, <3>2, <3>3
    <2>2. ASSUME NEW s \in Slots, Claim(s), holder' # holder
          PROVE  \E id \in Existing, u \in Users : SetTo(id, u)
      <3>1. req[s].id \in Existing /\ req[s].uid \in Users
        BY <1>2, <2>2 DEF Claim, At, NoCodePCs
      <3>2. SetTo(req[s].id, req[s].uid)  BY <2>2 DEF Claim
      <3> QED  BY <3>1, <3>2
    <2>3. ASSUME NEW s \in Slots, Drop(s) \/ Requeue(s) \/ Free(s), holder' # holder
          PROVE  \E id \in Codes : SetTo(id, Nobody)
      <3>1. req[s].id \in Codes
        BY <1>2, <2>3 DEF Drop, Requeue, Free, Release, At, NoCodePCs, Existing
      <3>2. SetTo(req[s].id, Nobody)  BY <2>3 DEF Drop, Requeue, Free, Release, Released
      <3> QED  BY <3>1, <3>2
    <2>4. ASSUME NEW s \in Slots,
                 Call(s) \/ Push(s) \/ Withdraw(s) \/ PopNothing(s) \/ Take(s) \/ TakeRefused(s)
                 \/ TakeFails(s) \/ UseRow(s) \/ Lose(s)
          PROVE  UNCHANGED holder
      BY <2>4 DEF Call, Publish, ReceiveCall, UseCall, Push, Withdraw, PopNothing, Take, TakeRefused,
                  TakeFails, UseRow, Lose
    <2>5. CASE (\E id \in Codes : Expire(id)) \/ Restart \/ RedisLoss \/ UNCHANGED vars
      BY <2>5 DEF Expire, Released, Restart, RedisLoss, vars
    <2> QED  BY <2>1, <2>2, <2>3, <2>4, <2>5 DEF Next, Work
  <1>5. /\ holder' \in [Codes -> Users \union {Nobody}]
        /\ \A id \in Codes : holder'[id] # Nobody => id \in Existing'
    BY <1>4 DEF IInv, RedisOK, Existing
  <1> QED  BY <1>1, <1>5 DEF RedisOK

LEMMA SpentStep ==
    ASSUME SpentOK, [Next]_vars
    PROVE  /\ SpentOK'
           /\ spent'.faults >= spent.faults
           /\ spent'.lost >= spent.lost
           /\ spent'.restarts >= spent.restarts
           /\ spent'.resends >= spent.resends
  <1>1. \/ UNCHANGED spent
        \/ \E b \in {"requests", "faults", "lost", "restarts", "resends"} : spent' = [spent EXCEPT ![b] = @ + 1]
    BY DEF Next, Call, Work, Publish, ReceiveCall, UseCall, Push, Withdraw, PopEntry, PopNothing,
           Take, TakeRefused, TakeFails, Drop, Requeue, Claim, UseRow, Free, Release, Lose, Expire,
           Restart, RedisLoss, Receive, Fault, Resend, SpendFailure, Spend, vars
  <1>2. CASE UNCHANGED spent  BY <1>2 DEF SpentOK
  <1>3. ASSUME NEW b \in {"requests", "faults", "lost", "restarts", "resends"}, spent' = [spent EXCEPT ![b] = @ + 1]
        PROVE  /\ SpentOK'
               /\ spent'.faults >= spent.faults
               /\ spent'.lost >= spent.lost
               /\ spent'.restarts >= spent.restarts
               /\ spent'.resends >= spent.resends
    BY <1>3 DEF SpentOK
  <1> QED  BY <1>1, <1>2, <1>3

-----------------------------------------------------------------------------
(* The inductive invariant, and what follows from it. *)
LEMMA ExistingGrows ==
    ASSUME LedgerInv, [Ledger!Next]_(Ledger!vars)
    PROVE  Existing \subseteq Existing'
  BY DEF LedgerInv, Existing, Ledger!Next, Ledger!Offer, Ledger!TakeCode, Ledger!Retract, Ledger!vars

LEMMA InitIInv == Init => IInv
  <1> SUFFICES ASSUME Init PROVE IInv  OBVIOUS
  <1>1. LedgerInv  BY DEF Init, LedgerInv, HandedOnce, Statuses
  <1>2. RequestsOK  BY IdleOK DEF Init, RequestsOK, RequestOK
  <1>3. RedisOK /\ SpentOK  BY DEF Init, RedisOK, SpentOK
  <1> QED  BY <1>1, <1>2, <1>3 DEF IInv

LEMMA NextIInv == IInv /\ [Next]_vars => IInv'
  BY Refines, LedgerStep, ExistingGrows, RequestsStep, RedisStep, SpentStep DEF IInv

LEMMA Invariance == Spec => []IInv
  BY InitIInv, NextIInv, PTL DEF Spec

(* A code is answered to one user at most and never to its owner, for any number
   of users, codes and concurrent requests, and after any loss in Redis.     *)
THEOREM HandedOnceHolds == Spec => []HandedOnce
  <1>1. IInv => HandedOnce  BY DEF IInv, LedgerInv
  <1> QED  BY Invariance, <1>1, PTL

(* Receiving, using and withdrawing through list and claim keys implement the
   ledger of codes, in which a code that was used stays so.                  *)
THEOREM ImplementsLuckyLedger == Spec => LuckyLedgerSpec
  <1>1. Init => Ledger!Init  BY DEF Init, Ledger!Init
  <1>2. IInv /\ [Next]_vars => [Ledger!Next]_(Ledger!vars)  BY Refines
  <1> QED  BY Invariance, <1>1, <1>2, PTL DEF Spec, LuckyLedgerSpec, Ledger!Spec

-----------------------------------------------------------------------------
(* The types of the rows, the list, the claim keys and the requests, for any
   number of them: in particular, an entry of the list is the id of a code.  *)
THEOREM TypeCorrect == Spec => []TypeOK
  <1>1. ASSUME IInv
        PROVE  TypeOK
    <2>1. Seq(Existing) \subseteq Seq(Codes)  BY DEF Existing
    <2> QED  BY <1>1, <2>1 DEF TypeOK, IInv, LedgerInv, RequestsOK, RedisOK, SpentOK
  <1> QED  BY Invariance, <1>1, PTL

(* Two codes that stay in the list never change places, whichever of the requests
   pops, pushes or puts back: a step embeds the new list in the old one or the
   old one in the new.                                                       *)
THEOREM OrderIsKept == Spec => NeverReordered
  <1>1. ASSUME IInv, [Next]_vars, NEW a \in Codes, NEW b \in Codes, Precedes(queue, a, b)
        PROVE  ~Precedes(queue', b, a)
    <2>1. queue \in Seq(Existing) /\ queue' \in Seq(Existing)  BY <1>1, QueueStep DEF IInv, RedisOK
    <2>2. Embedded(queue', queue) \/ Embedded(queue, queue')  BY <1>1, QueueStep
    <2>3. /\ Len(queue) \in Nat /\ DOMAIN queue = 1 .. Len(queue)
          /\ Len(queue') \in Nat /\ DOMAIN queue' = 1 .. Len(queue')
      BY <2>1
    <2>4. CASE Embedded(queue', queue)  BY <1>1, <2>3, <2>4, EmbeddingKeepsOrder
    <2>5. CASE Embedded(queue, queue')
      <3>1. ASSUME Precedes(queue', b, a)
            PROVE  ~Precedes(queue, a, b)
        BY <2>3, <2>5, <3>1, EmbeddingKeepsOrder
      <3> QED  BY <1>1, <3>1
    <2> QED  BY <2>2, <2>4, <2>5
  <1>2. IInv /\ [Next]_vars =>
          [\A a, b \in Codes : Precedes(queue, a, b) => ~Precedes(queue', b, a)]_queue
    BY <1>1
  <1> QED  BY Invariance, <1>2, PTL DEF Spec, NeverReordered

-----------------------------------------------------------------------------
(* Claims. Every request that works on a code, be it to release it once more, took
   a key for it; so there are no more of them than there are keys, one or none, and
   keys deleted by a Release that was sent again. As long as Redis keeps its data. *)
Busy(r, id)   == r.pc \in HoldingPCs \union AgainPCs /\ r.id = id
Working(id)   == {s \in Slots : Busy(req[s], id)}
Keys(id)      == IF holder[id] = Nobody THEN 0 ELSE 1
Counted(id)   == Cardinality(Working(id)) <= Keys(id) + spent.resends

ClaimsInv == spent.restarts = 0 => \A id \in Codes : Counted(id)

LEMMA OthersStay ==
    ASSUME RequestsOK, NEW s \in Slots, NEW r, Become(s, r)
    PROVE  req'[s] = r /\ \A t \in Slots : t # s => req'[t] = req[t]
  BY DEF RequestsOK, Become

(* How one request that changes changes the count of those that work on a code. *)
LEMMA WorkingStep ==
    ASSUME RequestsOK, NEW s \in Slots, NEW r, Become(s, r), NEW id \in Codes
    PROVE  /\ Cardinality(Working(id)) \in Nat
           /\ Cardinality(Working(id)') \in Nat
           /\ Cardinality(Working(id)') <= Cardinality(Working(id)) + 1
           /\ (Busy(r, id) => Busy(req[s], id)) =>
                  Cardinality(Working(id)') <= Cardinality(Working(id))
           /\ Busy(req[s], id) /\ ~Busy(r, id) =>
                  Cardinality(Working(id)') <= Cardinality(Working(id)) - 1
  <1>1. req'[s] = r /\ \A t \in Slots : t # s => req'[t] = req[t]  BY OthersStay
  <1> DEFINE W == Working(id)
             V == Working(id)'
  <1>2. W \subseteq Slots /\ V \subseteq Slots  BY DEF Working
  <1>3. IsFiniteSet(W) /\ IsFiniteSet(V)  BY <1>2, SlotsAreFinite, FS_Subset
  <1>4. (s \in W <=> Busy(req[s], id)) /\ (s \in V <=> Busy(r, id))  BY <1>1 DEF Working, Busy
  <1>5. \A t \in Slots : t # s => (t \in V <=> t \in W)  BY <1>1 DEF Working, Busy
  <1> HIDE DEF W, V
  <1>6. Cardinality(W) \in Nat /\ Cardinality(V) \in Nat  BY <1>3, FS_CardinalityType
  <1>7. Cardinality(V) <= Cardinality(W) + 1
    <2>1. V \subseteq W \union {s}  BY <1>2, <1>5
    <2> DEFINE X == W \union {s}
    <2>2. IsFiniteSet(X) /\ Cardinality(X) = IF s \in W THEN Cardinality(W) ELSE Cardinality(W) + 1
      BY <1>3, FS_AddElement
    <2> HIDE DEF X
    <2>3. Cardinality(V) <= Cardinality(X)  BY <2>1, <2>2, FS_Subset DEF X
    <2>4. Cardinality(X) \in Nat  BY <2>2, FS_CardinalityType
    <2> QED  BY <1>6, <2>2, <2>3, <2>4
  <1>8. ASSUME s \in V => s \in W
        PROVE  Cardinality(V) <= Cardinality(W)
    <2>1. V \subseteq W  BY <1>2, <1>5, <1>8
    <2> QED  BY <1>3, <2>1, FS_Subset
  <1>9. ASSUME s \in W, s \notin V
        PROVE  Cardinality(V) <= Cardinality(W) - 1
    <2>1. V \subseteq W \ {s}  BY <1>2, <1>5, <1>9
    <2>2. IsFiniteSet(W \ {s}) /\ Cardinality(W \ {s}) = Cardinality(W) - 1
      BY <1>3, <1>9, FS_RemoveElement
    <2> QED  BY <2>1, <2>2, FS_Subset
  <1> QED  BY <1>4, <1>6, <1>7, <1>8, <1>9 DEF W, V

LEMMA ClaimsBecome ==
    ASSUME RequestsOK, SpentOK, SpentOK', spent'.resends >= spent.resends,
           NEW s \in Slots, NEW r, Become(s, r), NEW id \in Codes, Counted(id),
           \/ /\ Busy(r, id) => Busy(req[s], id)
              /\ Keys(id) + spent.resends <= Keys(id)' + spent'.resends
           \/ Busy(req[s], id) /\ ~Busy(r, id)
           \/ Keys(id) = 0 /\ Keys(id)' = 1
    PROVE  Counted(id)'
  <1> DEFINE n == Cardinality(Working(id))
             m == Cardinality(Working(id)')
  <1>1. /\ n \in Nat /\ m \in Nat /\ m <= n + 1
        /\ (Busy(r, id) => Busy(req[s], id)) => m <= n
        /\ Busy(req[s], id) /\ ~Busy(r, id) => m <= n - 1
    BY WorkingStep
  <1>2. Keys(id) \in {0, 1} /\ Keys(id)' \in {0, 1}  BY DEF Keys
  <1>3. spent.resends \in Nat /\ spent'.resends \in Nat  BY DEF SpentOK
  <1>4. n <= Keys(id) + spent.resends  BY DEF Counted
  <1> HIDE DEF n, m
  <1>5. m <= Keys(id)' + spent'.resends  BY <1>1, <1>2, <1>3, <1>4
  <1> QED  BY <1>5 DEF Counted, m

LEMMA ClaimsStep ==
    ASSUME IInv, ClaimsInv, [Next]_vars
    PROVE  ClaimsInv'
  <1>1. SUFFICES ASSUME spent.restarts = 0, spent'.restarts = 0, NEW id \in Codes
                 PROVE  Counted(id)'
    BY SpentStep DEF ClaimsInv, IInv, SpentOK
  <1>2. RequestsOK /\ RedisOK /\ SpentOK  BY DEF IInv
  <1>3. SpentOK' /\ spent'.resends >= spent.resends  BY <1>2, SpentStep
  <1>4. Counted(id)  BY <1>1 DEF ClaimsInv
  <1>5. spent.resends \in Nat /\ spent'.resends \in Nat  BY <1>2, <1>3 DEF SpentOK
  <1>6. \A s \in Slots : UNCHANGED req => Become(s, req[s])  BY <1>2 DEF RequestsOK, Become
  <1>7. Idle.pc = "idle"  BY DEF Idle, Request
  (* The request begins, goes on or ends, and takes no code that it had not. *)
  <1>8. ASSUME NEW s \in Slots, NEW r, Become(s, r), Busy(r, id) => Busy(req[s], id),
               holder[id] # Nobody => holder'[id] # Nobody
        PROVE  Counted(id)'
    <2>1. Keys(id) <= Keys(id)'  BY <1>8 DEF Keys
    <2>2. Keys(id) \in {0, 1} /\ Keys(id)' \in {0, 1}  BY DEF Keys
    <2>3. Keys(id) + spent.resends <= Keys(id)' + spent'.resends  BY <1>3, <1>5, <2>1, <2>2
    <2> QED  BY <1>2, <1>3, <1>4, <1>8, <2>3, ClaimsBecome
  <1>9. ASSUME NEW s \in Slots, Call(s)
        PROVE  Counted(id)'
    <2> DEFINE Starts(r) == Become(s, r) /\ r.pc \in {"push", "receive", "claim"}
    <2>1. ASSUME NEW u, NEW c, NEW label \in {"push", "receive", "claim"},
                 Become(s, Request(label, u, c, 0))
          PROVE  \E r : Starts(r)
      <3>1. Request(label, u, c, 0).pc = label  BY DEF Request
      <3> QED  BY <2>1, <3>1
    <2>2. PICK r : Starts(r)
      <3> HIDE DEF Starts
      <3> QED  BY <1>9, <2>1 DEF Call, Publish, ReceiveCall, UseCall
    <2>3. ~Busy(r, id)  BY <2>2 DEF Busy, HoldingPCs, AgainPCs
    <2>4. UNCHANGED holder  BY <1>9 DEF Call, Publish, ReceiveCall, UseCall
    <2> QED  BY <1>8, <2>2, <2>3, <2>4
  <1>10. ASSUME NEW s \in Slots, Finish(s), holder[id] # Nobody => holder'[id] # Nobody
         PROVE  Counted(id)'
    <2>1. ~Busy(Idle, id)  BY <1>7 DEF Busy, HoldingPCs, AgainPCs
    <2> QED  BY <1>8, <1>10, <2>1 DEF Finish
  <1>11. ASSUME NEW s \in Slots, UNCHANGED req, holder[id] # Nobody => holder'[id] # Nobody
         PROVE  Counted(id)'
    BY <1>6, <1>8, <1>11
  (* It takes a code whose key is nobody's. *)
  <1>12. ASSUME NEW s \in Slots, NEW c \in Codes, NEW u \in Users, NEW r,
                holder[c] = Nobody, holder' = [holder EXCEPT ![c] = u],
                Become(s, r), r.id = c
         PROVE  Counted(id)'
    <2>1. CASE id = c
      <3>1. holder'[id] = u /\ u # Nobody  BY <1>2, <1>12, <2>1, NobodyIsNoUser DEF RedisOK
      <3>2. Keys(id) = 0 /\ Keys(id)' = 1  BY <1>12, <2>1, <3>1 DEF Keys
      <3> QED  BY <1>2, <1>3, <1>4, <1>12, <3>2, ClaimsBecome
    <2>2. CASE id # c
      <3>1. ~Busy(r, id) /\ holder'[id] = holder[id]  BY <1>2, <1>12, <2>2 DEF Busy, RedisOK
      <3> QED  BY <1>8, <1>12, <3>1
    <2> QED  BY <2>1, <2>2
  <1>13. ASSUME NEW c \in Codes, NEW u \in Users, holder' = [holder EXCEPT ![c] = u]
         PROVE  holder[id] # Nobody => holder'[id] # Nobody
    BY <1>2, <1>13, NobodyIsNoUser DEF RedisOK
  <1>14. ASSUME NEW s \in Slots, PopEntry(s)
         PROVE  Counted(id)'
    <2>1. req[s].uid \in Users  BY <1>2, <1>14 DEF PopEntry, At, RequestsOK, RequestOK
    <2>2. PICK i \in DOMAIN queue :
            /\ Eligible(queue[i], req[s].uid)
            /\ holder' = [holder EXCEPT ![queue[i]] = req[s].uid]
            /\ \/ Become(s, Request("take", req[s].uid, queue[i], req[s].tries + 1))
               \/ Finish(s)
               \/ UNCHANGED req
      BY <1>14 DEF PopEntry
    <2>3. queue[i] \in Codes /\ holder[queue[i]] = Nobody
      BY <1>2, <2>2 DEF RedisOK, Existing, Eligible
    <2>4. Request("take", req[s].uid, queue[i], req[s].tries + 1).id = queue[i]  BY DEF Request
    <2>5. holder[id] # Nobody => holder'[id] # Nobody  BY <1>13, <2>1, <2>2, <2>3
    <2> QED  BY <1>10, <1>11, <1>12, <2>1, <2>2, <2>3, <2>4, <2>5
  <1>15. ASSUME NEW s \in Slots, Claim(s)
         PROVE  Counted(id)'
    <2>1. req[s].uid \in Users /\ req[s].id \in Codes
      BY <1>2, <1>15 DEF Claim, At, RequestsOK, RequestOK, NoCodePCs, Existing
    <2>2. CASE holder[req[s].id] # Nobody  BY <1>10, <1>15, <2>2 DEF Claim
    <2>3. CASE holder[req[s].id] = Nobody
      <3>1. holder' = [holder EXCEPT ![req[s].id] = req[s].uid]  BY <1>15, <2>3 DEF Claim
      <3>2. holder[id] # Nobody => holder'[id] # Nobody  BY <1>13, <2>1, <3>1
      <3>3. CASE GoTo(s, "use")
        <4>1. PICK r : Become(s, r) /\ r.id = req[s].id  BY <1>2, <3>3, GoToHas DEF PCs
        <4> QED  BY <1>12, <2>1, <2>3, <3>1, <4>1
      <3> QED  BY <1>10, <1>11, <1>15, <2>3, <3>2, <3>3 DEF Claim
    <2> QED  BY <2>2, <2>3
  (* It goes on with the code that it holds. *)
  <1>16. ASSUME NEW s \in Slots, TakeRefused(s) \/ TakeFails(s) \/ UseRow(s), ~Finish(s)
         PROVE  Counted(id)'
    <2>1. PICK label \in PCs : GoTo(s, label)
      BY <1>16 DEF TakeRefused, TakeFails, UseRow, Answer, PCs
    <2>2. PICK r : Become(s, r) /\ r.id = req[s].id  BY <1>2, <2>1, GoToHas
    <2>3. Busy(r, id) => Busy(req[s], id)
      BY <1>16, <2>2 DEF TakeRefused, TakeFails, UseRow, At, Busy, HoldingPCs
    <2>4. UNCHANGED holder  BY <1>16 DEF TakeRefused, TakeFails, UseRow
    <2> QED  BY <1>8, <2>2, <2>3, <2>4
  (* It lets go of the code, for good or to do so again. *)
  <1>17. ASSUME NEW s \in Slots, NEW again \in AgainPCs, NEW label \in HoldingPCs,
                At(s, label) \/ At(s, again),
                \/ UNCHANGED holder
                \/ holder' = [holder EXCEPT ![req[s].id] = Nobody],
                \/ GoTo(s, "receive")
                \/ Finish(s)
                \/ GoTo(s, again) /\ Resend
         PROVE  Counted(id)'
    <2>1. \E r : Become(s, r) /\ \/ r.pc \in {"receive", "idle"}
                                 \/ r.pc = again /\ r.id = req[s].id /\ Resend
      <3>1. CASE GoTo(s, "receive")  BY <1>2, <3>1, GoToHas DEF PCs
      <3>2. CASE Finish(s)  BY <1>7, <3>2 DEF Finish
      <3>3. CASE GoTo(s, again) /\ Resend
        <4>1. again \in PCs  BY <1>17 DEF AgainPCs, PCs
        <4> QED  BY <1>2, <3>3, <4>1, GoToHas
      <3> QED  BY <1>17, <3>1, <3>2, <3>3
    <2>2. PICK r : Become(s, r) /\ \/ r.pc \in {"receive", "idle"}
                                   \/ r.pc = again /\ r.id = req[s].id /\ Resend
      BY <2>1
    <2>3. Busy(req[s], req[s].id)  BY <1>17 DEF At, Busy
    <2>4. CASE id # req[s].id
      <3>1. holder'[id] = holder[id]  BY <1>2, <1>17, <2>4 DEF RedisOK
      <3>2. ~Busy(r, id)  BY <2>2, <2>4 DEF Busy, HoldingPCs, AgainPCs
      <3> QED  BY <1>8, <2>2, <3>1, <3>2
    <2>5. CASE id = req[s].id /\ r.pc \in {"receive", "idle"}
      <3>1. ~Busy(r, id)  BY <2>5 DEF Busy, HoldingPCs, AgainPCs
      <3> QED  BY <1>2, <1>3, <1>4, <2>2, <2>3, <2>5, <3>1, ClaimsBecome
    <2>6. CASE id = req[s].id /\ Resend
      <3>1. spent'.resends = spent.resends + 1  BY <1>2, <2>6 DEF Resend, Spend, SpentOK
      <3>2. Keys(id) \in {0, 1} /\ Keys(id)' \in {0, 1}  BY DEF Keys
      <3>3. Keys(id) + spent.resends <= Keys(id)' + spent'.resends  BY <1>5, <3>1, <3>2
      <3> QED  BY <1>2, <1>3, <1>4, <2>2, <2>3, <2>6, <3>3, ClaimsBecome
    <2> QED  BY <2>2, <2>4, <2>5, <2>6
  <1>18. ASSUME NEW s \in Slots, Drop(s) \/ Requeue(s) \/ Free(s)
         PROVE  Counted(id)'
    <2>1. CASE Drop(s)
      BY <1>17, <2>1 DEF Drop, Release, Released, HoldingPCs, AgainPCs
    <2>2. CASE Requeue(s)
      BY <1>17, <2>2 DEF Requeue, Release, Released, HoldingPCs, AgainPCs
    <2>3. CASE Free(s)
      BY <1>17, <2>3 DEF Free, Release, Released, HoldingPCs, AgainPCs
    <2> QED  BY <1>18, <2>1, <2>2, <2>3
  <1>19. ASSUME NEW s \in Slots, Push(s)
         PROVE  Counted(id)'
    <2>1. UNCHANGED holder  BY <1>19 DEF Push
    <2>2. CASE GoTo(s, "withdraw")
      <3>1. PICK r : Become(s, r) /\ r.pc = "withdraw"  BY <1>2, <2>2, GoToHas DEF PCs
      <3>2. ~Busy(r, id)  BY <3>1 DEF Busy, HoldingPCs, AgainPCs
      <3> QED  BY <1>8, <2>1, <3>1, <3>2
    <2> QED  BY <1>10, <1>11, <1>19, <2>1, <2>2 DEF Push
  <1>20. ASSUME NEW s \in Slots, Withdraw(s) \/ PopNothing(s) \/ Take(s) \/ Lose(s)
         PROVE  Counted(id)'
    <2>1. Finish(s) /\ UNCHANGED holder  BY <1>20 DEF Withdraw, PopNothing, Take, Answer, Lose
    <2> QED  BY <1>10, <2>1
  <1>21. ASSUME NEW s \in Slots, UseRow(s) \/ TakeRefused(s) \/ TakeFails(s), Finish(s)
         PROVE  Counted(id)'
    <2>1. UNCHANGED holder  BY <1>21 DEF UseRow, TakeRefused, TakeFails
    <2> QED  BY <1>10, <1>21, <2>1
  (* Nobody works on a code whose key is as old as that. *)
  <1>22. ASSUME NEW c \in Codes, Expire(c)
         PROVE  Counted(id)'
    <2>1. UNCHANGED <<req, spent>> /\ holder' = [holder EXCEPT ![c] = Nobody]
      BY <1>22 DEF Expire, Released
    <2>2. Working(id)' = Working(id)  BY <2>1 DEF Working, Busy
    <2>3. CASE id = c
      <3>1. Working(id) = {}  BY <1>22, <2>3 DEF Expire, Working, Busy
      <3>2. Cardinality(Working(id)') = 0  BY <2>2, <3>1, FS_EmptySet
      <3>3. Keys(id)' \in {0, 1}  BY DEF Keys
      <3> QED  BY <1>5, <3>2, <3>3 DEF Counted
    <2>4. CASE id # c
      <3>1. Keys(id)' = Keys(id)  BY <1>2, <2>1, <2>4 DEF Keys, RedisOK
      <3> QED  BY <1>4, <2>1, <2>2, <3>1 DEF Counted
    <2> QED  BY <2>3, <2>4
  <1>23. ~Restart /\ ~RedisLoss
    BY <1>1, <1>2 DEF Restart, RedisLoss, SpendFailure, Spend, SpentOK
  <1>24. CASE UNCHANGED vars
    BY <1>4, <1>24 DEF vars, Counted, Working, Busy, Keys
  <1> QED
    BY <1>9, <1>14, <1>15, <1>16, <1>18, <1>19, <1>20, <1>21, <1>22, <1>23, <1>24 DEF Next, Work

(* As long as Redis keeps its data, the requests that hold one code are at most one
   more than the Releases that were carried out twice, for any number of requests
   at the same time and of errors, lost answers and expired keys.            *)
THEOREM OneHolderHolds == Spec => []OneHolder
  <1>1. ASSUME Init
        PROVE  ClaimsInv
    <2>1. \A id : Working(id) = {}
      BY <1>1 DEF Init, Idle, Request, Working, Busy, HoldingPCs, AgainPCs
    <2>2. \A id : Cardinality(Working(id)) = 0  BY <2>1, FS_EmptySet
    <2>3. spent.resends = 0 /\ \A id : Keys(id) \in {0, 1}  BY <1>1 DEF Init, Keys
    <2> QED  BY <2>2, <2>3 DEF ClaimsInv, Counted
  <1>2. IInv /\ ClaimsInv /\ [Next]_vars => ClaimsInv'  BY ClaimsStep
  <1>3. ASSUME IInv, ClaimsInv
        PROVE  OneHolder
    <2>1. SUFFICES ASSUME spent.restarts = 0, NEW id \in Codes
                   PROVE  Cardinality(Holders(id)) <= 1 + spent.resends
      BY DEF OneHolder
    <2>2. Holders(id) \subseteq Working(id) /\ Working(id) \subseteq Slots
      BY DEF Holders, Working, Busy
    <2>3. IsFiniteSet(Working(id))  BY <2>2, SlotsAreFinite, FS_Subset
    <2>4. IsFiniteSet(Holders(id)) /\ Cardinality(Holders(id)) <= Cardinality(Working(id))
      BY <2>2, <2>3, FS_Subset
    <2>5. Cardinality(Holders(id)) \in Nat /\ Cardinality(Working(id)) \in Nat
      BY <2>3, <2>4, FS_CardinalityType
    <2>6. Cardinality(Working(id)) <= Keys(id) + spent.resends /\ spent.resends \in Nat
      BY <1>3, <2>1 DEF ClaimsInv, Counted, IInv, SpentOK
    <2>7. Keys(id) \in {0, 1}  BY DEF Keys
    <2> QED  BY <2>4, <2>5, <2>6, <2>7
  <1> QED  BY Invariance, <1>1, <1>2, <1>3, PTL DEF Spec

-----------------------------------------------------------------------------
(* A run without failures. What hides an entry from a request, a claim key, is
   then the key of a request that has the code in its hands, or of a code that is
   not available any more; and a code is let go of only when it is not.      *)
Held(s, id) == req[s].pc \in HoldingPCs /\ req[s].id = id

Clean == spent.faults + spent.lost + spent.restarts + spent.resends = 0

FailurePCs == {"withdraw", "requeue"} \union AgainPCs

InHands(s, id) == req[s].pc \in HoldingPCs \union {"push"} /\ req[s].id = id

Orderly ==
    /\ \A s \in Slots :
          /\ req[s].pc \notin FailurePCs
          /\ req[s].pc \in {"drop", "free"} => req[s].id \notin Available
    /\ \A id \in Available : holder[id] # Nobody => \E s \in Slots : Held(s, id)
    /\ \A id \in Available : id \in Contents(queue) \/ \E s \in Slots : InHands(s, id)

CleanInv == Clean => Orderly

LEMMA OrderlyBecome ==
    ASSUME RequestsOK, Orderly, NEW s \in Slots, NEW r, Become(s, r),
           Available' \subseteq Available,
           r.pc \notin FailurePCs,
           r.pc \in {"drop", "free"} => r.id \notin Available',
           \A id \in Available' : holder'[id] # Nobody =>
               \/ holder[id] # Nobody /\ ~Held(s, id)
               \/ r.pc \in HoldingPCs /\ r.id = id,
           \A id \in Available' :
               \/ id \in Contents(queue')
               \/ r.pc \in HoldingPCs \union {"push"} /\ r.id = id
               \/ \E t \in Slots : t # s /\ InHands(t, id)
    PROVE  Orderly'
  <1>1. req'[s] = r /\ \A t \in Slots : t # s => req'[t] = req[t]  BY OthersStay
  <1>2. \A t \in Slots : t # s =>
            (\A id : (Held(t, id)' <=> Held(t, id)) /\ (InHands(t, id)' <=> InHands(t, id)))
    BY <1>1 DEF Held, InHands
  <1>3. \A id : (r.pc \in HoldingPCs /\ r.id = id => Held(s, id)')
              /\ (r.pc \in HoldingPCs \union {"push"} /\ r.id = id => InHands(s, id)')
    BY <1>1 DEF Held, InHands
  <1>4. ASSUME NEW t \in Slots
        PROVE  /\ req'[t].pc \notin FailurePCs
               /\ req'[t].pc \in {"drop", "free"} => req'[t].id \notin Available'
    <2>1. CASE t = s  BY <1>1, <2>1
    <2>2. CASE t # s
      <3>1. req'[t] = req[t]  BY <1>1, <2>2
      <3>2. /\ req[t].pc \notin FailurePCs
            /\ req[t].pc \in {"drop", "free"} => req[t].id \notin Available
        BY DEF Orderly
      <3> QED  BY <3>1, <3>2
    <2> QED  BY <2>1, <2>2
  <1>5. ASSUME NEW id \in Available', holder'[id] # Nobody
        PROVE  \E t \in Slots : Held(t, id)'
    <2>1. CASE holder[id] # Nobody /\ ~Held(s, id)
      <3>1. id \in Available  OBVIOUS
      <3>2. PICK t \in Slots : Held(t, id)  BY <2>1, <3>1 DEF Orderly
      <3> QED  BY <1>2, <2>1, <3>2
    <2>2. CASE r.pc \in HoldingPCs /\ r.id = id  BY <1>3, <2>2
    <2> QED  BY <1>5, <2>1, <2>2
  <1>6. ASSUME NEW id \in Available'
        PROVE  id \in Contents(queue') \/ \E t \in Slots : InHands(t, id)'
    BY <1>2, <1>3
  <1> HIDE DEF Available
  <1> QED  BY <1>4, <1>5, <1>6 DEF Orderly

(* The steps that leave the list and the keys alone, or free a key. *)
LEMMA OrderlyFrees ==
    ASSUME RequestsOK, Orderly, NEW s \in Slots, NEW r, Become(s, r),
           Available' \subseteq Available, UNCHANGED queue,
           r.pc \notin FailurePCs,
           r.pc \in {"drop", "free"} => r.id \notin Available',
           \A id \in Available' : holder'[id] # Nobody => holder[id] # Nobody,
           \A id \in Available' : InHands(s, id) => r.pc \in HoldingPCs /\ r.id = id
    PROVE  Orderly'
  <1>1. \A id \in Available' : holder'[id] # Nobody =>
            \/ holder[id] # Nobody /\ ~Held(s, id)
            \/ r.pc \in HoldingPCs /\ r.id = id
    BY DEF Held, InHands
  <1>2. ASSUME NEW id \in Available'
        PROVE  \/ id \in Contents(queue')
               \/ r.pc \in HoldingPCs \union {"push"} /\ r.id = id
               \/ \E t \in Slots : t # s /\ InHands(t, id)
    <2>1. id \in Available  OBVIOUS
    <2>2. id \in Contents(queue) \/ \E t \in Slots : InHands(t, id)  BY <2>1 DEF Orderly
    <2> QED  BY <2>2 DEF Contents
  <1> QED  BY <1>1, <1>2, OrderlyBecome

(* Once the row is there and before its entry is, the request has the code. *)
LEMMA OrderlyPublish ==
    ASSUME IInv, Orderly, NEW s \in Slots, NEW u \in Users, Publish(s, u)
    PROVE  Orderly'
  <1>1. RequestsOK /\ RedisOK /\ LedgerInv  BY DEF IInv
  <1>2. PICK id \in Codes :
          /\ status[id] = "none"
          /\ status' = [status EXCEPT ![id] = "available"]
          /\ Become(s, Request("push", u, id, 0))
    BY DEF Publish
  <1>3. At(s, "idle") /\ UNCHANGED <<queue, holder>>  BY DEF Publish, Receive
  <1>4. Available' = Available \union {id}  BY <1>1, <1>2 DEF Available, LedgerInv
  <1>5. id \notin Existing /\ holder[id] = Nobody  BY <1>1, <1>2 DEF Existing, RedisOK
  <1>6. \A t \in Slots : req[t].pc \in {"drop", "free"} => req[t].id # id
    BY <1>1, <1>5 DEF RequestsOK, RequestOK, NoCodePCs
  <1> DEFINE r == Request("push", u, id, 0)
  <1>7. r.pc = "push" /\ r.id = id  BY DEF Request
  <1> HIDE DEF r
  <1>8. req'[s] = r /\ \A t \in Slots : t # s => req'[t] = req[t]  BY <1>1, <1>2, OthersStay DEF r
  <1>9. InHands(s, id)'  BY <1>7, <1>8 DEF InHands
  <1>10. \A t \in Slots : t # s =>
            (\A c : (Held(t, c)' <=> Held(t, c)) /\ (InHands(t, c)' <=> InHands(t, c)))
    BY <1>8 DEF Held, InHands
  <1>11. \A c : ~Held(s, c) /\ ~InHands(s, c)  BY <1>3 DEF At, Held, InHands, HoldingPCs
  <1>12. ASSUME NEW t \in Slots
         PROVE  /\ req'[t].pc \notin FailurePCs
                /\ req'[t].pc \in {"drop", "free"} => req'[t].id \notin Available'
    <2>1. CASE t = s  BY <1>7, <1>8, <2>1 DEF FailurePCs, AgainPCs
    <2>2. CASE t # s
      <3>1. req'[t] = req[t]  BY <1>8, <2>2
      <3> QED  BY <1>4, <1>6, <3>1 DEF Orderly
    <2> QED  BY <2>1, <2>2
  <1>13. ASSUME NEW c \in Available', holder'[c] # Nobody
         PROVE  \E t \in Slots : Held(t, c)'
    <2>1. c \in Available  BY <1>3, <1>4, <1>5, <1>13
    <2>2. PICK t \in Slots : Held(t, c)  BY <1>3, <1>13, <2>1 DEF Orderly
    <2> QED  BY <1>10, <1>11, <2>2
  <1>14. ASSUME NEW c \in Available'
         PROVE  c \in Contents(queue') \/ \E t \in Slots : InHands(t, c)'
    <2>1. CASE c = id  BY <1>9, <2>1
    <2>2. CASE c # id
      <3>1. c \in Available  BY <1>4, <2>2
      <3>2. c \in Contents(queue) \/ \E t \in Slots : InHands(t, c)  BY <3>1 DEF Orderly
      <3> QED  BY <1>3, <1>10, <1>11, <3>2
    <2> QED  BY <2>1, <2>2
  <1> HIDE DEF Available
  <1> QED  BY <1>12, <1>13, <1>14 DEF Orderly

(* What the script takes out of the list without putting it back has a claim key
   that is not the caller's doing, and one entry is the caller's from now on.  *)
LEMMA OrderlyPop ==
    ASSUME IInv, Orderly, NEW s \in Slots, PopEntry(s), UNCHANGED spent
    PROVE  Orderly'
  <1>1. RequestsOK /\ RedisOK /\ SpentOK  BY DEF IInv
  <1> DEFINE u == req[s].uid
  <1>2. ~Fault  BY <1>1 DEF Fault, SpendFailure, Spend, SpentOK
  <1>3. PICK i \in DOMAIN queue :
          /\ Eligible(queue[i], u)
          /\ \A j \in 1 .. i - 1 : ~Eligible(queue[j], u)
          /\ queue' = PutBack(SubSeq(queue, 1, i - 1), u) \o SubSeq(queue, i + 1, Len(queue))
          /\ holder' = [holder EXCEPT ![queue[i]] = u]
          /\ Become(s, Request("take", u, queue[i], req[s].tries + 1))
    BY <1>2 DEF PopEntry
  <1> DEFINE r == Request("take", u, queue[i], req[s].tries + 1)
             D == OwnAt(SubSeq(queue, 1, i - 1), u)
  <1>4. r.pc = "take" /\ r.id = queue[i]  BY DEF Request
  <1>5. queue \in Seq(Existing) /\ i \in 1 .. Len(queue)  BY <1>1 DEF RedisOK
  <1>6. D \in SUBSET (1 .. i - 1) /\ \A j \in 1 .. i - 1 : owner[queue[j]] = u => j \in D
    BY <1>5 DEF OwnAt
  <1>7. \A j \in DOMAIN queue : j \in D \/ j > i => queue[j] \in Contents(queue')
    BY <1>3, <1>5, <1>6, PopIs DEF PutBack
  <1>8. \A c : ~Held(s, c) /\ ~InHands(s, c)  BY DEF PopEntry, At, Held, InHands, HoldingPCs
  <1>9. Available' = Available  BY DEF PopEntry, rows, Available
  <1> HIDE DEF r, u, D, Available
  <1>10. \A c \in Available' : holder'[c] # Nobody =>
            \/ holder[c] # Nobody /\ ~Held(s, c)
            \/ r.pc \in HoldingPCs /\ r.id = c
    <2>1. \A c \in Available : c \in Codes  BY DEF Available
    <2> QED  BY <1>1, <1>3, <1>4, <1>8, <1>9, <2>1 DEF HoldingPCs, RedisOK
  <1>11. ASSUME NEW c \in Available'
         PROVE  \/ c \in Contents(queue')
                \/ r.pc \in HoldingPCs \union {"push"} /\ r.id = c
                \/ \E t \in Slots : t # s /\ InHands(t, c)
    <2>1. CASE \E t \in Slots : InHands(t, c)  BY <1>8, <2>1
    <2>2. CASE c \in Contents(queue)
      <3>1. PICK j \in DOMAIN queue : queue[j] = c  BY <2>2 DEF Contents
      <3>2. j \in 1 .. i - 1 \/ j = i \/ j > i  BY <1>5
      <3>3. CASE j = i  BY <1>4, <3>1, <3>3 DEF HoldingPCs
      <3>4. CASE j > i \/ j \in D  BY <1>7, <3>1, <3>4
      <3>5. CASE j \in 1 .. i - 1 /\ j \notin D
        <4>1. holder[c] # Nobody  BY <1>3, <1>6, <3>1, <3>5 DEF Eligible
        <4>2. PICK t \in Slots : Held(t, c)  BY <1>9, <4>1 DEF Orderly
        <4> QED  BY <1>8, <4>2 DEF Held, InHands
      <3> QED  BY <3>2, <3>3, <3>4, <3>5
    <2> QED  BY <1>9, <2>1, <2>2 DEF Orderly
  <1>12. r.pc \notin FailurePCs /\ r.pc \notin {"drop", "free"}  BY <1>4 DEF FailurePCs, AgainPCs
  <1>13. Become(s, r)  BY <1>3 DEF r
  <1> QED  BY <1>1, <1>9, <1>10, <1>11, <1>12, <1>13, OrderlyBecome

LEMMA OrderlyPopNothing ==
    ASSUME IInv, Orderly, NEW s \in Slots, PopNothing(s)
    PROVE  Orderly'
  <1>1. RequestsOK /\ RedisOK  BY DEF IInv
  <1> DEFINE u == req[s].uid
  <1>2. Become(s, Idle) /\ Idle.pc = "idle"  BY DEF PopNothing, Finish, Idle, Request
  <1>3. Available' = Available /\ UNCHANGED holder  BY DEF PopNothing, rows, Available
  <1>4. \A c : ~Held(s, c) /\ ~InHands(s, c)  BY DEF PopNothing, At, Held, InHands, HoldingPCs
  <1> HIDE DEF Available
  <1>5. ASSUME NEW c \in Available'
        PROVE  c \in Contents(queue') \/ \E t \in Slots : t # s /\ InHands(t, c)
    <2>1. CASE \E t \in Slots : InHands(t, c)  BY <1>4, <2>1
    <2>2. CASE UNCHANGED queue  BY <1>3, <1>4, <2>2 DEF Orderly
    <2>3. CASE c \in Contents(queue) /\ queue' # queue
      <3>1. /\ \A i \in DOMAIN queue : ~Eligible(queue[i], u)
            /\ queue' = Kept(queue, OwnAt(queue, u))
        BY <2>3 DEF PopNothing, PutBack
      <3>2. OwnAt(queue, u) \in SUBSET DOMAIN queue  BY DEF OwnAt
      <3>3. Contents(queue') = {queue[i] : i \in OwnAt(queue, u)}
        BY <1>1, <3>1, <3>2, KeptIs DEF RedisOK
      <3>4. PICK j \in DOMAIN queue : queue[j] = c  BY <2>3 DEF Contents
      <3>5. CASE owner[c] = u  BY <3>3, <3>4, <3>5 DEF OwnAt
      <3>6. CASE owner[c] # u
        <4>1. holder[c] # Nobody  BY <3>1, <3>4, <3>6 DEF Eligible
        <4>2. PICK t \in Slots : Held(t, c)  BY <1>3, <4>1 DEF Orderly
        <4> QED  BY <1>4, <4>2 DEF Held, InHands
      <3> QED  BY <3>5, <3>6
    <2> QED  BY <1>3, <2>1, <2>2, <2>3 DEF Orderly
  <1> QED  BY <1>1, <1>2, <1>3, <1>4, <1>5, OrderlyBecome DEF FailurePCs, AgainPCs

LEMMA OrderlyStep ==
    ASSUME IInv, Orderly, NEW s \in Slots, Call(s) \/ Work(s), Clean, Clean'
    PROVE  Orderly'
  <1>1. RequestsOK /\ RedisOK /\ SpentOK /\ LedgerInv  BY DEF IInv
  <1>2. ~Fault /\ ~Resend  BY <1>1 DEF Fault, Resend, SpendFailure, Spend, SpentOK, Clean
  <1>3. \A label \in FailurePCs : ~At(s, label)  BY DEF At, Orderly
  <1>4. ASSUME NEW label, NEW u, NEW id, NEW n, Become(s, Request(label, u, id, n)),
               label \in {"receive", "claim"}, At(s, "idle"), UNCHANGED <<status, queue, holder>>
        PROVE  Orderly'
    <2>1. Request(label, u, id, n).pc = label  BY DEF Request
    <2>2. Available' = Available  BY <1>4 DEF Available
    <2>3. \A c : ~InHands(s, c)  BY <1>4 DEF At, InHands, HoldingPCs
    <2> HIDE DEF Available
    <2> QED  BY <1>1, <1>4, <2>1, <2>2, <2>3, OrderlyFrees DEF FailurePCs, AgainPCs
  <1>5. CASE Call(s)
    BY <1>4, <1>5, OrderlyPublish DEF Call, ReceiveCall, UseCall, Receive, rows
  <1>6. CASE Push(s)
    <2>1. queue' = Append(queue, req[s].id) /\ Finish(s)  BY <1>2, <1>6 DEF Push
    <2>2. Available' = Available /\ UNCHANGED holder  BY <1>6 DEF Push, rows, Available
    <2>3. Contents(queue') = Contents(queue) \union {req[s].id}
      BY <1>1, <2>1 DEF RedisOK, Contents
    <2>4. Idle.pc = "idle"  BY DEF Idle, Request
    <2>5. \A c : ~Held(s, c) /\ (InHands(s, c) => c = req[s].id)
      BY <1>6 DEF Push, At, Held, InHands, HoldingPCs
    <2> HIDE DEF Available
    <2>6. \A c \in Available' : c \in Contents(queue') \/ \E t \in Slots : t # s /\ InHands(t, c)
      BY <2>2, <2>3, <2>5 DEF Orderly
    <2> QED  BY <1>1, <2>1, <2>2, <2>4, <2>5, <2>6, OrderlyBecome DEF Finish, FailurePCs, AgainPCs
  <1>7. CASE PopEntry(s)  BY <1>2, <1>7, OrderlyPop DEF PopEntry
  <1>8. CASE PopNothing(s)  BY <1>8, OrderlyPopNothing
  <1>9. CASE Take(s) \/ (UseRow(s) /\ Finish(s))
    <2>1. Use(req[s].id, req[s].uid) /\ Finish(s) /\ UNCHANGED <<queue, holder>>
      <3>1. Take(s) \/ Answer(s) \/ GoTo(s, "free")  BY <1>2, <1>9 DEF UseRow
      <3>2. Finish(s) => ~GoTo(s, "free")
        <4>1. ASSUME GoTo(s, "free") PROVE req'[s].pc = "free"
          BY <1>1, <4>1, GoToHas, OthersStay DEF PCs
        <4>2. ASSUME Finish(s) PROVE req'[s].pc = "idle"
          BY <1>1, <4>2, OthersStay DEF Finish, Idle, Request
        <4> QED  BY <4>1, <4>2
      <3> QED  BY <1>2, <1>9, <3>2 DEF Take, UseRow, Answer
    <2>2. Available' = Available \ {req[s].id}  BY <1>1, <2>1 DEF Use, Available, LedgerInv
    <2>3. Idle.pc = "idle"  BY DEF Idle, Request
    <2>4. \A c : InHands(s, c) => c = req[s].id  BY DEF InHands
    <2> HIDE DEF Available
    <2> QED  BY <1>1, <2>1, <2>2, <2>3, <2>4, OrderlyFrees DEF Finish, FailurePCs, AgainPCs
  <1>10. CASE TakeRefused(s) \/ (UseRow(s) /\ ~Finish(s))
    <2>1. PICK label \in {"drop", "free"} : GoTo(s, label)
      BY <1>2, <1>10 DEF TakeRefused, UseRow, Answer
    <2>2. req[s].id \notin Available /\ UNCHANGED <<status, queue, holder>>
      BY <1>2, <1>10 DEF TakeRefused, UseRow, Answer, rows
    <2>3. PICK r : Become(s, r) /\ r.pc = label /\ r.id = req[s].id
      BY <1>1, <2>1, GoToHas DEF PCs
    <2>4. Available' = Available  BY <2>2 DEF Available
    <2>5. \A c : InHands(s, c) => c = req[s].id  BY DEF InHands
    <2> HIDE DEF Available
    <2> QED  BY <1>1, <2>1, <2>2, <2>3, <2>4, <2>5, OrderlyFrees DEF FailurePCs, AgainPCs
  <1>11. CASE Drop(s) \/ Free(s)
    <2>1. PICK r : Become(s, r) /\ r.pc \in {"receive", "idle"}
      <3>1. CASE GoTo(s, "receive")  BY <1>1, <3>1, GoToHas DEF PCs
      <3>2. CASE Finish(s)  BY <3>2 DEF Finish, Idle, Request
      <3> QED  BY <1>2, <1>11, <3>1, <3>2 DEF Drop, Free, Release
    <2>2. Available' = Available /\ UNCHANGED queue  BY <1>11 DEF Drop, Free, Release, rows, Available
    <2>3. req[s].id \notin Available  BY <1>3, <1>11 DEF Drop, Free, Release, At, Orderly, FailurePCs, AgainPCs
    <2>4. \A c \in Codes : holder'[c] # Nobody => holder[c] # Nobody
      BY <1>1, <1>2, <1>11 DEF Drop, Free, Release, Released, RedisOK
    <2>5. \A c \in Available : c \in Codes /\ ~InHands(s, c)  BY <2>3 DEF Available, InHands
    <2> HIDE DEF Available
    <2> QED  BY <1>1, <2>1, <2>2, <2>4, <2>5, OrderlyFrees DEF FailurePCs, AgainPCs
  <1>12. CASE Claim(s)
    <2>1. Available' = Available /\ UNCHANGED queue  BY <1>12 DEF Claim, rows, Available
    <2>2. \A c : ~Held(s, c) /\ ~InHands(s, c)  BY <1>12 DEF Claim, At, Held, InHands, HoldingPCs
    <2>3. \A c \in Available : c \in Codes  BY DEF Available
    <2> HIDE DEF Available
    <2>4. CASE Finish(s) /\ UNCHANGED holder
      <3>1. Idle.pc = "idle"  BY DEF Idle, Request
      <3> QED  BY <1>1, <2>1, <2>2, <2>4, <3>1, OrderlyFrees DEF Finish, FailurePCs, AgainPCs
    <2>5. CASE GoTo(s, "use") /\ holder' = [holder EXCEPT ![req[s].id] = req[s].uid]
      <3>1. PICK r : Become(s, r) /\ r.pc = "use" /\ r.id = req[s].id
        BY <1>1, <2>5, GoToHas DEF PCs
      <3>2. \A c \in Available' : holder'[c] # Nobody =>
              \/ holder[c] # Nobody /\ ~Held(s, c)
              \/ r.pc \in HoldingPCs /\ r.id = c
        BY <1>1, <2>1, <2>2, <2>3, <2>5, <3>1 DEF RedisOK, HoldingPCs
      <3>3. \A c \in Available' : c \in Contents(queue') \/ \E t \in Slots : t # s /\ InHands(t, c)
        BY <2>1, <2>2 DEF Orderly
      <3> QED  BY <1>1, <2>1, <3>1, <3>2, <3>3, OrderlyBecome DEF FailurePCs, AgainPCs
    <2> QED  BY <1>2, <1>12, <2>4, <2>5 DEF Claim
  <1>13. ~Withdraw(s) /\ ~Requeue(s) /\ ~TakeFails(s)
    BY <1>2, <1>3 DEF Withdraw, Requeue, Release, TakeFails, FailurePCs, AgainPCs
  <1> QED
    BY <1>5, <1>6, <1>7, <1>8, <1>9, <1>10, <1>11, <1>12, <1>13 DEF Work

LEMMA CleanStep ==
    ASSUME IInv, CleanInv, [Next]_vars
    PROVE  CleanInv'
  <1>1. SUFFICES ASSUME Clean'
                 PROVE  Orderly'
    BY DEF CleanInv
  <1>2. Clean
    <2>1. SpentOK /\ SpentOK'  BY SpentStep DEF IInv
    <2> QED  BY <1>1, <2>1, SpentStep DEF Clean, SpentOK
  <1>3. Orderly  BY <1>2 DEF CleanInv
  <1>4. ASSUME NEW s \in Slots, Call(s) \/ Work(s)
        PROVE  Orderly'
    BY <1>1, <1>2, <1>3, <1>4, OrderlyStep
  <1>5. \A s \in Slots : ~Lose(s)
    BY <1>1, <1>2 DEF Lose, SpendFailure, Spend, IInv, SpentOK, Clean
  <1>6. ~Restart /\ ~RedisLoss
    BY <1>1, <1>2 DEF Restart, RedisLoss, SpendFailure, Spend, IInv, SpentOK, Clean
  <1>7. ASSUME NEW id \in Codes, Expire(id)
        PROVE  Orderly'
    <2>1. UNCHANGED <<status, queue, req>> /\ holder' = [holder EXCEPT ![id] = Nobody]
      BY <1>7 DEF Expire, Released, rows
    <2>2. \A c \in Codes : holder'[c] # Nobody => holder[c] # Nobody
      BY <2>1 DEF IInv, RedisOK
    <2>3. Available' = Available /\ \A c \in Available : c \in Codes  BY <2>1 DEF Available
    <2> HIDE DEF Available
    <2> QED  BY <1>3, <2>1, <2>2, <2>3 DEF Orderly, Held, InHands
  <1>8. CASE UNCHANGED vars
    <2>1. UNCHANGED <<status, queue, holder, req>>  BY <1>8 DEF vars, rows
    <2>2. Available' = Available  BY <2>1 DEF Available
    <2> HIDE DEF Available
    <2> QED  BY <1>3, <2>1, <2>2 DEF Orderly, Held, InHands
  <1> QED  BY <1>4, <1>5, <1>6, <1>7, <1>8 DEF Next

(* In a run without failures an available code is in the list or in the hands of
   a request, for any race of receiving and using: no entry disappears.      *)
THEOREM AvailableAlwaysListed == Spec => []AvailableIsListed
  <1>1. ASSUME Init
        PROVE  CleanInv
    <2>1. Available = {} /\ \A s \in Slots : req[s].pc = "idle"
      BY <1>1 DEF Init, Available, Idle, Request
    <2> HIDE DEF Available
    <2> QED  BY <2>1 DEF CleanInv, Orderly, FailurePCs, AgainPCs
  <1>2. IInv /\ CleanInv /\ [Next]_vars => CleanInv'  BY CleanStep
  <1>3. CleanInv => AvailableIsListed
    BY DEF CleanInv, Clean, Orderly, AvailableIsListed, Contents, InHands
  <1> QED  BY Invariance, <1>1, <1>2, <1>3, PTL DEF Spec
=============================================================================
