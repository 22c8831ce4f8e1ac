------------------------ MODULE VisitorSessionProofs ------------------------
(* The theorems on VisitorSession, for any number of pages, calls and faults: the visitor
   who came by an invitation stays the user that was invited, and is one user.      *)
EXTENDS VisitorSession, TLAPS

-----------------------------------------------------------------------------
(* The inductive invariant. A uid, and a call of the browser: *)
Uids  == Nat \union {None}
BrowserCalls == [at : {"idle", "waiting", "sent", "served", "answered"}, uid : Uids, good : BOOLEAN]

Typed ==
    /\ stored \in Uids /\ issued \in Nat /\ kept \in Uids
    /\ page \in [gate : BOOLEAN, loaded : BOOLEAN]
    /\ call \in [Kinds -> BrowserCalls]

(* whom the server has answered has a uid, and whom it has invited is a user; *)
Known ==
    /\ \A c \in Kinds : call[c].at \in {"served", "answered"} => call[c].uid # None
    /\ invited \subseteq users
    /\ kept # None => kept \in users

(* nothing that waits for the referral is under way beside it; *)
Gate ==
    /\ UnderWay("referral") => page.gate
    /\ page.gate => \A c \in Gated : ~UnderWay(c)

(* and once the referral is answered, the browser and its calls are all of one user,
   unless a call outside the gate was crossed.                                     *)
AllAs(u) == stored = u /\ \A c \in Kinds : UnderWay(c) => call[c].uid = u

OneUid ==
    ~crossed => /\ At("referral", "answered") => AllAs(call["referral"].uid)
                /\ kept # None => AllAs(kept)

IInv == Typed /\ Known /\ Gate /\ OneUid

USE DEF At, UnderWay, Become, Kinds, Gated, Ungated

LEMMA InitHolds == Init => IInv
  BY DEF Init, IInv, Typed, Known, Gate, OneUid, AllAs,
         Uids, BrowserCalls, Idle, Fresh

LEMMA VisitKeeps ==
    ASSUME IInv, NEW landing \in BOOLEAN, Visit(landing)
    PROVE  IInv'
  <1>1. \A c \in Kinds :
           call'[c] = IF c = "referral" /\ landing THEN Request ELSE Idle
    BY DEF Visit
  <1>2. /\ UNCHANGED <<stored, issued, users, invited, kept, crossed>>
        /\ page' = [gate |-> landing, loaded |-> FALSE]
    BY DEF Visit, Fresh
  <1>3. /\ Request \in BrowserCalls /\ Idle \in BrowserCalls
        /\ Request.at = "sent" /\ Request.uid = stored /\ Idle.at = "idle"
    BY DEF IInv, Typed, Request, Idle, BrowserCalls, Uids
  <1>4. Typed'
    BY <1>1, <1>2, <1>3 DEF IInv, Typed, Visit
  <1>5. Known' /\ Gate'  BY <1>1, <1>2, <1>3 DEF IInv, Known, Gate
  <1>6. OneUid'  BY <1>1, <1>2, <1>3 DEF IInv, OneUid, AllAs
  <1> QED  BY <1>4, <1>5, <1>6 DEF IInv

(* A call outside the referral begins or ends, without a word of the server. *)
LEMMA CallChanges ==
    ASSUME IInv, NEW c \in Kinds \ {"referral"}, NEW r \in BrowserCalls,
           call' = [call EXCEPT ![c] = r],
           \/ r.at \in {"idle", "waiting"}
           \/ r.at = "sent" /\ r.uid = stored /\ (page.gate => c \in Ungated),
           UNCHANGED <<stored, issued, users, invited, kept, crossed>>,
           page' \in [gate : BOOLEAN, loaded : BOOLEAN], page'.gate = page.gate
    PROVE  IInv'
  <1>1. call'[c] = r /\ \A d \in Kinds \ {c} : call'[d] = call[d]
    BY DEF IInv, Typed
  <1>2. Typed'  BY DEF IInv, Typed
  <1>3. Known'  BY <1>1 DEF IInv, Known
  <1>4. Gate'  BY <1>1 DEF IInv, Gate
  <1>5. OneUid'  BY <1>1 DEF IInv, OneUid, AllAs
  <1> QED  BY <1>2, <1>3, <1>4, <1>5 DEF IInv

LEMMA PageKeeps ==
    ASSUME IInv,
           \/ LoadUser \/ LoadGoesOn \/ Subscribe \/ SubscribeGoesOn
           \/ \E c \in Ungated : Ask(c)
    PROVE  IInv'
  <1> DEFINE starts == {Waiting, Request, Idle}
  <1>1. /\ starts \subseteq BrowserCalls
        /\ Waiting.at = "waiting" /\ Idle.at = "idle"
        /\ Request.at = "sent" /\ Request.uid = stored
    <2>1. stored \in Uids /\ None \in Uids  BY DEF IInv, Typed, Uids
    <2>2. Idle \in BrowserCalls /\ Idle.at = "idle"
      BY <2>1 DEF Idle, BrowserCalls
    <2>3. Waiting \in BrowserCalls /\ Waiting.at = "waiting"
      BY <2>1 DEF Waiting, Idle, BrowserCalls
    <2>4. /\ Request \in BrowserCalls
          /\ Request.at = "sent" /\ Request.uid = stored
      BY <2>1 DEF Request, Idle, BrowserCalls
    <2> QED  BY <2>2, <2>3, <2>4
  <1>2. UNCHANGED <<stored, page, issued, users, invited, kept, crossed>>
    BY DEF LoadUser, LoadGoesOn, Subscribe, SubscribeGoesOn, Ask
  <1>3. PICK c \in Kinds \ {"referral"}, r \in starts :
           /\ call' = [call EXCEPT ![c] = r]
           /\ r.at \in {"idle", "waiting"} \/ ~page.gate \/ c \in Ungated
    BY <1>1 DEF LoadUser, LoadGoesOn, Subscribe, SubscribeGoesOn,
                Ask, WaitOver
  <1>4. page' \in [gate : BOOLEAN, loaded : BOOLEAN] /\ page'.gate = page.gate
    BY <1>2 DEF IInv, Typed
  <1>5. r \in BrowserCalls
        /\ \/ r.at \in {"idle", "waiting"}
           \/ r.at = "sent" /\ r.uid = stored /\ (page.gate => c \in Ungated)
    BY <1>1, <1>3
  <1> QED  BY <1>2, <1>3, <1>4, <1>5, CallChanges

(* The server answers a call in the name of its uid, or of a new one. *)
LEMMA ServeFacts ==
    ASSUME IInv, NEW c \in Kinds, Serve(c)
    PROVE  /\ call[c].at = "sent" /\ Identity(c) \in Nat
           /\ \E good \in BOOLEAN : call' = [call EXCEPT ![c] =
                   [call[c] EXCEPT !.at = "served", !.uid = Identity(c), !.good = good]]
           /\ issued' \in Nat
           /\ users' = users \union {Identity(c)} \/ users' = users
           /\ \/ invited' = invited
              \/ invited' = invited \union {Identity(c)} /\ Identity(c) \in users'
           /\ UNCHANGED <<stored, page, kept, crossed>>
  <1>1. call[c].at = "sent" /\ UNCHANGED <<stored, page, kept, crossed>>  BY DEF Serve
  <1>2. call[c] \in BrowserCalls /\ issued \in Nat  BY DEF IInv, Typed
  <1>3. Identity(c) \in Nat  BY <1>2 DEF Identity, BrowserCalls, Uids
  <1>4. \E good \in BOOLEAN : Answer(c, good)
    BY DEF Serve, ServeReferral, UserInfo, BindPhone, CreatesNobody
  <1>5. /\ issued' \in Nat
        /\ \E good \in BOOLEAN : call' = [call EXCEPT ![c] =
                   [call[c] EXCEPT !.at = "served", !.uid = Identity(c), !.good = good]]
    <2>1. PICK good \in BOOLEAN : Answer(c, good)  BY <1>4
    <2>2. call' = [call EXCEPT ![c] =
              [call[c] EXCEPT !.at = "served", !.uid = Identity(c), !.good = good]]
      BY <2>1 DEF Answer
    <2>3. issued' = IF call[c].uid = None THEN issued + 1 ELSE issued
      BY <2>1 DEF Answer
    <2>4. issued' \in Nat  BY <1>2, <2>3
    <2> QED  BY <2>2, <2>4, Zenon
  <1>6. /\ users' = users \union {Identity(c)} \/ users' = users
        /\ \/ invited' = invited
           \/ invited' = invited \union {Identity(c)} /\ Identity(c) \in users'
    BY DEF Serve, ServeReferral, UserInfo, BindPhone,
           CreatesNobody, EnsureUser
  <1> QED  BY <1>1, <1>3, <1>5, <1>6

LEMMA ServeKeeps ==
    ASSUME IInv, NEW c \in Kinds, Serve(c)
    PROVE  IInv' /\ (kept # None /\ ~crossed => users' = users)
  <1> DEFINE u == Identity(c)
  <1>1. PICK r \in BrowserCalls :
           /\ call[c].at = "sent" /\ u \in Nat
           /\ call' = [call EXCEPT ![c] = r] /\ r.at = "served" /\ r.uid = u
           /\ u = call[c].uid \/ call[c].uid = None
    <2>1. PICK good \in BOOLEAN : call' = [call EXCEPT ![c] =
             [call[c] EXCEPT !.at = "served", !.uid = Identity(c), !.good = good]]
      BY ServeFacts
    <2>2. call[c] \in BrowserCalls  BY DEF IInv, Typed
    <2>3. call[c].at = "sent" /\ u \in Nat  BY ServeFacts
    <2>4. u = call[c].uid \/ call[c].uid = None  BY DEF Identity
    <2> DEFINE r == [call[c] EXCEPT !.at = "served", !.uid = u, !.good = good]
    <2>5. r \in BrowserCalls /\ r.at = "served" /\ r.uid = u
      BY <2>2, <2>3 DEF BrowserCalls, Uids
    <2> HIDE DEF u
    <2> QED  BY <2>1, <2>3, <2>4, <2>5 DEF u
  <1>2. /\ users' = users \union {u} \/ users' = users
        /\ \/ invited' = invited
           \/ invited' = invited \union {u} /\ u \in users'
        /\ issued' \in Nat /\ UNCHANGED <<stored, page, kept, crossed>>
    BY ServeFacts
  <1> HIDE DEF u
  <1>3. call'[c] = r /\ \A d \in Kinds \ {c} : call'[d] = call[d]
    BY <1>1 DEF IInv, Typed
  <1>4. Typed'  BY <1>1, <1>2 DEF IInv, Typed
  <1>5. Known'  BY NoneIsNoUid, <1>1, <1>2, <1>3 DEF IInv, Known
  <1>6. Gate'  BY <1>1, <1>2, <1>3 DEF IInv, Gate
  <1>7. OneUid'
    <2>1. ASSUME NEW v, v # None, AllAs(v)  PROVE AllAs(v)' /\ u = v
      BY <2>1, <1>1, <1>2, <1>3 DEF AllAs
    <2>2. call["referral"].at = "answered" => call["referral"].uid # None /\ call'["referral"] = call["referral"]
      BY <1>1, <1>3 DEF IInv, Known
    <2>3. call'["referral"].at = "answered" => call["referral"].at = "answered"
      BY <1>1, <1>3
    <2> QED  BY <1>2, <2>1, <2>2, <2>3 DEF IInv, OneUid
  <1>8. ASSUME kept # None, ~crossed  PROVE users' = users
    <2>1. AllAs(kept)  BY <1>8 DEF IInv, OneUid
    <2>2. u = kept  BY <1>1, <1>8, <2>1 DEF AllAs
    <2>3. kept \in users  BY <1>8 DEF IInv, Known
    <2> QED  BY <1>2, <2>2, <2>3
  <1> QED  BY <1>4, <1>5, <1>6, <1>7, <1>8 DEF IInv

(* A call ends, and the page knows. *)
LEMMA SettledFacts ==
    ASSUME IInv, NEW c \in Kinds, NEW good \in BOOLEAN, Settled(c, good)
    PROVE  /\ call' = [call EXCEPT ![c] = Idle]
           /\ Idle \in BrowserCalls /\ Idle.at = "idle"
           /\ page' \in [gate : BOOLEAN, loaded : BOOLEAN]
           /\ page'.gate = (page.gate /\ c # "referral")
  <1>1. page \in [gate : BOOLEAN, loaded : BOOLEAN]  BY DEF IInv, Typed
  <1>2. page' = [page EXCEPT !.gate = GateAfter(c, good),
                                   !.loaded = @ \/ (good /\ c \in {"referral", "info", "bind"})]
    BY DEF Settled
  <1>3. GateAfter(c, good) = (page.gate /\ c # "referral")  BY DEF GateAfter
  <1>4. page' \in [gate : BOOLEAN, loaded : BOOLEAN] /\ page'.gate = (page.gate /\ c # "referral")
    BY <1>1, <1>2, <1>3
  <1> QED  BY <1>4 DEF Settled, Idle, BrowserCalls, Uids

LEMMA AnsweredKeeps ==
    ASSUME IInv, NEW c \in Kinds, Answered(c)
    PROVE  IInv'
  <1>1. /\ c # "referral" /\ call[c].at = "served" /\ stored' = call[c].uid
        /\ UNCHANGED <<issued, users, invited, kept, crossed>>
    BY DEF Answered
  <1>2. /\ call' = [call EXCEPT ![c] = Idle]
        /\ Idle \in BrowserCalls /\ Idle.at = "idle"
        /\ page' \in [gate : BOOLEAN, loaded : BOOLEAN]
        /\ page'.gate = page.gate
    <2>1. call[c].good \in BOOLEAN  BY DEF IInv, Typed, BrowserCalls
    <2>2. page.gate \in BOOLEAN  BY DEF IInv, Typed
    <2>3. Settled(c, call[c].good)  BY DEF Answered
    <2> HIDE DEF IInv
    <2> QED  BY <1>1, <2>1, <2>2, <2>3, SettledFacts
  <1>3. call'[c] = Idle /\ \A d \in Kinds \ {c} : call'[d] = call[d]
    BY <1>2 DEF IInv, Typed
  <1>4. Typed'  BY <1>1, <1>2 DEF IInv, Typed, BrowserCalls
  <1>5. Known'  BY <1>1, <1>2, <1>3 DEF IInv, Known
  <1>6. Gate'  BY <1>1, <1>2, <1>3 DEF IInv, Gate
  <1>7. OneUid'
    <2>1. ASSUME NEW v, AllAs(v)  PROVE AllAs(v)'
      BY <2>1, <1>1, <1>2, <1>3 DEF AllAs
    <2>2. call'["referral"] = call["referral"]  BY <1>1, <1>3
    <2> QED  BY <1>1, <2>1, <2>2 DEF IInv, OneUid
  <1> QED  BY <1>4, <1>5, <1>6, <1>7 DEF IInv

LEMMA LoseKeeps ==
    ASSUME IInv, NEW c \in Kinds, Lose(c)
    PROVE  IInv'
  <1>1. UNCHANGED <<stored, issued, users, invited, kept, crossed>>  BY DEF Lose
  <1>2. /\ call' = [call EXCEPT ![c] = Idle]
        /\ Idle \in BrowserCalls /\ Idle.at = "idle"
        /\ page' \in [gate : BOOLEAN, loaded : BOOLEAN]
        /\ page'.gate = (page.gate /\ c # "referral")
    BY SettledFacts DEF Lose
  <1>3. call'[c] = Idle /\ \A d \in Kinds \ {c} : call'[d] = call[d]
    BY <1>2 DEF IInv, Typed
  <1>4. Typed'  BY <1>1, <1>2 DEF IInv, Typed
  <1>5. Known'  BY <1>1, <1>2, <1>3 DEF IInv, Known
  <1>6. Gate'  BY <1>1, <1>2, <1>3 DEF IInv, Gate
  <1>7. OneUid'
    <2>1. ASSUME NEW v, AllAs(v)  PROVE AllAs(v)'
      BY <2>1, <1>1, <1>2, <1>3 DEF AllAs
    <2>2. call'["referral"].at = "answered" => call'["referral"] = call["referral"]
      BY <1>2, <1>3
    <2> QED  BY <1>1, <2>1, <2>2 DEF IInv, OneUid
  <1> QED  BY <1>4, <1>5, <1>6, <1>7 DEF IInv

(* The referral's answer arrives, the gate still closed: only what is outside it is
   under way.                                                                     *)
LEMMA ReferralHeadersKeeps ==
    ASSUME IInv, ReferralHeaders
    PROVE  IInv'
  <1>0. PICK u : u = call["referral"].uid  OBVIOUS
  <1>1. PICK r \in BrowserCalls :
           /\ call["referral"].at = "served" /\ u # None /\ u \in Uids
           /\ call' = [call EXCEPT !["referral"] = r] /\ r.at = "answered" /\ r.uid = u
    <2> DEFINE r == [call["referral"] EXCEPT !.at = "answered"]
    <2>1. call["referral"] \in BrowserCalls  BY DEF IInv, Typed
    <2>2. r \in BrowserCalls /\ r.at = "answered" /\ r.uid = u /\ u \in Uids
      BY <1>0, <2>1 DEF BrowserCalls
    <2>3. call["referral"].at = "served" /\ call' = [call EXCEPT !["referral"] = r]
      BY DEF ReferralHeaders
    <2>4. u # None  BY <1>0, <2>3 DEF IInv, Known
    <2> HIDE DEF r
    <2> QED  BY <2>2, <2>3, <2>4
  <1>2. /\ stored' = u /\ kept' = None /\ UNCHANGED <<page, issued, users, invited>>
        /\ crossed' = \E c \in Ungated : UnderWay(c) /\ call[c].uid # u
    BY <1>0 DEF ReferralHeaders
  <1>3. call'["referral"] = r /\ \A d \in Kinds \ {"referral"} : call'[d] = call[d]
    BY <1>1 DEF IInv, Typed
  <1>4. Typed'  BY <1>1, <1>2 DEF IInv, Typed, Uids
  <1>5. Known'  BY <1>1, <1>2, <1>3 DEF IInv, Known
  <1>6. page.gate /\ \A c \in Gated : ~UnderWay(c)
    BY <1>1 DEF IInv, Gate
  <1>7. Gate'  BY <1>1, <1>2, <1>3, <1>6 DEF Gate
  <1>8. OneUid'
    <2>1. ASSUME ~crossed'  PROVE AllAs(u)'
      <3>1. \A c \in Ungated : UnderWay(c) => call[c].uid = u  BY <2>1, <1>2
      <3>2. ASSUME NEW c \in Kinds, UnderWay(c)'  PROVE call'[c].uid = u
        BY <3>1, <3>2, <1>1, <1>3, <1>6
      <3> QED  BY <1>2, <3>2 DEF AllAs
    <2> QED  BY <1>1, <1>2, <1>3, <2>1 DEF OneUid, AllAs
  <1> QED  BY <1>4, <1>5, <1>7, <1>8 DEF IInv

LEMMA ReferralBodyKeeps ==
    ASSUME IInv, ReferralBody
    PROVE  IInv'
  <1>0. PICK u : u = call["referral"].uid  OBVIOUS
  <1>1. /\ call["referral"].at = "answered" /\ u # None /\ u \in Uids /\ call["referral"].good \in BOOLEAN
    BY <1>0 DEF ReferralBody, IInv, Typed, Known, BrowserCalls
  <1>2. /\ call' = [call EXCEPT !["referral"] = Idle]
        /\ Idle \in BrowserCalls /\ Idle.at = "idle"
        /\ page' \in [gate : BOOLEAN, loaded : BOOLEAN] /\ page'.gate = FALSE
    BY <1>1, SettledFacts DEF ReferralBody
  <1>3. /\ UNCHANGED <<stored, issued, users, invited, crossed>>
        /\ kept' = None \/ (kept' = u /\ u \in invited)
    BY <1>0 DEF ReferralBody
  <1>4. ~crossed => AllAs(u)  BY <1>0, <1>1 DEF IInv, OneUid
  <1>5. call'["referral"] = Idle /\ \A d \in Kinds \ {"referral"} : call'[d] = call[d]
    BY <1>2 DEF IInv, Typed
  <1>6. Typed'  BY <1>1, <1>2, <1>3 DEF IInv, Typed, Uids
  <1>7. Known'  BY <1>1, <1>2, <1>3, <1>5 DEF IInv, Known
  <1>8. Gate'  BY <1>2, <1>5 DEF Gate
  <1>9. OneUid'
    <2>1. ASSUME AllAs(u)  PROVE AllAs(u)'
      BY <2>1, <1>2, <1>3, <1>5 DEF AllAs
    <2> QED  BY <1>2, <1>3, <1>4, <1>5, <2>1 DEF OneUid, AllAs
  <1> QED  BY <1>6, <1>7, <1>8, <1>9 DEF IInv

LEMMA NextHolds ==
    IInv /\ [Next]_vars
        => IInv' /\ (kept # None /\ ~crossed => users' = users)
  <1> SUFFICES ASSUME IInv, [Next]_vars
               PROVE  IInv' /\ (kept # None /\ ~crossed => users' = users)
    OBVIOUS
  <1>1. ASSUME NEW landing \in BOOLEAN, Visit(landing)
        PROVE  IInv' /\ users' = users
    BY <1>1, VisitKeeps DEF Visit
  <1>2. ASSUME \/ LoadUser \/ LoadGoesOn
               \/ Subscribe \/ SubscribeGoesOn
               \/ \E c \in Ungated : Ask(c)
        PROVE  IInv' /\ users' = users
    BY <1>2, PageKeeps DEF LoadUser, LoadGoesOn, Subscribe,
                           SubscribeGoesOn, Ask
  <1>3. ASSUME NEW c \in Kinds, Answered(c) \/ Lose(c)
        PROVE  IInv' /\ users' = users
    BY <1>3, AnsweredKeeps, LoseKeeps DEF Answered, Lose
  <1>4. CASE ReferralHeaders \/ ReferralBody
    BY <1>4, ReferralHeadersKeeps, ReferralBodyKeeps DEF ReferralHeaders, ReferralBody
  <1>5. CASE UNCHANGED vars
    <2>1. UNCHANGED <<stored, page, call, issued, users, invited, kept, crossed>>
      BY <1>5 DEF vars
    <2> QED  BY <2>1 DEF IInv, Typed, Known, Gate, OneUid, AllAs
  <1> QED  BY <1>1, <1>2, <1>3, <1>4, <1>5, ServeKeeps DEF Next

(* api.ts 133-135, that the invitation be not lost to a race: once a referral has
   succeeded, the browser goes on as the user that was invited, whatever is answered,
   lost or opened, unless a call outside the gate was crossed (InvitationKept).      *)
THEOREM InvitationIsKept ==
    Spec => []InvitationKept
  <1>1. IInv => InvitationKept
    BY DEF IInv, OneUid, AllAs, InvitationKept
  <1> QED  BY <1>1, InitHolds, NextHolds, PTL DEF Spec

(* And none of its calls creates another user, unless one was crossed
   (OneVisitorOneUser). *)
THEOREM OneVisitorStaysOneUser ==
    Spec => OneVisitorOneUser
  <1>1. IInv /\ [Next]_vars
            => [kept # None /\ ~crossed => users' = users]_vars
    BY NextHolds
  <1> QED  BY <1>1, InitHolds, NextHolds, PTL DEF Spec, OneVisitorOneUser

=============================================================================
