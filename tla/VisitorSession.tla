--------------------------- MODULE VisitorSession ---------------------------
(* The identity of a visitor: the uid that the server issues to a request without
   one (httpapi/router.go) and the browser keeps (services/api.ts), the referral that
   a landing page /r/<code> applies first, and the gate that holds back what
   would create a second user meanwhile (services/session.ts).                  *)
EXTENDS Naturals

CONSTANTS None,         \* no uid
          \* Bounds of a run:
          MaxVisits,    \* pages opened, one after the other, and reloads
          MaxCalls,     \* calls that do not wait for the referral
          MaxFaults     \* calls whose answer does not arrive

ASSUME NoneIsNoUid == None \notin Nat

VARIABLES
    stored,     \* localStorage: eaok:uid
    page,       \* the page's module state: referralGate, userState.loaded
    call,       \* its calls
    issued,     \* the server: uids generated
    users, invited, bound,  \* MySQL: users; those with invited_by_uid, with a phone
    kept,       \* history: the uid under which the last referral succeeded
    crossed,    \* history: its answer met a call outside the gate under another
    spent       \* what the run has spent of its bounds

vars == <<stored, page, call, issued, users, invited, bound, kept, crossed, spent>>

Gated   == {"info", "events"}   \* loadUser, subscribeActivityUpdates
Ungated == {"read", "bind"}     \* a notice, a detail, a list; bindUserPhone
Kinds   == {"referral"} \union Gated \union Ungated

(* A call is idle, waiting, sent, served or answered. *)
Idle    == [at |-> "idle", uid |-> None, good |-> FALSE]
Waiting == [Idle EXCEPT !.at = "waiting"]

At(c, stage) == call[c].at = stage
UnderWay(c)  == call[c].at \in {"sent", "served", "answered"}
Become(c, r) == call' = [call EXCEPT ![c] = r]

Limits == [visits |-> MaxVisits, calls |-> MaxCalls, faults |-> MaxFaults]
Spend(kind) == spent[kind] < Limits[kind] /\ spent' = [spent EXCEPT ![kind] = @ + 1]

Fresh(gate) == [gate |-> gate, loaded |-> FALSE]
Visited     == spent.visits > 0

Init ==
    /\ stored = None
    /\ page = Fresh(FALSE)
    /\ call = [c \in Kinds |-> Idle]
    /\ issued = 0
    /\ users = {} /\ invited = {} /\ bound = {}
    /\ kept = None /\ crossed = FALSE
    /\ spent = [visits |-> 0, calls |-> 0, faults |-> 0]

-----------------------------------------------------------------------------
(* The page. *)

(* request: the uid is read when the call is sent. *)
Request == [Idle EXCEPT !.at = "sent", !.uid = stored]

(* captureReferralFromUrl, before the page is mounted; calls of the page before are
   aborted. Elsewhere than under /r/ there is no referral.                     *)
Visit(landing) ==
    /\ Spend("visits")
    /\ page' = Fresh(landing)
    /\ call' = [c \in Kinds |-> IF c = "referral" /\ landing THEN Request ELSE Idle]
    /\ UNCHANGED <<stored, issued, users, invited, bound, kept, crossed>>

(* Mutants: loadUser or the subscription does not wait. *)
LoadEager(c)      == c = "info" \/ ~page.gate
SubscribeEager(c) == c = "events" \/ ~page.gate

(* waitForReferral, for what called it before or after the referral was settled. *)
WaitOver(c) == ~page.gate

(* loadUser up to its wait; who calls it while it waits, or after, shares its request. *)
LoadUser ==
    /\ Visited /\ At("info", "idle")
    /\ Become("info", Waiting)
    /\ UNCHANGED <<stored, page, issued, users, invited, bound, kept, crossed, spent>>

(* Without force there is nothing to ask once the user is loaded. *)
LoadGoesOn ==
    /\ At("info", "waiting") /\ WaitOver("info")
    /\ \/ Become("info", Request)
       \/ page.loaded /\ Become("info", Idle)
    /\ UNCHANGED <<stored, page, issued, users, invited, bound, kept, crossed, spent>>

(* subscribeActivityUpdates up to its wait, and after. *)
Subscribe ==
    /\ Visited /\ At("events", "idle")
    /\ Become("events", Waiting)
    /\ UNCHANGED <<stored, page, issued, users, invited, bound, kept, crossed, spent>>

SubscribeGoesOn ==
    /\ At("events", "waiting") /\ WaitOver("events")
    /\ Become("events", Request)
    /\ UNCHANGED <<stored, page, issued, users, invited, bound, kept, crossed, spent>>

(* Everything else is sent at once. *)
Ask(c) ==
    /\ Visited /\ At(c, "idle") /\ Spend("calls")
    /\ Become(c, Request)
    /\ UNCHANGED <<stored, page, issued, users, invited, bound, kept, crossed>>

-----------------------------------------------------------------------------
(* The server. *)

(* identity: whom a call is from, a new uid if it brings none. *)
Identity(c) == IF call[c].uid = None THEN issued + 1 ELSE call[c].uid

Answer(c, good) ==
    /\ Become(c, [call[c] EXCEPT !.at = "served", !.uid = Identity(c), !.good = good])
    /\ issued' = IF call[c].uid = None THEN issued + 1 ELSE issued

EnsureUser(u) == users' = users \union {u}

(* ApplyReferral: who has a phone is answered, and not invited any more; the code may
   be unknown or the caller's own.                                             *)
ServeReferral ==
    LET u == Identity("referral")
    IN  /\ EnsureUser(u)
        /\ \/ Answer("referral", TRUE) /\ invited' = IF u \in bound THEN invited ELSE invited \union {u}
           \/ u \notin bound /\ Answer("referral", FALSE) /\ UNCHANGED invited
        /\ UNCHANGED bound

UserInfo ==
    /\ EnsureUser(Identity("info"))
    /\ \E good \in BOOLEAN : Answer("info", good)
    /\ UNCHANGED <<invited, bound>>

(* BindPhone: the phone may be another user's. *)
BindPhone ==
    /\ EnsureUser(Identity("bind"))
    /\ \/ Answer("bind", TRUE) /\ bound' = bound \union {Identity("bind")}
       \/ Answer("bind", FALSE) /\ UNCHANGED bound
    /\ UNCHANGED invited

(* A handler that creates no user and answers with none, or an error. *)
CreatesNobody(c) ==
    /\ Answer(c, FALSE)
    /\ UNCHANGED <<users, invited, bound>>

Serve(c) ==
    /\ At(c, "sent")
    /\ \/ c = "referral" /\ ServeReferral
       \/ c = "info" /\ UserInfo
       \/ c = "bind" /\ BindPhone
       \/ CreatesNobody(c)
    /\ UNCHANGED <<stored, page, kept, crossed, spent>>

-----------------------------------------------------------------------------
(* The answers. *)

(* Mutant: only a referral that succeeds opens the gate. *)
GateIfApplied(c, good) == page.gate /\ ~(c = "referral" /\ good)

(* The gate opens when the referral is settled, either way. *)
GateAfter(c, good) == page.gate /\ c # "referral"

(* applyUser. *)
Settled(c, good) ==
    /\ Become(c, Idle)
    /\ page' = [page EXCEPT !.gate = GateAfter(c, good),
                            !.loaded = @ \/ (good /\ c \in {"referral", "info", "bind"})]

(* The answer's X-UID is stored, whatever the status; its body comes with it. *)
Answered(c) ==
    /\ c # "referral" /\ At(c, "served")
    /\ stored' = call[c].uid
    /\ Settled(c, call[c].good)
    /\ UNCHANGED <<issued, users, invited, bound, kept, crossed, spent>>

(* The referral's comes later: what else is sent goes out under its uid already. *)
ReferralHeaders ==
    /\ At("referral", "served")
    /\ stored' = call["referral"].uid
    /\ Become("referral", [call["referral"] EXCEPT !.at = "answered"])
    /\ kept' = None
    /\ crossed' = \E c \in Ungated : UnderWay(c) /\ call[c].uid # call["referral"].uid
    /\ UNCHANGED <<page, issued, users, invited, bound, spent>>

ReferralBody ==
    /\ At("referral", "answered")
    /\ Settled("referral", call["referral"].good)
    /\ kept' = IF call["referral"].good /\ call["referral"].uid \in invited
                   THEN call["referral"].uid ELSE None
    /\ UNCHANGED <<stored, issued, users, invited, bound, crossed, spent>>

(* The connection fails, or the page is hidden and aborts its stream. *)
Lose(c) ==
    /\ UnderWay(c) /\ Spend("faults")
    /\ Settled(c, FALSE)
    /\ UNCHANGED <<stored, issued, users, invited, bound, kept, crossed>>

-----------------------------------------------------------------------------
Next ==
    \/ \E landing \in BOOLEAN : Visit(landing)
    \/ LoadUser \/ LoadGoesOn \/ Subscribe \/ SubscribeGoesOn
    \/ \E c \in Ungated : Ask(c)
    \/ \E c \in Kinds : Serve(c) \/ Answered(c) \/ Lose(c)
    \/ ReferralHeaders \/ ReferralBody

Spec == Init /\ [][Next]_vars

(* A referral is answered or fails, and what waits for a promise goes on after it. *)
Fairness ==
    /\ WF_vars(Serve("referral")) /\ WF_vars(ReferralHeaders) /\ WF_vars(ReferralBody)
    /\ WF_vars(LoadGoesOn) /\ WF_vars(SubscribeGoesOn)

FairSpec == Spec /\ Fairness

-----------------------------------------------------------------------------
(* The gate exists lest the invitation be lost to a race and one visitor become several
   users (the comment at api.ts 133-135). The invitation: once a referral has
   succeeded the browser goes on as the user that was invited, through answers in any
   order, failures and reloads, unless a call outside the gate was under way under
   another uid, or none, when the referral was answered.                       *)
InvitationKept == kept # None /\ ~crossed => stored = kept

(* The users: from then on no call of this browser creates another one, with the
   same exception for a call outside the gate, as the landing page's own notice
   may be (ActivityListPage.vue:19): its answer may have replaced the uid.      *)
OneVisitorOneUser == [][kept # None /\ ~crossed => users' = users]_vars

(* A referral that fails, in whatever way, locks nobody out: what waits at the gate
   is sent, or needed no more.                                                *)
GateOpens == \A c \in Gated : At(c, "waiting") ~> ~At(c, "waiting")

=============================================================================
