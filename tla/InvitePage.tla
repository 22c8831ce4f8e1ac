------------------------------ MODULE InvitePage ------------------------------
(* One open invite page (frontend/src/composables/useInviteActivity.ts) and what
   it shows of its activity, against the server that changes it and the stream of
   update events (httpapi/activity_events.go, realtime/activity_updates.go).

   What ActivityDetail answers is a version, one per change by anyone, and whether
   the visitor has published.                                                  *)
EXTENDS Naturals, FiniteSetsExt

CONSTANTS MaxVersion,   \* Bounds of a run: changes of the activity,
          MaxActions,   \* publishes, boosts and claims of the visitor,
          MaxFaults,    \* calls that fail, messages and connections that are lost,
          MaxHides      \* times the page is hidden

ASSUME BoundsAreNatural ==
    MaxVersion \in Nat /\ MaxActions \in Nat /\ MaxFaults \in Nat /\ MaxHides \in Nat

Versions == 0 .. MaxVersion
Details  == [version : Versions, published : BOOLEAN]

VARIABLES
    server,     \* MySQL: the activity as ActivityDetail answers it
    telling,    \* changes committed and not yet broadcast
    seen,       \* document.visibilityState; "gone" once unmounted (stopped)
    link,       \* the event stream, or the timer that opens the next one
    events,     \* the changes whose events are on their way in the stream
    load,       \* load()'s request
    page,       \* the page's state and its refresh
    act,        \* the publish, boost or claim under way
    untold,     \* history: the latest version of which no news reached the page
    spent       \* what the run has spent of its bounds

vars == <<server, telling, seen, link, events, load, page, act, untold, spent>>

Unpublished == [version |-> 0, published |-> FALSE]
Calls == [pc : {"idle", "sent", "read"}, answer : Details]
Idle  == [pc |-> "idle", answer |-> Unpublished]
Sent  == [Idle EXCEPT !.pc = "sent"]

(* page.current: whether stateRevision is what it was when the refresh under way
   began; page.dropped: history, the latest version of whose news the page let go. *)
Pages == [loading : BOOLEAN, working : BOOLEAN, shown : Details,
          refresh : Calls, queued : BOOLEAN, current : BOOLEAN, dropped : Versions]
Acts  == [pc : {"idle", "sent", "committed", "after"},
          kind : {"publish", "boost or claim"}, answer : Details]
NoAct == [pc |-> "idle", kind |-> "publish", answer |-> Unpublished]

Limits == [actions |-> MaxActions, faults |-> MaxFaults, hides |-> MaxHides]
Spend(bound) == spent[bound] < Limits[bound] /\ spent' = [spent EXCEPT ![bound] = @ + 1]
Latest(a, b) == Max({a, b})

Init ==
    /\ server \in [version : {0}, published : BOOLEAN]
    /\ telling = {} /\ events = {}
    /\ seen = "visible" /\ link = "off"
    /\ load = Sent
    /\ page = [loading |-> TRUE, working |-> FALSE, shown |-> Unpublished,
               refresh |-> Idle, queued |-> FALSE, current |-> TRUE, dropped |-> 0]
    /\ act = NoAct
    /\ untold = 0
    /\ spent = [actions |-> 0, faults |-> 0, hides |-> 0]

-----------------------------------------------------------------------------
(* The server. *)
Change(published) ==
    /\ server.version < MaxVersion
    /\ server' = [version |-> server.version + 1, published |-> published]

(* A publish, boost or claim by someone else, or by the visitor elsewhere. *)
OthersChange ==
    /\ \E published \in {server.published, TRUE} : Change(published)
    /\ telling' = telling \union {server'.version}
    /\ UNCHANGED <<seen, link, events, load, page, act, untold, spent>>

(* ResetDailyData deletes the activities and tells nobody. *)
DailyReset ==
    /\ Change(FALSE)
    /\ untold' = server'.version
    /\ UNCHANGED <<telling, seen, link, events, load, page, act, spent>>

(* A stream takes events from its subscription on, which comes before its answer. *)
Listening == {"subscribed", "open"}

(* The event of a change; the owner of a claimed content gets a second one on the
   channel of his own, which asks for the same refresh. *)
Broadcast(v) ==
    /\ telling' = telling \ {v}
    /\ events' = IF link \in Listening THEN events \union {v} ELSE events
    /\ UNCHANGED <<server, seen, link, load, page, act, untold, spent>>

(* PublishAll fails and is only logged, the process dies before it, or an event is
   lost between Redis and the handler. *)
BroadcastFails(v) ==
    /\ Spend("faults")
    /\ telling' = telling \ {v}
    /\ untold' = Latest(untold, v)
    /\ UNCHANGED <<server, seen, link, events, load, page, act>>

-----------------------------------------------------------------------------
(* Mutant: a refresh asked for while one is under way is left to that one. *)
RefreshOnce(p) ==
    IF p.loading \/ ~p.shown.published THEN [p EXCEPT !.dropped = server.version]
    ELSE IF p.refresh.pc # "idle" THEN p
    ELSE IF p.working THEN [p EXCEPT !.queued = TRUE]
    ELSE [p EXCEPT !.refresh = Sent, !.current = TRUE]

(* refreshStatus. *)
Refresh(p) ==
    IF p.loading \/ ~p.shown.published THEN [p EXCEPT !.dropped = server.version]
    ELSE IF p.working \/ p.refresh.pc # "idle" THEN [p EXCEPT !.queued = TRUE]
    ELSE [p EXCEPT !.refresh = Sent, !.current = TRUE]

(* Its finally. *)
EndRefresh(p) ==
    LET ended == [p EXCEPT !.refresh = Idle, !.queued = FALSE]
    IN  IF p.queued THEN Refresh(ended) ELSE ended

RefreshRead ==
    /\ page.refresh.pc = "sent"
    /\ page' = [page EXCEPT !.refresh = [pc |-> "read", answer |-> server]]
    /\ UNCHANGED <<server, telling, seen, link, events, load, act, untold, spent>>

(* Mutant: the revision is not compared. *)
AppliesAnyway(p) == ~p.working

(* Whether the answer of a refresh is applied. *)
Applies(p) == p.current /\ ~p.working

RefreshAnswered ==
    /\ page.refresh.pc = "read"
    /\ page' = EndRefresh(
                  IF Applies(page)
                      THEN [page EXCEPT !.shown = page.refresh.answer]
                      ELSE [page EXCEPT !.dropped = Latest(@, page.refresh.answer.version)])
    /\ UNCHANGED <<server, telling, seen, link, events, load, act, untold, spent>>

RefreshFails ==
    /\ page.refresh.pc # "idle"
    /\ Spend("faults")
    /\ page' = EndRefresh(page)
    /\ untold' = server.version
    /\ UNCHANGED <<server, telling, seen, link, events, load, act>>

-----------------------------------------------------------------------------
(* The stream: connectActivityEvents and subscribeActivityUpdates. *)
Connected(l) == IF seen' = "visible" /\ l \in {"off", "timer"} THEN "connecting" ELSE l

Subscribe ==
    /\ link = "connecting"
    /\ link' = "subscribed"
    /\ UNCHANGED <<server, telling, seen, events, load, page, act, untold, spent>>

(* Mutant: nothing. *)
OnConnectedNothing(p) == p

(* What the page does once connected. *)
OnConnected(p) == Refresh(p)

Open ==
    /\ link = "subscribed"
    /\ link' = "open"
    /\ page' = OnConnected(page)
    /\ UNCHANGED <<server, telling, seen, events, load, act, untold, spent>>

EventArrives ==
    /\ link = "open"
    /\ \E v \in events : events' = events \ {v}
    /\ page' = Refresh(page)
    /\ UNCHANGED <<server, telling, seen, link, load, act, untold, spent>>

(* The connection fails or ends; the page is visible, so it is tried again. *)
LinkDrops ==
    /\ link \in {"connecting", "subscribed", "open"}
    /\ Spend("faults")
    /\ link' = "timer" /\ events' = {}
    /\ UNCHANGED <<server, telling, seen, load, page, act, untold>>

TimerFires ==
    /\ link = "timer"
    /\ UNCHANGED <<server, telling, seen, events, load, page, act, untold, spent>>
    /\ link' = Connected(link)

(* disconnectActivityEvents. *)
Disconnect == link' = "off" /\ events' = {}

Hide ==
    /\ seen = "visible"
    /\ Spend("hides")
    /\ seen' = "hidden" /\ Disconnect
    /\ UNCHANGED <<server, telling, load, page, act, untold>>

Show ==
    /\ seen = "hidden"
    /\ seen' = "visible" /\ link' = Connected(link)
    /\ UNCHANGED <<server, telling, events, load, page, act, untold, spent>>

Unmount ==
    /\ seen # "gone"
    /\ seen' = "gone" /\ Disconnect
    /\ UNCHANGED <<server, telling, load, page, act, untold, spent>>

-----------------------------------------------------------------------------
(* load, when the page is mounted, and the connection after it. *)
LoadRead ==
    /\ load.pc = "sent"
    /\ load' = [pc |-> "read", answer |-> server]
    /\ UNCHANGED <<server, telling, seen, link, events, page, act, untold, spent>>

LoadEnds(shown) ==
    /\ load' = Idle
    /\ page' = [page EXCEPT !.loading = FALSE, !.shown = shown]
    /\ UNCHANGED <<server, telling, seen, events, act>>
    /\ link' = Connected(link)

LoadAnswered ==
    /\ load.pc = "read"
    /\ LoadEnds(load.answer)
    /\ UNCHANGED <<untold, spent>>

LoadFails ==
    /\ load.pc # "idle"
    /\ Spend("faults")
    /\ LoadEnds(page.shown)
    /\ untold' = server.version

-----------------------------------------------------------------------------
(* publish, useBoost and copyContent; the buttons wait for load and for working. *)
ActStart(kind) ==
    /\ seen = "visible" /\ ~page.loading /\ ~page.working
    /\ kind = "publish" \/ page.shown.published
    /\ Spend("actions")
    /\ page' = [page EXCEPT !.working = TRUE, !.current = FALSE]
    /\ act' = [NoAct EXCEPT !.pc = "sent", !.kind = kind]
    /\ UNCHANGED <<server, telling, seen, link, events, load, untold>>

ActCommits ==
    /\ act.pc = "sent"
    /\ act.kind = "publish" \/ server.published
    /\ Change(TRUE)
    /\ telling' = telling \union {server'.version}
    /\ act' = [act EXCEPT !.pc = "committed", !.answer = server']
    /\ UNCHANGED <<seen, link, events, load, page, untold, spent>>

(* The finally of each: nothing looks at queued there. *)
EndAct(p) == [p EXCEPT !.working = FALSE,
                       !.dropped = IF p.queued THEN server.version ELSE @]

(* The answer holds what the transaction left or what was read later, after the
   broadcast. A boost reloads the user after it and a claim copies its text, before
   either ends. *)
ActAnswered ==
    /\ act.pc = "committed"
    /\ act.answer.version \notin telling
    /\ \E answer \in {act.answer, server} :
          LET applied == [page EXCEPT !.shown = answer]
          IN  IF act.kind = "publish"
                  THEN page' = EndAct(applied) /\ act' = NoAct
                  ELSE page' = applied /\ act' = [act EXCEPT !.pc = "after"]
    /\ UNCHANGED <<server, telling, seen, link, events, load, untold, spent>>

ActEnds ==
    /\ act.pc = "after"
    /\ page' = EndAct(page)
    /\ act' = NoAct
    /\ UNCHANGED <<server, telling, seen, link, events, load, untold, spent>>

ActRefused ==
    /\ act.pc = "sent"
    /\ page' = EndAct(page)
    /\ act' = NoAct
    /\ UNCHANGED <<server, telling, seen, link, events, load, untold, spent>>

(* The answer of what was committed is lost, or is an error. *)
ActFails ==
    /\ act.pc = "committed"
    /\ Spend("faults")
    /\ page' = EndAct(page)
    /\ act' = NoAct
    /\ UNCHANGED <<server, telling, seen, link, events, load, untold>>

-----------------------------------------------------------------------------
Streams   == Subscribe \/ Open \/ EventArrives \/ TimerFires
Requests  == RefreshRead \/ RefreshAnswered \/ LoadRead \/ LoadAnswered
Acting    == ActAnswered \/ ActEnds \/ ActRefused
Telling   == \E v \in telling : Broadcast(v)
Others    == OthersChange \/ DailyReset
Visitor   == Hide \/ Show \/ Unmount \/ \E kind \in {"publish", "boost or claim"} : ActStart(kind)
Faults    == RefreshFails \/ LoadFails \/ ActFails \/ LinkDrops
                \/ \E v \in telling : BroadcastFails(v)

Next == Streams \/ Requests \/ Acting \/ ActCommits \/ Telling \/ Others \/ Visitor \/ Faults

Spec == Init /\ [][Next]_vars

(* Requests are answered, broadcasts sent, events read and timers fire; nobody has
   to change, act, hide, show or fail. *)
FairSpec == Spec /\ WF_vars(Streams) /\ WF_vars(RefreshRead \/ RefreshAnswered)
                 /\ WF_vars(LoadRead \/ LoadAnswered) /\ WF_vars(Acting) /\ WF_vars(Telling)

-----------------------------------------------------------------------------
TypeOK ==
    /\ server \in Details
    /\ telling \subseteq Versions
    /\ seen \in {"visible", "hidden", "gone"}
    /\ link \in {"off", "timer", "connecting", "subscribed", "open"}
    /\ events \subseteq Versions
    /\ load \in Calls
    /\ page \in Pages
    /\ act \in Acts
    /\ untold \in Versions
    /\ spent \in [actions : 0 .. MaxActions, faults : 0 .. MaxFaults, hides : 0 .. MaxHides]

(* What the page shows is never replaced by something older, whichever of a load, a
   refresh and an action's own answer arrives last (useInviteActivity.ts:119-123). *)
NeverBackwards == [][page'.shown.version >= page.shown.version]_vars

Fresh   == page.shown.version = server.version
Excused == untold > page.shown.version \/ page.dropped > page.shown.version

(* Nothing is under way between the page and the server. *)
Quiet ==
    /\ seen = "visible" /\ link = "open" /\ events = {} /\ telling = {}
    /\ ~page.loading /\ ~page.working /\ page.refresh.pc = "idle"

(* Once its connection stands and all is quiet, a published page shows the latest
   state, however connections, events, refreshes and actions crossed, unless a
   call failed, nobody told it, or it forgot what it was told (:112-133, 229-248,
   activity_events.go:21-41). *)
QuietPageIsFresh == Quiet /\ page.shown.published => Fresh \/ Excused

(* A visible page that has published does not stay behind for ever: it is, again
   and again, up to date, or excused as above. *)
CatchesUp == []<>(seen # "visible" \/ ~page.shown.published \/ Fresh \/ Excused)
===============================================================================
