-------------------------- MODULE InvitePageProofs --------------------------
(* What one invite page shows, for any number of changes, actions, faults and
   disconnections: it never goes back to an older state, and when all is quiet it
   shows the latest one or has an excuse.                                     *)
EXTENDS InvitePage, TLAPS

-----------------------------------------------------------------------------
(* The inductive invariant. Types: *)
Typed ==
    /\ server \in Details
    /\ link \in {"off", "timer", "connecting", "subscribed", "open"}
    /\ load \in Calls /\ page \in Pages /\ act \in Acts
    /\ untold \in Versions /\ telling \subseteq Versions

(* nothing on the page's side is newer than the server; *)
Bounded ==
    /\ page.shown.version <= server.version
    /\ page.dropped <= server.version /\ untold <= server.version
    /\ \A v \in telling : v <= server.version
    /\ page.refresh.pc = "read" => page.refresh.answer.version <= server.version
    /\ load.pc = "read" => load.answer.version <= server.version
    /\ act.pc = "committed" => act.answer.version <= server.version

(* the flags say which requests are under way; an action invalidates the refresh
   it overlaps; *)
Phases ==
    /\ page.loading <=> load.pc # "idle"
    /\ page.working <=> act.pc # "idle"
    /\ page.loading => page.shown.version = 0 /\ page.refresh.pc = "idle" /\ ~page.working
    /\ page.working /\ page.refresh.pc # "idle" => ~page.current

(* an answer that will be applied is as new as what is shown; *)
InOrder ==
    /\ page.refresh.pc = "read" /\ page.current /\ ~page.working =>
           page.shown.version <= page.refresh.answer.version
    /\ act.pc = "committed" => page.shown.version <= act.answer.version

(* and when the page is behind, news of the latest version is under way, or was
   lost or dropped. *)
NewsComes ==
    page.shown.version # server.version =>
        \/ server.version \in telling \/ server.version \in events \/ link # "open"
        \/ page.refresh.pc = "sent"
        \/ page.refresh.pc = "read" /\ page.refresh.answer.version = server.version
        \/ page.queued /\ (page.refresh.pc # "idle" \/ page.working)
        \/ untold = server.version \/ page.dropped = server.version

IInv == Typed /\ Bounded /\ Phases /\ InOrder /\ NewsComes

NotBack == page'.shown.version >= page.shown.version

-----------------------------------------------------------------------------
(* The later of two versions.                                                *)
LEMMA LatestType ==
    ASSUME NEW a \in Versions, NEW b \in Versions
    PROVE  Latest(a, b) \in {a, b} /\ Latest(a, b) >= a /\ Latest(a, b) >= b
  <1>1. a \in Nat /\ b \in Nat  BY DEF Versions
  <1>2. \E x \in {a, b} : \A y \in {a, b} : x >= y
    <2>1. CASE a >= b  BY <1>1, <2>1
    <2>2. CASE b >= a  BY <1>1, <2>2
    <2> QED  BY <1>1, <2>1, <2>2
  <1>3. Latest(a, b) = CHOOSE x \in {a, b} : \A y \in {a, b} : x >= y
    BY DEF Latest, Max
  <1> HIDE DEF Latest
  <1> QED  BY <1>2, <1>3

LEMMA CallTypes == Unpublished \in Details /\ Idle \in Calls /\ Sent \in Calls
                   /\ NoAct \in Acts /\ Idle.pc = "idle" /\ Sent.pc = "sent"
                   /\ NoAct.pc = "idle"
  <1>1. Unpublished \in Details  BY BoundsAreNatural DEF Unpublished, Details, Versions
  <1>2. Idle \in Calls /\ Idle.pc = "idle"  BY <1>1 DEF Idle, Calls
  <1>3. Sent \in Calls /\ Sent.pc = "sent"  BY <1>1 DEF Sent, Idle, Calls
  <1>4. NoAct \in Acts /\ NoAct.pc = "idle"  BY <1>1 DEF NoAct, Acts
  <1> QED  BY <1>1, <1>2, <1>3, <1>4

(* refreshStatus changes no more than what it asks for.                      *)
SamePage(p, q) == q.loading = p.loading /\ q.working = p.working /\ q.shown = p.shown

Asks(p, q) ==
    \/ /\ q.dropped = server.version
       /\ q.refresh = p.refresh /\ q.queued = p.queued /\ q.current = p.current
    \/ /\ q.queued = TRUE /\ ~p.loading /\ (p.working \/ p.refresh.pc # "idle")
       /\ q.refresh = p.refresh /\ q.current = p.current /\ q.dropped = p.dropped
    \/ /\ q.refresh = Sent /\ q.current = TRUE
       /\ ~p.loading /\ ~p.working /\ p.refresh.pc = "idle"
       /\ q.queued = p.queued /\ q.dropped = p.dropped

LEMMA RefreshAsks ==
    ASSUME server \in Details, NEW p \in Pages
    PROVE  Refresh(p) \in Pages /\ SamePage(p, Refresh(p)) /\ Asks(p, Refresh(p))
  <1>1. server.version \in Versions /\ Sent \in Calls  BY CallTypes DEF Details
  <1>2. CASE p.loading \/ ~p.shown.published
    <2>1. Refresh(p) = [p EXCEPT !.dropped = server.version]  BY <1>2 DEF Refresh
    <2> QED  BY <1>1, <2>1 DEF Pages, SamePage, Asks
  <1>3. CASE ~(p.loading \/ ~p.shown.published) /\ (p.working \/ p.refresh.pc # "idle")
    <2>1. Refresh(p) = [p EXCEPT !.queued = TRUE]  BY <1>3 DEF Refresh
    <2> QED  BY <1>3, <2>1 DEF Pages, SamePage, Asks
  <1>4. CASE ~(p.loading \/ ~p.shown.published) /\ ~(p.working \/ p.refresh.pc # "idle")
    <2>1. Refresh(p) = [p EXCEPT !.refresh = Sent, !.current = TRUE]  BY <1>4 DEF Refresh
    <2> QED  BY <1>1, <1>4, <2>1 DEF Pages, SamePage, Asks
  <1> QED  BY <1>2, <1>3, <1>4

(* The end of a refresh: what was queued meanwhile is asked for again.       *)
LEMMA EndRefreshAsks ==
    ASSUME server \in Details, NEW p \in Pages
    PROVE  LET q == EndRefresh(p)
           IN  /\ q \in Pages /\ SamePage(p, q)
               /\ \/ /\ ~p.queued /\ q.refresh = Idle /\ q.queued = FALSE
                     /\ q.current = p.current /\ q.dropped = p.dropped
                  \/ /\ p.queued /\ q.dropped = server.version
                     /\ q.refresh = Idle /\ q.queued = FALSE /\ q.current = p.current
                  \/ /\ p.queued /\ q.queued = TRUE /\ p.working /\ ~p.loading
                     /\ q.refresh = Idle /\ q.current = p.current /\ q.dropped = p.dropped
                  \/ /\ p.queued /\ q.refresh = Sent /\ q.current = TRUE
                     /\ ~p.loading /\ ~p.working
                     /\ q.queued = FALSE /\ q.dropped = p.dropped
  <1> DEFINE e == [p EXCEPT !.refresh = Idle, !.queued = FALSE]
             q == EndRefresh(p)
  <1>1. Idle \in Calls /\ Idle.pc = "idle"  BY CallTypes
  <1>2. /\ e \in Pages
        /\ e.loading = p.loading /\ e.working = p.working /\ e.shown = p.shown
        /\ e.refresh = Idle /\ e.queued = FALSE
        /\ e.current = p.current /\ e.dropped = p.dropped
    BY <1>1 DEF Pages
  <1>3. q = IF p.queued THEN Refresh(e) ELSE e  BY DEF EndRefresh
  <1> HIDE DEF e, q
  <1>4. CASE ~p.queued  BY <1>2, <1>3, <1>4 DEF SamePage, q
  <1>5. CASE p.queued
    <2>1. q = Refresh(e)  BY <1>3, <1>5
    <2>2. q \in Pages /\ SamePage(e, q) /\ Asks(e, q)  BY <1>2, <2>1, RefreshAsks
    <2>3. SamePage(p, q)  BY <1>2, <2>2 DEF SamePage
    <2> QED  BY <1>1, <1>2, <1>5, <2>2, <2>3 DEF Asks, q
  <1> QED  BY <1>4, <1>5

-----------------------------------------------------------------------------
LEMMA InitHolds == Init => IInv
  <1> SUFFICES ASSUME Init PROVE IInv  OBVIOUS
  <1>1. /\ server \in Details /\ server.version = 0
        /\ link = "off" /\ load = Sent /\ act = NoAct /\ untold = 0 /\ telling = {}
    BY BoundsAreNatural DEF Init, Details, Versions
  <1>2. /\ page \in Pages /\ page.loading = TRUE /\ page.working = FALSE
        /\ page.shown.version = 0 /\ page.refresh = Idle /\ page.dropped = 0
    BY CallTypes, BoundsAreNatural DEF Init, Pages, Unpublished, Versions
  <1>3. Typed  BY <1>1, <1>2, CallTypes, BoundsAreNatural DEF Typed, Versions
  <1> QED  BY <1>1, <1>2, <1>3, CallTypes
           DEF IInv, Bounded, Phases, InOrder, NewsComes

(* Facts that every step may use.                                            *)
LEMMA Facts ==
    ASSUME Typed
    PROVE  /\ server.version \in Nat /\ page.shown.version \in Nat
           /\ page.dropped \in Nat /\ untold \in Nat
           /\ page.refresh.answer.version \in Nat
           /\ load.answer.version \in Nat /\ act.answer.version \in Nat
           /\ page.shown \in Details /\ page.refresh \in Calls
           /\ page.refresh.answer \in Details /\ page.refresh.pc \in {"idle", "sent", "read"}
           /\ load.answer \in Details /\ act.answer \in Details
           /\ load.pc \in {"idle", "sent", "read"}
           /\ act.pc \in {"idle", "sent", "committed", "after"}
           /\ page.loading \in BOOLEAN /\ page.working \in BOOLEAN
           /\ page.queued \in BOOLEAN /\ page.current \in BOOLEAN
  <1>1. /\ page.shown \in Details /\ page.refresh \in Calls /\ page.dropped \in Versions
        /\ page.loading \in BOOLEAN /\ page.working \in BOOLEAN
        /\ page.queued \in BOOLEAN /\ page.current \in BOOLEAN
    BY DEF Typed, Pages
  <1>2. /\ page.refresh.answer \in Details /\ page.refresh.pc \in {"idle", "sent", "read"}
        /\ load.answer \in Details /\ load.pc \in {"idle", "sent", "read"}
    BY <1>1 DEF Typed, Calls
  <1>3. act.answer \in Details /\ act.pc \in {"idle", "sent", "committed", "after"}
    BY DEF Typed, Acts
  <1>4. server \in Details /\ untold \in Versions  BY DEF Typed
  <1>5. \A d \in Details : d.version \in Nat  BY DEF Details, Versions
  <1>6. \A v \in Versions : v \in Nat  BY DEF Versions
  <1> QED  BY <1>1, <1>2, <1>3, <1>4, <1>5, <1>6

(* A step that leaves the page, its requests and its action alone.           *)
LEMMA AsideKeeps ==
    ASSUME IInv, page' = page, load' = load, act' = act,
           server' = server, telling' \subseteq telling,
           link' \in {"off", "timer", "connecting", "subscribed", "open"},
           untold' \in Versions, untold' <= server.version,
           NewsComes'
    PROVE  IInv' /\ NotBack
  <1>1. Typed'  BY DEF IInv, Typed
  <1>2. Bounded' /\ Phases' /\ InOrder'  BY DEF IInv, Bounded, Phases, InOrder
  <1>3. NotBack  BY Facts DEF IInv, NotBack
  <1> QED  BY <1>1, <1>2, <1>3 DEF IInv

(* A change of the server by someone else, of which news is under way.       *)
LEMMA ChangeKeeps ==
    ASSUME IInv, NEW published \in BOOLEAN, Change(published),
           page' = page, load' = load, act' = act, link' = link,
           telling' \subseteq telling \union {server'.version},
           \/ untold' = untold /\ server'.version \in telling'
           \/ untold' = server'.version
    PROVE  IInv' /\ NotBack
  <1>1. /\ server' \in Details /\ server'.version = server.version + 1
    BY Facts, BoundsAreNatural DEF Change, IInv, Typed, Details, Versions
  <1>2. server'.version \in Versions /\ server'.version \in Nat
    BY <1>1 DEF Details, Versions
  <1>3. Typed'  BY <1>1, <1>2 DEF IInv, Typed
  <1>4. Bounded'
    <2>1. ASSUME NEW v \in telling' PROVE v <= server'.version
      <3>1. CASE v \in telling
        <4>1. v \in Nat /\ v <= server.version  BY <3>1 DEF IInv, Typed, Bounded, Versions
        <4> QED  BY <1>1, <1>2, <4>1, Facts DEF IInv
      <3>2. CASE v = server'.version  BY <1>2, <3>2
      <3> QED  BY <3>1, <3>2
    <2> QED  BY <1>1, <1>2, <2>1, Facts DEF IInv, Bounded
  <1>5. Phases' /\ InOrder'  BY DEF IInv, Phases, InOrder
  <1>6. NewsComes'  BY DEF NewsComes
  <1>7. NotBack  BY Facts DEF IInv, NotBack
  <1> QED  BY <1>3, <1>4, <1>5, <1>6, <1>7 DEF IInv

LEMMA OthersKeep == IInv /\ Others => IInv' /\ NotBack
  <1>1. ASSUME IInv, OthersChange PROVE IInv' /\ NotBack
    <2>1. PICK published \in {server.published, TRUE} : Change(published)
      BY <1>1 DEF OthersChange
    <2>2. published \in BOOLEAN  BY <1>1 DEF IInv, Typed, Details
    <2>3. /\ page' = page /\ load' = load /\ act' = act /\ link' = link
          /\ untold' = untold /\ telling' = telling \union {server'.version}
      BY <1>1 DEF OthersChange
    <2> QED  BY <1>1, <2>1, <2>2, <2>3, ChangeKeeps
  <1>2. ASSUME IInv, DailyReset PROVE IInv' /\ NotBack
    <2>1. /\ Change(FALSE) /\ page' = page /\ load' = load /\ act' = act /\ link' = link
          /\ untold' = server'.version /\ telling' = telling
      BY <1>2 DEF DailyReset
    <2> QED  BY <1>2, <2>1, ChangeKeeps
  <1> QED  BY <1>1, <1>2 DEF Others

(* The broadcast of a change.                                                *)
LEMMA TellingKeeps ==
    ASSUME IInv, NEW v \in telling, Broadcast(v) \/ BroadcastFails(v)
    PROVE  IInv' /\ NotBack
  <1>1. v \in Versions /\ untold \in Versions /\ v <= server.version /\ untold <= server.version
        /\ link \in {"off", "timer", "connecting", "subscribed", "open"}
    BY DEF IInv, Typed, Bounded
  <1>2. CASE Broadcast(v)
    <2>1. /\ page' = page /\ load' = load /\ act' = act /\ server' = server
          /\ link' = link /\ untold' = untold /\ telling' = telling \ {v}
          /\ events' = IF link \in Listening THEN events \union {v} ELSE events
      BY <1>2 DEF Broadcast
    <2>2. NewsComes'  BY <2>1 DEF IInv, NewsComes, Listening
    <2> QED  BY <1>1, <2>1, <2>2, AsideKeeps
  <1>3. CASE BroadcastFails(v)
    <2>1. /\ page' = page /\ load' = load /\ act' = act /\ server' = server
          /\ link' = link /\ events' = events /\ telling' = telling \ {v}
          /\ untold' = Latest(untold, v)
      BY <1>3 DEF BroadcastFails
    <2>2. /\ untold' \in {untold, v} /\ untold' >= untold /\ untold' >= v
      BY <1>1, <2>1, LatestType
    <2>3. untold' \in Versions /\ untold' <= server.version  BY <1>1, <2>2
    <2>4. v = server.version => untold' = server.version
      BY <1>1, <2>2 DEF Versions
    <2>5. untold = server.version => untold' = server.version
      BY <1>1, <2>2 DEF Versions
    <2>6. NewsComes'  BY <2>1, <2>4, <2>5 DEF IInv, NewsComes
    <2> QED  BY <1>1, <2>1, <2>3, <2>6, AsideKeeps
  <1> QED  BY <1>2, <1>3

(* The stream. News that arrives, or a connection that opens, asks for a refresh. *)
LEMMA NewsAsks ==
    ASSUME IInv, page' = Refresh(page), load' = load, act' = act, server' = server,
           telling' = telling, untold' = untold,
           link' \in {"off", "timer", "connecting", "subscribed", "open"}
    PROVE  IInv' /\ NotBack
  <1>1. page' \in Pages /\ SamePage(page, page') /\ Asks(page, page')
    BY RefreshAsks DEF IInv, Typed
  <1>2. Typed'  BY <1>1 DEF IInv, Typed
  <1>3. Sent.pc = "sent"  BY CallTypes
  <1>4. Bounded'
    <2>1. server.version <= server.version  BY Facts DEF IInv
    <2> QED  BY <1>1, <1>3, <2>1 DEF IInv, Bounded, SamePage, Asks
  <1>5. Phases'  BY <1>1, <1>3 DEF IInv, Phases, SamePage, Asks
  <1>6. InOrder'  BY <1>1, <1>3 DEF IInv, InOrder, SamePage, Asks
  <1>7. NewsComes'  BY <1>1, <1>3 DEF NewsComes, SamePage, Asks
  <1>8. NotBack  BY <1>1, Facts DEF IInv, NotBack, SamePage
  <1> QED  BY <1>2, <1>4, <1>5, <1>6, <1>7, <1>8 DEF IInv

LEMMA StreamsKeep == IInv /\ Streams => IInv' /\ NotBack
  <1> SUFFICES ASSUME IInv, Streams PROVE IInv' /\ NotBack  OBVIOUS
  <1>1. untold \in Versions /\ untold <= server.version
        /\ link \in {"off", "timer", "connecting", "subscribed", "open"}
    BY DEF IInv, Typed, Bounded
  <1>2. CASE Subscribe
    <2>1. NewsComes'  BY <1>2 DEF Subscribe, NewsComes
    <2> QED  BY <1>1, <1>2, <2>1, AsideKeeps DEF Subscribe
  <1>3. CASE Open
    BY <1>3, NewsAsks DEF Open, OnConnected
  <1>4. CASE EventArrives
    BY <1>1, <1>4, NewsAsks DEF EventArrives
  <1>5. CASE TimerFires
    <2>1. link' \in {"connecting", "timer"}  BY <1>5 DEF TimerFires, Connected
    <2>2. NewsComes'  BY <2>1 DEF NewsComes
    <2> QED  BY <1>1, <1>5, <2>1, <2>2, AsideKeeps DEF TimerFires
  <1> QED  BY <1>2, <1>3, <1>4, <1>5 DEF Streams

LEMMA LinkKeeps == IInv /\ (LinkDrops \/ Hide \/ Show \/ Unmount) => IInv' /\ NotBack
  <1> SUFFICES ASSUME IInv, LinkDrops \/ Hide \/ Show \/ Unmount PROVE IInv' /\ NotBack
    OBVIOUS
  <1>1. untold \in Versions /\ untold <= server.version
        /\ link \in {"off", "timer", "connecting", "subscribed", "open"}
    BY DEF IInv, Typed, Bounded
  <1>2. /\ page' = page /\ load' = load /\ act' = act /\ server' = server
        /\ telling' = telling /\ untold' = untold
    BY DEF LinkDrops, Hide, Show, Unmount, Disconnect
  <1>3. CASE LinkDrops \/ Hide \/ Unmount
    <2>1. link' \in {"timer", "off"}  BY <1>3 DEF LinkDrops, Hide, Unmount, Disconnect
    <2>2. NewsComes'  BY <2>1 DEF NewsComes
    <2> QED  BY <1>1, <1>2, <2>1, <2>2, AsideKeeps
  <1>4. CASE Show
    <2>1. link' \in {link, "connecting"} /\ events' = events
      BY <1>4 DEF Show, Connected
    <2>2. NewsComes'  BY <1>2, <2>1 DEF IInv, NewsComes
    <2> QED  BY <1>1, <1>2, <2>1, <2>2, AsideKeeps
  <1> QED  BY <1>3, <1>4

-----------------------------------------------------------------------------
(* The refresh.                                                              *)
LEMMA RefreshReadKeeps == IInv /\ RefreshRead => IInv' /\ NotBack
  <1> SUFFICES ASSUME IInv, RefreshRead PROVE IInv' /\ NotBack  OBVIOUS
  <1> DEFINE call == [pc |-> "read", answer |-> server]
  <1>1. /\ server' = server /\ telling' = telling /\ link' = link /\ events' = events
        /\ load' = load /\ act' = act /\ untold' = untold
        /\ page' = [page EXCEPT !.refresh = call] /\ page.refresh.pc = "sent"
    BY DEF RefreshRead
  <1>2. call \in Calls  BY DEF IInv, Typed, Calls
  <1>3. /\ page' \in Pages /\ SamePage(page, page')
        /\ page'.refresh.pc = "read" /\ page'.refresh.answer = server
        /\ page'.current = page.current /\ page'.dropped = page.dropped
        /\ page'.queued = page.queued
    BY <1>1, <1>2 DEF IInv, Typed, Pages, SamePage
  <1>4. Typed'  BY <1>1, <1>3 DEF IInv, Typed
  <1>5. Bounded'
    <2>1. server.version <= server.version  BY Facts DEF IInv
    <2> QED  BY <1>1, <1>3, <2>1 DEF IInv, Bounded, SamePage
  <1>6. Phases'  BY <1>1, <1>3 DEF IInv, Phases, SamePage
  <1>7. InOrder'  BY <1>1, <1>3 DEF IInv, InOrder, Bounded, SamePage
  <1>8. NewsComes'  BY <1>1, <1>3 DEF IInv, NewsComes, SamePage
  <1>9. NotBack  BY <1>3, Facts DEF IInv, NotBack, SamePage
  <1> QED  BY <1>4, <1>5, <1>6, <1>7, <1>8, <1>9 DEF IInv

(* The end of a refresh on a page b that shows nothing older, knows of no newer
   version dropped than the server's, and is at the latest version, or has dropped
   news of it, if the answer was the latest.                                 *)
LEMMA RefreshEnds ==
    ASSUME IInv, NEW b \in Pages, page' = EndRefresh(b), page.refresh.pc # "idle",
           b.loading = page.loading, b.working = page.working, b.queued = page.queued,
           b.current = page.current, b.refresh = page.refresh,
           b.shown.version >= page.shown.version, b.shown.version <= server.version,
           b.dropped >= page.dropped, b.dropped <= server.version,
           page.working => b.shown = page.shown,
           load' = load, act' = act, server' = server, telling' = telling,
           events' = events, link' = link, untold' \in Versions,
           untold' <= server.version, untold' >= untold,
           \/ untold' = server.version \/ b.dropped = server.version
           \/ b.shown.version = server.version
           \/ page.refresh.pc = "read" /\ page.refresh.answer.version # server.version
    PROVE  IInv' /\ NotBack
  <1>1. server \in Details  BY DEF IInv, Typed
  <1>2. /\ page' \in Pages /\ SamePage(b, page')
        /\ page'.refresh \in {Idle, Sent}
        /\ page'.dropped \in {b.dropped, server.version}
        /\ b.working => page'.refresh = Idle /\ page'.current = b.current
        /\ b.queued => \/ page'.dropped = server.version
                       \/ page'.queued /\ b.working
                       \/ page'.refresh = Sent
        /\ page'.refresh = Sent => ~b.loading
    <2> DEFINE q == EndRefresh(b)
    <2>1. /\ q \in Pages /\ SamePage(b, q)
          /\ \/ ~b.queued /\ q.refresh = Idle /\ q.current = b.current /\ q.dropped = b.dropped
             \/ q.dropped = server.version /\ q.refresh = Idle /\ q.current = b.current
             \/ /\ q.queued = TRUE /\ b.working /\ q.refresh = Idle
                /\ q.current = b.current /\ q.dropped = b.dropped
             \/ q.refresh = Sent /\ ~b.loading /\ ~b.working /\ q.dropped = b.dropped
      BY <1>1, EndRefreshAsks
    <2> HIDE DEF q
    <2>2. page' = q /\ Idle.pc = "idle" /\ Sent.pc = "sent"  BY CallTypes DEF q
    <2> QED  BY <2>1, <2>2
  <1>3. Idle.pc = "idle" /\ Sent.pc = "sent"  BY CallTypes
  <1>4. /\ b.shown.version \in Nat /\ b.dropped \in Nat /\ untold' \in Nat
    BY DEF Pages, Details, Versions
  <1>5. Typed'  BY <1>2 DEF IInv, Typed
  <1>6. Bounded'
    <2>1. page'.dropped <= server.version  BY <1>2, Facts DEF IInv
    <2> QED  BY <1>2, <1>3, <2>1 DEF IInv, Bounded, SamePage
  <1>7. Phases'
    <2>1. page.loading = FALSE  BY Facts DEF IInv, Phases
    <2> QED  BY <1>2, <1>3, <2>1 DEF IInv, Phases, SamePage
  <1>8. InOrder'
    <2>1. act.pc = "committed" => b.shown = page.shown  BY DEF IInv, Phases
    <2> QED  BY <1>2, <1>3, <2>1 DEF IInv, InOrder, SamePage
  <1>9. NewsComes'
    <2> SUFFICES ASSUME page'.shown.version # server.version
                 PROVE  \/ server.version \in telling \/ server.version \in events
                        \/ link # "open" \/ page'.refresh.pc = "sent"
                        \/ page'.queued /\ page'.working
                        \/ untold' = server.version \/ page'.dropped = server.version
      BY DEF NewsComes
    <2>1. page'.shown = b.shown /\ page'.working = b.working  BY <1>2 DEF SamePage
    <2>2. page.shown.version # server.version
      BY <1>4, <2>1, Facts DEF IInv
    <2>3. CASE untold = server.version
      BY <1>4, <2>3, Facts DEF IInv
    <2>4. CASE page.dropped = server.version
      <3>1. b.dropped = server.version  BY <1>4, <2>4, Facts DEF IInv
      <3> QED  BY <1>2, <3>1
    <2>5. CASE page.queued
      BY <1>2, <1>3, <2>1, <2>5
    <2>6. CASE \/ page.refresh.pc = "sent"
               \/ page.refresh.pc = "read" /\ page.refresh.answer.version = server.version
      BY <1>2, <2>1, <2>6
    <2> QED  BY <2>2, <2>3, <2>4, <2>5, <2>6 DEF IInv, NewsComes
  <1>10. NotBack  BY <1>2 DEF NotBack, SamePage
  <1> QED  BY <1>5, <1>6, <1>7, <1>8, <1>9, <1>10 DEF IInv

LEMMA RefreshAnsweredKeeps == IInv /\ RefreshAnswered => IInv' /\ NotBack
  <1> SUFFICES ASSUME IInv, RefreshAnswered PROVE IInv' /\ NotBack  OBVIOUS
  <1> DEFINE applied == [page EXCEPT !.shown = page.refresh.answer]
             refused == [page EXCEPT !.dropped = Latest(@, page.refresh.answer.version)]
             b == IF Applies(page) THEN applied ELSE refused
  <1>1. /\ server' = server /\ telling' = telling /\ link' = link /\ events' = events
        /\ load' = load /\ act' = act /\ untold' = untold
        /\ page.refresh.pc = "read" /\ page' = EndRefresh(b)
    BY DEF RefreshAnswered
  <1>2. /\ page \in Pages /\ untold \in Versions /\ untold <= server.version
        /\ page.dropped \in Versions /\ page.dropped <= server.version
        /\ page.refresh.answer \in Details /\ page.refresh.answer.version \in Versions
        /\ page.refresh.answer.version <= server.version
        /\ page.shown.version <= server.version
    BY <1>1, Facts DEF IInv, Typed, Bounded, Pages, Details
  <1>3. CASE Applies(page)
    <2>1. /\ applied \in Pages /\ applied.shown = page.refresh.answer
          /\ applied.loading = page.loading /\ applied.working = page.working
          /\ applied.queued = page.queued /\ applied.current = page.current
          /\ applied.refresh = page.refresh /\ applied.dropped = page.dropped
      BY <1>2 DEF Pages
    <2>2. page.shown.version <= page.refresh.answer.version /\ ~page.working
      BY <1>1, <1>3 DEF Applies, IInv, InOrder
    <2>3. page' = EndRefresh(applied)  BY <1>1, <1>3
    <2> HIDE DEF applied
    <2> QED  BY <1>1, <1>2, <2>1, <2>2, <2>3, RefreshEnds, Facts DEF IInv
  <1>4. CASE ~Applies(page)
    <2> DEFINE d == Latest(page.dropped, page.refresh.answer.version)
    <2>1. /\ d \in {page.dropped, page.refresh.answer.version}
          /\ d >= page.dropped /\ d >= page.refresh.answer.version
      BY <1>2, LatestType
    <2> HIDE DEF d
    <2>2. d \in Versions /\ d <= server.version  BY <1>2, <2>1
    <2>3. refused = [page EXCEPT !.dropped = d]  BY DEF d
    <2>4. /\ refused \in Pages /\ refused.shown = page.shown
          /\ refused.loading = page.loading /\ refused.working = page.working
          /\ refused.queued = page.queued /\ refused.current = page.current
          /\ refused.refresh = page.refresh /\ refused.dropped = d
      BY <1>2, <2>2, <2>3 DEF Pages
    <2>5. page' = EndRefresh(refused)  BY <1>1, <1>4
    <2>6. page.refresh.answer.version = server.version => d = server.version
      BY <1>2, <2>1, <2>2, Facts DEF IInv, Versions
    <2> HIDE DEF refused
    <2> QED  BY <1>1, <1>2, <2>1, <2>2, <2>4, <2>5, <2>6, RefreshEnds, Facts DEF IInv
  <1> QED  BY <1>3, <1>4

LEMMA RefreshFailsKeeps == IInv /\ RefreshFails => IInv' /\ NotBack
  <1> SUFFICES ASSUME IInv, RefreshFails PROVE IInv' /\ NotBack  OBVIOUS
  <1>1. /\ server' = server /\ telling' = telling /\ link' = link /\ events' = events
        /\ load' = load /\ act' = act /\ untold' = server.version
        /\ page.refresh.pc # "idle" /\ page' = EndRefresh(page)
    BY DEF RefreshFails
  <1>2. /\ page \in Pages /\ server.version \in Versions /\ untold <= server.version
        /\ page.dropped <= server.version /\ page.shown.version <= server.version
    BY DEF IInv, Typed, Bounded, Details
  <1> QED  BY <1>1, <1>2, RefreshEnds, Facts DEF IInv

-----------------------------------------------------------------------------
(* The load.                                                                 *)
LEMMA LoadReadKeeps == IInv /\ LoadRead => IInv' /\ NotBack
  <1> SUFFICES ASSUME IInv, LoadRead PROVE IInv' /\ NotBack  OBVIOUS
  <1>1. /\ server' = server /\ telling' = telling /\ link' = link /\ events' = events
        /\ page' = page /\ act' = act /\ untold' = untold
        /\ load.pc = "sent" /\ load'.pc = "read" /\ load'.answer = server
        /\ load' = [pc |-> "read", answer |-> server]
    BY DEF LoadRead
  <1>2. load' \in Calls  BY <1>1 DEF IInv, Typed, Calls
  <1>3. Typed'  BY <1>1, <1>2 DEF IInv, Typed
  <1>4. Bounded'
    <2>1. server.version <= server.version  BY Facts DEF IInv
    <2> QED  BY <1>1, <2>1 DEF IInv, Bounded
  <1>5. Phases' /\ InOrder' /\ NewsComes'
    BY <1>1 DEF IInv, Phases, InOrder, NewsComes
  <1>6. NotBack  BY <1>1, Facts DEF IInv, NotBack
  <1> QED  BY <1>3, <1>4, <1>5, <1>6 DEF IInv

LEMMA LoadEndsKeeps ==
    ASSUME IInv, load.pc # "idle", NEW d \in Details, LoadEnds(d),
           d.version <= server.version, d.version >= page.shown.version,
           untold' \in {untold, server.version}
    PROVE  IInv' /\ NotBack
  <1>1. /\ server' = server /\ telling' = telling /\ events' = events /\ act' = act
        /\ load' = Idle /\ page' = [page EXCEPT !.loading = FALSE, !.shown = d]
        /\ link' = link \/ link' = "connecting"
    BY DEF LoadEnds, Connected
  <1>2. /\ page' \in Pages /\ page'.loading = FALSE /\ page'.shown = d
        /\ page'.working = page.working /\ page'.refresh = page.refresh
        /\ page'.queued = page.queued /\ page'.current = page.current
        /\ page'.dropped = page.dropped
    BY <1>1 DEF IInv, Typed, Pages
  <1>3. Idle \in Calls /\ Idle.pc = "idle"  BY CallTypes
  <1>4. page.loading /\ page.refresh.pc = "idle" /\ ~page.working /\ act.pc = "idle"
    BY DEF IInv, Phases
  <1>5. /\ untold' \in Versions /\ untold' <= server.version
        /\ untold = server.version => untold' = server.version
    BY Facts DEF IInv, Typed, Bounded, Details
  <1>6. Typed'  BY <1>1, <1>2, <1>3, <1>5 DEF IInv, Typed
  <1>7. Bounded'  BY <1>1, <1>2, <1>3, <1>5 DEF IInv, Bounded
  <1>8. Phases'  BY <1>1, <1>2, <1>3, <1>4 DEF IInv, Phases
  <1>9. InOrder'  BY <1>1, <1>2, <1>4 DEF InOrder
  <1>10. NewsComes'
    <2>1. d.version \in Nat  BY DEF Details, Versions
    <2>2. page.shown.version = server.version => d.version = server.version
      BY <2>1, Facts DEF IInv
    <2> QED  BY <1>1, <1>2, <1>5, <2>2 DEF IInv, NewsComes
  <1>11. NotBack  BY <1>2 DEF NotBack
  <1> QED  BY <1>6, <1>7, <1>8, <1>9, <1>10, <1>11 DEF IInv

LEMMA LoadKeeps == IInv /\ (LoadRead \/ LoadAnswered \/ LoadFails) => IInv' /\ NotBack
  <1> SUFFICES ASSUME IInv, LoadRead \/ LoadAnswered \/ LoadFails PROVE IInv' /\ NotBack
    OBVIOUS
  <1>1. CASE LoadRead  BY <1>1, LoadReadKeeps
  <1>2. CASE LoadAnswered
    <2>1. load.pc = "read" /\ LoadEnds(load.answer) /\ untold' = untold
      BY <1>2 DEF LoadAnswered
    <2>2. page.shown.version = 0  BY <2>1 DEF IInv, Phases
    <2>3. /\ load.answer \in Details /\ load.answer.version <= server.version
          /\ load.answer.version >= page.shown.version
      BY <2>1, <2>2, Facts DEF IInv, Bounded
    <2> QED  BY <2>1, <2>3, LoadEndsKeeps
  <1>3. CASE LoadFails
    <2>1. load.pc # "idle" /\ LoadEnds(page.shown) /\ untold' = server.version
      BY <1>3 DEF LoadFails
    <2>2. /\ page.shown \in Details /\ page.shown.version <= server.version
          /\ page.shown.version >= page.shown.version
      BY Facts DEF IInv, Bounded
    <2> QED  BY <2>1, <2>2, LoadEndsKeeps
  <1> QED  BY <1>1, <1>2, <1>3

-----------------------------------------------------------------------------
(* The actions of the visitor.                                               *)
LEMMA ActStartType ==
    ASSUME NEW kind \in {"publish", "boost or claim"}, ActStart(kind)
    PROVE  act' \in Acts /\ act'.pc = "sent"
  BY CallTypes DEF ActStart, NoAct, Acts

LEMMA ActStartKeeps ==
    ASSUME IInv, NEW kind, ActStart(kind), act' \in Acts, act'.pc = "sent"
    PROVE  IInv' /\ NotBack
  <1>1. /\ server' = server /\ telling' = telling /\ link' = link /\ events' = events
        /\ load' = load /\ untold' = untold
        /\ page' = [page EXCEPT !.working = TRUE, !.current = FALSE]
        /\ ~page.loading /\ ~page.working
    BY DEF ActStart
  <1>2. /\ page' \in Pages /\ page'.loading = page.loading /\ page'.shown = page.shown
        /\ page'.working /\ ~page'.current
        /\ page'.refresh = page.refresh /\ (page'.queued <=> page.queued)
        /\ page'.dropped = page.dropped
    BY <1>1 DEF IInv, Typed, Pages
  <1>3. Typed'  BY <1>1, <1>2 DEF IInv, Typed
  <1>4. Bounded'  BY <1>1, <1>2 DEF IInv, Bounded
  <1>5. Phases'  BY <1>1, <1>2 DEF IInv, Phases
  <1>6. InOrder'  BY <1>2 DEF InOrder
  <1>7. NewsComes'  BY <1>1, <1>2 DEF IInv, NewsComes
  <1>8. NotBack  BY <1>2, Facts DEF IInv, NotBack
  <1> QED  BY <1>3, <1>4, <1>5, <1>6, <1>7, <1>8 DEF IInv

LEMMA ActCommitsKeeps == IInv /\ ActCommits => IInv' /\ NotBack
  <1> SUFFICES ASSUME IInv, ActCommits PROVE IInv' /\ NotBack  OBVIOUS
  <1>1. /\ page' = page /\ load' = load /\ link' = link /\ untold' = untold
        /\ Change(TRUE) /\ telling' = telling \union {server'.version}
        /\ act' = [act EXCEPT !.pc = "committed", !.answer = server'] /\ act.pc = "sent"
    BY DEF ActCommits
  <1>2. server' \in Details /\ server'.version = server.version + 1
    BY <1>1, Facts, BoundsAreNatural DEF Change, IInv, Typed, Details, Versions
  <1>3. server'.version \in Versions /\ server'.version \in Nat
    BY <1>2 DEF Details, Versions
  <1>4. act' \in Acts /\ act'.pc = "committed" /\ act'.answer = server'
    BY <1>1, <1>2 DEF IInv, Typed, Acts
  <1>5. Typed'  BY <1>1, <1>2, <1>3, <1>4 DEF IInv, Typed
  <1>6. Bounded'
    <2>1. ASSUME NEW v \in telling' PROVE v <= server'.version
      <3>1. CASE v \in telling
        <4>1. v \in Nat /\ v <= server.version  BY <3>1 DEF IInv, Typed, Bounded, Versions
        <4> QED  BY <1>2, <1>3, <4>1, Facts DEF IInv
      <3>2. CASE v = server'.version  BY <1>3, <3>2
      <3> QED  BY <1>1, <3>1, <3>2
    <2> QED  BY <1>1, <1>2, <1>3, <1>4, <2>1, Facts DEF IInv, Bounded
  <1>7. Phases'  BY <1>1, <1>4 DEF IInv, Phases
  <1>8. InOrder'  BY <1>1, <1>2, <1>4, Facts DEF IInv, InOrder, Bounded
  <1>9. NewsComes'  BY <1>1 DEF NewsComes
  <1>10. NotBack  BY <1>1, Facts DEF IInv, NotBack
  <1> QED  BY <1>5, <1>6, <1>7, <1>8, <1>9, <1>10 DEF IInv

(* The answer of an action: the page shows it, and is done or still at work.   *)
LEMMA EndActFields ==
    ASSUME NEW b \in Pages, server \in Details
    PROVE  /\ EndAct(b) \in Pages /\ EndAct(b).working = FALSE
           /\ EndAct(b).loading = b.loading /\ EndAct(b).shown = b.shown
           /\ EndAct(b).refresh = b.refresh /\ EndAct(b).queued = b.queued
           /\ EndAct(b).current = b.current
           /\ EndAct(b).dropped = IF b.queued THEN server.version ELSE b.dropped
  <1>1. server.version \in Versions  BY DEF Details
  <1> QED  BY <1>1 DEF EndAct, Pages

LEMMA AnswerKeeps ==
    ASSUME IInv, act.pc # "idle", NEW b \in Pages,
           \/ page' = EndAct(b) /\ act' = NoAct
           \/ page' = b /\ act' = [act EXCEPT !.pc = "after"],
           b.loading = page.loading, b.working = page.working, b.queued = page.queued,
           b.current = page.current, b.refresh = page.refresh, b.dropped = page.dropped,
           b.shown.version >= page.shown.version, b.shown.version <= server.version,
           load' = load, server' = server, telling' = telling, events' = events,
           link' = link, untold' = untold
    PROVE  IInv' /\ NotBack
  <1>1. /\ page.working /\ ~page.loading
        /\ page.refresh.pc # "idle" => ~page.current
        /\ page.refresh.pc \in {"idle", "sent", "read"} /\ server \in Details
    BY Facts DEF IInv, Phases, Typed
  <1> DEFINE e == EndAct(b)
  <1>2. /\ e \in Pages /\ e.working = FALSE
        /\ e.loading = b.loading /\ e.shown = b.shown
        /\ e.refresh = b.refresh /\ e.queued = b.queued /\ e.current = b.current
        /\ e.dropped = IF b.queued THEN server.version ELSE b.dropped
    BY <1>1, EndActFields
  <1> HIDE DEF e
  <1>3. \/ page' = e /\ act' = NoAct
        \/ page' = b /\ act' = [act EXCEPT !.pc = "after"]
    BY DEF e
  <1>4. /\ page' \in Pages /\ page'.loading = page.loading /\ page'.shown = b.shown
        /\ page'.refresh = page.refresh /\ page'.queued = page.queued
        /\ page'.current = page.current
        /\ \/ /\ page'.working = FALSE /\ act' = NoAct
              /\ page'.dropped = IF page.queued THEN server.version ELSE page.dropped
           \/ /\ page'.working = page.working /\ act' = [act EXCEPT !.pc = "after"]
              /\ page'.dropped = page.dropped
    <2>1. CASE page' = e /\ act' = NoAct  BY <1>2, <2>1
    <2>2. CASE page' = b /\ act' = [act EXCEPT !.pc = "after"]  BY <2>2
    <2> QED  BY <1>3, <2>1, <2>2
  <1>5. /\ act' \in Acts /\ act'.pc \in {"idle", "after"}
        /\ act' = NoAct => act'.pc = "idle"
        /\ act' = [act EXCEPT !.pc = "after"] => act'.pc = "after"
    <2>1. [act EXCEPT !.pc = "after"] \in Acts /\ [act EXCEPT !.pc = "after"].pc = "after"
      BY DEF IInv, Typed, Acts
    <2> QED  BY <1>4, <2>1, CallTypes
  <1>6. Typed'  BY <1>4, <1>5 DEF IInv, Typed
  <1>7. Bounded'
    <2>1. server.version <= server.version  BY Facts DEF IInv
    <2> QED  BY <1>4, <1>5, <2>1 DEF IInv, Bounded
  <1>8. Phases'  BY <1>1, <1>4, <1>5 DEF IInv, Phases
  <1>9. InOrder'  BY <1>1, <1>4, <1>5 DEF InOrder
  <1>10. NewsComes'
    <2> SUFFICES ASSUME page'.shown.version # server.version
                 PROVE  \/ server.version \in telling \/ server.version \in events
                        \/ link # "open" \/ page.refresh.pc = "sent"
                        \/ page.refresh.pc = "read" /\ page.refresh.answer.version = server.version
                        \/ page.queued /\ page'.working
                        \/ untold = server.version \/ page'.dropped = server.version
      BY <1>4 DEF NewsComes
    <2>1. page.shown.version # server.version
      BY <1>4, Facts DEF IInv, Pages, Details, Versions
    <2>2. NewsComes  BY DEF IInv
    <2> QED  BY <1>1, <1>4, <2>1, <2>2 DEF NewsComes
  <1>11. NotBack  BY <1>4 DEF NotBack
  <1> QED  BY <1>6, <1>7, <1>8, <1>9, <1>10, <1>11 DEF IInv

LEMMA ActAnsweredKeeps == IInv /\ ActAnswered => IInv' /\ NotBack
  <1> SUFFICES ASSUME IInv, ActAnswered PROVE IInv' /\ NotBack  OBVIOUS
  <1>1. /\ server' = server /\ telling' = telling /\ link' = link /\ events' = events
        /\ load' = load /\ untold' = untold /\ act.pc = "committed"
    BY DEF ActAnswered
  <1>2. PICK answer \in {act.answer, server} :
           LET applied == [page EXCEPT !.shown = answer]
           IN  IF act.kind = "publish"
                   THEN page' = EndAct(applied) /\ act' = NoAct
                   ELSE page' = applied /\ act' = [act EXCEPT !.pc = "after"]
    BY DEF ActAnswered
  <1> DEFINE b == [page EXCEPT !.shown = answer]
  <1>3. \/ page' = EndAct(b) /\ act' = NoAct
        \/ page' = b /\ act' = [act EXCEPT !.pc = "after"]
    BY <1>2
  <1>4. /\ answer \in Details /\ answer.version <= server.version
        /\ answer.version >= page.shown.version
    BY <1>1, <1>2, Facts DEF IInv, Typed, Bounded, InOrder
  <1>5. /\ b \in Pages /\ b.shown = answer
        /\ b.loading = page.loading /\ b.working = page.working /\ b.queued = page.queued
        /\ b.current = page.current /\ b.refresh = page.refresh /\ b.dropped = page.dropped
    BY <1>4 DEF IInv, Typed, Pages
  <1> HIDE DEF b
  <1> QED  BY <1>1, <1>3, <1>4, <1>5, AnswerKeeps

LEMMA ActOverKeeps == IInv /\ (ActEnds \/ ActRefused \/ ActFails) => IInv' /\ NotBack
  <1> SUFFICES ASSUME IInv, ActEnds \/ ActRefused \/ ActFails PROVE IInv' /\ NotBack
    OBVIOUS
  <1>1. /\ server' = server /\ telling' = telling /\ link' = link /\ events' = events
        /\ load' = load /\ untold' = untold /\ act.pc # "idle"
        /\ page' = EndAct(page) /\ act' = NoAct
    BY DEF ActEnds, ActRefused, ActFails
  <1>2. /\ page \in Pages /\ page.shown.version <= server.version
        /\ page.shown.version >= page.shown.version
    BY Facts DEF IInv, Typed, Bounded
  <1> QED  BY <1>1, <1>2, AnswerKeeps

-----------------------------------------------------------------------------
LEMMA NextKeeps == IInv /\ [Next]_vars => IInv' /\ (NotBack \/ UNCHANGED vars)
  <1> SUFFICES ASSUME IInv, [Next]_vars PROVE IInv' /\ (NotBack \/ UNCHANGED vars)
    OBVIOUS
  <1>1. CASE Streams  BY <1>1, StreamsKeep
  <1>2. CASE RefreshRead \/ RefreshAnswered \/ RefreshFails
    BY <1>2, RefreshReadKeeps, RefreshAnsweredKeeps, RefreshFailsKeeps
  <1>3. CASE LoadRead \/ LoadAnswered \/ LoadFails  BY <1>3, LoadKeeps
  <1>4. CASE ActAnswered \/ ActEnds \/ ActRefused \/ ActFails
    BY <1>4, ActAnsweredKeeps, ActOverKeeps
  <1>5. CASE ActCommits  BY <1>5, ActCommitsKeeps
  <1>6. CASE Telling \/ \E v \in telling : BroadcastFails(v)
    BY <1>6, TellingKeeps DEF Telling
  <1>7. CASE Others  BY <1>7, OthersKeep
  <1>8. CASE LinkDrops \/ Hide \/ Show \/ Unmount  BY <1>8, LinkKeeps
  <1>9. CASE \E kind \in {"publish", "boost or claim"} : ActStart(kind)
    BY <1>9, ActStartType, ActStartKeeps
  <1>10. CASE UNCHANGED vars
    BY <1>10 DEF vars, IInv, Typed, Bounded, Phases, InOrder, NewsComes
  <1> QED
    BY <1>1, <1>2, <1>3, <1>4, <1>5, <1>6, <1>7, <1>8, <1>9, <1>10
    DEF Next, Requests, Acting, Visitor, Faults

LEMMA Invariant == Spec => []IInv
  <1>1. IInv /\ [Next]_vars => IInv'  BY NextKeeps
  <1> QED  BY <1>1, InitHolds, PTL DEF Spec

-----------------------------------------------------------------------------
(* Whichever of a load, a refresh and an action's own answer arrives last, the page
   does not go back to an older state (useInviteActivity.ts:119-123).         *)
THEOREM NeverGoesBack == Spec => NeverBackwards
  <1>1. IInv /\ [Next]_vars => [page'.shown.version >= page.shown.version]_vars
    BY NextKeeps DEF NotBack
  <1> QED  BY <1>1, Invariant, PTL DEF Spec, NeverBackwards

(* A page with nothing under way shows the latest state, or news of it was lost
   or dropped (useInviteActivity.ts:112-133, activity_events.go:21-41).       *)
THEOREM QuietPageShowsLatest == Spec => []QuietPageIsFresh
  <1>1. IInv => QuietPageIsFresh
    <2> SUFFICES ASSUME IInv, Quiet, ~Fresh PROVE Excused
      BY DEF QuietPageIsFresh
    <2>1. NewsComes /\ page.shown.version # server.version  BY DEF IInv, Fresh
    <2>2. untold = server.version \/ page.dropped = server.version
      BY <2>1 DEF NewsComes, Quiet
    <2>3. page.shown.version < server.version
      BY <2>1, Facts DEF IInv, Bounded
    <2> QED  BY <2>2, <2>3, Facts DEF Excused, IInv
  <1> QED  BY <1>1, Invariant, PTL
=============================================================================
