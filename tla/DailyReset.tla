----------------------------- MODULE DailyReset -----------------------------
(* The daily reset (platform/platform.go): a scheduler that resets once a day and
   administrators who reset by hand, behind one mutex, against the clock, the
   marker in MySQL, the admin sessions and the list of lucky codes in Redis.

   Time is a tick of the day, and every date is kept as the number of days it
   lies back: 0 is today, Long is any longer ago, or never.                   *)
EXTENDS Integers, FiniteSets

CONSTANTS Tokens,       \* admin sessions; an administrator may reset by hand
          Codes,        \* lucky codes
          Scheduler, Nobody,
          TicksPerDay, ResetTick,  \* business.daily_reset_time, in ticks
          \* Bounds of a run:
          MaxSlow,      \* ticks that pass while a reset is under way
          MaxFaults,    \* calls that a store answers with an error
          MaxCrashes

Workers == {Scheduler} \union Tokens
Ticks   == 0 .. TicksPerDay - 1
Long    == 2
Ages    == 0 .. Long

ASSUME WorkersAreDistinct == Scheduler \notin Tokens /\ Nobody \notin Workers
ASSUME ClockAssumption    == TicksPerDay \in Nat \ {0} /\ ResetTick \in Ticks
ASSUME BoundsAreNatural   == MaxSlow \in Nat /\ MaxFaults \in Nat /\ MaxCrashes \in Nat

VARIABLES
    tick,       \* the server's clock
    lastRun,    \* MySQL: settings, daily_reset.last_run
    rows,       \* MySQL: lucky_codes
    queued,     \* Redis: lucky_queue
    session,    \* Redis: admin_session:{token}
    up,         \* whether the server runs
    mutex,      \* resetMu
    work,       \* the attempt of each worker
    wake,       \* the scheduler's timer: on which day it fires, in days from now
    pushing,    \* PublishLucky between its row and its push
    life,       \* history: what became of each session
    today,      \* history: today's scheduled resets: wipes, and those cut short
    torn,       \* history: a reset or a publish was cut short, no reset completed since
    slipped,    \* history: the clock moved between the scheduler's check and its plan
    spent       \* what the run has spent of its bounds

stores  == <<lastRun, rows, queued, session>>
history == <<life, today, torn, slipped>>
vars    == <<tick, stores, up, mutex, work, wake, pushing, history, spent>>

Keys == {"none", "live", "forever"}  \* "forever": without an expiry
Unheld == [t \in Tokens |-> "none"]

Stages == {"idle", "wait", "lock", "check", "scan", "load", "flush", "restore",
           "delete", "mark", "plan"}

(* Stages of a scheduled attempt that has fixed its date. *)
Dated == {"scan", "load", "flush", "restore", "delete", "mark"}

(* Stages in which the stores may be half reset. *)
Wiping == {"flush", "restore", "delete"}

Attempts == [pc : Stages, date : Ages, todo : SUBSET Tokens, snapshot : [Tokens -> Keys]]

Attempt(stage) == [pc |-> stage, date |-> 0, todo |-> {}, snapshot |-> Unheld]

At(w, stage)   == up /\ work[w].pc = stage
Become(w, a)   == work' = [work EXCEPT ![w] = a]
GoTo(w, stage) == Become(w, [work[w] EXCEPT !.pc = stage])

Spend(bound, max) == spent[bound] < max /\ spent' = [spent EXCEPT ![bound] = @ + 1]

(* A server that has just started, at any time, on any day. *)
Init ==
    /\ tick \in Ticks
    /\ lastRun \in Ages
    /\ rows = {} /\ queued = {} /\ pushing = {}
    /\ session = Unheld
    /\ up = TRUE
    /\ mutex = Nobody
    /\ work = [w \in Workers |-> Attempt(IF w = Scheduler THEN "lock" ELSE "idle")]
    /\ wake = 0
    /\ life = [t \in Tokens |-> "new"]
    /\ today = [wipes |-> 0, cuts |-> 0]
    /\ torn = FALSE /\ slipped = FALSE
    /\ spent = [slow |-> 0, faults |-> 0, crashes |-> 0]

-----------------------------------------------------------------------------
(* The clock. *)
Older(age) == IF age = Long THEN Long ELSE age + 1

TimerFires == wake < 0 \/ (wake = 0 /\ tick >= ResetTick)

(* A tick passes under way if the scheduler is not asleep, or is about to wake. *)
UnderWay == up /\ \/ \E w \in Workers : work[w].pc \notin {"idle", "wait"}
                  \/ work[Scheduler].pc = "wait" /\ TimerFires

Midnight ==
    /\ tick' = 0
    /\ lastRun' = Older(lastRun)
    /\ work' = [work EXCEPT ![Scheduler].date =
                   IF work[Scheduler].pc \in Dated THEN Older(@) ELSE @]
    /\ wake' = IF wake < 0 THEN wake ELSE wake - 1
    /\ today' = [wipes |-> 0, cuts |-> 0]

Tick ==
    /\ IF UnderWay THEN Spend("slow", MaxSlow) ELSE UNCHANGED spent
    /\ \/ tick = TicksPerDay - 1 /\ Midnight
       \/ /\ tick < TicksPerDay - 1
          /\ tick' = tick + 1
          /\ UNCHANGED <<lastRun, work, wake, today>>
    /\ slipped' = (slipped \/ work[Scheduler].pc \in Dated \union {"plan"})
    /\ UNCHANGED <<rows, queued, session, up, mutex, pushing, life, torn>>

-----------------------------------------------------------------------------
(* ResetDailyData: each call it makes to a store, its effect and what comes next. *)
Flushed        == session' = Unheld /\ queued' = {} /\ UNCHANGED <<lastRun, rows>>
Restored(w, t) == /\ session' = [session EXCEPT ![t] = work[w].snapshot[t]]
                  /\ UNCHANGED <<lastRun, rows, queued>>
Deleted        == rows' = {} /\ UNCHANGED <<lastRun, queued, session>>
Marked         == lastRun' = work[Scheduler].date /\ UNCHANGED <<rows, queued, session>>

(* Mutant: the tables first. *)
TablesFirst(stage) ==
    CASE stage = "load"    -> "delete"
      [] stage = "delete"  -> "flush"
      [] stage = "restore" -> "end"

(* "Redis goes first so an interrupted reset leaves the activity queues re-seeding". *)
After(stage) ==
    CASE stage = "load"    -> "flush"
      [] stage = "restore" -> "delete"
      [] stage = "delete"  -> "end"

(* Where an attempt of w leads once a stage is complete; w has left resetMu when a
   manual reset ends, the scheduler once it has recorded its own.               *)
Advance(w, stage, a) ==
    IF After(stage) # "end"
        THEN /\ Become(w, [a EXCEPT !.pc = After(stage)])
             /\ UNCHANGED <<mutex, torn>>
        ELSE /\ torn' = FALSE
             /\ IF w = Scheduler
                    THEN /\ Become(w, [Attempt("mark") EXCEPT !.date = a.date])
                         /\ UNCHANGED mutex
                    ELSE Become(w, Attempt("idle")) /\ mutex' = Nobody

(* Scheduled wipes count for the day whose reset they are. *)
CountWipe(w) == IF w = Scheduler /\ work[w].date = 0
                    THEN today' = [today EXCEPT !.wipes = @ + 1]
                    ELSE UNCHANGED today

(* Mutant: without the mutex. *)
LockFree(w) ==
    /\ At(w, "lock")
    /\ mutex' = w
    /\ GoTo(w, IF w = Scheduler THEN "check" ELSE "scan")
    /\ UNCHANGED <<tick, stores, up, wake, pushing, history, spent>>

(* resetMu.Lock. *)
Lock(w) ==
    /\ At(w, "lock")
    /\ mutex = Nobody
    /\ mutex' = w
    /\ GoTo(w, IF w = Scheduler THEN "check" ELSE "scan")
    /\ UNCHANGED <<tick, stores, up, wake, pushing, history, spent>>

(* Mutants: the marker is ignored; the reset time itself is too early. *)
DueUnmarked == tick >= ResetTick
DueLate     == tick > ResetTick /\ lastRun # 0

Due == tick >= ResetTick /\ lastRun # 0

(* ResetDailyDataIfDue up to the reset: the clock and the marker. *)
Check ==
    /\ At(Scheduler, "check")
    /\ \/ Due  /\ GoTo(Scheduler, "scan") /\ UNCHANGED mutex
       \/ ~Due /\ GoTo(Scheduler, "plan") /\ mutex' = Nobody
    /\ slipped' = FALSE
    /\ UNCHANGED <<tick, stores, up, wake, pushing, life, today, torn, spent>>

(* snapshotAdminSessions, the names of the keys. *)
Scan(w) ==
    /\ At(w, "scan")
    /\ LET found == {t \in Tokens : session[t] # "none"}
       IN Become(w, [work[w] EXCEPT !.todo = found,
                                    !.pc = IF found = {} THEN After("load") ELSE "load"])
    /\ UNCHANGED <<tick, stores, up, mutex, wake, pushing, history, spent>>

(* ... and the value and expiry of each. An expiry that rounds to nothing, or that
   passes between GET and TTL, is kept as none: the session is restored for good. *)
Load(w, t) ==
    /\ At(w, "load") /\ t \in work[w].todo
    /\ LET left == work[w].todo \ {t}
       IN \E kept \in {session[t]} \union (IF session[t] = "live" THEN {"forever"} ELSE {}) :
              Become(w, [work[w] EXCEPT !.todo = left, !.snapshot[t] = kept,
                                        !.pc = IF left = {} THEN After("load") ELSE @])
    /\ \/ UNCHANGED <<session, life>>
       \/ /\ work'[w].snapshot[t] # session[t]
          /\ session' = [session EXCEPT ![t] = "none"]
          /\ life' = [life EXCEPT ![t] = "out"]
    /\ UNCHANGED <<tick, lastRun, rows, queued, up, mutex, wake, pushing,
                   today, torn, slipped, spent>>

Kept(w) == {t \in Tokens : work[w].snapshot[t] # "none"}

(* FLUSHDB. *)
Flush(w) ==
    /\ At(w, "flush")
    /\ Flushed
    /\ CountWipe(w)
    /\ IF Kept(w) = {}
           THEN Advance(w, "restore", work[w])
           ELSE /\ Become(w, [work[w] EXCEPT !.pc = "restore", !.todo = Kept(w)])
                /\ UNCHANGED <<mutex, torn>>
    /\ UNCHANGED <<tick, up, wake, pushing, life, slipped, spent>>

(* restoreAdminSessions, one key. *)
Restore(w, t) ==
    /\ At(w, "restore") /\ t \in work[w].todo
    /\ Restored(w, t)
    /\ LET a == [work[w] EXCEPT !.todo = @ \ {t}]
       IN IF a.todo = {}
              THEN Advance(w, "restore", [a EXCEPT !.snapshot = Unheld])
              ELSE Become(w, a) /\ UNCHANGED <<mutex, torn>>
    /\ UNCHANGED <<tick, up, wake, pushing, life, today, slipped, spent>>

(* The transaction that empties the daily tables. *)
Delete(w) ==
    /\ At(w, "delete")
    /\ Deleted
    /\ Advance(w, "delete", work[w])
    /\ UNCHANGED <<tick, up, wake, pushing, life, today, slipped, spent>>

(* markDailyResetDone, and the end of ResetDailyDataIfDue. *)
Mark ==
    /\ At(Scheduler, "mark")
    /\ Marked
    /\ Become(Scheduler, Attempt("plan")) /\ mutex' = Nobody
    /\ UNCHANGED <<tick, up, wake, pushing, life, today, torn, slipped, spent>>

(* nextDailyReset, from a second reading of the clock, and the timer it sets. *)
NextDailyReset == IF tick < ResetTick THEN 0 ELSE 1

Plan ==
    /\ At(Scheduler, "plan")
    /\ wake' = NextDailyReset
    /\ GoTo(Scheduler, "wait")
    /\ UNCHANGED <<tick, stores, up, mutex, pushing, history, spent>>

Wake ==
    /\ At(Scheduler, "wait") /\ TimerFires
    /\ wake' = 0
    /\ GoTo(Scheduler, "lock")
    /\ UNCHANGED <<tick, stores, up, mutex, pushing, history, spent>>

-----------------------------------------------------------------------------
(* A call to a store ends in an error, its effect taken or not. The worker leaves
   resetMu; the scheduler tries again after a minute.                            *)
Unsure(life0) == [t \in Tokens |-> IF life0[t] = "in" THEN "unsure" ELSE life0[t]]

(* Mutant: an error ends the scheduler. *)
FailedForGood(w) == Attempt("idle")

Failed(w) == IF w = Scheduler THEN Attempt("lock") ELSE Attempt("idle")

(* The scheduled reset of today wiped something, and is not recorded. *)
CountCut(w, wipes) ==
    today' = IF w = Scheduler /\ work[w].date = 0
                 THEN [wipes |-> today.wipes + wipes, cuts |-> today.cuts + 1]
                 ELSE today

FailBeforeWipe(w) ==
    /\ work[w].pc \in {"check", "scan", "load", "flush"}
    /\ UNCHANGED <<stores, life, today, torn>>

FailWiping(w) ==
    /\ \/ At(w, "flush") /\ Flushed /\ CountCut(w, 1)
       \/ At(w, "restore") /\ CountCut(w, 0)
             /\ \/ \E t \in work[w].todo : Restored(w, t)
                \/ UNCHANGED stores
       \/ At(w, "delete") /\ CountCut(w, 0) /\ (Deleted \/ UNCHANGED stores)
    /\ life' = IF work[w].pc = "delete" THEN life ELSE Unsure(life)
    /\ torn' = TRUE

FailMarking(w) ==
    /\ At(w, "mark")
    /\ \/ Marked /\ UNCHANGED today
       \/ UNCHANGED stores /\ CountCut(w, 0)
    /\ UNCHANGED <<life, torn>>

Fail(w) ==
    /\ up
    /\ FailBeforeWipe(w) \/ FailWiping(w) \/ FailMarking(w)
    /\ Spend("faults", MaxFaults)
    /\ Become(w, Failed(w)) /\ mutex' = Nobody
    /\ UNCHANGED <<tick, up, wake, pushing, slipped>>

(* The server stops anywhere: timers, mutex and requests are gone. *)
Crash ==
    /\ up /\ up' = FALSE
    /\ Spend("crashes", MaxCrashes)
    /\ work' = [w \in Workers |-> Attempt("idle")] /\ mutex' = Nobody /\ wake' = 0
    /\ pushing' = {}
    /\ life' = IF \E w \in Workers : At(w, "restore") THEN Unsure(life) ELSE life
    /\ torn' = (torn \/ pushing # {} \/ \E w \in Workers : work[w].pc \in Wiping)
    /\ IF work[Scheduler].pc \in {"restore", "delete", "mark"}
           THEN CountCut(Scheduler, 0) ELSE UNCHANGED today
    /\ slipped' = FALSE
    /\ UNCHANGED <<tick, stores>>

(* "restart: unless-stopped"; main starts the scheduler beside the HTTP server. *)
Start ==
    /\ ~up /\ up' = TRUE
    /\ GoTo(Scheduler, "lock")
    /\ UNCHANGED <<tick, stores, mutex, wake, pushing, history, spent>>

-----------------------------------------------------------------------------
(* What goes on meanwhile. *)

(* AdminLogin. What logs in while a snapshot is open is not in it. *)
Login(t) ==
    /\ up /\ life[t] = "new"
    /\ session' = [session EXCEPT ![t] = "live"]
    /\ life' = [life EXCEPT ![t] =
                  IF \E w \in Workers : work[w].pc \in {"load", "flush"} THEN "unsure" ELSE "in"]
    /\ UNCHANGED <<tick, lastRun, rows, queued, up, mutex, work, wake, pushing,
                   today, torn, slipped, spent>>

(* AdminLogout, and the end of the time to live. *)
SessionEnds(t) ==
    /\ session' = [session EXCEPT ![t] = "none"]
    /\ life' = [life EXCEPT ![t] = "out"]
    /\ UNCHANGED <<tick, lastRun, rows, queued, up, mutex, work, wake, pushing,
                   today, torn, slipped, spent>>

Logout(t) == up /\ session[t] # "none" /\ SessionEnds(t)
Expire(t) == session[t] = "live" /\ SessionEnds(t)

(* AuthenticateAdmin, and ResetDailyDataNow up to resetMu. *)
Manual(t) ==
    /\ At(t, "idle") /\ session[t] # "none"
    /\ GoTo(t, "lock")
    /\ UNCHANGED <<tick, stores, up, mutex, wake, pushing, history, spent>>

(* PublishLucky: the row, then the list. *)
Publish(c) ==
    /\ up /\ c \notin rows \union pushing
    /\ rows' = rows \union {c} /\ pushing' = pushing \union {c}
    /\ UNCHANGED <<tick, lastRun, queued, session, up, mutex, work, wake, history, spent>>

Push(c) ==
    /\ c \in pushing
    /\ pushing' = pushing \ {c} /\ queued' = queued \union {c}
    /\ UNCHANGED <<tick, lastRun, rows, session, up, mutex, work, wake, history, spent>>

-----------------------------------------------------------------------------
Step(w) ==
    \/ Scan(w)
    \/ \E t \in Tokens : Load(w, t) \/ Restore(w, t)
    \/ Flush(w) \/ Delete(w)

SchedulerStep == Check \/ Step(Scheduler) \/ Mark \/ Plan \/ Wake

Next ==
    \/ Tick \/ Crash \/ Start
    \/ SchedulerStep
    \/ \E t \in Tokens : Step(t) \/ Login(t) \/ Logout(t) \/ Expire(t) \/ Manual(t)
    \/ \E w \in Workers : Lock(w) \/ Fail(w)
    \/ \E c \in Codes : Publish(c) \/ Push(c)

Spec == Init /\ [][Next]_vars

(* Time goes on, the container is restarted, and every worker takes its steps. A
   worker gets the mutex however often others do: sync.Mutex starves no waiter.  *)
Fairness ==
    /\ SF_vars(Tick) /\ WF_vars(Start)
    /\ WF_vars(SchedulerStep)
    /\ \A t \in Tokens : WF_vars(Step(t))
    /\ \A w \in Workers : SF_vars(Lock(w))

FairSpec == Spec /\ Fairness

-----------------------------------------------------------------------------
TypeOK ==
    /\ tick \in Ticks /\ lastRun \in Ages /\ wake \in -1 .. 1
    /\ rows \subseteq Codes /\ queued \subseteq Codes /\ pushing \subseteq Codes
    /\ session \in [Tokens -> Keys]
    /\ life \in [Tokens -> {"new", "in", "unsure", "out"}]
    /\ up \in BOOLEAN /\ torn \in BOOLEAN /\ slipped \in BOOLEAN
    /\ mutex \in Workers \union {Nobody}
    /\ work \in [Workers -> Attempts]
    /\ today \in [wipes : Nat, cuts : Nat]
    /\ spent \in [slow : 0 .. MaxSlow, faults : 0 .. MaxFaults, crashes : 0 .. MaxCrashes]

(* Admin login sessions survive the flush, whoever resets and however resets follow
   on each other: once no reset is restoring, who logged in before it and has not
   left since has its session, unless a reset was cut short while they were away. *)
SessionsSurvive ==
    (\A w \in Workers : ~At(w, "restore")) =>
        \A t \in Tokens : life[t] = "in" => session[t] # "none"

(* A day is not wiped twice by the schedule: every wipe but one follows an attempt
   at that day's reset that was cut short before it was recorded.               *)
OncePerDay == today.wipes <= 1 + today.cuts

(* The scheduler does not sleep through a reset time: asleep until tomorrow after
   today's, today's reset is recorded, if the clock did not move during the attempt. *)
CaughtUp ==
    At(Scheduler, "wait") /\ ~TimerFires /\ tick >= ResetTick /\ ~slipped
        => lastRun = 0

(* A reset leaves no lucky code behind that is in its table and not in its list,
   where none would ever find it, whatever is published during the reset.       *)
NoCodeStranded ==
    ~torn /\ (\A w \in Workers : work[w].pc \notin Wiping) => rows \subseteq queued \union pushing

(* The data is reset day after day, whatever fails, stops or is reset by hand. *)
ResetsGoOn == []<>(lastRun = 0)

=============================================================================
