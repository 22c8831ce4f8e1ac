-------------------------- MODULE DailyResetProofs --------------------------
(* The theorems on DailyReset: its types, the admin sessions, the wipes of a day,
   the scheduler's plan and the lucky codes.                                   *)
EXTENDS DailyReset, TLAPS

pc(w) == work[w].pc

USE DEF At, Become, GoTo, pc

(* Stages under resetMu. *)
Held == {"check", "scan", "load", "flush", "restore", "delete", "mark"}

(* One worker at a time is under the mutex, only the scheduler looks at the clock
   and the marker, and none is at work while the server is down.               *)
Exclusive ==
    /\ \A w \in Workers : pc(w) \in Held => mutex = w
    /\ \A t \in Tokens : pc(t) \in {"idle", "lock"} \union (Held \ {"check", "mark"})
    /\ ~up => \A w \in Workers : pc(w) = "idle"

(* An attempt under way is not recorded, and is of today unless the clock moved. *)
Dates ==
    /\ pc(Scheduler) \in Dated => lastRun # 0
    /\ work[Scheduler].date # 0 => pc(Scheduler) \in Dated /\ slipped

(* One wipe may be without a cut: the one recorded, or the one under way. *)
Uncut == \/ lastRun = 0
         \/ pc(Scheduler) \in {"restore", "delete", "mark"} /\ work[Scheduler].date = 0

WipesCounted ==
    /\ today.wipes <= 1 + today.cuts
    /\ ~Uncut => today.wipes <= today.cuts

(* Today's reset is recorded when the scheduler plans for tomorrow. *)
Planned ==
    /\ pc(Scheduler) = "plan" /\ ~slipped /\ tick >= ResetTick => lastRun = 0
    /\ pc(Scheduler) = "wait" /\ ~slipped /\ wake > 0 => lastRun = 0

(* Who is logged in has a session or is about to get it back, and is in the
   snapshot that is being taken, or about to get into it.                      *)
Logged(t) ==
    /\ session[t] # "none" \/ \E w \in Workers : pc(w) = "restore" /\ t \in work[w].todo
    /\ \A w \in Workers : pc(w) \in {"load", "flush"} =>
           (pc(w) = "load" /\ t \in work[w].todo) \/ work[w].snapshot[t] # "none"

Sessions ==
    /\ \A t \in Tokens : life[t] = "in" => Logged(t)
    /\ \A w \in Workers : pc(w) = "restore" => \A t \in work[w].todo : work[w].snapshot[t] # "none"

(* Rows are without an entry only between the flush and the end of a reset. *)
Listed ==
    \/ torn \/ rows \subseteq queued \union pushing
    \/ \E w \in Workers : pc(w) \in {"restore", "delete"}

IInv == TypeOK /\ Exclusive /\ Dates /\ WipesCounted /\ Planned /\ Sessions /\ Listed

-----------------------------------------------------------------------------
(* What the records are made of. *)
LEMMA Workplace ==
    /\ Scheduler \in Workers /\ Tokens \subseteq Workers
    /\ \A w \in Workers : w # Scheduler => w \in Tokens
    /\ Nobody \notin Workers /\ Scheduler \notin Tokens
  BY WorkersAreDistinct DEF Workers

LEMMA AttemptTypes ==
    \A stage \in Stages : /\ Attempt(stage) \in Attempts
                          /\ Attempt(stage).pc = stage /\ Attempt(stage).date = 0
                          /\ Attempt(stage).todo = {}
  BY DEF Attempt, Attempts, Ages, Long, Unheld, Keys

LEMMA OlderType == ASSUME NEW age \in Ages PROVE Older(age) \in Ages /\ Older(age) # 0
  BY DEF Older, Ages, Long

(* What one worker does to its attempt.                                       *)
LEMMA OneWorker ==
    ASSUME TypeOK, NEW w \in Workers, NEW a \in Attempts, Become(w, a)
    PROVE  /\ work' \in [Workers -> Attempts]
           /\ work'[w] = a
           /\ \A v \in Workers \ {w} : work'[v] = work[v]
  BY DEF TypeOK

LEMMA AttemptType ==
    ASSUME TypeOK, NEW w \in Workers
    PROVE  /\ work[w] \in Attempts /\ work[w].pc \in Stages /\ work[w].date \in Ages
           /\ work[w].todo \subseteq Tokens /\ work[w].snapshot \in [Tokens -> Keys]
  BY DEF TypeOK, Attempts

LEMMA StageType ==
    ASSUME TypeOK, NEW w \in Workers, NEW stage \in Stages
    PROVE  [work[w] EXCEPT !.pc = stage] \in Attempts
  BY AttemptType DEF Attempts

LEMMA RecordTypes ==
    ASSUME NEW a \in Attempts, NEW stage \in Stages, NEW left \in SUBSET Tokens
    PROVE  /\ [a EXCEPT !.todo = left] \in Attempts
           /\ [a EXCEPT !.todo = left, !.pc = stage] \in Attempts
           /\ [a EXCEPT !.pc = stage, !.todo = left] \in Attempts
           /\ [a EXCEPT !.snapshot = Unheld] \in Attempts
  <1>1. Unheld \in [Tokens -> Keys]  BY DEF Unheld, Keys
  <1>2. [a EXCEPT !.todo = left] \in Attempts  BY DEF Attempts
  <1>3. [a EXCEPT !.todo = left, !.pc = stage] \in Attempts  BY DEF Attempts
  <1>4. [a EXCEPT !.pc = stage, !.todo = left] \in Attempts  BY DEF Attempts
  <1>5. [a EXCEPT !.snapshot = Unheld] \in Attempts  BY <1>1 DEF Attempts
  <1> QED  BY <1>2, <1>3, <1>4, <1>5

LEMMA SnapshotTypes ==
    ASSUME NEW a \in Attempts, NEW stage \in Stages, NEW left \in SUBSET Tokens,
           NEW t \in Tokens, NEW kept \in Keys
    PROVE  [a EXCEPT !.todo = left, !.snapshot[t] = kept, !.pc = stage] \in Attempts
  BY DEF Attempts

-----------------------------------------------------------------------------
LEMMA AdvanceType ==
    ASSUME TypeOK, NEW w \in Workers, NEW stage \in {"load", "restore", "delete"},
           NEW a \in Attempts, Advance(w, stage, a)
    PROVE  /\ work' \in [Workers -> Attempts]
           /\ mutex' \in Workers \union {Nobody} /\ torn' \in BOOLEAN
  <1>1. CASE After(stage) # "end"
    <2>1. After(stage) \in Stages  BY <1>1 DEF After, Stages
    <2>2. [a EXCEPT !.pc = After(stage)] \in Attempts  BY <2>1 DEF Attempts
    <2>3. Become(w, [a EXCEPT !.pc = After(stage)]) /\ UNCHANGED <<mutex, torn>>
      BY <1>1 DEF Advance
    <2> QED  BY <2>2, <2>3, OneWorker DEF TypeOK
  <1>2. CASE After(stage) = "end" /\ w = Scheduler
    <2>1. [Attempt("mark") EXCEPT !.date = a.date] \in Attempts
      BY AttemptTypes DEF Attempts, Stages
    <2>2. Become(w, [Attempt("mark") EXCEPT !.date = a.date]) /\ mutex' = mutex /\ torn' = FALSE
      BY <1>2 DEF Advance
    <2> QED  BY <2>1, <2>2, OneWorker DEF TypeOK
  <1>3. CASE After(stage) = "end" /\ w # Scheduler
    <2>1. Become(w, Attempt("idle")) /\ mutex' = Nobody /\ torn' = FALSE
      BY <1>3 DEF Advance
    <2>2. Attempt("idle") \in Attempts  BY AttemptTypes DEF Stages
    <2> QED  BY <2>1, <2>2, OneWorker
  <1> QED  BY <1>1, <1>2, <1>3

LEMMA TypeInit == Init => TypeOK
  <1> SUFFICES ASSUME Init PROVE TypeOK  OBVIOUS
  <1>1. \A w \in Workers : Attempt(IF w = Scheduler THEN "lock" ELSE "idle") \in Attempts
    BY AttemptTypes DEF Stages
  <1>2. work \in [Workers -> Attempts]  BY <1>1 DEF Init
  <1>3. session \in [Tokens -> Keys]  BY DEF Init, Unheld, Keys
  <1>4. spent \in [slow : 0 .. MaxSlow, faults : 0 .. MaxFaults, crashes : 0 .. MaxCrashes]
    BY BoundsAreNatural DEF Init
  <1>5. life \in [Tokens -> {"new", "in", "unsure", "out"}] /\ today \in [wipes : Nat, cuts : Nat]
    BY DEF Init
  <1>6. wake \in -1 .. 1 /\ mutex \in Workers \union {Nobody}
    BY DEF Init
  <1> QED  BY <1>2, <1>3, <1>4, <1>5, <1>6 DEF Init, TypeOK

LEMMA SpendType ==
    ASSUME TypeOK, NEW bound \in {"slow", "faults", "crashes"}, NEW max,
           max = (CASE bound = "slow" -> MaxSlow [] bound = "faults" -> MaxFaults
                    [] bound = "crashes" -> MaxCrashes),
           Spend(bound, max)
    PROVE  spent' \in [slow : 0 .. MaxSlow, faults : 0 .. MaxFaults, crashes : 0 .. MaxCrashes]
  BY BoundsAreNatural DEF TypeOK, Spend

LEMMA UnsureType ==
    ASSUME TypeOK
    PROVE  /\ Unsure(life) \in [Tokens -> {"new", "in", "unsure", "out"}]
           /\ \A t \in Tokens : Unsure(life)[t] # "in"
  BY DEF TypeOK, Unsure

LEMMA TickType ==
    ASSUME TypeOK, Tick
    PROVE  TypeOK'
  <1>1. spent' \in [slow : 0 .. MaxSlow, faults : 0 .. MaxFaults, crashes : 0 .. MaxCrashes]
    <2>1. CASE UnderWay  BY <2>1, SpendType DEF Tick
    <2>2. CASE ~UnderWay  BY <2>2 DEF Tick, TypeOK
    <2> QED  BY <2>1, <2>2
  <1>2. slipped' \in BOOLEAN  BY DEF Tick, TypeOK
  <1>3. ASSUME Midnight
        PROVE  /\ tick' \in Ticks /\ lastRun' \in Ages /\ wake' \in -1 .. 1
               /\ work' \in [Workers -> Attempts] /\ today' \in [wipes : Nat, cuts : Nat]
    <2>1. tick' \in Ticks  BY <1>3, ClockAssumption DEF Midnight, Ticks
    <2>2. lastRun' \in Ages  BY <1>3, OlderType DEF Midnight, TypeOK
    <2>3. wake' \in -1 .. 1  BY <1>3 DEF Midnight, TypeOK
    <2>4. work' \in [Workers -> Attempts]
      <3>1. work[Scheduler].date \in Ages /\ work[Scheduler] \in Attempts
        BY AttemptType, Workplace
      <3>2. \A d \in Ages : [work[Scheduler] EXCEPT !.date = d] \in Attempts
        BY <3>1 DEF Attempts
      <3>3. Older(work[Scheduler].date) \in Ages  BY <3>1, OlderType
      <3>4. PICK d \in Ages : work' = [work EXCEPT ![Scheduler].date = d]
        BY <1>3, <3>1, <3>3 DEF Midnight
      <3> QED  BY <3>2, <3>4, Workplace DEF TypeOK
    <2>5. today' \in [wipes : Nat, cuts : Nat]  BY <1>3 DEF Midnight
    <2> QED  BY <2>1, <2>2, <2>3, <2>4, <2>5
  <1>4. ASSUME tick < TicksPerDay - 1, tick' = tick + 1, UNCHANGED <<lastRun, work, wake, today>>
        PROVE  /\ tick' \in Ticks /\ lastRun' \in Ages /\ wake' \in -1 .. 1
               /\ work' \in [Workers -> Attempts] /\ today' \in [wipes : Nat, cuts : Nat]
    BY <1>4, ClockAssumption DEF TypeOK, Ticks
  <1> QED  BY <1>1, <1>2, <1>3, <1>4 DEF Tick, TypeOK

(* The steps of a worker: what each makes of its attempt.                     *)
LEMMA WorkerTypes ==
    ASSUME TypeOK, NEW w \in Workers, Step(w) \/ Lock(w) \/ (w = Scheduler /\ SchedulerStep)
    PROVE  TypeOK'
  <1> USE AttemptType, Workplace
  <1>1. CASE Lock(w)
    <2>1. [work[w] EXCEPT !.pc = IF w = Scheduler THEN "check" ELSE "scan"] \in Attempts
      BY StageType DEF Stages
    <2>2. work' \in [Workers -> Attempts]  BY <1>1, <2>1, OneWorker DEF Lock
    <2> QED  BY <1>1, <2>2 DEF Lock, TypeOK, stores, history
  <1>2. CASE Scan(w)
    <2>1. PICK found \in SUBSET Tokens :
            Become(w, [work[w] EXCEPT !.todo = found,
                                      !.pc = IF found = {} THEN After("load") ELSE "load"])
      BY <1>2 DEF Scan
    <2>2. [work[w] EXCEPT !.todo = found,
                          !.pc = IF found = {} THEN After("load") ELSE "load"] \in Attempts
      <3>1. (IF found = {} THEN After("load") ELSE "load") \in Stages  BY DEF Stages, After
      <3> QED  BY <3>1, RecordTypes
    <2>3. work' \in [Workers -> Attempts]  BY <2>1, <2>2, OneWorker
    <2> QED  BY <1>2, <2>3 DEF Scan, TypeOK, stores, history
  <1>3. ASSUME NEW t \in Tokens, Load(w, t)
        PROVE  TypeOK'
    <2>1. PICK kept \in Keys :
            Become(w, [work[w] EXCEPT !.todo = work[w].todo \ {t}, !.snapshot[t] = kept,
                          !.pc = IF work[w].todo \ {t} = {} THEN After("load") ELSE @])
      BY <1>3 DEF Load, TypeOK, Keys
    <2>2. [work[w] EXCEPT !.todo = work[w].todo \ {t}, !.snapshot[t] = kept,
                          !.pc = IF work[w].todo \ {t} = {} THEN After("load") ELSE @] \in Attempts
      <3>1. (IF work[w].todo \ {t} = {} THEN After("load") ELSE work[w].pc) \in Stages
        BY DEF Stages, After
      <3> QED  BY <3>1, SnapshotTypes
    <2>3. work' \in [Workers -> Attempts]  BY <2>1, <2>2, OneWorker
    <2>4. session' \in [Tokens -> Keys] /\ life' \in [Tokens -> {"new", "in", "unsure", "out"}]
      BY <1>3 DEF Load, TypeOK, Keys
    <2> QED  BY <1>3, <2>3, <2>4 DEF Load, TypeOK
  <1>4. CASE Flush(w)
    <2>1. session' \in [Tokens -> Keys] /\ queued' \subseteq Codes
      BY <1>4 DEF Flush, Flushed, Unheld, Keys
    <2>2. today' \in [wipes : Nat, cuts : Nat]  BY <1>4 DEF Flush, CountWipe, TypeOK
    <2>3. /\ work' \in [Workers -> Attempts]
          /\ mutex' \in Workers \union {Nobody} /\ torn' \in BOOLEAN
      <3>1. CASE Kept(w) = {}
        <4>1. Advance(w, "restore", work[w])  BY <1>4, <3>1 DEF Flush
        <4> QED  BY <4>1, AdvanceType
      <3>2. CASE Kept(w) # {}
        <4>1. [work[w] EXCEPT !.pc = "restore", !.todo = Kept(w)] \in Attempts
          BY RecordTypes DEF Stages, Kept
        <4> QED  BY <1>4, <3>2, <4>1, OneWorker DEF Flush, TypeOK
      <3> QED  BY <3>1, <3>2
    <2> QED  BY <1>4, <2>1, <2>2, <2>3 DEF Flush, Flushed, TypeOK
  <1>5. ASSUME NEW t \in Tokens, Restore(w, t)
        PROVE  TypeOK'
    <2>1. session' \in [Tokens -> Keys]
      BY <1>5 DEF Restore, Restored, TypeOK
    <2> DEFINE a == [work[w] EXCEPT !.todo = @ \ {t}]
    <2>2. a \in Attempts /\ [a EXCEPT !.snapshot = Unheld] \in Attempts
      BY RecordTypes DEF Keys
    <2>3. /\ work' \in [Workers -> Attempts]
          /\ mutex' \in Workers \union {Nobody} /\ torn' \in BOOLEAN
      <3>1. CASE a.todo = {}
        <4>1. Advance(w, "restore", [a EXCEPT !.snapshot = Unheld])
          BY <1>5, <3>1 DEF Restore
        <4> QED  BY <2>2, <4>1, AdvanceType
      <3>2. CASE a.todo # {}
        <4>1. Become(w, a) /\ UNCHANGED <<mutex, torn>>  BY <1>5, <3>2 DEF Restore
        <4> QED  BY <2>2, <4>1, OneWorker DEF TypeOK
      <3> QED  BY <3>1, <3>2
    <2> QED  BY <1>5, <2>1, <2>3 DEF Restore, Restored, TypeOK
  <1>6. CASE Delete(w)
    <2>1. Advance(w, "delete", work[w])  BY <1>6 DEF Delete
    <2>2. /\ work' \in [Workers -> Attempts]
          /\ mutex' \in Workers \union {Nobody} /\ torn' \in BOOLEAN
      BY <2>1, AdvanceType
    <2> QED  BY <1>6, <2>2 DEF Delete, Deleted, TypeOK
  <1>7. CASE w = Scheduler /\ Check
    <2>1. [work[w] EXCEPT !.pc = "scan"] \in Attempts /\ [work[w] EXCEPT !.pc = "plan"] \in Attempts
      BY StageType DEF Stages
    <2>2. work' \in [Workers -> Attempts] /\ mutex' \in Workers \union {Nobody}
      BY <1>7, <2>1, OneWorker DEF Check, TypeOK
    <2> QED  BY <1>7, <2>2 DEF Check, TypeOK, stores
  <1>8. CASE w = Scheduler /\ Mark
    <2>1. Attempt("plan") \in Attempts  BY AttemptTypes DEF Stages
    <2>2. work' \in [Workers -> Attempts]  BY <1>8, <2>1, OneWorker DEF Mark
    <2> QED  BY <1>8, <2>2 DEF Mark, Marked, TypeOK
  <1>9. CASE w = Scheduler /\ (Plan \/ Wake)
    <2>1. [work[w] EXCEPT !.pc = "wait"] \in Attempts /\ [work[w] EXCEPT !.pc = "lock"] \in Attempts
      BY StageType DEF Stages
    <2>2. work' \in [Workers -> Attempts]  BY <1>9, <2>1, OneWorker DEF Plan, Wake
    <2> QED  BY <1>9, <2>2 DEF Plan, Wake, NextDailyReset, TypeOK, stores, history
  <1> QED
    BY <1>1, <1>2, <1>3, <1>4, <1>5, <1>6, <1>7, <1>8, <1>9 DEF Step, SchedulerStep

LEMMA CountCutType ==
    ASSUME TypeOK, NEW w, NEW wipes \in Nat, CountCut(w, wipes)
    PROVE  today' \in [wipes : Nat, cuts : Nat]
  BY DEF CountCut, TypeOK

LEMMA FailTypes ==
    ASSUME TypeOK, NEW w \in Workers, Fail(w)
    PROVE  TypeOK'
  <1>1. Failed(w) \in Attempts  BY AttemptTypes DEF Failed, Stages
  <1>2. work' \in [Workers -> Attempts]  BY <1>1, OneWorker DEF Fail
  <1>3. spent' \in [slow : 0 .. MaxSlow, faults : 0 .. MaxFaults, crashes : 0 .. MaxCrashes]
    BY SpendType DEF Fail
  <1>4. /\ lastRun' \in Ages /\ rows' \subseteq Codes /\ queued' \subseteq Codes
        /\ session' \in [Tokens -> Keys] /\ torn' \in BOOLEAN
        /\ life' \in [Tokens -> {"new", "in", "unsure", "out"}]
        /\ today' \in [wipes : Nat, cuts : Nat]
    <2> USE AttemptType, Workplace
    <2>1. CASE FailBeforeWipe(w)  BY <2>1 DEF FailBeforeWipe, stores, TypeOK
    <2>2. CASE FailWiping(w)
      <3>1. torn' \in BOOLEAN /\ life' \in [Tokens -> {"new", "in", "unsure", "out"}]
        BY <2>2, UnsureType DEF FailWiping, TypeOK
      <3>2. today' \in [wipes : Nat, cuts : Nat]  BY <2>2, CountCutType DEF FailWiping
      <3>3. \/ Flushed \/ Deleted \/ UNCHANGED stores \/ \E t \in Tokens : Restored(w, t)
        BY <2>2 DEF FailWiping
      <3>4. /\ lastRun' \in Ages /\ rows' \subseteq Codes /\ queued' \subseteq Codes
            /\ session' \in [Tokens -> Keys]
        BY <3>3 DEF Flushed, Deleted, Restored, stores, TypeOK, Unheld, Keys
      <3> QED  BY <3>1, <3>2, <3>4
    <2>3. CASE FailMarking(w)
      <3>1. today' \in [wipes : Nat, cuts : Nat]  BY <2>3, CountCutType DEF FailMarking, TypeOK
      <3> QED  BY <2>3, <3>1 DEF FailMarking, Marked, stores, TypeOK
    <2> QED  BY <2>1, <2>2, <2>3 DEF Fail
  <1> QED  BY <1>2, <1>3, <1>4 DEF Fail, TypeOK

LEMMA CrashTypes ==
    ASSUME TypeOK, Crash
    PROVE  TypeOK'
  <1>1. work' \in [Workers -> Attempts]  BY AttemptTypes DEF Crash, Stages
  <1>2. spent' \in [slow : 0 .. MaxSlow, faults : 0 .. MaxFaults, crashes : 0 .. MaxCrashes]
    BY SpendType DEF Crash
  <1>3. life' \in [Tokens -> {"new", "in", "unsure", "out"}] /\ torn' \in BOOLEAN
    BY UnsureType DEF Crash, TypeOK
  <1>4. today' \in [wipes : Nat, cuts : Nat]  BY CountCutType DEF Crash, TypeOK
  <1>5. /\ mutex' \in Workers \union {Nobody} /\ wake' \in -1 .. 1 /\ up' \in BOOLEAN
        /\ pushing' \subseteq Codes /\ slipped' \in BOOLEAN
    <2>1. mutex' = Nobody /\ wake' = 0 /\ up' = FALSE /\ pushing' = {} /\ slipped' = FALSE
      BY DEF Crash
    <2>2. mutex' \in Workers \union {Nobody} /\ pushing' \subseteq Codes  BY <2>1
    <2>3. wake' \in -1 .. 1  BY <2>1
    <2>4. up' \in BOOLEAN  BY <2>1
    <2>5. slipped' \in BOOLEAN  BY <2>1
    <2> QED  BY <2>2, <2>3, <2>4, <2>5
  <1>6. UNCHANGED <<tick, lastRun, rows, queued, session>>  BY DEF Crash, stores
  <1> QED  BY <1>1, <1>2, <1>3, <1>4, <1>5, <1>6 DEF TypeOK

LEMMA OthersTypes ==
    ASSUME TypeOK,
           \/ Start
           \/ \E t \in Tokens : Login(t) \/ Logout(t) \/ Expire(t) \/ Manual(t)
           \/ \E c \in Codes : Publish(c) \/ Push(c)
    PROVE  TypeOK'
  <1>1. CASE Start
    <2>1. [work[Scheduler] EXCEPT !.pc = "lock"] \in Attempts  BY StageType, Workplace DEF Stages
    <2>2. work' \in [Workers -> Attempts]  BY <1>1, <2>1, OneWorker, Workplace DEF Start
    <2> QED  BY <1>1, <2>2 DEF Start, TypeOK, stores, history
  <1>2. ASSUME NEW t \in Tokens, Manual(t)
        PROVE  TypeOK'
    <2>1. t \in Workers /\ [work[t] EXCEPT !.pc = "lock"] \in Attempts
      BY StageType, Workplace DEF Stages
    <2>2. work' \in [Workers -> Attempts]  BY <1>2, <2>1, OneWorker DEF Manual
    <2> QED  BY <1>2, <2>2 DEF Manual, TypeOK, stores, history
  <1>3. ASSUME NEW t \in Tokens, Login(t) \/ Logout(t) \/ Expire(t)
        PROVE  TypeOK'
    BY <1>3 DEF Login, Logout, Expire, SessionEnds, TypeOK, Keys
  <1>4. ASSUME NEW c \in Codes, Publish(c) \/ Push(c)
        PROVE  TypeOK'
    BY <1>4 DEF Publish, Push, TypeOK, history
  <1> QED  BY <1>1, <1>2, <1>3, <1>4

LEMMA TypeStep == ASSUME TypeOK, [Next]_vars PROVE TypeOK'
  <1>1. CASE UNCHANGED vars  BY <1>1 DEF vars, stores, history, TypeOK
  <1>2. CASE Next
    BY <1>2, TickType, WorkerTypes, FailTypes, CrashTypes, OthersTypes, Workplace DEF Next
  <1> QED  BY <1>1, <1>2

-----------------------------------------------------------------------------
(* What a step of a reset does to the attempts, the mutex and the schedule.    *)
LEMMA AdvanceMoves ==
    ASSUME TypeOK, NEW w \in Workers, NEW stage \in {"restore", "delete"},
           NEW a \in Attempts, Advance(w, stage, a)
    PROVE  /\ \A v \in Workers \ {w} : work'[v] = work[v]
           /\ stage = "restore" => /\ work'[w] = [a EXCEPT !.pc = "delete"]
                                   /\ UNCHANGED <<mutex, torn>>
           /\ stage = "delete" => torn' = FALSE
           /\ stage = "delete" /\ w = Scheduler =>
                  work'[w].pc = "mark" /\ work'[w].date = a.date /\ mutex' = mutex
           /\ stage = "delete" /\ w # Scheduler =>
                  work'[w].pc = "idle" /\ mutex' = Nobody
  <1>1. CASE stage = "restore"
    <2>1. Become(w, [a EXCEPT !.pc = "delete"]) /\ UNCHANGED <<mutex, torn>>
      BY <1>1 DEF Advance, After
    <2>2. [a EXCEPT !.pc = "delete"] \in Attempts  BY DEF Attempts, Stages
    <2> QED  BY <1>1, <2>1, <2>2, OneWorker
  <1>2. CASE stage = "delete" /\ w = Scheduler
    <2>1. Become(w, [Attempt("mark") EXCEPT !.date = a.date]) /\ mutex' = mutex /\ torn' = FALSE
      BY <1>2 DEF Advance, After
    <2>2. [Attempt("mark") EXCEPT !.date = a.date] \in Attempts
      BY AttemptTypes DEF Attempts, Stages
    <2>3. work'[w] = [Attempt("mark") EXCEPT !.date = a.date]
          /\ \A v \in Workers \ {w} : work'[v] = work[v]
      BY <2>1, <2>2, OneWorker
    <2>4. [Attempt("mark") EXCEPT !.date = a.date].pc = "mark"
          /\ [Attempt("mark") EXCEPT !.date = a.date].date = a.date
      BY DEF Attempt
    <2> QED  BY <1>2, <2>1, <2>3, <2>4
  <1>3. CASE stage = "delete" /\ w # Scheduler
    <2>1. Become(w, Attempt("idle")) /\ mutex' = Nobody /\ torn' = FALSE
      BY <1>3 DEF Advance, After
    <2>2. Attempt("idle") \in Attempts /\ Attempt("idle").pc = "idle"
      BY AttemptTypes DEF Stages
    <2> QED  BY <1>3, <2>1, <2>2, OneWorker
  <1> QED  BY <1>1, <1>2, <1>3

Resetting == {"scan", "load", "flush", "restore", "delete"}

LEMMA StepMoves ==
    ASSUME TypeOK, NEW w \in Workers, Step(w)
    PROVE  /\ up /\ pc(w) \in Resetting
           /\ \A v \in Workers \ {w} : work'[v] = work[v]
           /\ \/ pc(w)' \in Resetting /\ work'[w].date = work[w].date /\ mutex' = mutex
              \/ /\ w = Scheduler /\ pc(w) = "delete" /\ pc(w)' = "mark"
                 /\ work'[w].date = work[w].date /\ mutex' = mutex
              \/ w # Scheduler /\ pc(w)' = "idle" /\ mutex' = Nobody
           /\ pc(w) \in {"restore", "delete"} => pc(w)' \in {"restore", "delete", "mark", "idle"}
           /\ pc(w) \in {"scan", "load"} => pc(w)' \in {"load", "flush"}
           /\ pc(w) = "flush" => pc(w)' \in {"restore", "delete"}
           /\ IF pc(w) = "flush" THEN CountWipe(w) ELSE today' = today
           /\ UNCHANGED <<tick, lastRun, up, wake, slipped>>
  <1> USE AttemptType, Workplace DEF Resetting
  <1>1. CASE Scan(w)
    <2>1. PICK found \in SUBSET Tokens :
            Become(w, [work[w] EXCEPT !.todo = found,
                                      !.pc = IF found = {} THEN After("load") ELSE "load"])
      BY <1>1 DEF Scan
    <2> DEFINE s == IF found = {} THEN After("load") ELSE "load"
               a == [work[w] EXCEPT !.todo = found, !.pc = s]
    <2>2. s \in {"load", "flush"}  BY DEF After
    <2>3. a \in Attempts  BY <2>2, RecordTypes DEF Stages
    <2>4. work'[w] = a /\ \A v \in Workers \ {w} : work'[v] = work[v]
      BY <2>1, <2>3, OneWorker
    <2>5. a.pc = s /\ a.date = work[w].date  BY DEF Attempts
    <2> HIDE DEF s, a
    <2> QED  BY <1>1, <2>2, <2>4, <2>5 DEF Scan, stores, history
  <1>2. ASSUME NEW t \in Tokens, Load(w, t)
        PROVE  /\ up /\ pc(w) = "load" /\ pc(w)' \in {"load", "flush"}
               /\ \A v \in Workers \ {w} : work'[v] = work[v]
               /\ work'[w].date = work[w].date /\ mutex' = mutex
               /\ UNCHANGED <<tick, lastRun, up, wake, slipped, today>>
    <2> DEFINE left == work[w].todo \ {t}
               s == IF left = {} THEN After("load") ELSE work[w].pc
    <2>1. PICK kept \in Keys :
            Become(w, [work[w] EXCEPT !.todo = left, !.snapshot[t] = kept, !.pc = s])
      BY <1>2 DEF Load, TypeOK, Keys
    <2> DEFINE a == [work[w] EXCEPT !.todo = left, !.snapshot[t] = kept, !.pc = s]
    <2>2. s \in {"load", "flush"}  BY <1>2 DEF After, Load
    <2>3. a \in Attempts  BY <2>2, SnapshotTypes DEF Stages
    <2>4. work'[w] = a /\ \A v \in Workers \ {w} : work'[v] = work[v]
      BY <2>1, <2>3, OneWorker
    <2>5. a.pc = s /\ a.date = work[w].date  BY DEF Attempts
    <2> HIDE DEF s, a
    <2> QED  BY <1>2, <2>2, <2>4, <2>5 DEF Load
  <1>3. CASE Flush(w)
    <2>1. CASE Kept(w) = {}
      <3>1. Advance(w, "restore", work[w])  BY <1>3, <2>1 DEF Flush
      <3>2. work'[w] = [work[w] EXCEPT !.pc = "delete"] /\ UNCHANGED <<mutex, torn>>
            /\ \A v \in Workers \ {w} : work'[v] = work[v]
        BY <3>1, AdvanceMoves
      <3>3. work'[w].pc = "delete" /\ work'[w].date = work[w].date  BY <3>2 DEF Attempts
      <3> QED  BY <1>3, <3>2, <3>3 DEF Flush, Flushed
    <2>2. CASE Kept(w) # {}
      <3> DEFINE a == [work[w] EXCEPT !.pc = "restore", !.todo = Kept(w)]
      <3>1. a \in Attempts  BY RecordTypes DEF Stages, Kept
      <3>2. work'[w] = a /\ UNCHANGED <<mutex, torn>>
            /\ \A v \in Workers \ {w} : work'[v] = work[v]
        BY <1>3, <2>2, <3>1, OneWorker DEF Flush
      <3>3. a.pc = "restore" /\ a.date = work[w].date  BY DEF Attempts
      <3> HIDE DEF a
      <3> QED  BY <1>3, <3>2, <3>3 DEF Flush, Flushed
    <2> QED  BY <2>1, <2>2
  <1>4. ASSUME NEW t \in Tokens, Restore(w, t)
        PROVE  /\ up /\ pc(w) = "restore" /\ pc(w)' \in {"restore", "delete"}
               /\ \A v \in Workers \ {w} : work'[v] = work[v]
               /\ work'[w].date = work[w].date /\ mutex' = mutex
               /\ UNCHANGED <<tick, lastRun, up, wake, slipped, today>>
    <2> DEFINE a == [work[w] EXCEPT !.todo = @ \ {t}]
               b == [a EXCEPT !.snapshot = Unheld]
    <2>1. a \in Attempts /\ b \in Attempts  BY RecordTypes
    <2>2. a.pc = work[w].pc /\ a.date = work[w].date /\ b.date = work[w].date
      BY DEF Attempts
    <2>3. CASE a.todo = {}
      <3>1. Advance(w, "restore", b)  BY <1>4, <2>3 DEF Restore
      <3>2. work'[w] = [b EXCEPT !.pc = "delete"] /\ UNCHANGED <<mutex, torn>>
            /\ \A v \in Workers \ {w} : work'[v] = work[v]
        BY <2>1, <3>1, AdvanceMoves
      <3>3. [b EXCEPT !.pc = "delete"].pc = "delete"
            /\ [b EXCEPT !.pc = "delete"].date = b.date
        BY <2>1 DEF Attempts
      <3> HIDE DEF a, b
      <3> QED  BY <1>4, <2>2, <3>2, <3>3 DEF Restore, Restored
    <2>4. CASE a.todo # {}
      <3>1. Become(w, a) /\ UNCHANGED <<mutex, torn>>  BY <1>4, <2>4 DEF Restore
      <3>2. work'[w] = a /\ \A v \in Workers \ {w} : work'[v] = work[v]
        BY <2>1, <3>1, OneWorker
      <3> HIDE DEF a, b
      <3> QED  BY <1>4, <2>2, <3>1, <3>2 DEF Restore, Restored
    <2> QED  BY <2>3, <2>4
  <1>5. CASE Delete(w)
    <2>1. Advance(w, "delete", work[w])  BY <1>5 DEF Delete
    <2>2. UNCHANGED <<tick, lastRun, up, wake, slipped, today>> /\ up /\ pc(w) = "delete"
      BY <1>5 DEF Delete, Deleted
    <2> QED  BY <2>1, <2>2, AdvanceMoves
  <1> QED  BY <1>1, <1>2, <1>3, <1>4, <1>5 DEF Step

-----------------------------------------------------------------------------
(* The schedule.                                                              *)
Schedule == Exclusive /\ Dates /\ WipesCounted /\ Planned

LEMMA ScheduleInit == Init => Schedule
  <1> SUFFICES ASSUME Init PROVE Schedule  OBVIOUS
  <1>1. /\ pc(Scheduler) = "lock" /\ work[Scheduler].date = 0 /\ \A t \in Tokens : pc(t) = "idle"
        /\ today.wipes = 0 /\ today.cuts = 0 /\ up
    BY Workplace DEF Init, Attempt
  <1>2. \A w \in Workers : pc(w) \in {"lock", "idle"}  BY <1>1, Workplace
  <1>3. Exclusive  BY <1>1, <1>2 DEF Exclusive, Held
  <1>4. Dates /\ WipesCounted /\ Planned
    BY <1>1 DEF Dates, Dated, WipesCounted, Planned, Uncut
  <1> QED  BY <1>3, <1>4 DEF Schedule

LEMMA ScheduleTick ==
    ASSUME TypeOK, Schedule, Tick
    PROVE  Schedule'
  <1> USE AttemptType, Workplace DEF Schedule
  <1>1. /\ \A w \in Workers : pc(w)' = pc(w)
        /\ UNCHANGED <<mutex, up>>
    <2>1. CASE Midnight  BY <2>1 DEF Tick, Midnight, TypeOK, Attempts
    <2>2. CASE ~Midnight  BY <2>2 DEF Tick
    <2> QED  BY <2>1, <2>2
  <1>2. Exclusive'  BY <1>1 DEF Exclusive
  <1>3. slipped' = (slipped \/ pc(Scheduler) \in Dated \union {"plan"})
    BY DEF Tick
  <1>4. ASSUME Midnight
        PROVE  /\ lastRun' # 0 /\ today'.wipes = 0 /\ today'.cuts = 0
               /\ wake > 0 => wake' <= 0
               /\ wake <= 0 => wake' <= 0
    <2>1. lastRun' # 0  BY <1>4, OlderType DEF Midnight, TypeOK
    <2>2. today'.wipes = 0 /\ today'.cuts = 0  BY <1>4 DEF Midnight
    <2>3. (wake > 0 => wake' <= 0) /\ (wake <= 0 => wake' <= 0)
      BY <1>4 DEF Midnight, TypeOK
    <2> QED  BY <2>1, <2>2, <2>3
  <1>5. CASE Midnight
    <2>1. Dates'
      <3>1. pc(Scheduler) \notin Dated => work'[Scheduler].date = work[Scheduler].date
        BY <1>5 DEF Midnight, TypeOK, Attempts
      <3> QED  BY <1>1, <1>3, <1>4, <1>5, <3>1 DEF Dates, Dated
    <2>2. WipesCounted'  BY <1>4, <1>5 DEF WipesCounted
    <2>3. Planned'
      <3>1. wake' <= 0  BY <1>4, <1>5 DEF TypeOK
      <3>2. wake' \in Int  BY <1>5 DEF Midnight, TypeOK
      <3>3. ~(wake' > 0)  BY <3>1, <3>2
      <3>4. pc(Scheduler)' = "plan" => slipped'  BY <1>1, <1>3
      <3> QED  BY <3>3, <3>4 DEF Planned
    <2> QED  BY <1>2, <2>1, <2>2, <2>3
  <1>6. CASE ~Midnight
    <2>1. UNCHANGED <<lastRun, work, wake, today>>  BY <1>6 DEF Tick
    <2>2. Dates'  BY <1>3, <2>1 DEF Dates, Dated
    <2>3. WipesCounted'  BY <2>1 DEF WipesCounted, Uncut
    <2>4. Planned'  BY <1>3, <2>1 DEF Planned
    <2> QED  BY <1>2, <2>2, <2>3, <2>4
  <1> QED  BY <1>5, <1>6

LEMMA ScheduleStep ==
    ASSUME TypeOK, Schedule, NEW w \in Workers, Step(w)
    PROVE  Schedule'
  <1> USE AttemptType, Workplace DEF Schedule
  <1>1. /\ up /\ pc(w) \in Resetting
        /\ \A v \in Workers \ {w} : work'[v] = work[v]
        /\ UNCHANGED <<tick, lastRun, up, wake, slipped>>
    BY StepMoves
  <1>2. mutex = w  BY <1>1 DEF Exclusive, Held, Resetting
  <1>3. Exclusive'
    <2>1. \A v \in Workers \ {w} : pc(v) \notin Held  BY <1>2 DEF Exclusive
    <2>2. pc(w)' \in Held => mutex' = w  BY <1>2, StepMoves DEF Held, Resetting
    <2>3. w # Scheduler => pc(w)' \in {"idle", "lock"} \union (Held \ {"check", "mark"})
      BY StepMoves DEF Held, Resetting
    <2> QED  BY <1>1, <2>1, <2>2, <2>3 DEF Exclusive
  <1>4. CASE w # Scheduler
    <2>1. work'[Scheduler] = work[Scheduler]  BY <1>1, <1>4
    <2>2. today' = today  BY <1>4, StepMoves DEF CountWipe
    <2> QED  BY <1>1, <1>3, <2>1, <2>2 DEF Dates, WipesCounted, Uncut, Planned
  <1>5. CASE w = Scheduler
    <2>1. pc(Scheduler) \in Dated /\ pc(Scheduler)' \in Dated
          /\ work'[Scheduler].date = work[Scheduler].date
      BY <1>5, StepMoves DEF Dated, Resetting
    <2>2. Dates'  BY <1>1, <2>1 DEF Dates
    <2>3. Planned'  BY <2>1 DEF Planned, Dated
    <2>4. WipesCounted'
      <3>1. lastRun # 0 /\ lastRun' # 0  BY <1>1, <2>1 DEF Dates
      <3>2. today \in [wipes : Nat, cuts : Nat]  BY DEF TypeOK
      <3>3. CASE pc(w) = "flush" /\ work[w].date = 0
        <4>1. ~Uncut  BY <1>5, <3>1, <3>3 DEF Uncut
        <4>2. today'.wipes = today.wipes + 1 /\ today'.cuts = today.cuts
          BY <1>5, <3>2, <3>3, StepMoves DEF CountWipe
        <4>3. Uncut'  BY <1>5, <2>1, <3>3, StepMoves DEF Uncut
        <4> QED  BY <3>2, <4>1, <4>2, <4>3 DEF WipesCounted
      <3>4. CASE ~(pc(w) = "flush" /\ work[w].date = 0)
        <4>1. today' = today  BY <1>5, <3>4, StepMoves DEF CountWipe
        <4>2. ASSUME Uncut PROVE Uncut'
          <5>1. pc(w) \in {"restore", "delete"} /\ work[w].date = 0
            BY <1>1, <1>5, <3>1, <4>2 DEF Uncut, Resetting
          <5>2. pc(w)' \in {"restore", "delete", "mark"}
            BY <1>5, <2>1, <5>1, StepMoves DEF Dated
          <5> QED  BY <1>5, <2>1, <5>1, <5>2 DEF Uncut
        <4> QED  BY <4>1, <4>2 DEF WipesCounted
      <3> QED  BY <3>3, <3>4
    <2> QED  BY <1>3, <2>2, <2>3, <2>4
  <1> QED  BY <1>4, <1>5

(* The steps outside a reset move one attempt and leave its snapshot alone.   *)
LEMMA Moved ==
    ASSUME TypeOK, NEW w \in Workers, NEW stage \in Stages, GoTo(w, stage)
    PROVE  /\ \A v \in Workers \ {w} : work'[v] = work[v]
           /\ pc(w)' = stage /\ work'[w].date = work[w].date
           /\ work'[w].todo = work[w].todo /\ work'[w].snapshot = work[w].snapshot
  <1> DEFINE a == [work[w] EXCEPT !.pc = stage]
  <1>1. a \in Attempts  BY StageType
  <1>2. work'[w] = a /\ \A v \in Workers \ {w} : work'[v] = work[v]  BY <1>1, OneWorker
  <1>3. /\ a.pc = stage /\ a.date = work[w].date /\ a.todo = work[w].todo
        /\ a.snapshot = work[w].snapshot
    BY AttemptType DEF Attempts
  <1> HIDE DEF a
  <1> QED  BY <1>2, <1>3

LEMMA ScheduleLock ==
    ASSUME TypeOK, Schedule, NEW w \in Workers, Lock(w)
    PROVE  Schedule'
  <1> USE AttemptType, Workplace DEF Schedule
  <1> DEFINE stage == IF w = Scheduler THEN "check" ELSE "scan"
  <1>1. /\ up /\ pc(w) = "lock" /\ mutex = Nobody /\ mutex' = w
        /\ UNCHANGED <<tick, lastRun, up, wake, slipped, today>>
    BY DEF Lock, stores, history
  <1>2. GoTo(w, stage) /\ stage \in Stages  BY DEF Lock, Stages
  <1>3. /\ \A v \in Workers \ {w} : work'[v] = work[v]
        /\ pc(w)' = stage
    BY <1>2, Moved
  <1>4. \A v \in Workers \ {w} : pc(v)' \notin Held  BY <1>1, <1>3 DEF Exclusive
  <1>5. Exclusive'  BY <1>1, <1>3, <1>4 DEF Exclusive, Held
  <1>6. /\ work'[Scheduler].date = work[Scheduler].date
        /\ \/ pc(Scheduler)' = pc(Scheduler)
           \/ pc(Scheduler) = "lock" /\ pc(Scheduler)' = "check"
    <2>1. CASE w = Scheduler
      <3>1. work'[w].date = work[w].date  BY <1>2, Moved
      <3> QED  BY <1>1, <1>3, <2>1, <3>1
    <2>2. CASE w # Scheduler  BY <1>3, <2>2
    <2> QED  BY <2>1, <2>2
  <1>7. Dates' /\ Planned'  BY <1>1, <1>6 DEF Dates, Dated, Planned
  <1>8. Uncut' = Uncut  BY <1>1, <1>6 DEF Uncut
  <1> QED  BY <1>1, <1>5, <1>7, <1>8 DEF WipesCounted

LEMMA ScheduleCheck ==
    ASSUME TypeOK, Schedule, Check
    PROVE  Schedule'
  <1> USE AttemptType, Workplace DEF Schedule
  <1>1. /\ up /\ pc(Scheduler) = "check" /\ slipped' = FALSE
        /\ UNCHANGED <<tick, lastRun, up, wake, today>>
    BY DEF Check, stores
  <1>2. /\ \A v \in Workers \ {Scheduler} : work'[v] = work[v]
        /\ \/ Due /\ pc(Scheduler)' = "scan" /\ mutex' = mutex
           \/ ~Due /\ pc(Scheduler)' = "plan" /\ mutex' = Nobody
        /\ work'[Scheduler].date = work[Scheduler].date
    BY Moved DEF Check, Stages
  <1>3. mutex = Scheduler  BY <1>1 DEF Exclusive, Held
  <1>4. \A v \in Workers \ {Scheduler} : pc(v)' \notin Held
    BY <1>2, <1>3 DEF Exclusive
  <1>5. Exclusive'  BY <1>1, <1>2, <1>3, <1>4 DEF Exclusive, Held
  <1>6. Planned'  BY <1>1, <1>2 DEF Planned, Due, TypeOK, Ticks
  <1>7. Uncut' = Uncut  BY <1>1, <1>2 DEF Uncut
  <1>8. WipesCounted'  BY <1>1, <1>7 DEF WipesCounted
  <1> QED  BY <1>1, <1>2, <1>5, <1>6, <1>8 DEF Dates, Dated, Due

LEMMA ScheduleMark ==
    ASSUME TypeOK, Schedule, Mark
    PROVE  Schedule'
  <1> USE AttemptType, Workplace DEF Schedule
  <1>1. /\ up /\ pc(Scheduler) = "mark" /\ mutex' = Nobody
        /\ lastRun' = work[Scheduler].date
        /\ UNCHANGED <<tick, up, wake, today, slipped>>
    BY DEF Mark, Marked
  <1>2. /\ \A v \in Workers \ {Scheduler} : work'[v] = work[v]
        /\ pc(Scheduler)' = "plan" /\ work'[Scheduler].date = 0
    BY OneWorker, AttemptTypes DEF Mark, Stages
  <1>3. mutex = Scheduler  BY <1>1 DEF Exclusive, Held
  <1>4. \A v \in Workers \ {Scheduler} : pc(v)' \notin Held
    BY <1>2, <1>3 DEF Exclusive
  <1>5. Exclusive'  BY <1>1, <1>2, <1>4 DEF Exclusive, Held
  <1>6. ~slipped => lastRun' = 0  BY <1>1 DEF Dates
  <1>7. Planned'  BY <1>1, <1>2, <1>6 DEF Planned
  <1>8. Uncut => Uncut'
    <2>1. lastRun # 0  BY <1>1 DEF Dates, Dated
    <2> QED  BY <1>1, <2>1 DEF Uncut
  <1>9. WipesCounted'  BY <1>1, <1>8 DEF WipesCounted
  <1> QED  BY <1>2, <1>5, <1>7, <1>9 DEF Dates, Dated

LEMMA ScheduleWait ==
    ASSUME TypeOK, Schedule, Plan \/ Wake
    PROVE  Schedule'
  <1> USE AttemptType, Workplace DEF Schedule
  <1>1. /\ up /\ pc(Scheduler) \in {"plan", "wait"}
        /\ UNCHANGED <<tick, lastRun, up, mutex, today, slipped>>
    BY DEF Plan, Wake, stores, history
  <1>2. /\ \A v \in Workers \ {Scheduler} : work'[v] = work[v]
        /\ work'[Scheduler].date = work[Scheduler].date
        /\ \/ Plan /\ pc(Scheduler) = "plan" /\ pc(Scheduler)' = "wait"
           \/ Wake /\ pc(Scheduler)' = "lock"
    BY Moved DEF Plan, Wake, Stages
  <1>3. Exclusive'  BY <1>1, <1>2 DEF Exclusive, Held
  <1>4. Dates'  BY <1>1, <1>2 DEF Dates, Dated
  <1>5. Planned'
    <2>1. CASE Plan
      <3>1. tick < ResetTick => ~(wake' > 0)  BY <2>1 DEF Plan, NextDailyReset
      <3>2. ~(tick < ResetTick) => tick >= ResetTick
        BY ClockAssumption DEF TypeOK, Ticks
      <3> QED  BY <1>1, <1>2, <2>1, <3>1, <3>2 DEF Planned, Plan
    <2>2. CASE Wake
      <3>1. pc(Scheduler)' = "lock"  BY <2>2, Moved DEF Wake, Stages
      <3> QED  BY <3>1 DEF Planned
    <2> QED  BY <2>1, <2>2
  <1>6. Uncut' = Uncut  BY <1>1, <1>2 DEF Uncut
  <1>7. WipesCounted'  BY <1>1, <1>6 DEF WipesCounted
  <1> QED  BY <1>3, <1>4, <1>5, <1>7

LEMMA FailMoves ==
    ASSUME TypeOK, Exclusive, NEW w \in Workers, Fail(w)
    PROVE  /\ up /\ pc(w) \in Held /\ mutex = w /\ mutex' = Nobody
           /\ \A v \in Workers \ {w} : work'[v] = work[v] /\ pc(v) \notin Held
           /\ pc(w)' \in {"lock", "idle"} /\ work'[w].date = 0 /\ work'[w].todo = {}
           /\ w # Scheduler => pc(w)' = "idle" /\ lastRun' = lastRun /\ today' = today
           /\ w = Scheduler => pc(w)' = "lock"
           /\ UNCHANGED <<tick, up, wake, slipped>>
  <1>1. up /\ mutex' = Nobody /\ UNCHANGED <<tick, up, wake, slipped>>
    BY DEF Fail
  <1>2. pc(w) \in Held
    BY DEF Fail, FailBeforeWipe, FailWiping, FailMarking, Held
  <1>3. mutex = w  BY <1>2 DEF Exclusive
  <1>4. Failed(w) \in Attempts /\ Failed(w).date = 0 /\ Failed(w).todo = {}
        /\ Failed(w).pc = IF w = Scheduler THEN "lock" ELSE "idle"
    BY AttemptTypes DEF Failed, Stages
  <1>5. work'[w] = Failed(w) /\ \A v \in Workers \ {w} : work'[v] = work[v]
    BY <1>4, OneWorker DEF Fail
  <1>6. ASSUME w # Scheduler
        PROVE  lastRun' = lastRun /\ today' = today
    <2>1. pc(w) # "mark"  BY <1>6, Workplace DEF Exclusive, Held
    <2>2. FailBeforeWipe(w) \/ FailWiping(w)  BY <2>1 DEF Fail, FailMarking
    <2> QED
      BY <1>6, <2>2 DEF FailBeforeWipe, FailWiping, CountCut, Flushed, Restored, Deleted, stores
  <1> QED  BY <1>1, <1>2, <1>3, <1>4, <1>5, <1>6 DEF Exclusive

LEMMA ScheduleFail ==
    ASSUME TypeOK, Schedule, NEW w \in Workers, Fail(w)
    PROVE  Schedule'
  <1> USE AttemptType, Workplace DEF Schedule
  <1>1. Exclusive'  BY FailMoves DEF Exclusive, Held
  <1>2. CASE w # Scheduler
    <2>1. work'[Scheduler] = work[Scheduler]  BY <1>2, FailMoves
    <2>2. UNCHANGED <<tick, lastRun, wake, slipped, today>>  BY <1>2, FailMoves
    <2>3. Dates' /\ Planned'  BY <2>1, <2>2 DEF Dates, Planned
    <2>4. Uncut' = Uncut  BY <2>1, <2>2 DEF Uncut
    <2> QED  BY <1>1, <2>2, <2>3, <2>4 DEF WipesCounted
  <1>3. CASE w = Scheduler
    <2>1. pc(Scheduler)' = "lock" /\ work'[Scheduler].date = 0  BY <1>3, FailMoves
    <2>2. Dates' /\ Planned'  BY <2>1 DEF Dates, Dated, Planned
    <2>3. today \in [wipes : Nat, cuts : Nat]  BY DEF TypeOK
    <2>4. WipesCounted'
      <3>1. CASE FailBeforeWipe(w)
        <4>1. lastRun' = lastRun /\ today' = today  BY <3>1 DEF FailBeforeWipe, stores
        <4>2. Uncut => Uncut'  BY <1>3, <3>1, <4>1 DEF Uncut, FailBeforeWipe
        <4> QED  BY <4>1, <4>2 DEF WipesCounted
      <3>2. ASSUME FailWiping(w) \/ FailMarking(w), lastRun' = lastRun,
                   pc(w) \in {"flush", "restore", "delete", "mark"},
                   CountCut(w, IF pc(w) = "flush" THEN 1 ELSE 0)
            PROVE  WipesCounted'
        <4>1. lastRun # 0  BY <1>3, <3>2 DEF Dates, Dated
        <4>2. CASE work[w].date = 0
          <5>1. /\ today'.cuts = today.cuts + 1
                /\ today'.wipes = today.wipes + IF pc(w) = "flush" THEN 1 ELSE 0
            BY <1>3, <3>2, <4>2 DEF CountCut
          <5>2. pc(w) = "flush" => ~Uncut  BY <1>3, <4>1 DEF Uncut
          <5> QED  BY <2>3, <5>1, <5>2 DEF WipesCounted
        <4>3. CASE work[w].date # 0
          <5>1. today' = today  BY <3>2, <4>3 DEF CountCut
          <5>2. ~Uncut  BY <1>3, <4>1, <4>3 DEF Uncut
          <5> QED  BY <5>1, <5>2, <2>3 DEF WipesCounted
        <4> QED  BY <4>2, <4>3
      <3>3. CASE FailWiping(w)
        <4>1. lastRun' = lastRun  BY <3>3 DEF FailWiping, Flushed, Restored, Deleted, stores
        <4>2. pc(w) \in {"flush", "restore", "delete", "mark"}
              /\ CountCut(w, IF pc(w) = "flush" THEN 1 ELSE 0)
          BY <3>3 DEF FailWiping
        <4> QED  BY <3>2, <3>3, <4>1, <4>2
      <3>4. CASE FailMarking(w)
        <4>1. CASE Marked /\ UNCHANGED today
          <5>1. lastRun' = work[Scheduler].date  BY <4>1 DEF Marked
          <5>2. Uncut => Uncut'
            <6>1. lastRun # 0  BY <1>3, <3>4 DEF Dates, Dated, FailMarking
            <6> QED  BY <5>1, <6>1 DEF Uncut
          <5> QED  BY <4>1, <5>2 DEF WipesCounted
        <4>2. CASE UNCHANGED stores /\ CountCut(w, 0)
          <5>1. lastRun' = lastRun /\ pc(w) = "mark"  BY <3>4, <4>2 DEF FailMarking, stores
          <5> QED  BY <3>2, <3>4, <4>2, <5>1
        <4> QED  BY <3>4, <4>1, <4>2 DEF FailMarking
      <3> QED  BY <3>1, <3>3, <3>4 DEF Fail
    <2> QED  BY <1>1, <2>2, <2>4
  <1> QED  BY <1>2, <1>3

LEMMA ScheduleCrash ==
    ASSUME TypeOK, Schedule, Crash
    PROVE  Schedule'
  <1> USE AttemptType, Workplace DEF Schedule
  <1>1. /\ \A w \in Workers : pc(w)' = "idle" /\ work'[w].date = 0
        /\ up' = FALSE /\ mutex' = Nobody /\ lastRun' = lastRun
    BY AttemptTypes DEF Crash, Stages, stores
  <1>2. Exclusive' /\ Dates' /\ Planned'
    BY <1>1 DEF Exclusive, Held, Dates, Dated, Planned
  <1>3. WipesCounted'
    <2>1. today \in [wipes : Nat, cuts : Nat]  BY DEF TypeOK
    <2>2. CASE pc(Scheduler) \in {"restore", "delete", "mark"} /\ work[Scheduler].date = 0
      <3>1. today'.wipes = today.wipes /\ today'.cuts = today.cuts + 1
        BY <2>1, <2>2 DEF Crash, CountCut
      <3> QED  BY <2>1, <3>1 DEF WipesCounted
    <2>3. CASE ~(pc(Scheduler) \in {"restore", "delete", "mark"} /\ work[Scheduler].date = 0)
      <3>1. today' = today  BY <2>1, <2>3 DEF Crash, CountCut
      <3>2. Uncut => Uncut'  BY <1>1, <2>3 DEF Uncut
      <3> QED  BY <3>1, <3>2 DEF WipesCounted
    <2> QED  BY <2>2, <2>3
  <1> QED  BY <1>2, <1>3

LEMMA ScheduleOthers ==
    ASSUME TypeOK, Schedule,
           \/ Start
           \/ \E t \in Tokens : Login(t) \/ Logout(t) \/ Expire(t) \/ Manual(t)
           \/ \E c \in Codes : Publish(c) \/ Push(c)
    PROVE  Schedule'
  <1> USE AttemptType, Workplace DEF Schedule
  <1>1. CASE Start
    <2>1. /\ \A v \in Workers \ {Scheduler} : work'[v] = work[v]
          /\ pc(Scheduler)' = "lock" /\ work'[Scheduler].date = work[Scheduler].date
      BY <1>1, Moved DEF Start, Stages
    <2>2. ~up /\ up' /\ UNCHANGED <<tick, lastRun, mutex, wake, slipped, today>>
      BY <1>1 DEF Start, stores, history
    <2>3. \A w \in Workers : pc(w) = "idle"  BY <2>2 DEF Exclusive
    <2>4. Exclusive' /\ Dates' /\ Planned'
      BY <2>1, <2>2, <2>3 DEF Exclusive, Held, Dates, Dated, Planned
    <2>5. Uncut' = Uncut  BY <2>1, <2>2, <2>3 DEF Uncut
    <2> QED  BY <2>2, <2>4, <2>5 DEF WipesCounted
  <1>2. ASSUME NEW t \in Tokens, Manual(t)
        PROVE  Schedule'
    <2>1. /\ t \in Workers /\ t # Scheduler /\ up /\ pc(t)' = "lock"
          /\ \A v \in Workers \ {t} : work'[v] = work[v]
      BY <1>2, Moved DEF Manual, Stages
    <2>2. UNCHANGED <<tick, lastRun, up, mutex, wake, slipped, today>>
      BY <1>2 DEF Manual, stores, history
    <2>3. Exclusive'  BY <2>1, <2>2 DEF Exclusive, Held
    <2>4. work'[Scheduler] = work[Scheduler]  BY <2>1
    <2> QED  BY <2>2, <2>3, <2>4 DEF Dates, Planned, WipesCounted, Uncut
  <1>3. ASSUME UNCHANGED <<tick, lastRun, up, mutex, work, wake, slipped, today>>
        PROVE  Schedule'
    BY <1>3 DEF Exclusive, Dates, Planned, WipesCounted, Uncut
  <1>4. ASSUME NEW t \in Tokens, Login(t) \/ Logout(t) \/ Expire(t)
        PROVE  Schedule'
    BY <1>3, <1>4 DEF Login, Logout, Expire, SessionEnds
  <1>5. ASSUME NEW c \in Codes, Publish(c) \/ Push(c)
        PROVE  Schedule'
    BY <1>3, <1>5 DEF Publish, Push, history
  <1> QED  BY <1>1, <1>2, <1>4, <1>5

LEMMA ScheduleNext == ASSUME TypeOK, Schedule, [Next]_vars PROVE Schedule'
  <1>1. CASE UNCHANGED vars
    BY <1>1 DEF vars, stores, history, Schedule, Exclusive, Dates, Planned, WipesCounted, Uncut
  <1>2. CASE Next
    BY <1>2, ScheduleTick, ScheduleStep, ScheduleLock, ScheduleCheck, ScheduleMark, ScheduleWait,
       ScheduleFail, ScheduleCrash, ScheduleOthers, Workplace DEF Next, SchedulerStep
  <1> QED  BY <1>1, <1>2

-----------------------------------------------------------------------------
(* The sessions: with each stage of a reset in its turn.                       *)
LEMMA SessionsScan ==
    ASSUME TypeOK, Exclusive, Sessions, NEW w \in Workers, Scan(w)
    PROVE  Sessions'
  <1> USE AttemptType, Workplace
  <1> DEFINE found == {t \in Tokens : session[t] # "none"}
             a == [work[w] EXCEPT !.todo = found, !.pc = IF found = {} THEN After("load") ELSE "load"]
  <1>1. Become(w, a) /\ pc(w) = "scan" /\ UNCHANGED <<session, life>>
    BY DEF Scan, stores, history
  <1>2. (IF found = {} THEN After("load") ELSE "load") \in Stages  BY DEF After, Stages
  <1>3. a \in Attempts  BY <1>2, RecordTypes
  <1>4. work'[w] = a /\ \A v \in Workers \ {w} : work'[v] = work[v]
    BY <1>1, <1>3, OneWorker
  <1>5. a.todo = found /\ a.pc = IF found = {} THEN "flush" ELSE "load"
    BY DEF Attempts, After
  <1>6. \A v \in Workers \ {w} : pc(v) \notin Held
    BY <1>1 DEF Exclusive, Held
  <1> HIDE DEF a
  <1>7. \A v \in Workers : pc(v)' # "restore" /\ pc(v) # "restore"
    BY <1>1, <1>4, <1>5, <1>6 DEF Held
  <1>8. ASSUME NEW t \in Tokens, life[t] = "in"
        PROVE  Logged(t)'
    <2>1. session[t] # "none"  BY <1>7, <1>8 DEF Sessions, Logged
    <2>2. t \in found  BY <2>1
    <2>3. pc(w)' = "load" /\ t \in work'[w].todo  BY <1>4, <1>5, <2>2
    <2>4. \A v \in Workers \ {w} : pc(v)' \notin {"load", "flush"}  BY <1>4, <1>6 DEF Held
    <2> QED  BY <1>1, <2>1, <2>3, <2>4 DEF Logged
  <1> QED  BY <1>1, <1>7, <1>8 DEF Sessions

LEMMA SessionsLoad ==
    ASSUME TypeOK, Exclusive, Sessions, NEW w \in Workers, NEW t \in Tokens, Load(w, t)
    PROVE  Sessions'
  <1> USE AttemptType, Workplace
  <1> DEFINE left == work[w].todo \ {t}
             s == IF left = {} THEN After("load") ELSE work[w].pc
  <1>1. PICK kept \in Keys :
          /\ kept \in {session[t]} \union (IF session[t] = "live" THEN {"forever"} ELSE {})
          /\ Become(w, [work[w] EXCEPT !.todo = left, !.snapshot[t] = kept, !.pc = s])
    BY DEF Load, TypeOK, Keys
  <1> DEFINE a == [work[w] EXCEPT !.todo = left, !.snapshot[t] = kept, !.pc = s]
  <1>2. pc(w) = "load" /\ t \in work[w].todo  BY DEF Load
  <1>3. s \in {"load", "flush"} /\ (s = "flush" <=> left = {})  BY <1>2 DEF After
  <1>4. a \in Attempts  BY <1>3, SnapshotTypes DEF Stages
  <1>5. work'[w] = a /\ \A v \in Workers \ {w} : work'[v] = work[v]
    BY <1>1, <1>4, OneWorker
  <1>6. a.pc = s /\ a.todo = left /\ a.snapshot = [work[w].snapshot EXCEPT ![t] = kept]
    BY DEF Attempts
  <1>7. \A v \in Workers \ {w} : pc(v) \notin Held
    BY <1>2 DEF Exclusive, Held
  <1> HIDE DEF a, s
  <1>8. \A v \in Workers : pc(v)' # "restore" /\ pc(v) # "restore"
    BY <1>2, <1>3, <1>5, <1>6, <1>7 DEF Held
  <1>9. \/ UNCHANGED <<session, life>>
        \/ session' = [session EXCEPT ![t] = "none"] /\ life' = [life EXCEPT ![t] = "out"]
    BY DEF Load
  <1>10. ASSUME NEW u \in Tokens, life'[u] = "in"
         PROVE  Logged(u)'
    <2>1. life[u] = "in" /\ session'[u] = session[u]  BY <1>9, <1>10 DEF TypeOK
    <2>2. session[u] # "none"  BY <1>8, <2>1 DEF Sessions, Logged
    <2>3. u \in work[w].todo \/ work[w].snapshot[u] # "none"
      BY <1>2, <2>1 DEF Sessions, Logged
    <2>4. (pc(w)' = "load" /\ u \in work'[w].todo) \/ work'[w].snapshot[u] # "none"
      <3>1. CASE u = t
        <4>1. kept # "none"  BY <1>1, <2>2, <3>1
        <4> QED  BY <1>5, <1>6, <3>1, <4>1
      <3>2. CASE u # t
        <4>1. work'[w].snapshot[u] = work[w].snapshot[u]  BY <1>5, <1>6, <3>2
        <4>2. u \in work[w].todo => pc(w)' = "load" /\ u \in work'[w].todo
          BY <1>3, <1>5, <1>6, <3>2
        <4> QED  BY <2>3, <4>1, <4>2
      <3> QED  BY <3>1, <3>2
    <2>5. \A v \in Workers \ {w} : pc(v)' \notin {"load", "flush"}  BY <1>5, <1>7 DEF Held
    <2> QED  BY <2>1, <2>2, <2>4, <2>5 DEF Logged
  <1> QED  BY <1>8, <1>10 DEF Sessions

LEMMA SessionsFlush ==
    ASSUME TypeOK, Exclusive, Sessions, NEW w \in Workers, Flush(w)
    PROVE  Sessions'
  <1> USE AttemptType, Workplace
  <1>1. pc(w) = "flush" /\ life' = life  BY DEF Flush
  <1>2. \A v \in Workers \ {w} : pc(v) \notin Held
    BY <1>1 DEF Exclusive, Held
  <1>3. \A t \in Tokens : life[t] = "in" => t \in Kept(w)
    BY <1>1 DEF Sessions, Logged, Kept
  <1>4. CASE Kept(w) = {}
    <2>1. \A t \in Tokens : life'[t] # "in"  BY <1>1, <1>3, <1>4
    <2>2. Advance(w, "restore", work[w])  BY <1>4 DEF Flush
    <2>3. work'[w] = [work[w] EXCEPT !.pc = "delete"]
          /\ \A v \in Workers \ {w} : work'[v] = work[v]
      BY <2>2, AdvanceMoves
    <2>4. pc(w)' = "delete"  BY <2>3 DEF Attempts
    <2>5. \A v \in Workers : pc(v)' # "restore"  BY <1>2, <2>3, <2>4 DEF Held
    <2> QED  BY <2>1, <2>5 DEF Sessions
  <1>5. CASE Kept(w) # {}
    <2> DEFINE a == [work[w] EXCEPT !.pc = "restore", !.todo = Kept(w)]
    <2>1. a \in Attempts  BY RecordTypes DEF Stages, Kept
    <2>2. work'[w] = a /\ \A v \in Workers \ {w} : work'[v] = work[v]
      BY <1>5, <2>1, OneWorker DEF Flush
    <2>3. a.pc = "restore" /\ a.todo = Kept(w) /\ a.snapshot = work[w].snapshot
      BY DEF Attempts
    <2> HIDE DEF a
    <2>4. ASSUME NEW t \in Tokens, life'[t] = "in"
          PROVE  Logged(t)'
      <3>1. pc(w)' = "restore" /\ t \in work'[w].todo  BY <1>1, <1>3, <2>2, <2>3, <2>4
      <3>2. \A v \in Workers : pc(v)' \notin {"load", "flush"}
        BY <1>2, <2>2, <3>1 DEF Held
      <3> QED  BY <3>1, <3>2 DEF Logged
    <2>5. \A v \in Workers : pc(v)' = "restore" =>
              \A t \in work'[v].todo : work'[v].snapshot[t] # "none"
      BY <1>2, <2>2, <2>3 DEF Held, Kept
    <2> QED  BY <2>4, <2>5 DEF Sessions
  <1> QED  BY <1>4, <1>5

LEMMA SessionsRestore ==
    ASSUME TypeOK, Exclusive, Sessions, NEW w \in Workers, NEW t \in Tokens, Restore(w, t)
    PROVE  Sessions'
  <1> USE AttemptType, Workplace
  <1> DEFINE a == [work[w] EXCEPT !.todo = @ \ {t}]
             b == [a EXCEPT !.snapshot = Unheld]
  <1>1. pc(w) = "restore" /\ t \in work[w].todo /\ life' = life
        /\ session' = [session EXCEPT ![t] = work[w].snapshot[t]]
    BY DEF Restore, Restored
  <1>2. \A v \in Workers \ {w} : pc(v) \notin Held
    BY <1>1 DEF Exclusive, Held
  <1>3. work[w].snapshot[t] # "none"  BY <1>1 DEF Sessions
  <1>4. a \in Attempts /\ b \in Attempts  BY RecordTypes
  <1>5. a.pc = "restore" /\ a.todo = work[w].todo \ {t} /\ a.snapshot = work[w].snapshot
    BY <1>1 DEF Attempts
  <1>6. \A u \in Tokens : session'[u] # "none" \/ session'[u] = session[u]
    BY <1>1, <1>3 DEF TypeOK
  <1>7. CASE a.todo = {}
    <2>1. Advance(w, "restore", b)  BY <1>7 DEF Restore
    <2>2. work'[w] = [b EXCEPT !.pc = "delete"] /\ \A v \in Workers \ {w} : work'[v] = work[v]
      BY <1>4, <2>1, AdvanceMoves
    <2>3. [b EXCEPT !.pc = "delete"].pc = "delete"  BY <1>4 DEF Attempts
    <2> HIDE DEF a, b
    <2>4. \A v \in Workers : pc(v)' \notin {"restore", "load", "flush"}
      BY <1>2, <2>2, <2>3 DEF Held
    <2>5. ASSUME NEW u \in Tokens, life'[u] = "in"
          PROVE  session'[u] # "none"
      <3>1. session[u] # "none" \/ u \in work[w].todo
        BY <1>1, <1>2, <2>5 DEF Sessions, Logged, Held
      <3>2. u \in work[w].todo => u = t  BY <1>5, <1>7
      <3> QED  BY <1>1, <1>3, <1>6, <3>1, <3>2 DEF TypeOK
    <2> QED  BY <2>4, <2>5 DEF Sessions, Logged
  <1>8. CASE a.todo # {}
    <2>1. Become(w, a)  BY <1>8 DEF Restore
    <2>2. work'[w] = a /\ \A v \in Workers \ {w} : work'[v] = work[v]
      BY <1>4, <2>1, OneWorker
    <2> HIDE DEF a, b
    <2>3. \A v \in Workers : pc(v)' \notin {"load", "flush"}
      BY <1>2, <1>5, <2>2 DEF Held
    <2>4. ASSUME NEW u \in Tokens, life'[u] = "in"
          PROVE  Logged(u)'
      <3>1. session[u] # "none" \/ u \in work[w].todo
        BY <1>1, <1>2, <2>4 DEF Sessions, Logged, Held
      <3>2. session'[u] # "none" \/ u \in work'[w].todo
        BY <1>1, <1>3, <1>5, <1>6, <2>2, <3>1 DEF TypeOK
      <3>3. pc(w)' = "restore"  BY <1>5, <2>2
      <3> QED  BY <2>3, <3>2, <3>3 DEF Logged
    <2>5. \A v \in Workers : pc(v)' = "restore" =>
              \A u \in work'[v].todo : work'[v].snapshot[u] # "none"
      BY <1>1, <1>2, <1>5, <2>2 DEF Sessions, Held
    <2> QED  BY <2>4, <2>5 DEF Sessions
  <1> QED  BY <1>7, <1>8

(* Steps that touch no session and bring no attempt into, and none away from, the
   stages that Sessions speaks of.                                            *)
LEMMA SessionsKept ==
    ASSUME TypeOK, Sessions, UNCHANGED <<session, life>>,
           \A v \in Workers :
               /\ pc(v)' \in {"load", "flush", "restore"} => work'[v] = work[v]
               /\ pc(v) = "restore" => work'[v] = work[v]
    PROVE  Sessions'
  <1>1. ASSUME NEW t \in Tokens, life[t] = "in"
        PROVE  Logged(t)'
    <2>1. Logged(t)  BY <1>1 DEF Sessions
    <2> QED  BY <2>1 DEF Logged
  <1> QED  BY <1>1 DEF Sessions

LEMMA SessionsStep ==
    ASSUME TypeOK, Exclusive, Sessions, NEW w \in Workers, Step(w)
    PROVE  Sessions'
  <1>1. CASE Delete(w)
    <2>1. UNCHANGED <<session, life>> /\ pc(w) = "delete"  BY <1>1 DEF Delete, Deleted
    <2>2. Advance(w, "delete", work[w]) /\ work[w] \in Attempts
      BY <1>1, AttemptType DEF Delete
    <2>3. pc(w)' \in {"mark", "idle"} /\ \A v \in Workers \ {w} : work'[v] = work[v]
      BY <2>2, AdvanceMoves
    <2> QED  BY <2>1, <2>3, SessionsKept
  <1> QED
    BY <1>1, SessionsScan, SessionsLoad, SessionsFlush, SessionsRestore DEF Step

LEMMA SessionsMoves ==
    ASSUME TypeOK, Exclusive, Sessions, NEW w \in Workers,
           \/ Lock(w)
           \/ w = Scheduler /\ (Check \/ Mark \/ Plan \/ Wake \/ Start)
           \/ w \in Tokens /\ Manual(w)
    PROVE  Sessions'
  <1>1. UNCHANGED <<session, life>>
    BY DEF Lock, Check, Mark, Marked, Plan, Wake, Start, Manual, stores, history
  <1>2. pc(w) \in {"lock", "check", "mark", "plan", "wait", "idle"}
    BY DEF Lock, Check, Mark, Plan, Wake, Start, Manual, Exclusive
  <1>3. /\ \A v \in Workers \ {w} : work'[v] = work[v]
        /\ pc(w)' \in {"check", "scan", "plan", "wait", "lock"}
    <2>1. CASE Mark /\ w = Scheduler
      <3>1. Attempt("plan") \in Attempts /\ Attempt("plan").pc = "plan"
        BY AttemptTypes DEF Stages
      <3> QED  BY <2>1, <3>1, OneWorker DEF Mark
    <2>2. CASE ~(Mark /\ w = Scheduler)
      <3>1. PICK stage \in {"check", "scan", "plan", "wait", "lock"} : GoTo(w, stage)
        BY <2>2 DEF Lock, Check, Plan, Wake, Start, Manual
      <3>2. stage \in Stages  BY DEF Stages
      <3> QED  BY <3>1, <3>2, Moved
    <2> QED  BY <2>1, <2>2
  <1> QED  BY <1>1, <1>2, <1>3, SessionsKept

LEMMA SessionsFail ==
    ASSUME TypeOK, Exclusive, Sessions, NEW w \in Workers, Fail(w)
    PROVE  Sessions'
  <1>1. /\ \A v \in Workers \ {w} : work'[v] = work[v] /\ pc(v) \notin Held
        /\ pc(w)' \in {"lock", "idle"}
    BY FailMoves
  <1>2. CASE pc(w) # "restore" /\ UNCHANGED <<session, life>>
    BY <1>1, <1>2, SessionsKept
  <1>3. CASE life' = Unsure(life)
    <2>1. \A t \in Tokens : life'[t] # "in"  BY <1>3, UnsureType
    <2>2. \A v \in Workers : pc(v)' # "restore"  BY <1>1 DEF Held
    <2> QED  BY <2>1, <2>2 DEF Sessions
  <1>4. \/ pc(w) # "restore" /\ UNCHANGED <<session, life>>
        \/ life' = Unsure(life)
    BY DEF Fail, FailBeforeWipe, FailWiping, FailMarking, Deleted, Marked, stores
  <1> QED  BY <1>2, <1>3, <1>4

LEMMA SessionsOthers ==
    ASSUME TypeOK, Exclusive, Sessions,
           \/ Tick \/ Crash
           \/ \E t \in Tokens : Login(t) \/ Logout(t) \/ Expire(t)
           \/ \E c \in Codes : Publish(c) \/ Push(c)
    PROVE  Sessions'
  <1> USE AttemptType, Workplace
  <1>1. CASE Tick
    <2>1. UNCHANGED <<session, life>>  BY <1>1 DEF Tick
    <2>2. \A v \in Workers : /\ pc(v)' = pc(v) /\ work'[v].todo = work[v].todo
                             /\ work'[v].snapshot = work[v].snapshot
      <3>1. CASE Midnight  BY <3>1 DEF Midnight, TypeOK, Attempts
      <3>2. CASE ~Midnight  BY <1>1, <3>2 DEF Tick
      <3> QED  BY <3>1, <3>2
    <2>3. ASSUME NEW t \in Tokens, life[t] = "in"
          PROVE  Logged(t)'
      <3>1. Logged(t)  BY <2>3 DEF Sessions
      <3> QED  BY <2>1, <2>2, <3>1 DEF Logged
    <2> QED  BY <2>1, <2>2, <2>3 DEF Sessions
  <1>2. CASE Crash
    <2>1. \A v \in Workers : pc(v)' = "idle"
      BY <1>2, AttemptTypes DEF Crash, Stages
    <2>2. session' = session  BY <1>2 DEF Crash, stores
    <2>3. ASSUME NEW t \in Tokens, life'[t] = "in"
          PROVE  Logged(t)'
      <3>1. up  BY <1>2 DEF Crash
      <3>2. \A v \in Workers : pc(v) # "restore"
        BY <1>2, <2>3, <3>1, UnsureType DEF Crash
      <3>3. life[t] = "in"  BY <1>2, <2>3, <3>2 DEF Crash
      <3>4. session[t] # "none"  BY <3>2, <3>3 DEF Sessions, Logged
      <3> QED  BY <2>1, <2>2, <3>4 DEF Logged
    <2> QED  BY <2>1, <2>3 DEF Sessions
  <1>3. ASSUME NEW t \in Tokens, Login(t)
        PROVE  Sessions'
    <2>1. work' = work /\ session' = [session EXCEPT ![t] = "live"]
          /\ life' = [life EXCEPT ![t] =
                IF \E w \in Workers : work[w].pc \in {"load", "flush"} THEN "unsure" ELSE "in"]
      BY <1>3 DEF Login
    <2>2. ASSUME NEW u \in Tokens, life'[u] = "in"
          PROVE  Logged(u)'
      <3>1. CASE u = t
        <4>1. session'[u] # "none"  BY <2>1, <3>1 DEF TypeOK
        <4>2. \A v \in Workers : pc(v) \notin {"load", "flush"}
          BY <2>1, <2>2, <3>1 DEF TypeOK
        <4> QED  BY <2>1, <4>1, <4>2 DEF Logged
      <3>2. CASE u # t
        <4>1. life[u] = "in" /\ session'[u] = session[u]  BY <2>1, <2>2, <3>2 DEF TypeOK
        <4>2. Logged(u)  BY <4>1 DEF Sessions
        <4> QED  BY <2>1, <4>1, <4>2 DEF Logged
      <3> QED  BY <3>1, <3>2
    <2> QED  BY <2>1, <2>2 DEF Sessions
  <1>4. ASSUME NEW t \in Tokens, Logout(t) \/ Expire(t)
        PROVE  Sessions'
    <2>1. work' = work /\ session' = [session EXCEPT ![t] = "none"]
          /\ life' = [life EXCEPT ![t] = "out"]
      BY <1>4 DEF Logout, Expire, SessionEnds
    <2>2. ASSUME NEW u \in Tokens, life'[u] = "in"
          PROVE  Logged(u)'
      <3>1. life[u] = "in" /\ session'[u] = session[u]  BY <2>1, <2>2 DEF TypeOK
      <3>2. Logged(u)  BY <3>1 DEF Sessions
      <3> QED  BY <2>1, <3>1, <3>2 DEF Logged
    <2> QED  BY <2>1, <2>2 DEF Sessions
  <1>5. ASSUME NEW c \in Codes, Publish(c) \/ Push(c)
        PROVE  Sessions'
    BY <1>5, SessionsKept DEF Publish, Push, history
  <1> QED  BY <1>1, <1>2, <1>3, <1>4, <1>5

LEMMA SessionsNext == ASSUME TypeOK, Exclusive, Sessions, [Next]_vars PROVE Sessions'
  <1>1. CASE UNCHANGED vars  BY <1>1, SessionsKept DEF vars, stores, history
  <1>2. CASE Next
    BY <1>2, SessionsStep, SessionsMoves, SessionsFail, SessionsOthers, Workplace
       DEF Next, SchedulerStep
  <1> QED  BY <1>1, <1>2

-----------------------------------------------------------------------------
(* The lucky codes.                                                           *)
LEMMA ListedNext == ASSUME TypeOK, Exclusive, Listed, [Next]_vars PROVE Listed'
  <1> USE AttemptType, Workplace
  <1> DEFINE Stays == \A v \in Workers :
                          pc(v) \in {"restore", "delete"} => pc(v)' \in {"restore", "delete"}
  <1>1. ASSUME UNCHANGED <<rows, queued, pushing, torn>>, Stays
        PROVE  Listed'
    BY <1>1 DEF Listed
  <1>2. ASSUME NEW w \in Workers, Step(w)
        PROVE  Listed'
    <2>1. \A v \in Workers \ {w} : work'[v] = work[v]  BY <1>2, StepMoves
    <2>2. CASE Delete(w)
      <3>1. rows' = {}  BY <2>2 DEF Delete, Deleted
      <3> QED  BY <3>1 DEF Listed
    <2>3. CASE Flush(w) \/ \E t \in Tokens : Restore(w, t)
      <3>1. pc(w) = "flush" => pc(w)' \in {"restore", "delete"}  BY <1>2, StepMoves
      <3>2. ASSUME NEW t \in Tokens, Restore(w, t)
            PROVE  pc(w)' \in {"restore", "delete"}
        <4> DEFINE a == [work[w] EXCEPT !.todo = @ \ {t}]
                   b == [a EXCEPT !.snapshot = Unheld]
        <4>1. a \in Attempts /\ b \in Attempts  BY RecordTypes
        <4>2. a.pc = "restore"  BY <3>2 DEF Restore, Attempts
        <4>3. CASE a.todo = {}
          <5>1. Advance(w, "restore", b)  BY <3>2, <4>3 DEF Restore
          <5>2. work'[w] = [b EXCEPT !.pc = "delete"]  BY <4>1, <5>1, AdvanceMoves
          <5> QED  BY <4>1, <5>2 DEF Attempts
        <4>4. CASE a.todo # {}
          <5>1. work'[w] = a  BY <3>2, <4>1, <4>4, OneWorker DEF Restore
          <5> QED  BY <4>2, <5>1
        <4> QED  BY <4>3, <4>4
      <3> QED  BY <2>3, <3>1, <3>2 DEF Flush, Listed
    <2>4. CASE Scan(w) \/ \E t \in Tokens : Load(w, t)
      <3>1. UNCHANGED <<rows, queued, pushing, torn>> /\ pc(w) \in {"scan", "load"}
        BY <2>4 DEF Scan, Load, stores, history
      <3> QED  BY <1>1, <2>1, <3>1
    <2> QED  BY <1>2, <2>2, <2>3, <2>4 DEF Step
  <1>3. ASSUME NEW w \in Workers,
               \/ Lock(w)
               \/ w = Scheduler /\ (Check \/ Mark \/ Plan \/ Wake)
               \/ w \in Tokens /\ Manual(w)
        PROVE  Listed'
    <2>1. UNCHANGED <<rows, queued, pushing, torn>>
      BY <1>3 DEF Lock, Check, Mark, Marked, Plan, Wake, Manual, stores, history
    <2>2. pc(w) \in {"lock", "check", "mark", "plan", "wait", "idle"}
      BY <1>3 DEF Lock, Check, Mark, Plan, Wake, Manual
    <2>3. \A v \in Workers \ {w} : work'[v] = work[v]
      <3>1. CASE Mark /\ w = Scheduler
        BY <3>1, AttemptTypes, OneWorker DEF Mark, Stages
      <3>2. CASE ~(Mark /\ w = Scheduler)
        <4>1. PICK stage \in {"check", "scan", "plan", "wait", "lock"} : GoTo(w, stage)
          BY <1>3, <3>2 DEF Lock, Check, Plan, Wake, Manual
        <4>2. stage \in Stages  BY DEF Stages
        <4> QED  BY <4>1, <4>2, Moved
      <3> QED  BY <3>1, <3>2
    <2> QED  BY <1>1, <2>1, <2>2, <2>3
  <1>4. CASE Start
    <2>1. UNCHANGED <<rows, queued, pushing, torn>>  BY <1>4 DEF Start, stores, history
    <2>2. \A v \in Workers : pc(v) = "idle"  BY <1>4 DEF Start, Exclusive
    <2> QED  BY <1>1, <2>1, <2>2
  <1>5. ASSUME NEW w \in Workers, Fail(w)
        PROVE  Listed'
    <2>1. \A v \in Workers \ {w} : work'[v] = work[v]  BY <1>5, FailMoves
    <2>2. CASE torn' = TRUE  BY <2>2 DEF Listed
    <2>3. CASE UNCHANGED <<rows, queued, pushing, torn>> /\ pc(w) \notin {"restore", "delete"}
      BY <1>1, <2>1, <2>3
    <2>4. \/ torn' = TRUE
          \/ UNCHANGED <<rows, queued, pushing, torn>> /\ pc(w) \notin {"restore", "delete"}
      BY <1>5 DEF Fail, FailBeforeWipe, FailWiping, FailMarking, Marked, stores
    <2> QED  BY <2>2, <2>3, <2>4
  <1>6. CASE Crash
    <2>1. UNCHANGED <<rows, queued>> /\ pushing' = {}  BY <1>6 DEF Crash, stores
    <2>2. CASE pushing # {} \/ \E v \in Workers : pc(v) \in Wiping
      BY <1>6, <2>2 DEF Crash, Listed
    <2>3. CASE pushing = {} /\ \A v \in Workers : pc(v) \notin Wiping
      <3>1. torn' = torn  BY <1>6, <2>3 DEF Crash, TypeOK
      <3>2. torn \/ rows \subseteq queued \union pushing  BY <2>3 DEF Listed, Wiping
      <3> QED  BY <2>1, <2>3, <3>1, <3>2 DEF Listed
    <2> QED  BY <2>2, <2>3
  <1>7. CASE Tick
    <2>1. UNCHANGED <<rows, queued, pushing, torn>>  BY <1>7 DEF Tick
    <2>2. \A v \in Workers : pc(v)' = pc(v)
      <3>1. CASE Midnight  BY <3>1 DEF Midnight, TypeOK, Attempts
      <3>2. CASE ~Midnight  BY <1>7, <3>2 DEF Tick
      <3> QED  BY <3>1, <3>2
    <2> QED  BY <1>1, <2>1, <2>2
  <1>8. ASSUME NEW t \in Tokens, Login(t) \/ Logout(t) \/ Expire(t)
        PROVE  Listed'
    BY <1>1, <1>8 DEF Login, Logout, Expire, SessionEnds
  <1>9. ASSUME NEW c \in Codes, Publish(c) \/ Push(c)
        PROVE  Listed'
    <2>1. work' = work /\ torn' = torn  BY <1>9 DEF Publish, Push, history
    <2>2. rows \subseteq queued \union pushing => rows' \subseteq queued' \union pushing'
      BY <1>9 DEF Publish, Push
    <2> QED  BY <2>1, <2>2 DEF Listed
  <1>10. CASE UNCHANGED vars  BY <1>1, <1>10 DEF vars, stores, history
  <1>11. CASE Next
    <2>1. CASE \E w \in Workers : Step(w) \/ Lock(w) \/ Fail(w)
      BY <1>2, <1>3, <1>5, <2>1
    <2>2. CASE Tick \/ Crash \/ Start  BY <1>4, <1>6, <1>7, <2>2
    <2>3. CASE Check \/ Mark \/ Plan \/ Wake  BY <1>3, <2>3
    <2>4. CASE \E t \in Tokens : Login(t) \/ Logout(t) \/ Expire(t) \/ Manual(t)
      BY <1>3, <1>8, <2>4
    <2>5. CASE \E c \in Codes : Publish(c) \/ Push(c)  BY <1>9, <2>5
    <2> QED  BY <1>11, <2>1, <2>2, <2>3, <2>4, <2>5 DEF Next, SchedulerStep
  <1> QED  BY <1>10, <1>11

-----------------------------------------------------------------------------
LEMMA InitInv == Init => IInv
  <1> SUFFICES ASSUME Init PROVE IInv  OBVIOUS
  <1>1. \A w \in Workers : pc(w) \in {"lock", "idle"}  BY DEF Init, Attempt
  <1>2. Sessions  BY <1>1 DEF Init, Sessions
  <1>3. Listed  BY DEF Init, Listed
  <1> QED  BY <1>2, <1>3, TypeInit, ScheduleInit DEF IInv, Schedule

LEMMA NextInv == IInv /\ [Next]_vars => IInv'
  BY TypeStep, ScheduleNext, SessionsNext, ListedNext DEF IInv, Schedule

(* The invariant holds from the start to the end of every behaviour. *)
THEOREM Invariance == Spec => []IInv
  BY InitInv, NextInv, PTL DEF Spec

(* The state of the reset, of the stores and of the attempts keeps its types: the
   date of an attempt and of the marker stays within the days that are told apart,
   the timer is set for today or tomorrow at most.                              *)
THEOREM TypeCorrect == Spec => []TypeOK
  <1>1. IInv => TypeOK  BY DEF IInv
  <1> QED  BY <1>1, Invariance, PTL

(* Admin login sessions survive the flush of Redis (ResetDailyData,
   snapshotAdminSessions), whoever resets, whatever fails or stops: SessionsSurvive. *)
THEOREM SessionsAlwaysSurvive == Spec => []SessionsSurvive
  <1>1. IInv => SessionsSurvive
    <2> SUFFICES ASSUME IInv, \A w \in Workers : ~At(w, "restore"),
                        NEW t \in Tokens, life[t] = "in"
                 PROVE  session[t] # "none"
      BY DEF SessionsSurvive
    <2>1. \A w \in Workers : pc(w) # "restore"  BY DEF IInv, Exclusive
    <2> QED  BY <2>1 DEF IInv, Sessions, Logged
  <1> QED  BY <1>1, Invariance, PTL

(* The schedule wipes a day once, and again only after an attempt that was cut short
   before the marker recorded it (ResetDailyDataIfDue, daily_reset.last_run):
   OncePerDay.                                                                  *)
THEOREM WipedOncePerDay == Spec => []OncePerDay
  <1>1. IInv => OncePerDay  BY DEF IInv, WipesCounted, OncePerDay
  <1> QED  BY <1>1, Invariance, PTL

(* The scheduler sleeps until tomorrow only when today's reset is recorded, however
   the attempts before it failed (StartDailyResetScheduler, nextDailyReset):
   CaughtUp.                                                                    *)
THEOREM NeverSleepsThrough == Spec => []CaughtUp
  <1>1. IInv => CaughtUp
    BY DEF IInv, TypeOK, Planned, CaughtUp, TimerFires
  <1> QED  BY <1>1, Invariance, PTL

(* No reset leaves a lucky code in its table and not in its list, whatever is
   published meanwhile: NoCodeStranded.                                         *)
THEOREM NoCodeEverStranded == Spec => []NoCodeStranded
  <1>1. IInv => NoCodeStranded
    BY DEF IInv, Listed, NoCodeStranded, Wiping
  <1> QED  BY <1>1, Invariance, PTL

=============================================================================
