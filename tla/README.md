# A verification model of kuaizudui

The program is a Go server with a MySQL database, a Redis instance and a Vue
frontend. Users publish a piece of content per activity type and receive each
other's content; a *claim* hands a claimant the content of one publisher, chosen
by a priority queue that publishers pay for with points, and otherwise by a
rotation over everyone who has chances left. Beside that there are lucky codes, a
points account with exchange codes, referrals and recharges, a daily reset and an
admin panel.

This directory holds TLA+ modules that model the server's core, TLC
configurations that check them on small instances, and proofs that TLAPS checks
for instances of any size. Line numbers below are lines of the source at the
modelled commit; `platform.go` is `src/backend/internal/platform/platform.go`,
`activity.go` and `lucky.go` are in `src/backend/internal/queue/`.

## 1. Inventory of the system

| Component | State it keeps | Operations | Modelled in |
| --- | --- | --- | --- |
| Activity queue scripts (`activity.go`) | Redis, per activity type: two sorted sets (score = place, its sign = selectable or parked), two hashes of counts, the cursor of the rotation; one sequence counter for all types | enqueue, add, next, next by cursor, remove, flush, status | `ActivityQueueScripts`, `ActivityQueue` |
| Publish, boost, claim (`platform.go` 635-1039) | MySQL `activity_contents`, `activity_claims`, `users.points`; Redis: the queues and the `seeded` flag; per request: its locals | `PublishActivity`, `BoostActivity`, `UseActivity`, `ensureActivityQueues` | `ActivityClaim`, `ActivityLedger` |
| Lucky codes (`platform.go` 480-633, `lucky.go`) | MySQL `lucky_codes`; Redis: a list, and one claim key with a TTL per code | publish, receive from the list, use from the page, release | `LuckyCodes`, `LuckyLedger` |
| Points ledger (`platform.go` 365-462, 1067-1131; `admin.go` 104-256) | MySQL `users`, `point_records`, `exchange_codes`, `exchange_redemptions`, `recharge_records` | bind a phone, apply a referral, exchange a code, recharge, create codes | `PointsLedger` |
| Daily reset (`platform.go` 136-317) | MySQL `settings` (marker); a mutex; the scheduler's position and its clock | scheduled reset, manual reset, retry, catch-up after a restart | `DailyReset`; among the activity requests in `ActivityClaim` |
| Admin sessions (`admin.go` 64-102) | Redis keys with a TTL | login, authenticate, logout; snapshot and restore by the reset | `DailyReset` |
| Group QR code (`httpapi/qrcode_upload.go`) | one file on disk, one setting | upload, remove, serve | `GroupQRCode` |
| Update events (`realtime/activity_updates.go`, `httpapi/activity_events.go`) | Redis pub/sub channels, one SSE stream per page | publish to one user or to all, subscribe | `InvitePage` |
| Invite page (`useInviteActivity.ts`) | what the page shows, its flags, revision and queued refresh, the stream and its timer | load, publish, boost, copy, refresh on an event, reconnect, hide, unmount | `InvitePage` |
| Visitor session (`api.ts`, `session.ts`, `router`) | the uid in localStorage, the referral gate | open a page, apply a referral, load the user, subscribe, any other call | `VisitorSession` |
| Migrations (`database/database.go`) | schema and marker rows | one-off credit migrations | planned last |
| Routing, handlers, configuration, notices, feedback, lists | none, or one row per call | decode, call, encode | not modelled: no state beyond a single statement |

**How they interact.** Each HTTP request is a goroutine that calls one method of
`Platform`. The methods share nothing in memory but the reset's mutex: all they
share is MySQL and Redis, where a transaction (with the row locks it takes) or a
script is one indivisible step and everything between two of them is open to other
requests. After a commit, publish, boost and claim change Redis in further steps
and announce the change on a pub/sub channel, from which the SSE handler wakes the
pages. At startup the server empties the queues; the first claim of an activity
type rebuilds them from MySQL. The daily reset empties Redis and the daily tables
under whatever is running.

**What is hard.** Interleavings of requests between statements; state read from
one store and used against the other; a step that fails, or a client that goes away,
after a commit; a restart at any point; the rotation's fairness through parking,
re-activation, joins and removals. The full list of these hazards, with the
line each bites at and the properties that cover it, is in `PROJECT.json` under
`hazards`.

**What makes each component correct.**

- *Queue scripts*: sign and count agree; places are distinct and permanent; a
  bounded fetch finds what a full scan would; nobody is served again before
  those who were waiting.
- *Publish, boost, claim*: credits balance against rounds, claims and points at
  every moment; a publisher's content reaches a claimant once; no one receives
  their own; the queues say what MySQL says; "nothing to claim" is the truth.
- *Lucky codes*: one taker per code, never the owner; an available code can
  still be received by somebody, eventually.
- *Points*: the balance is the sum of the records; one referral reward per user;
  a code is redeemed within its limits.
- *Daily reset*: every day, and once a day but for attempts that were cut short;
  admin sessions outlive it; MySQL and Redis agree after it.
- *QR code*: the setting names a file that exists.
- *Invite page*: once requests and events are over, it shows what the server has.
- *Visitor session*: a visitor who was invited goes on as the user that was invited, and
  one visitor is one user.

## 2. Modules

| Module | What it is |
| --- | --- |
| `ActivityQueueScripts` | The Lua scripts as operators on what Redis holds for one activity type. No variables. |
| `ActivityQueue` | A state machine over them: any order of calls of `ActivityQueue`'s methods, with history variables for the rotation. |
| `ActivityClaim` | The three request handlers over MySQL, the queues and the seeded flag; one action per statement, transaction or script. |
| `ActivityLedger` | The abstract specification: what one activity promises its publishers, with no queue, cache or request. |
| `ActivityClaimRefinement` | The refinement mapping from `ActivityClaim` to `ActivityLedger`. |
| `ActivityClaimProofs` | The theorems on `ActivityClaim`. |
| `LuckyCodes` | The three lucky-code handlers over the rows, the list and the claim keys; one action per statement, transaction or script. |
| `LuckyLedger` | The abstract specification: a code goes to one other user, for good. |
| `LuckyCodesRefinement` | The refinement mapping from `LuckyCodes` to `LuckyLedger`. |
| `LuckyCodesProofs` | The theorems on `LuckyCodes`. |
| `ActivityQueueProofs` | The theorems on `ActivityQueue`, with the lemmas on the scripts, places and the cursor. |
| `DailyReset`, `DailyResetProofs` | The scheduler and manual resets, against the clock, errors, restarts, logins and the publication of lucky codes; the theorems. |
| `PointsLedger`, `PointsLedgerProofs` | The transactions on points, lock by lock, and the theorems on them. |
| `InvitePage`, `InvitePageProofs` | One page, its requests and its stream, against a server that changes; the theorems. |
| `GroupQRCode`, `GroupQRCodeProofs` | Upload, removal and delivery of the image over files and a setting; the theorems. |
| `VisitorSession`, `VisitorSessionProofs` | The uid of one browser, the referral gate and the calls inside and outside it; the theorems. |
| `MCActivityQueue`, `MCActivityClaim`, `MCLuckyCodes`, `MCPointsLedger`, `MCGroupQRCode` | Instances for TLC. |

The modules divide the system as the code does: what the components share is a row
or a key, and where two of them meet over one, the meeting is modelled in the module
whose properties depend on it. The scripts are composed with the handlers in
`ActivityClaim`, and the daily reset is composed with the handlers there again, reduced to
what it does to their stores. Its own calls, clock and retries are `DailyReset`, in
which lucky codes stand for all data that lies in both stores. Boosts pay
points in `ActivityClaim` (one transaction) and in `PointsLedger` (its reads and locks
against the other transactions of an account).

### Correspondence with the code

**Redis.** A queue of type `k` is `score[k]` and `count[k]`, functions on all users; score
0 stands for "no member", which is no score (sequence numbers start
above zero), and a count that the hash does not hold is 0, as all scripts read it.
`Enqueue`, `Adjust`, `NextActive`, `CursorChoice` with `CursorMove`, and
`RemoveMember` are the five scripts; `FlushQueues` is the `DEL` of `Flush`, which
leaves the sequence counter alone; `CursorRank` is what `OrdinaryStatus` shows. The
counter starts at a timestamp in the code and at 0 in the model: scripts only ever
compare places and increment the counter. It is shared by the activity types, so
the numbers of one type may have gaps; no script notices.

**MySQL.** One variable per column: `ordinaryCredit`, `ordinaryRounds`, `priorityCredit`,
`priorityRounds` (`boost_rounds`), `committed` (`boost_points_used`), `claimCount`
(`used_count`), and `points` of `users`; `rows` is the order of the rows' ids;
`claims` is the set of `activity_claims`. A row lock is held within a transaction
only, so a transaction is one action and the lock shows in what its guard may read.

**Requests.** A slot in `Slots` is a goroutine; `req[s].pc` names its next call and the
other fields are its locals. The actions follow the methods:
`Publish`, `LoadRow`, `EnqueueOwn`, `EnqueueOwnPriority` (`PublishActivity`);
`Boost`, `AddBoost` (`BoostActivity`); `Use` (the claimant's row), `CheckSeed`,
`Flush`, `LoadSeed`, `SeedOrdinary`, `SeedPriority`, `MarkSeeded`
(`ensureActivityQueues`), `ListClaims`, then per queue the selection
(`NextPriority`, `NextOrdinary`), the delivery's transaction (`ServePriority`,
`ServeOrdinary`), its refusals (`SkipPriority`, `StalePriority`,
`StaleOrdinary`) with the removal of a stale entry, and after the commit
`ConsumePriority` or `ConsumeOrdinary` and `Earn`; `Invalidate` is `InvalidateSeed`
after a failed write. A request that ends without a change (no points, no
row, an unsupported type) is left out: it is a request that was never made.

**Resets among requests.** `FlushDay` is the `FLUSHDB` of `ResetDailyData`, which takes
the sequence counter along, `EmptyTables` the transaction after it, `ResetFails` an
error in between; `RowGone` is a request that reads its caller's row again and no longer
finds it. A delivery does not read the claimant's row and counts the claim by an update
that may meet no row: `orphaned` counts those. `boosted` keeps what was paid on
earlier days, since points survive a reset, and `crossed` records that a request or a
rebuild of the queues ran across the last reset.

**Failures.** `RedisFault`: a queue write that fails, having run or not. `LoseClaim`:
a claim that ends with an error at any call before its commit (all of them run
under the request's context). `CutOff`: a publish that ends with an error once
its row is written, since every call it has left, `InvalidateSeed` too, uses the
request's context; or a boost or a delivery whose commit took place and whose reply is
lost, after which no queue is touched. `RedisResend`: a connection breaks before the
answer of a script that adds to a count, and go-redis, which retries three times unless
told otherwise, sends it again; the other scripts of a request are idempotent, so
only `Adjust` makes a difference. `MaxBreaks` bounds these two together. `Crash`: the
process dies with every request; the next one resets the queues
(`ResetActivityQueues`).

**Lucky codes.** `status`, `owner`, `usedBy` are the columns of `lucky_codes` by id, with
"none" for an id not given out yet and "deleted" for a row that is gone. `queue` is
`lucky_queue` with the end that `RPOP` takes from first; `holder` is the claim
key of each code. The requests' locals and steps are as above:
`Publish`, `Push`, `Withdraw` (`PublishLucky`); `ReceiveCall`, then in a loop
`PopEntry` or `PopNothing` (`receiveLuckyScript`), the transaction (`Take`,
`TakeRefused`, `TakeFails`) and `Drop` or `Requeue` (`ReceiveLucky`);
`UseCall` (the row as first read), `Claim`, `UseRow`, `Free` (`UseLucky`). `Drop`, `Requeue`
and `Free` are the three uses of `Release`, one `MULTI` that deletes the claim key and, for
`Requeue`, lists the code again.

`Fault` is a call that ends with an error, carried out or not, or one whose connection
breaks before the answer, so that the Redis client sends it again. What is sent again is
carried out in a step of its own, with anything in between: after a push, a pop or a claim
the request stays at that call and makes it once more; after a release it is at
`dropAgain`, `requeueAgain` or `freeAgain`, from where the key, by now perhaps somebody
else's, is deleted a second time and a code that may have been taken is listed again. The
last is counted apart (`Resend`, `MaxResends`), because `OneHolder` speaks of it. `Lose` is a
client that goes away, after which no call is made, no
release either; `Expire` a claim key whose time is up, which takes a day and so never
happens under a request that holds it or has yet to send its release again; `Restart` a
server that dies, `RedisLoss` a Redis that comes back empty. `handed` is history: who was
answered with what.

**Daily reset.** `tick` is the time of day; dates are ages in days (`lastRun` is the
marker row, 0 is today), so that days go by for ever in a finite model. `work[w]`
is the attempt of the scheduler or of an administrator's request: its next call, the date
the scheduler fixed at its check, and the snapshot of sessions. `Lock` is `resetMu`,
`Check` reads clock and marker, `Scan` and `Load` are `snapshotAdminSessions` (one `GET` and `TTL` per
key, the key may expire between them), `Flush`, `Restore` per key and `Delete` the body
of `ResetDailyData`, `Mark` the marker, `Plan` the second reading of the clock
(`nextDailyReset`), `Wake` the timer. `Fail` is an error at any of them, its effect taken or
not, after which the scheduler comes back a minute later (no time in the model, as the
clock need not tick); `Crash` and `Start` are the container's restarts; `Login`,
`Logout`, `Expire`, `Publish` and `Push` go on beside it.

**Points.** A request is a transaction: each of its steps takes the next lock, and the
last one writes, since no other transaction sees its writes before the commit. `lock`
holds rows of users and of codes, and the entry of the unique index on phones, which a
second writer of that phone waits for. `BindRead`, `BindPhone`, `BindReward`
(`BindPhone`); `ReferRead`, `Refer` (`ApplyReferral`: the user is read before, and not in,
the transaction); `ExchangeRead`, `Credit` (`Exchange`); `Recharge`; `Create`, `Expire`
(codes); `BoostRead`, `BoostPay`. `Victim` is a transaction that MySQL rolls back to
end a circle of waits, and only then, `Fail` one that ends with an error. `records` keeps the sum
of `point_records` by user and source.

**Invite page.** What `ActivityDetail` answers is a version number with the flag
"published". `page` holds `loading`, `working`, what is shown, the refresh under way with
its answer, `refreshQueued`, and whether `stateRevision` is still the one the refresh began
with (`current`). Requests are sent, read by the server and answered in three steps,
so answers cross with events and with each other. `link` is the stream (a `fetch` whose body is
read as it comes) or the timer that opens the next one; `telling` the changes committed and not yet broadcast, `events` those on
their way in the stream. `Refresh` is `refreshStatus`; `EndRefresh` its `finally`; `EndAct` that
of the three actions.

**Group QR code.** An upload writes a temporary file (`CreateTemp`), renames it (`Rename`),
reads the previous setting (`ReadPrevious`), writes the new one (`Set`) and removes the
previous file (`Remove`), all under `qrcodeUploadMu` (`Lock`); a removal skips the
first two. The `...Fails` actions are the error paths, with the code's own clean-up, which may fail
too, and, for the setting, the case that the write took place (`unsure`). `View` and `Stat` are the visitor's
reads of the setting and of the file, without the mutex. `Crash` leaves files behind
(`litter` counts what failures may leave).

**Visitor session.** `stored` is the uid in localStorage, `page` the module state of `session.ts`
and `api.ts` (the gate, `loaded`), `call` one call of each kind. `Visit` is a page that is
opened or reloaded, with `captureReferralFromUrl` if its path has a code. `LoadUser` and
`Subscribe` are their functions up to `waitForReferral`, `LoadGoesOn` and `SubscribeGoesOn`
the rest; with `force` the user is asked for again though loaded. `Ask` is every call that does not
wait: `bind` stands for those that may create a user, `read` for those that do not. `Serve` is
`identity` and the handler, as one step: what they do to one user's rows is a single statement, or is
`PointsLedger`'s concern. `Answered` stores the `X-UID` of an answer and settles it. The referral's
answer comes in two steps (`ReferralHeaders`, `ReferralBody`), since its uid is stored
before its body opens the gate. `Lose` is a call without an answer. A call whose page has
gone is not served any more. `kept` and `crossed` are history.

## 3. What is checked

Three users suffice for a claimant, a publisher and someone who is overtaken,
skipped or raced; two slots for every pairwise race.

| Run | Instance | Shows |
| --- | --- | --- |
| `queue` | 3 symmetric users, 4 sequence numbers, counts in -1..1; 19 thousand states | `SignMatchesCount`, `PlacesDistinct`, `WindowIsWideEnough`, `RankPredictsChoice`, `PlaceIsForever`, `NobodyOvertakes` under any calls. Four sequence numbers let three members be in place and one join again, behind a lap under way; counts only matter by their sign and by whether a step crosses zero. |
| `sequential` | 3 users, one with a row, 1 slot, 5 requests or resets, 1 point, 1 failed queue write, 1 lost claim, 1 restart; 1.3 million states | One request at a time, `CountsMirrorLedger`, `PlacesFollowRows` and `EmptyMeansNothing` hold: rebuilding after a failed write, a restart or a reset, parking and re-activation work. Five requests are the two missing publishes and three further requests or resets in any order. |
| `concurrent` | 3 users, two with rows, 2 slots, 3 requests or resets, 2 points each, 1 lost claim, 1 broken connection; 0.4 million states | The ledger is right in every interleaving, resets included: `OrdinaryBalance`, `PriorityBalance`, `ClaimsAreRounds`, `PriorityServesOnce`; MySQL's history is one `ActivityLedger` allows (`LedgerSpec`). With a grant of 1 every publisher's last chance is raced for; three requests are a boost and two claims of the boosted publisher, or two claims and a reset between their steps. |
| `lucky` | 3 users, 2 slots, 2 codes, 4 requests, 1 failure (a fault, a lost client, a restart or a Redis loss) and 1 release sent twice; 0.37 million states | `HandedOnce` and `LuckyLedgerSpec` whatever becomes of Redis; `OneHolder`, one request at a time on a code and one more for each release sent twice, until Redis loses its keys; `AvailableIsListed` until something fails; `NeverReordered` always; and `ClaimsEnd` under fairness: no claim hides an available code for ever. Two takers besides the owner are what it takes to hand a code out twice; four requests are a publication, its two takers and one more; they and the one failure are also what it takes for a release sent twice to let a second one in. |
| `reset` | 1 session, 1 code, days of 3 ticks with the reset at the second, 1 tick during an attempt, 1 fault, 1 restart; 0.6 million states | `SessionsSurvive`, `OncePerDay`, `CaughtUp`, `NoCodeStranded` for resets by schedule and by hand, and `ResetsGoOn` under fairness. Three ticks are one before the reset time, the time itself and one after; days repeat without end. |
| `points` | 3 symmetric users, 2 phones, 1 code, 4 requests, amounts of 1, a reward of 2, limits 0 to 2, 1 fault | `BalanceIsSum`, `NeverOverspent`, `InvitesPaidOnce`, `CodesWithinLimits`, `CodesPayOnce`. Four transactions are two that race and the two that set the scene; a limit of 1 is raced for by two users and by one user twice. |
| `page` | 3 changes of the activity, 1 action, 1 fault, 1 hiding; 0.6 million states | `QuietPageIsFresh`, `NeverBackwards`, and `CatchesUp` under fairness. Three changes are the page's own and one on either side of it. |
| `qrcode` | 2 administrators, 1 visitor, 3 names, 2 faults, 1 restart; 0.17 million states | `SettingHasFile`, `DeniedWasReplaced`, `LeftoversAreFailures`. Three names are the current image and one upload by each administrator. |
| `visitor` | 2 pages, 1 call outside the gate, 1 lost answer; 1 million states | `InvitationKept` and `OneVisitorOneUser`, and `GateOpens` under fairness. Two pages are a visit before the invitation and the landing, or the landing and its reload; every kind of call may be under way at once but for the ones outside the gate, of which one is enough to cross it. |

The type invariants of `ActivityQueue`, `ActivityClaim`, `LuckyCodes`, `PointsLedger`,
`DailyReset` and `GroupQRCode` are proved (section 4) and not checked again.

`MaxTries` of the claims stands for the 1000 attempts of the selection loops: 2 or 3
are enough to run out of candidates or of attempts; that of the lucky codes for the
10 of `ReceiveLucky`. Deadlock is checked in `queue`, `reset` and `qrcode`, whose
processes never finish. The other runs stop when they have received their requests, and so
may the server's work; circles of locks in `PointsLedger` are ended by `Victim`, as
MySQL ends them.

### Where documentation and code part

Each of these runs ends with a counterexample to something the documentation says.

- `twice` (`EachPairOnce`): two concurrent claims of one claimant list its claims,
  select the same publisher and are both delivered. The ordinary delivery inserts
  the claim record with `ON CONFLICT DO NOTHING` and ignores that nothing was
  inserted (`platform.go` 941-945), where `backend/README.md` 183 promises a
  rollback; the priority delivery does roll back (`PriorityServesOnce` holds).
- `drift` (`CountsMirrorLedger`): two requests rebuild the queues at once, or a
  claim's delta lands after a rebuild that has already read its commit. The queues
  count as seeded, differ from MySQL, and nothing puts that right before the next
  failed write or restart (`backend/README.md` 165, 69). It costs no credit:
  deliveries check MySQL. But a publisher may stay parked with chances left.
- `lucky_loss` (`LossHeals`): nothing rebuilds `lucky_queue` from MySQL, so a code
  whose entry is lost, with Redis or between the row and its push, can only be
  used from the page (`platform.go` 496, `backend/README.md` 69).

`CountsMirrorLedger` holds for requests one at a time with single faults
(`sequential`). Beside concurrency (`drift`) three kinds of failure break it, and the
bounds of `sequential` leave them out; each shows when `MaxRedisFaults` is raised to
2 there, or `MaxBreaks` to 1:

- a publish whose client goes away after the row is committed; the invalidation runs
  under the same dead context (`platform.go` 665-672, where `backend/README.md` 215 says
  that a failed write invalidates the flag). A boost or a delivery whose commit is made
  and whose answer is lost has the same effect, without an invalidation being tried.
- a boost's or delivery's queue write that runs out of the one second it shares with
  `InvalidateSeed`, which then fails too (`platform.go` 744-748). The model has it
  as two failures in a row.
- an increment that the Redis client sends twice is applied twice, without an
  error (`activity.go` 231, `main.go` 51-55).

Other disagreements came up while modelling. No run is spent on them; each is visible in
the actions named, and the properties above say how they are excused.

- The two documents disagree on ordinary credit. `CONTEXT.md` 15 says that it "is always
  `Claim Count - Ordinary Rounds`" and that "a new publication starts with zero credit";
  `backend/README.md` 168 adds `activity_publish_ordinary_credit`, and so does the code, which
  gives it to a first publication (`platform.go` 646): `Publish`, `Grant`, and `Join` in the
  ledger. `OrdinaryBalance` is the equation with the grant. Both hold where the setting is 0.
- The claim keys are there to let one request at a time work on a code (`lucky.go` 65-83,
  128), but a release deletes the key whoever's it is by then. One that the Redis client
  sends again, after its connection broke (`main.go` 51-55), may delete the key of a
  request that has claimed the code in between, and a third claims it as well, with all of Redis
  intact: `Resend`, and `1 + spent.resends` in `OneHolder`. A put-back that is sent again also
  lists a code that has been taken. No code goes to two users by it, since the row's status is
  looked at under its lock (`HandedOnce`).
- The cursor moves at selection, so a claim that fails afterwards has moved it past a
  publisher who was not served (`activity.go` 388; its comment at 62 and `backend/README.md`
  92, 202 say that only successful claims move it): `NextOrdinary`, `LoseClaim`.
- A claim between the reset's `FLUSHDB` and its transaction rebuilds the queues from rows
  that are about to go, so that they do serve deleted entries, which the comment at
  `platform.go` 131-133 excludes; deliveries find no row and remove them. Who publishes again
  before that keeps the old, perhaps parked, count: `crossed`.
- `backend/README.md` 106 and 109 have every administrator log in anew each day; the code
  restores the sessions. A login between the snapshot and the flush is lost, and one that
  logs out in between may come back (`Login`, `Logout`; `life`). A session without
  expiry, which the comment at `platform.go` 197 rules out, arises when a key's remaining time
  rounds to nothing (`Load`).
- "Restarting the server never wipes the same day twice" (`platform.go` 211-213): it does if
  it dies between the deletion and the marker. `OncePerDay` allows one wipe more for each
  attempt that was cut short.
- "A transient error cannot skip the day" (`platform.go` 250-252): one that lasts until
  midnight does, and so does a check just before the reset time that is followed by the
  second reading of the clock, at 267, just after it (`slipped`).
- A referral stored after the phone was read unbound pays nobody, if the phone is bound
  meanwhile (`platform.go` 431): `late`.
- The setting of the group QR code may name a removed file when the write is made and
  its answer lost (`qrcode_upload.go` 116-120): `unsure`.
- The gate holds back two kinds of request so that a visitor is not split into several
  users (`api.ts` 133-135). Any other that is sent beside the referral, as the notice of the
  landing page itself is (`ActivityListPage.vue` 19), goes out without a uid and is given one
  of its own (`router.go` 107-116). If it is answered after the referral, its uid replaces
  the invited one in the browser (`api.ts` 112-113), and the visitor goes on as a user whom
  nobody has invited: `crossed`. `/activity/events`, which the comment names, creates no user.
- The page forgets a refresh that was queued during an action
  (`useInviteActivity.ts` 114-117; nothing looks at it at 155-157, 195 and 217), though every
  event is to be followed by one (`backend/README.md` 227): `EndAct`, `dropped`. A daily reset tells
  no page at all (`DailyReset` of `InvitePage`, `untold`).

Where one of these is an excuse in a property (`crossed`, `slipped`, `late`, `unsure`, `dropped`,
`untold`, the attempts cut short in `OncePerDay`, the failures above that the bounds of `sequential`
leave out), the property says nothing about the hazard beyond it; the `note` of the hazard in
`PROJECT.json` says how far it is covered.

`NeverReordered` is about codes that stay in the list. An entry that is put back after
a failed transaction goes to the head, ahead of the older ones that its receiver
skipped (`platform.go` 587), so the list is not always in the order of publication.

### Fairness

`LuckyCodes!FairSpec` assumes weak fairness of each request's work, since a
goroutine with its calls' deadlines runs on to its end, and of the expiry of each
claim key, since Redis deletes a key whose time to live is over and every
claim is set with one (`lucky.go` 66, 129). Nothing else is assumed: no user is obliged
to call, and failures happen when they do.
The activity modules assume no fairness. The rotation's fairness is stated
as safety (`NobodyOvertakes`): what a selection may not do, rather than what must
happen eventually, since nothing obliges users to claim.

`DailyReset!FairSpec` assumes that time goes on (strong fairness of `Tick`), that the
container is started again (weak fairness of `Start`; `restart: unless-stopped`), that
every worker takes its steps, and that one who waits for the mutex gets it however
often others take it in between (strong fairness of `Lock`: `sync.Mutex` hands
itself over to a waiter of more than a millisecond). Errors and crashes are
bounded, and that is needed: against errors for ever no retry helps.

`InvitePage!FairSpec` assumes that requests are answered, broadcasts sent, events read
and timers fire; nobody has to change or do anything. The server's part of an action
may be refused, so it needs no commit.

`VisitorSession!FairSpec` assumes that the referral is served and its answer arrives (or that it
fails), and that what waits for a promise goes on once the promise is settled. No other call need
be answered.

## 4. What is proved

Every theorem holds for all values of the constants that satisfy the assumptions the
modules state: users, slots, names, codes, amounts and bounds of any number (finite where
they are counted), and the special values (`Nobody`, `None`, `Nothing`) outside them. The
proofs assume nothing else, but for the three theorems marked with a star: those are
about requests that come one at a time, and have that as a hypothesis (`OneAtATime`).

| Module | Theorem | Property |
| --- | --- | --- |
| `ActivityQueueProofs` | `TypeCorrect` | `TypeOK` |
| | `SignsAlwaysMatch` | `SignMatchesCount` |
| | `PlacesAlwaysDistinct` | `PlacesDistinct` |
| | `PlacesArePermanent` | `PlaceIsForever` |
| | `RotationIsFair` | `NobodyOvertakes` |
| | `WindowAlwaysWide` | `WindowIsWideEnough` |
| | `RankAlwaysPredicts` | `RankPredictsChoice` |
| `ActivityClaimProofs` | `TypeCorrect` | `TypeOK` |
| | `OrdinaryBalanceHolds` | `OrdinaryBalance` |
| | `PriorityBalanceHolds` | `PriorityBalance` |
| | `PriorityServesOnceHolds` | `PriorityServesOnce` |
| | `NeverOwnContentHolds` | `NeverOwnContent` |
| | `ClaimsAreRoundsHolds` | `ClaimsAreRounds` |
| | `ImplementsLedger` | `LedgerSpec` |
| | `CountsMirrorLedgerHolds` * | `CountsMirrorLedger` |
| | `PlacesFollowRowsHolds` * | `PlacesFollowRows` |
| | `EmptyMeansNothingHolds` * | `EmptyMeansNothing` |
| `LuckyCodesProofs` | `TypeCorrect` | `TypeOK` |
| | `HandedOnceHolds` | `HandedOnce` |
| | `OneHolderHolds` | `OneHolder` |
| | `AvailableAlwaysListed` | `AvailableIsListed` |
| | `OrderIsKept` | `NeverReordered` |
| | `ImplementsLuckyLedger` | `LuckyLedgerSpec` |
| `PointsLedgerProofs` | `TypeCorrect` | `TypeOK` |
| | `ReadsStayTrue` | `ReadsHold` |
| | `BalanceIsAlwaysSum` | `BalanceIsSum` |
| | `PointsNeverOverspent` | `NeverOverspent` |
| | `InvitationsPaidOnce` | `InvitesPaidOnce` |
| | `CodesStayWithinLimits` | `CodesWithinLimits` |
| | `CodesAlwaysPayOnce` | `CodesPayOnce` |
| `DailyResetProofs` | `TypeCorrect` | `TypeOK` |
| | `SessionsAlwaysSurvive` | `SessionsSurvive` |
| | `WipedOncePerDay` | `OncePerDay` |
| | `NeverSleepsThrough` | `CaughtUp` |
| | `NoCodeEverStranded` | `NoCodeStranded` |
| `InvitePageProofs` | `NeverGoesBack` | `NeverBackwards` |
| | `QuietPageShowsLatest` | `QuietPageIsFresh` |
| `GroupQRCodeProofs` | `TypeCorrect` | `TypeOK` |
| | `SettingAlwaysHasFile` | `SettingHasFile` |
| | `DeniedOnlyIfReplaced` | `DeniedWasReplaced` |
| | `LeftoversBounded` | `LeftoversAreFailures` |
| `VisitorSessionProofs` | `InvitationIsKept` | `InvitationKept` |
| | `OneVisitorStaysOneUser` | `OneVisitorOneUser` |

**The queue.** That the rotation is fair is a statement about two selections and all that
lies between them, so no invariant on places alone gives it. `Sound` collects the types,
signs and distinct places; `Lap` says what is pending: the members whom the lap under way has
yet to reach are those whose places lie past the cursor, and a member is owed a turn only to
members whom the lap comes to after it. Parking and re-activation keep the place, a join takes a place behind
all others, and a selection moves the cursor to the place it picks: each step keeps
`Lap`. `WindowIsWideEnough` and `RankPredictsChoice` then follow from `Sound`, since they compare
two ways of reading one state.

**Publish, boost, claim.** None of the balances is inductive alone. `IInv` adds to the types
and the balances what a request knows: a request past its first step has a caller,
one that holds a candidate holds a user other than its caller, one that is boosting
holds a natural number of points, one that enqueues has a row to enqueue. It does not say
that the caller has a row, for a reset may have deleted it. A delivery keeps the
balances because its guard reads the candidate's row under the lock in the very step
that changes it; claimant and candidate being different users is what makes the two
updates of `ordinaryCredit` independent, and what the refinement needs for
`ActivityLedger`'s `c # p`. `IInv` rests on type lemmas on the scripts: each maps a Redis
state to a Redis state, and a selection returns a user other than the claimant, or
nobody. The refinement is then shown step by
step: `Publish` of a new user is `Join`, `Boost` is `Buy`, the deliveries and the deletion
of the day's tables are their namesakes, every other action stutters.
`PriorityServesOnce` compares a count with the cardinality of a set: a priority round adds
a claim record that was not there, and no step removes one without resetting the count.
`ClaimsAreRounds` compares two sums over users, and its step lemma is short once the sums are
understood: a delivery adds one to one summand of each. That a sum by `SumFunctionOnSet` does
not depend on the order in which its fold takes the elements is proved first, by a
smallest counterexample among finite sets (`SubsetInduction`): the library's own
induction theorem takes an operator, which no prover here can supply. This is where `Users` must be finite (`UsersAreFinite`), as MySQL's tables are.

**The two stores together.** What the documentation promises of MySQL and Redis together is
not true when requests overlap (`drift`), when a write breaks unnoticed or when a second
queue write fails, as section 3 tells. `OneAtATime` states what is left: one slot, `MaxBreaks = 0` and
`MaxRedisFaults` at most 1, with any number of users, rows, chances, points, requests, resets,
restarts and lost claims. It is how `sequential` is instantiated, and `drift` shows that
one slot cannot be dropped. Two assumptions on constants are used here only: a user
has one row (`RowsAreUnique`, the index `uid_activity_type`), and a loop makes an attempt
(`TriesArePositive`; the code's constant is 1000).
The inductive invariant is `SeqInv`, which TLC checked on `sequential` before it was proved. In it:

- `Sound`, which holds of every reachable state, not only of these: sign and count agree, places
  of members differ and none lies past the counter. It rests on what each script does to the one entry
  it touches (`Kept`, `Joined`, `Gone`).
- `RowsInv`, likewise: the rows are of different users, and who has none has no credit.
- `Mirrored`, the heart of it: while the queues count as seeded they *show* the rows (`Shows`:
  these members, in this order, with these counts) up to what the request under way owes them
  (`OwedOrdinary`, `OwedPriority`: what its transaction has committed and its next scripts
  will add), or all rows but the one it has just published (`Fresh`); while it rebuilds them they show the
  rows it has come to (`Rebuilt`). After a failed write nothing is said, until `Invalidate`
  has cleared the flag.
- `Told`, what the request has read and is still so, since nobody else steps in between. A
  selected publisher has chances, so a delivery finds no stale entry; a claim that has come to the
  ordinary queue has seen the priority queue empty of anybody new to it.

`Told` and `Mirrored` are claimed only while `crossed` is false. Each action has a lemma
(`...Still`) that it keeps them. At rest nothing is owed, which gives `CountsMirrorLedger` and
`PlacesFollowRows`. `EmptyMeansNothing` needs two facts about selections: `nextActivityScript` answers nobody
only if every active publisher is excluded or the claimant, though it looks at
a bounded window (`WindowIsWide`, by counting), and `nextByCursorScript` too (`CursorFinds`).

**Lucky codes.** Here the order is the other way round: every step is first shown to be a
step of `LuckyLedger` (`Refines`), and `HandedOnce` with the types of the rows is then
preserved because the ledger's steps preserve it (`LedgerStep`). The inductive
invariant adds of the requests that they have a caller, and that one that publishes
has a row; nothing about the list or the claim keys, which shows that no loss
or mixture in Redis can hand a code out twice: the guard of the statement on the
row alone excludes it.

What Redis adds is proved on top. `TypeCorrect` needs that the list after a put-back is a
list of codes, and `OrderIsKept` that it holds the others in the order they had: both by
the explicit embedding of the old list in the new one that `PutBack` gives, before and behind
the entry put in. `OneHolderHolds` counts (`ClaimsInv`): those who are `Working` on a code, holding it or
about to release it again, are at most the `Keys` set for it (one or none) and the releases
sent twice so far (`Counted`). Who starts to work has set the key in the same step, in
`receiveLuckyScript` or by the claim, where there was none; who deletes a key, his own or not,
stops working, or has just been counted once more. So nothing but a release that is sent
twice lets in a second one, and each lets in one. Counting is why `Slots` must be finite
(`SlotsAreFinite`), as the requests under way are. `AvailableAlwaysListed` is proved
for the runs without failure, as it is stated, from `CleanInv`: while nothing was lost
or refused, a row, its entry and its holder change in the code's order, so an available row
is listed, held by a claimant or about to be pushed.

**Points.** The inductive invariant is `TypeOK` with `ReadsHold`: what a transaction has read
is still so when it writes, because it holds the lock of what it read (the unbound row, the
free phone, the open code, the balance that suffices). Every property of the ledger then
holds step by step. `InvitesPaidOnce` relates the records of a user to the number of users
who name it as inviter, so its step lemma is about a set that grows by one; it is where
`late` is needed. `CodesPayOnce` says that the coins of a user are the union of the codes written down
for it; that is so because a code is written down for a user once (`CodesWrittenDown`), by its
redemption when it is public and by its use when it is private, so what a credit adds is disjoint from
what is there.

**Daily reset.** All rests on `Exclusive`: one worker at a time is in a stage under the
mutex, so a step of a reset meets no other reset. `SessionsSurvive` needs `Sessions`: who is logged in
has the session or is about to get it back, and is in the snapshot being taken or about to get
into it. `OncePerDay` needs to know which wipe may be without a cut, the recorded one or the one
under way (`WipesCounted`), for which a dated attempt must be unrecorded and, unless
the clock moved, of today (`Dates`). `CaughtUp` is about sleeping and follows from what
holds when the scheduler plans (`Planned`). `Listed` confines codes that are in their table only to
the stages between flush and deletion.

**Invite page.** `NeverBackwards` needs that of a refresh, a load and an action's answer, the one
that is applied is never older than what is shown (`InOrder`): a refresh whose answer may be older than an
action's has lost its revision. `QuietPageIsFresh` needs `NewsComes`: for the server's latest
version, either the page has it, or a refresh that reads it is under way or queued, or its
event is on its way, or no stream is open (opening one asks for a refresh), or the page is
excused.

**Group QR code.** `Inv` says of the request in the mutex where its file is (`InHand`) and, of a
visitor that has read the setting, that the file it names is there while the setting has
not moved (`Current`). `LeftoversBounded` adds that each file is in one place and
in the hands of one request at most (`Tidy`), so that a step which leaves a file over leaves one only
and is one of those that count a failure (`LooseStep`).

**Visitor session.** The invariant says that nothing of the gated kinds is under way while the gate is up
(`Gate`), that a call which was answered has a uid (`Known`), and that, once the referral
is answered, browser and calls are all of one user, unless a call outside the gate was crossed
(`OneUid`). The referral's own answer is why the first two are needed: what starts before
it would carry no uid and be given a new one.

Model-checked only: liveness (`ClaimsEnd`, `ResetsGoOn`, `CatchesUp`, `GateOpens`), which is beyond
the prover. Every other property of a passing run has its theorem.

## 5. Not modelled, and why

- Several tabs of one browser, which share the uid and not the gate, and a call served after its
  page has gone: `VisitorSession` has one page at a time.
- The migrations: one-off statements at startup, before any request, each idempotent by its
  own condition.
- Routing, handlers, notices, feedback, admin lists, configuration: no state beyond a single
  statement or a file read once at startup.
- The other pages and components of the frontend: presentation of one call's answer.
- The text of contents and codes, formats, status codes, logging.
- What happens within a transaction of MySQL or a script of Redis: each is one step, with all of its
  writes or none. That MySQL undoes those of a transaction that fails is assumed, not shown.
- `ListLucky`, `LuckyStats`, histories and the availability computed after a claim: reads.
  The predicate of `canClaimActivity` is `CanClaim`. `ActivityDetail` reads the row and the
  availability in two statements; `InvitePage` takes them as one version.
- Integer width: the counters are 64-bit and grow by at most a million a call.

## 6. Plan

Done: the queues, the activity and lucky-code requests, the daily reset with the sessions, the
points ledger, the page with its events, the group QR code, the visitor session, with theorems on
every safety property that a run checks. Left: the migrations.
