# A TLA+ verification of mailFastApi

mailFastApi accepts mail over HTTP (`POST /send`), queues it, and hands it to an
SMTP provider from worker processes. This directory holds TLA+ modules of its
parts, TLC configurations that check them on small instances, and TLAPS proofs
of the results that matter most. Paths below are relative to the repository;
the JavaScript sources are in `src/`, and every definition names the lines it
translates in `PROJECT.json` ("map").

## 1. Inventory

The program runs as one process or several (`MAILFASTAPI_ROLE` = `api`,
`worker` or `all`), plus a web panel (`src/web.js`) and command-line scripts.
Processes share Redis (the queue), the operational SQLite file, the log SQLite
file and the SMTP vault. Within a process everything is one event loop: code
between two `await`s runs without interruption, and everything else interleaves.

| Part | State | Operations | What is hard |
|---|---|---|---|
| Redis mail queue, `src/redisMailQueue.js` | pending list, processing list, lease sorted set, delayed sorted set | enqueue, dequeue (pop, then lease), touch, ack (two commands), defer (script), reclaim scan, delayed scan, lease scan of the start | commands of processes interleave, scans act on old replies, a crash or an error between two commands |
| Worker, `src/worker.js` | runners, the job each holds, its attempt | start, processJob (touch, permission, send, record, retry, defer, dead-letter, ack), stop | late runners, lost SMTP replies, sinks that throw, deferral and retry, at-least-once |
| Memory queue, `src/queue.js`, `src/memoryMailQueue.js` | array with head, waiters, timers of deferred jobs, closed flag | enqueue, dequeue, defer, close, stop | hand-over between enqueue and waiting consumers, deferred jobs against a full or closed queue, capacity |
| Send API, `src/app.js` 307-477 | none of its own; idempotency records and the queue | validate, look up the key, suppression, enqueue, store the reply, audit | two requests with one key around the awaits, a crash or an error after the enqueue |
| Dead-letter replay, `src/app.js` 479-524, 666-743, 1187-1402, `scripts/retry-dead-letters.js` | `dead_letter_jobs` rows, the cycle's running flag | list, replay one, replay many, automatic cycle, mark as final | replay decides, awaits the enqueue and then marks: manual and automatic replays and several processes overlap |
| Operational store, `src/operationalStore.js` | SQLite tables: suppressions, idempotency, dead letters, lifecycle, events, bounces, complaints, audit chain | inserts, lookups, updates, the migration of the suppressions | the audit chain reads the last hash and then inserts; a request writes to several tables one by one; the migration has no transaction; expiry of keys |
| Delivery policy, `src/deliveryPolicy.js` | none; counts the delivery events of the last minute, hour and day | checkSendPermission, attempts, greylist delay | the quota is checked when an attempt starts and counted when it is over |
| Bounce classifier, `src/bounceClassifier.js` | none | classifyBounce | order of the rules decides hard or soft |
| HTTP front, `src/app.js` 227-300, 987-1171, 1745-1774, `src/auth.js` | rate-limit buckets | JWT and API keys, rate limit, payload validation | window boundary |
| Recipient webhooks, `src/app.js` 1421-1547 | suppressions, bounce and complaint rows | unsubscribe, bounce, complaint | writes to several tables, one by one |
| System log, `src/systemLogger.js`, `src/systemStore.js` | buffer, the batch of the running flush, log file, log table | log, flush (threshold or timer), close | flush against log and close, a failing append or insert |
| Monitor, `src/monitor.js`, its routes in `src/app.js` 745-931 and `src/web.js` 419-516 | totals, timelines and per-account statistics counted from log entries; of an open page: its stream and its polling | ingest, snapshot, stream, poll | streams that break or are refused for good, late answers, restarts of the core |
| Web panel, `src/web.js`, `src/webAuth.js`, `src/totp.js` | sessions, form tokens, login failures, the update job; of an open update page: its requests, timer and buttons | setup, enrolment, login, revocation, settings, update job, update page | pages of an earlier stage in several tabs, expiry and restarts, lock-out, events of a child in any order, late answers |
| SMTP vault, `src/secureStore.js`, `src/mailer.js` | encrypted accounts, default account, admin user, TOTP, recovery codes; transporter cache | open (salt), upsert, delete, set default, enrol, verify, recover; resolve, send | two first starts at once, the default account between two statements of a deletion, one use of a recovery code, stale transporters |
| Updater, `scripts/updater.js`, `updater.sh` | lock file, working tree, `node_modules`, `update-state.json`, services | check, lock, merge, install, verify, restart (at once or deferred), health check, roll back | what the check saw is used after the lock, a crash between steps, stale locks, a failing roll back |
| Process life, `src/app.js` 564-660, `scripts/start.js` | shutting-down flag | bootstrap, graceful shutdown, forced exit | requests in flight during the drain |
| Configuration, `src/appSettings.js`, `src/productionGuard.js`, `src/dkimConfig.js`, `src/domainHealth.js` | environment, stored overrides, DNS answers | overlay at the start, form, save; validate, resolve | a form from a page that is older than what is stored, compared with an environment that is older than both |

What makes the parts correct: an accepted mail stays stored until it was sent or
given up; it is sent twice only for a reason the documentation accepts; every
accepted mail is settled in the end; an idempotency key stands for one mail; a
dead letter is replayed at most once and never after it was called final; the
memory queue loses no consumer and no capacity; quotas, locks, sessions and the
audit chain keep what they promise under concurrency.

How they interact: `POST /send` writes to the queue and to the operational store;
workers take jobs from the queue, ask the delivery policy, call the mailer and
write outcomes, suppressions and dead letters to the store; the automatic cycle
and `POST /dead-letters/retry` read dead letters and write to the queue again;
every part writes to the system log, which feeds the monitor; the web panel
writes the vault, with the accounts and the managed settings, and starts the updater, whose restart takes
the panel down.

## 2. The modules

| Module | Models | Composed of | Proofs in |
|---|---|---|---|
| `RedisMailQueue` | `src/redisMailQueue.js` | | `WorkerProofs` |
| `Worker` | `src/worker.js` and start, drain and stop of a process in `src/app.js` | EXTENDS `RedisMailQueue` | `WorkerProofs` |
| `MailDelivery` | abstract: what a 202 promises | implemented by `Worker` | `WorkerProofs` |
| `MemoryMailQueue` | `src/queue.js`, `src/memoryMailQueue.js` | | `MemoryMailQueueProofs` |
| `BoundedFifo` | abstract: a bounded first-in first-out buffer | implemented by `MemoryMailQueue` | `MemoryMailQueueProofs` |
| `SendApi` | `POST /send`, idempotency records | | `SendApiProofs` |
| `DeadLetterReplay` | automatic and manual replays over `dead_letter_jobs` | | `DeadLetterReplayProofs` |
| `OperationalStore` | suppressions with their migration, webhooks, audit chain (`src/operationalStore.js`, `src/app.js`, `src/bounceClassifier.js`) | | `StoreProofs` |
| `DeliveryPolicy` | quotas: `src/deliveryPolicy.js`, with the worker's checks and rows | beside `OperationalStore` in `MCOperationalStore` | `StoreProofs` |
| `SystemLog` | `src/systemLogger.js` and the end of `gracefulShutdown` | | `SystemLogProofs` |
| `MonitorPage` | `src/monitor.js`, the monitor routes of the core and of the panel, the script of the page | beside `SystemLog` in `MCSystemLog` | |
| `Updater` | `scripts/updater.js`, run by hand and by the panel | | `UpdaterProofs` |
| `LoginLock` | failed log-ins of an address (`src/webAuth.js`) | | `PanelProofs` |
| `WebAuth` | set-up, enrolment, log-in, sessions (`src/web.js`, `src/webAuth.js`, `src/secureStore.js`) | EXTENDS `LoginLock` | `PanelProofs` |
| `UpdateJob` | the panel's records of updates (`src/web.js`) | beside the others in `MCWebPanel` | `PanelProofs` |
| `UpdatePage` | the script of the update page (`src/web.js`) | beside the others in `MCWebPanel` | `PanelProofs` |
| `SmtpVault` | SMTP accounts (`src/secureStore.js`), their choice in `src/app.js`, transporters in `src/mailer.js` | beside the others in `MCWebPanel` | `PanelProofs` |
| `AppSettings` | `src/appSettings.js` and its form in `src/web.js` | beside the others in `MCWebPanel` | `PanelProofs` |

`MC<Module>.tla` adds what only model checking needs (symmetry, sets of faults) and
puts parts side by side that share no state: a variable `part`, chosen in the
initial state, says which of them a behaviour is about, so that a run has the sum
of their states and not the product. The `.cfg` files give the constants. An
operator whose comment starts with "Mutant:" is no part of the system: it is a
wrong version of the definition below it, kept to show that a property notices
the difference.

### RedisMailQueue

One action is one Redis command or one Lua script, because that is what Redis
makes atomic. `pending` is the list (oldest first), `processing` counts the
copies of each payload in the processing list, `leases` is the lease sorted set
("none", "live", "expired"), `delayed` the delayed sorted set ("none",
"waiting", "due"). Times are reduced to that: whether a score is past. A
process's background scan reads a reply (`ReclaimScan`, `PromoteScan`,
`LeaseScan`) and then works through it with one command at a time, and `scans`
keeps the reply in between, so that other processes come between reply and use.
`OneCopyAtMost` and `GoneForGood` are about every interleaving of these; their
proof allows any consumer (`ConsumerStep`), not only the worker.

### Worker

`pc[p]` is the place of the runner of process `p` in `processJob`: `lease` (the
second half of dequeue), `touch`, `permission`, `defer`, `send`, `record`,
`deadletter`, `ack`, `unlease` (the second half of ack). A step ends at an
`await`, and also where a SQLite call may throw. The outcome of SMTP and of
`checkSendPermission` is a choice. Faults are counted and of named kinds: a
crash, a graceful restart, a runner so late that its lease runs out, a failing
Redis command, a failing SQLite call, a failing dead-letter insert, a lost SMTP
reply. History variables say why a property may be excused: `lapsed` (a lease ran
out on its holder), `usurped` (a start took the job of a healthy holder for an
orphan), `misreported`, `abandoned`. A start sets `usurped` only where it puts a
lease of the past over a job that some runner holds.

### MemoryMailQueue

`items` and `head` are the array and its head, as in the code, with the
compaction; `waiters` are the parked resolvers of `dequeue`, `timers` the
deferred jobs. A runner that was woken re-enters the loop of `dequeue` in its
own turn, so another one may be faster. After a close, a deferral timer drops
its job, as the code does (`dropped`). `Forget` is a runner whose `processJob`
throws because a sink does: the worker's loop logs that and goes on, and nothing
has the job any more (`forgotten`).

### SendApi

A request's states follow the awaits of the handler. Up to `queue.enqueue` all is
one turn: lookup, comparison of the request hash, suppression check, answer
(`Replay`, `Conflict`, `Suppressed`, `Start`). Then the queue has taken the job
or is full, and the request waits for the reply and for `getDepth`
("recording"); record and answer are the last turn (`Finish`). Crashes and lost
replies come at the awaits. `Init` spreads the requests over the processes;
`excused` names the keys for which two writes have a named cause.

### DeadLetterReplay

The rows of `dead_letter_jobs` are a sequence; a replay (the automatic cycle of a
process, or a request) reads its batch of rows, takes them by their id, decides on a row (`Skip`, `Reject`,
`Accept`), awaits the enqueue, and marks the row by an `UPDATE` whose `WHERE`
clause is its guard. The worker is reduced to what it does to a replayed job: it
sends it and acks (`Deliver`), sends it and does not come to the ack, because of a
lost SMTP reply, a sink that throws or a crash (`DeliverUnacked`, `unacked`), writes a
new row with the copied counter of automatic attempts, with the ack or without, or
acks although the insert of that row failed (`DeadLetterLost`).

### OperationalStore

A handler runs to its end within its process, but every statement commits by
itself, and three kinds of processes share the file. So a request is a row of
statements (`todo`), built by the operators that are named like the functions
of the code (`AddSuppression`, `InsertBounceEvent`, ...), and one action is one
statement; any of them may fail or be the last before a crash. `phase` is the place
of a process in opening the store, with the migration of the suppressions, which
renames, creates, copies and drops without a transaction. `audit` keeps, for each
event, the event whose hash it took over. `promised` and `orphaned` are history; a
promise is kept with its basis, which is "suppression" where the same request
suppresses the recipient and "complaint" where the bounce webhook only says so.

### DeliveryPolicy

The windows are three counters of rows. An attempt is in no count until its rows
are written (`Over`), and a hard bounce writes a second row (`RecordedAgain`), as
does a mail whose first rows could not all be written. Time is the leaving of the
oldest row (`Oldest`): a row is in the shorter windows for a part of its time in
the longer ones.

### SystemLog

`log()` and `flush()` up to its `await` are one turn (`Push`, `Flush`); the append
to the file and the insert that follows are the other (`Written`). An append that
fails may have written a part. `Drain`, `Close`, `Leave` are `gracefulShutdown`;
`Die` is a crash or the forced exit. `excused[sink]` holds the entries that sink
lacks for a cause.

### MonitorPage

A snapshot is as good as how far the monitor was when it was made, so it is the
number `counted` of entries and starts of the core so far. `stream` and `replies`
are the snapshots on their way to the page, in order on the stream and in any
order as answers. `source` is the state of the browser's `EventSource`: after a
broken connection it tries again by itself, after an error as the answer (which
the panel gives while the core is down) never.

### Updater

A run moves through `step`; one action is one command (git, npm, systemctl) or
one operation on the lock file, and runs interleave in between. The published
history is a line of versions, because only a fast-forward is merged; `deps` and
`running` say for which commit the dependencies are installed and which one the
services run. `stale` says that the lock file is older than
`UPDATER_LOCK_STALE_MS`. Two causes excuse a property: `broken` (a run was killed
or gave up half way) and `overtaken` (a lock was removable while its run went on).

### LoginLock and WebAuth

`LoginLock` is one record of `failuresByIp` with a clock of ticks; `recent` is the
history of failures it is compared with. In `WebAuth` a page that was rendered stays
open in its tab (`page`, `cookie`, `tokens`) across other requests, the end of a
session and restarts, and is posted when its user likes; each handler is one turn,
but the panel may die between the two writes of a handler (`DieInSetup`,
`DieInConfirm`).

### UpdateJob and UpdatePage

`UpdateJob` has the panel's side: the record of a job, its child, and the events
`error`, data, `exit` and `close` that change the record in any legal order. `wrote`
is what the child reported, `read` what of it has come in. A call has an `answer`
(what its body says) and a status `code`, which do not always agree. A restart of the
panel forgets the records and not the children: `outlived` counts those that live on,
`panels` the lives of the panel. `UpdatePage` has the
browser's side: requests and answers under way are a bag, because the page sends the
next request without waiting for the last answer. `overlapped` says that two requests
about the job were under way at once, `interrupted` that a check was sent while a poll
was out.

### SmtpVault

Each row has the number of the save that wrote it and the key it was encrypted
with. Panel and core open the vault on their own (`ReadSalt`, `WriteSalt`), the
panel deletes an account in two statements, and a mail goes through the list of
accounts, the default and the transporter in turns of its own (`ListAccounts`, `Resolve`,
`Send`). `atleast` and `used` relate the account at acceptance to the transporter.

### AppSettings

`env` is the environment of the running panel, `stored` the overrides, `form` what
the inputs of each open page say. A save posts all inputs of its page. On its way
through the form a value may change: an input shows `Held` of it, which for a list that
does not offer the value is the first one offered, and what is posted is stored as
`Normalized` (`Neat` for what is typed, a constant that says of each setting which value
becomes which and which is unfit). `GivenBack` is both, for an input that nobody touches.
`wanted` is what was last entered for each key.

## 3. What the runs check

Each passing run is explored completely (the counts are after symmetry, which
the runs with liveness properties do not use). Each property in it also has a mutant
in `PROJECT.json`: a wrong version of one definition under which TLC finds that
property violated.

| Run | Instance | Distinct states | Shows |
|---|---|---|---|
| `worker_safety` | 1 job, 2 processes, 2 attempts, 3 faults of any kind | 1.8 M | see Worker below |
| `worker_live` | 1 job, 2 processes, 1 attempt, 2 faults (crash, restart, late runner) | 248 k | `EveryLeaves` |
| `memory_queue` | 5 jobs, 2 runners, capacity 2, compaction at 2 | 126 k | see MemoryMailQueue below |
| `send_api` | 4 requests, 2 processes, 1 key and none, 2 bodies, 1 crash, 1 expiry | 457 k | see SendApi below |
| `dead_letter_replay` | 1 mail, 2 automatic cycles, 1 request, 3 rows, 1 fault | 2.1 M | see DeadLetterReplay below |
| `dead_letter_ends` | 2 mails, 1 cycle with a batch of 1, 6 rows, 1 fault | 1.0 M | `EveryMailEnds` |
| `operational_store` | API, worker and panel, 2 tenants, 2 requests, 1 fault; 2 runners, limits of 1, 2 and 3 (the hourly one lifted for the account), mails of 2 recipients | 2.2 M | see OperationalStore and DeliveryPolicy below |
| `system_log` | buffer of 3, flush at 2, 6 entries, 1 failure, 2 exits; page: 3 entries or restarts, 2 breaks, 2 requests, 2 snapshots on the stream | 53 k | see SystemLog and MonitorPage below |
| `updater` | 1 run by hand, 1 of the panel, 3 versions, 2 failures, 1 crash | 1.0 M | see Updater below |
| `web_panel` | 3 tabs of 2 browsers, 1 restart, lock after 2 failures; 3 jobs, 1 call, 2 lives of the panel; 2 accounts, 3 saves, 2 salts, 1 death; 3 settings (a list, a text, a secret), 3 values, 2 administrators, 2 posts; 3 requests under way, 1 restart | 1.9 M | see the parts of the panel below |
| `worker_redis_error`, `audit_chain_forks` | smaller | | violations, section 6 |

The worker runs compare states by a view: `worker_live` without the history variables
that only the safety properties read (`Course`), `worker_safety` with the union of
`lapsed`, `usurped` and `misreported` in place of the three (`CourseAndCauses`). No guard
and no other variable's next value depends on these; `EveryLeaves` does not speak of them,
and the safety properties only of their union.

What the properties say:

* **Worker.** `NoJobLost`: an accepted job that Redis no longer stores was sent or
  given up. `OneCopyAtMost`, `GoneForGood`: the queue never stores a second copy of
  a job, and no stale reply brings an acked one back. `LeaseProtects`: as long as
  no lease ran out on its holder, no start took its job for an orphan, and no deferral
  was misreported, a job has one runner and, while it is worked on, its lease, so that
  a crash is repaired. `DuplicateExplained`: a mail goes out twice only after a lapse,
  if the runner was told that something had failed which had happened, or after a start
  that took a held job for an orphan, which needs no fault (section 6). `PromiseKept`: the pipeline
  implements `MailDelivery`. `EveryLeaves`: every accepted job is settled and leaves
  Redis, or all that stays is a leaseless copy of a settled job in the processing list
  (a late runner's ack took away the lease of the next holder, who then died);
  the next start of a process finds it and sends that mail once more.
* **MemoryMailQueue.** `OnePlaceEach`: no job is copied or left out of the depth, and
  while the queue is open none is lost, but those that a throwing sink makes a runner
  forget (section 6). `NeverOverfull`: deferrals exceed the capacity by no more than the number
  of runners, and the compaction bounds the array. `NoLostWakeup`: while a runner
  sleeps, every queued job has another one on its way. `AllStop`, `EveryTaken`: a
  close lets every runner leave, and every queued job is taken. `BufferKept`: array,
  head and compaction implement `BoundedFifo`.
* **SendApi.** `SecondWriteExplained`: two writes for one key come only from
  overlapping requests, a death, a lost reply or an expired record. `AnswersTrue`:
  what the client is told, now or by a replayed answer, is what the queue has.
* **DeadLetterReplay.** `OneCopyUnlessExcused`, `AutoBudget`: outside overlaps,
  forced replays of final rows and interruptions between a queue write and its mark,
  a mail is replayed as one mail and within its budget. `OneFate`: with the same
  excuses a mail that was sent is not waiting to be sent again, unless the worker did
  not come to the ack of the job it had sent; and no row is both requeued and final. `SuppressedNotReplayed`: a hard bounce of a category under
  suppression is not replayed unforced. `EveryMailEnds`: no row keeps the cycle busy
  for ever, also beyond its batch.
* **OperationalStore.** `SuppressionKept`: whoever was told that a recipient is
  suppressed, and whoever was in the store before the upgrade, finds it so from then
  on, except while a migration has moved the rows aside or after one that ended
  there (`orphaned`), and except for what a complaint at the bounce webhook is told
  (section 6).
* **DeliveryPolicy.** `QuotaOvershoot`: runners that check at the same moment exceed
  a limit by less than what all of them can have under way, with the bounces that
  come by webhook, second rows and deaths in between.
* **SystemLog.** `InOrder`: file and table hold their entries in order and once.
  `LossExplained`: an entry is missing from a sink only for a named cause.
  `NoneWaitsForever`: the timer gets the last few out.
* **MonitorPage.** `PageCatchesUp`: when the log falls quiet, an open page shows in
  the end what the monitor has counted and stays there, whichever streams broke or
  were refused for good and whichever answers came in late.
* **Updater.** `SoleApplier`: two runs apply at once only if a lock was removable
  while its run went on. `WholeInstall`, `StateTells`: between updates that were
  not left half done, tree, dependencies, services and state file agree.
  `ServicesCatchUp`: the services end up on the commit of the tree, roll backs in
  the panel included.
* **WebAuth, LoginLock.** `NoSessionBeforeMfa`: where MFA is required no session
  exists before an authenticator is enrolled, from whichever open page.
  `EnrolmentPagesAgree`: all open enrolment pages show the one secret that a code
  is checked against. `EnrolledOnce`: what is enrolled stays, and its recovery codes
  only become fewer. `FailureBudget`: the fixed windows of the record hold any
  window. `LockEnds`: a lock ends however often the address is tried meanwhile.
* **UpdateJob.** `JobTruth`: the panel reports a failure, of a job or in the answer to
  a call, only of an update that did not report success, and a success only of one
  that did or was killed before it reported (section 6). One panel never has two jobs
  at work, and each earlier one has left one child at most.
* **UpdatePage.** `PageFollows`: a page with nothing under way and no timer does not
  say that something is going on, and lets its user check again, unless two requests
  about the job overlapped or a check was sent while a poll was out.
* **SmtpVault.** `MailServed`: a mail without an account is refused only if there is
  none, the chosen default stands until its account is deleted, and no transporter
  is older than the account was at acceptance. `VaultReadable`: both processes read
  all that either wrote, unless they opened an empty vault at once (`raced`).
* **AppSettings.** `SavedIsNext`: what was entered last for a key is what the next
  start gives it, but for three causes: a form from an outdated page (`crossed`), a key
  that was cleared and entered again (`regiven`), and a value of `.env` that its input
  does not bring back as it is, which any form then stores as the input has it.

### Bounds and why they are enough

* One job in the worker runs: every command of the queue acts on one job, and two
  jobs meet only in the order of the lists, of which no property speaks; the
  theorems hold for any number. Two processes give every race between a holder, a late
  runner and a scan. Three faults allow a lapse, then an error, then a crash on
  one job. `sends` stops at 2, which stands for more.
* Five jobs over a capacity of two in the memory queue fill it, defer into a full
  queue and compact several times.
* Four requests: two that overlap, and after them a third and a fourth that meet
  record, conflict or expiry.
* Three rows: a row, the one of its replay, and one more after the budget
  (`MaxAuto` 1). With two mails and a batch of one, one mail must wait.
* Two requests of three processes: one that promises and one that comes in between,
  while the third process migrates; the theorem holds for any number. Limits of 1 to 3
  with two runners and mails of two recipients meet a limit, pass it and overshoot it.
* Six entries over a buffer of three overflow it during one flush; two exits are
  an orderly and a forced one, in either order. Two breaks of the page's
  connections: one of the stream and one of the request that should make up for it.
* Three versions: one that is installed, one that a first run brings, one
  published in between. Two failures let a roll back fail too.
* Three tabs: two of one browser, whose cookie only one of them matches, and one of
  another. Two secrets suffice to see a second enrolment. Three jobs: one whose
  events come late, the next, and one after a verdict. Three saves: an account, its
  change while a mail is on its way, and another account. Two lives of the panel: the
  first leaves a child, the second starts another beside it. Two posts: a clear and a
  second entry, or an entry by each of two administrators, on a page with a list that
  does not offer the value of `.env`; the other settings have a value that is stored in
  another spelling and one that is unfit. Three requests under way: two about the job
  whose answers cross, and a check.

`CHECK_DEADLOCK FALSE` stands in every cfg, because the instances stop when
jobs, requests, entries or versions are used up.

## 4. Fairness

No liveness property assumes that a request comes, that SMTP succeeds or that
faults stay away (their number is bounded in an instance).

* **Worker.** Weak fairness of a runner's next step, of the background scans, of
  start and stop, and of time (a lease runs out, a deferral ends): the first are
  callbacks of an event loop, the process is restarted by the service manager
  (`Restart=always`, `install.sh:512,540`). Strong fairness of `PermissionGiven`: the
  quota windows are hours that pass. `ProviderDecides` is an assumption about the
  SMTP provider, not about this code: one that is asked again and again accepts or
  refuses for good at some time. It is needed because a deferral starts the
  attempt counter again (section 6), so that the code itself does not bound a job.
* **MemoryMailQueue.** Weak fairness of each runner's turn, of the end of its job
  (attempts and SMTP timeouts are bounded) and of each timer.
* **DeadLetterReplay.** The worker works, the interval of the cycle fires, a replay
  that has begun takes its next step.
* **SystemLog.** The flush timer fires, an append comes back, the process goes on
  to its end.
* **MonitorPage.** Timers fire, a core that stopped is started again, connections and
  requests are dealt with one way or the other, and what was sent arrives. Nothing
  makes an entry come or a connection break.
* **LoginLock.** Time passes; nobody need log in.
* **Updater.** A run that has begun takes its next step, a scheduled restart comes.
  A check never need begin.

## 5. What is proved

Every theorem holds for all values of the constants under the assumptions named
in the modules, which say no more than that sets are disjoint from the values
that stand for "none", that the runners are finitely many, and that bounds are natural
numbers (positive where zero means nothing: `MaxAttempts`, `MaxSize`, `CompactAt`,
`BatchSize`, `Capacity`, `FlushAt`, `MaxVersion`, `Window`, `MaxUnderWay`, `MaxPanels`;
`MaxFailures`, 5 in the code, at least 2). `Neat` leaves what it has made of a value as it
is, since a trimmed text or a number written out is read as itself. Bounds on faults, crashes and entries are parameters as
well, so the theorems hold for any number of them.

| Module | Theorems | Argument |
|---|---|---|
| `WorkerProofs` (queue) | `QueueInvariant`, `SingleCopy`, `GoneStaysGone` | `QueueInv`: a payload is in at most one place, at most once, and only an accepted one is anywhere. The second part is needed because a stale reply may name any job. Each command gets a lemma that says which job it moves and that no other job changes its place. `GoneForGood` follows from the same lemmas: only `Enqueue` makes an unstored job stored, and it does so once. |
| `WorkerProofs` (worker) | `WorkerInvariant`, `TypeCorrect`, `AtLeastOnce`, `Delivers` | `WorkerInv` adds that a runner holds accepted jobs only and that it comes to the ack of settled ones only. Without it `NoJobLost` is not inductive: an ack removes the only copy. The proof uses the step lemmas of the queue, not its definitions. `Delivers` is the refinement of `MailDelivery`: every step is one of its steps or a stutter. |
| `WorkerProofs` (leases) | `LeaseInvariant`, `HolderProtected`, `DuplicatesHaveACause` | `LeaseInv` speaks of each job outside `lapsed`, `usurped` and `misreported`: who holds it is alone, its copy is in the processing list and nowhere else, its lease is there once it was taken, and no reply that a scan still works through would move it (`InTime`, `HeldAlone`). A job that was sent is stored where no pop finds it, and its holder is past the sending (`SentOnce`). A second holder is excluded by what the scans have yet to do, of which `LeaseProtects` says nothing. |
| `MemoryMailQueueProofs` | `MemoryInvariant`, `EachInOnePlace`, `MemoryIsBounded`, `NobodySleeps`, `IsAFifo` | `MemoryInv`: behind the head there is no hole, and the head is short of the compaction or of the first half (`ArrayInv`); the places of a job, the causes of its loss among them, exclude each other (`OnePlace`); what is queued, deferred and in hand is within the capacity and the runners (`Counts`), without which a deferral might exceed it for good; while one runner is parked, the jobs are no more than the runners that are on their way to ask (`NoSleeper`), and each is parked once (`Roster`). `IsAFifo` is the refinement of `BoundedFifo`: only what is live in the array counts there, so that a compaction is a stutter. |
| `DeadLetterReplayProofs` | `ReplayInvariant`, `SingleReplay`, `BudgetHolds`, `FateIsOne`, `SuppressionBinds` | `ReplayInv`: of a mail without an excuse one replay at most is between its decision and its mark, what is live of it is one row or one job, and that one bears the count of all automatic replays so far. A queue write is harmless only because the row behind it counted as a copy until then; a send without an ack leaves a copy behind, and its mail is `unacked` from then on; the budget holds only because the count goes with the copy. |
| `SendApiProofs` | `ApiInvariant`, `KeyWrittenOnce`, `ApiTellsTheTruth` | `ApiInv`: of a key without an excuse one request at most is pending or written, a finished write has left its record, no request is pending beside a record. Without the pending ones the next write could be a second one. |
| `SystemLogProofs` | `LogInvariant`, `LogTypeCorrect`, `SinksInOrder`, `LossHasACause` | `LogInv`: at most one batch is in flight, and each sink, the batch and the buffer follow each other in the order of the entries. That a sink is in order says nothing of what is appended next. `LossExplained` is then inductive beside it: a step keeps the sinks, and what stops waiting goes to a sink or is excused there; that one batch is in flight is needed for the end of a flush. |
| `UpdaterProofs` | `UpdaterInvariant`, `UpdaterTypeCorrect`, `OneApplier`, `InstallWhole`, `StateIsTold` | `UpdaterInv`: as long as no lock was removable, the lock names the run at work (`OwnerInv`), so that what a run has established by its step (`TreeInv`, `CommitInv`) is not undone by another; `CheckInv` says that a fetch never takes a version back, so that a branch has what the check saw. |
| `StoreProofs` (DeliveryPolicy) | `QuotaTypeCorrect`, `QuotaHolds` | The rows of a window and those that the attempts under way may add are counted together: an attempt moves its share from one to the other, and a runner that starts one finds fewer rows than the limit. With the rows alone nothing follows for the next `Over`. |
| `StoreProofs` (OperationalStore) | `StoreInvariant`, `PromisedIsSuppressed` | `StoreInv`: a request that will promise for more than a complaint still has its suppression to write, or has written it (`WillBeKept`), and what is written is in the table, in the renamed one of a migration that will still copy it, or the migration was cut off. |
| `PanelProofs` (WebAuth) | `AuthInvariant`, `MfaComesFirst`, `PagesAgree`, `EnrolledForGood` | `AuthInv` (`PagesFit`): of every open page it says which stage had to be over when it was made, and while none is enrolled that its secret is the pending one; sessions alone say nothing of a form that was rendered earlier. |
| `PanelProofs` (UpdateJob) | `JobInvariant`, `PanelTellsTheTruth` | `JobInv`: every record agrees with what its own child has written and how it ended, and only the last one is running. The latter is needed for the start, so that the panel has one living child at most (`OneLives`), and with it each panel but the present one has left at most one (`outlived < panels`). |
| `PanelProofs` (AppSettings) | `SettingsInvariant`, `SettingsAreKept` | `SettingsInv`: a page that nothing has outdated shows what is stored, and a key that is not stored runs with the value of `.env` unless it was cleared since the start. Without the second part an entry that equals the running value, which the form leaves unstored, might not be what the next start gives. What is stored is what its input brings back, and what the panel runs with is so too or comes from `.env` (`Keeps`), so that only a value of `.env` can change on its way through a form. |
| `PanelProofs` (LoginLock) | `LockInvariant`, `FailuresAreFew` | `LockInv`: a record that counts has counted all failures since its window was opened, and what is older is at most `MaxFailures` - 2, since the first failure of the window before is out of sight; a lock outlasts everything before it. At the end of a window what it counted becomes what is older, less its own first failure. |
| `PanelProofs` (SmtpVault) | `VaultInvariant`, `MailsAreServed`, `VaultStaysReadable` | `VaultInv`: unless two processes opened an empty vault at once, a process that is up, and everything written, has the key of the stored salt (`KeysAgree`); no row goes back to an older save (`SavesNumbered`), so that a mail's account is as new as at its acceptance when its transporter is chosen (`MailFits`); a deletion that is half done is not of the chosen default. |
| `PanelProofs` (UpdatePage) | `PageInvariant`, `PageIsNotLeft` | `PageInv` (`InStep`): while no two requests about the job were under way at once and no check overtook a poll, there is one at most, what the page says is under way is so or it polls (`SaysFits`), and a button that is off waits for an answer that switches it on (`ButtonsFit`). |

The invariants were checked with TLC on the instances of section 3 first.

Two arguments by induction are needed, and the library states induction with an operator
for a parameter, which the provers cannot instantiate. Both are made by a least
counterexample instead: `LeastExists`, that a set of naturals has a least member (from
the theorem that strict inclusion is well-founded on finite sets), gives the row that
a replay takes first, the first account of the vault, and that the sum of the failures
up to an age (`Failed`, a recursive function) exists, is the only one, and moves with
its summands (`SumExists`, `SumUnique`, `SumFails`, `SumAges`).

With that, every safety property that a passing run checks is also a theorem. Only
model-checked are the liveness properties: `EveryLeaves`, `EveryTaken`, `AllStop`,
`EveryMailEnds`, `NoneWaitsForever`, `ServicesCatchUp`, `LockEnds` and `PageCatchesUp`
(liveness under fairness is out of the prover's reach), and with the last of them
all of `MonitorPage`. The theorems about `LoginLock` are about the record as the
panel uses it (`AuthSpec`): restarts clear it, and an enrolment may count as a log-in.

## 6. Where code and documents disagree

Two runs show a violation of what a document says; `PROJECT.json` ("findings")
quotes both sides.

* `worker_redis_error` (`src/redisMailQueue.js:114-133`): a Redis error between the
  pop and the lease leaves a job in the processing list without a lease, and only
  the start of a process looks for such jobs.
* `audit_chain_forks` (`src/operationalStore.js:484`): the last hash is read and the
  event inserted in two statements, so that two processes chain to the same event,
  against "Hash chain over append-only audit records"
  (`docs/ENTERPRISE_HARDENING.md:114`).

Others met while modelling; each is in the models as a named cause or excuse:

* A mail may go out twice without any fault. A process that starts reads the lease of
  each job in processing and, where it finds none, writes one of the past
  (`src/redisMailQueue.js:217-221`). In between, another process may take the job and its
  lease: the write then ends a live lease, and the next reclaim scan hands the job to a
  second runner while the first is sending (`usurped` in `Worker`). The note on
  durability knows only the crash (`docs/ENTERPRISE_HARDENING.md:135-137`).
* With the memory queue a job is lost when a sink throws: `runWorker` logs what
  `processJob` throws and takes the next job (`src/worker.js:57-62`), and only the Redis
  queue has a copy that a scan could find (`forgotten` in `MemoryMailQueue`).
* A forced replay of a final row queues the mail, but the update that should mark the
  row takes only rows that are not final (`src/operationalStore.js:182`, `src/app.js:1304`).
* The reason of a dead letter is the text of the SMTP error (`src/app.js:218-223`), while
  the replay looks for "hard_bounce" and "complaint" in it (`:1401`), so that it finds
  none: a mail of a category that is not under suppression is replayed to an address
  that does not exist, against "Hard-bounce and suppressed recipients are skipped
  unless `--force` is used" (`README.md:415`).
* The commit to which an update rolls back was read before the lock
  (`scripts/updater.js:291,505`), so that it may undo a successful update of another run,
  against `docs/API_DOCS.md:319`.
* A job that is refused temporarily and denied permission in turn never comes to
  its last attempt, because the deferral starts the counter again; "Final failure
  goes to DLQ" (`docs/ENTERPRISE_HARDENING.md:410`) is not bounded by the code.
* When the insert of the dead letter throws, the job is acked all the same
  (`abandoned`), against "Final worker failures are persisted" (`:53`).
* Overlapping requests with one key are both written to the queue, also with
  different bodies, since the record comes after the enqueue (`excused` in `SendApi`),
  against `docs/ENTERPRISE_HARDENING.md:49` and `docs/API_DOCS.md:106`.
* Overlapping cycles may exceed `DLQ_AUTO_RETRY_MAX_ATTEMPTS` (`README.md:89`).
* `logger.close()` returns at once when a flush is running, so that an orderly
  shutdown may lose that batch and all behind it, against "All runtime logs are
  persisted" (`docs/API_DOCS.md:292`).
* A deferred restart skips the health checks; a run that is killed after its merge
  leaves `HEAD` at the target, so that the next check says "up to date"; the lock
  of a run that takes longer than `UPDATER_LOCK_STALE_MS` is removed
  (`broken` and `overtaken` in `Updater`), against "Lock prevents concurrent update"
  (`docs/ENTERPRISE_HARDENING.md:411`).
* A child that is killed has no exit code, and `Number(null)` is 0: the panel reports
  a killed update as succeeded (`src/web.js:2247`), and a call to apply as finished; a
  call whose child was killed after it had reported a failure is answered with that
  failure and the status 200 (`:599`). A `spawn` that throws leaves its job running
  until the panel restarts.
* The panel does not end its children when it ends (`src/web.js:2213`), and keeps no record
  of them: after a restart a second update can be started beside the first (`outlived`). Only
  the lock of the updater, and a service manager that ends the whole group, prevent it.
* The update page polls without waiting for the last answer: an older "running" that comes
  in after the verdict stays on the page (`overlapped` in `UpdatePage`). A check that is
  answered "current" stops the polling, and a poll that was out by then may still say
  that the update runs (`src/web.js:1758,1827`; `interrupted`). After a restart
  of the panel the status is "idle", or refused for want of a session, and the
  polling never ends.
* "Leaving password blank keeps the existing password for the same account"
  (`src/web.js:1152`), but the form posts an empty password, which is not `undefined`
  and replaces it (`src/secureStore.js:483`). Two processes that open an empty vault at
  once may use two salts (`raced`).
* A settings form from a stale page puts back every key that page shows, and a key that is
  cleared and then entered again at the value still in use is not stored (`crossed`,
  `regiven` in `AppSettings`). A vault that cannot be read at the start is passed over.
* A list of the settings page whose value is not literally one of its options has none
  selected (`src/web.js:1509-1516`), so that the browser posts the first one, and the form
  stores it (`src/appSettings.js:183-192`): `WEB_MFA_REQUIRED=1` or `SUPPRESSION_ENABLED=0`
  in `.env` becomes the first option by the next save of any other setting (`GivenBack`). A
  number in another spelling is stored as well, without a change of meaning. And
  `WORKER_CONCURRENCY=auto`, of which the description on that page speaks
  (`src/appSettings.js:10`), is no integer, so that every form is refused until that
  input is changed or cleared (`Refused`).
* A complaint that comes in at `POST /webhooks/bounce` is answered
  `suppressed: true`, although only a hard bounce adds a suppression there
  (`src/app.js:1470,1507`, `src/bounceClassifier.js`), against "Hard bounces and
  complaints automatically create tenant-level suppression entries"
  (`docs/API_DOCS.md:206`); in the model that answer is a promise of its own kind, the
  only one that `SuppressionKept` does not hold the store to. The complaint webhook
  itself adds a suppression.
* The migration of the suppressions loses them if it ends between two statements, also
  because another process that starts meanwhile has made the table (`orphaned`).
* `closeServer` waits for the stream of an open monitor page, which never ends, so that
  a shutdown with such a page open is always the forced one (`src/app.js:629`;
  `Die` in `SystemLog`, the crash in `Worker`). A stream whose client leaves during its
  first snapshot is never cleaned up (`:824-852`), and a store that throws in a later
  snapshot rejects a promise nobody handles.

## 7. What is not modelled

* `Worker`: two runners of one process (they interleave like two processes, but die
  together); malformed payloads in Redis, which nothing in the code writes; loss of
  data in Redis itself.
* `SendApi`: authentication, rate limit and validation, which precede the first
  action and are functions of one request (the rate limiter a counter that no await
  divides, `src/app.js:1745-1774`).
* `DeadLetterReplay`: dry runs, which change nothing; the script, which only sends the
  request.
* `OperationalStore`: `removeSuppression` and the expiry of a suppression, which
  nothing in the repository calls or sets; listings.
* `DeliveryPolicy`: attempts whose rows are lost when a process dies, which the provider
  has seen and no window counts, so that `QuotaOvershoot` bounds rows and not sends. The
  choice of a policy by the name of a domain is a constant, and the length of the
  greylist delay is left out.
* `SystemLog`: the console line; a second process on the same file.
* `MonitorPage`: which of the counters, time buckets and accounts an entry is for, which
  is arithmetic of one turn; what the page draws; the token of the panel's requests;
  connections that are dead without an error, and a session that expires under the page.
* `WebAuth`: cookies and digests as such, TOTP arithmetic (`src/totp.js`): a code is
  right or wrong. `UpdateJob`: the wording and progress of the lines. `SmtpVault`:
  encryption, and what becomes of a mail that is on its way over a transporter that an
  edit closes. The pages of the panel that only show something, and the requests
  that it passes on to the core.
* `AppSettings`: which values each setting takes and how they are spelled, which is the
  constants `Neat` and `Option` here; the production guard, DKIM and domain
  health, which are functions of the environment, a name server and one request.
* `Updater`: `--skip-restart` and `--skip-health`, tag signatures.
* Process life: the closing of the HTTP servers before the drain; it is only a cause
  of the forced exit here.
* The installers and the command-line log viewer, which read and print.

## 8. Plan

Done, in this order, the most important path first: queue and worker, their abstract
specification and proofs; the memory queue; `POST /send` and its proofs; replays;
the log; the updater; then quotas, suppressions and audit chain with their proofs; the
web panel's log-in, its update jobs and the settings with their proofs, the page of
the updates, the vault, the monitor's page.

Then the leases, the replays, the memory queue, the log-in record, the vault and the
update page, so that no safety property of a passing run is left without a theorem.

Left: safety of `MonitorPage` (what a page shows is never ahead of the monitor, and
goes back only at a restart), a lemma that `WebAuth` implements the record of `LoginLock`
between restarts, a module `Shutdown` that composes the closing of the servers, the
drain of the runners and the forced exit (`src/app.js:610-660`), and the rate
limiter's window.
