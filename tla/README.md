# Verification of fluxa-backend

TLA+ models of fluxa-backend, a multi-tenant task tracker written in Rust, with
TLC configurations that check them on small instances and proofs that TLAPS
checks for every value of the constants.

* [The system](#the-system)
* [Inventory](#inventory)
* [Modules and how they correspond to the code](#modules-and-how-they-correspond-to-the-code)
* [Runs](#runs)
* [Fairness](#fairness)
* [Proofs](#proofs)
* [Where the code and its documentation disagree](#where-the-code-and-its-documentation-disagree)
* [Not modelled](#not-modelled)
* [What could come next](#what-could-come-next)
* [Running the tools](#running-the-tools)

Paths such as `services/jobs.rs` are relative to `src/` of the repository.
`PROJECT.json` lists the same things for tools: components, runs, the lines
each definition stands for, and for each property a mutation of the model that
violates it.

## The system

A process runs as API, as worker, or as both (`lib.rs:35-104`).

* An **API process** serves HTTP (axum) and an internal gRPC service. Every
  request is one task: middleware authenticates it and reads the caller's
  membership, a handler runs the idempotency protocol if the client sent a key,
  a service calls the database layer. With few exceptions a service issues
  several statements in a row **without a transaction**.
* A **worker process** runs six loops (`jobs/runner.rs:13-38`): job dispatcher,
  scheduler of the reminder and retention sweeps, job processor, stale-job
  reaper, notification dispatcher and webhook dispatcher. Any number of worker
  processes may run. (A metrics sampler runs in every process and only reads.)

All state is outside the processes: rows in Postgres (`migrations/`), a list of
job ids, cached answers, version counters, idempotency keys, rate-limit buckets
and denied access tokens in Redis (`cache.rs`), files in a storage directory
(`storage.rs`). The processes share nothing else, so the interesting
behaviours are interleavings of statements of several processes, and crashes or
failed statements in the middle of a series.

The shapes that return in component after component:

| Shape | Where |
|---|---|
| claim by a conditional UPDATE, work without holding anything, record by id | jobs, webhook deliveries, notifications |
| look, then insert or write | sweeps, owners of a tenant, invitations, attachments |
| commit in Postgres, then act on Redis | enqueueing, cache versions, denied tokens |
| SETNX, then EXPIRE, then the request, then SET or DEL | idempotency keys |
| write a file, then its row | exports, attachments |
| consume a token by a conditional UPDATE, then the effect | refresh tokens, verification, password reset |

The models describe these shapes statement by statement: one action is one
statement on Postgres or Redis, one transaction, one answer of a remote
endpoint, or one passing of a deadline that some statement compares against.

## Inventory

Each entry names state, operations, partners, what is hard, and what makes the
component correct. *(module)* says where it is modelled.

**Background job queue** *(JobQueue, JobLifecycle)*. State: rows of
`background_jobs` (status, attempts, max_attempts, scheduled_at, started_at,
result) and the Redis list of ids. Operations: submit (INSERT, then RPUSH),
dispatch every due row, BLPOP, claim, run, complete, fail with backoff, reap
rows whose lease ended, purge. Partners: the sweeps and exports it runs,
retention. Hard: the list holds duplicates and may be lost; the outcome is
written by id alone, so a processor that outlived its lease overwrites the row
of its successor. Correct if no two processors hold one attempt, no job is given
up early or runs without bound, a completed export has its file, and every job
settles.

**Webhooks** *(Webhooks)*. State: `webhooks`, `webhook_deliveries`. Operations:
register under a cap (counting under the lock of the tenant's row), update,
delete, emit an event to active webhooks, claim a batch, load, post, mark
delivered or failed, redeliver. Partners: task mutations emit; endpoints answer.
Hard: the batch outlasts its 60-second claims; a crash after the endpoint's 2xx;
a webhook disabled or deleted between claim and request; a redelivery, or the
backoff of a late failure, under a live claim; an answer that is lost after the
endpoint took the request. Correct if the cap holds, every duplicate and every attempt beyond
the budget is paid for by a fault, and every delivery settles.

**Due reminders** *(Reminders)*. State: reminders in the notification outbox
with unique dedupe keys, preferences. Operations: list candidates, insert one
reminder after the other. Hard: overlapping and retried sweeps, a clock read
after the list, the limit of 500 candidates. Correct if a task is not reminded
again and again, and every overdue task is reminded.

**Sweep scheduler** *(SweepScheduler)*. State: the sweep rows of
`background_jobs`. Operations: look for a pending (for retention: recent) sweep,
insert. The gRPC call `EnqueueDueReminderSweep` (`grpc/services/job_admin.rs`)
is a further caller of the same two statements. Hard: several schedulers race;
retries move the scheduled_at that the look compares; outcomes come late, over
rows that were reaped or completed since; the purge deletes the rows that hold
the next sweep back. Correct if each scheduler keeps the cadence, so that a race
costs no more than one sweep per scheduler.

**Membership and invitations** *(Membership)*. State: `tenant_memberships`,
`tenant_invitations`, `users.email`. Operations: change a role, remove a member,
invite, accept, revoke, change one's address. Hard: the caller's role, the
target's role and the number of owners are read in three statements before the
write; an invitation is for an address, which users change. Correct if a tenant
keeps an owner, admins touch only members and a removed member needs a new
invitation.
What a removal does to the member's sessions is in Sessions.

**Reads and writes of tasks through the cache** *(TaskRequests)*. State: a
version counter per tenant and answers cached under a version. Operations:
commit then bump; read the version, look up, query, fill. Hard: reads overlap
writes at any step; a bump may fail after the commit; Redis may be lost. Correct
if an answered change is seen by every later read.

**Idempotent creation** *(Creations; TaskRequests for the two commands of a
claim)*. State: one key in Redis: absent, pending, or a stored response.
Operations: replay, claim (SETNX, then EXPIRE), create, store, delete, on the
eight routes that take a key. Hard: crash between the two commands, key expiring
under its request, failure after the commit, early return that leaves the key
pending. Correct if retries create one row unless a fault came between, and the
key is released.

**Sessions and refresh tokens** *(Sessions)*. State: `refresh_tokens`, denied
access-token ids in Redis, memberships. Operations: login, refresh (rotation by
a conditional UPDATE and an INSERT in one transaction), logout, revoke one or
all, switch tenant, change or reset a password; leaving or being removed from a
tenant revokes. Hard: a refresh races a revocation of all; removal is two
statements; the membership is looked up before the token is issued. Correct if
one proof of identity holds one live session, and what survives a revocation or
a removal must have raced it.

**Account lifecycle, social login** *(Accounts)*. State: `users`, `user_tokens`,
`oauth_accounts`. Operations: register, verify, reset, change address, sign in
through a provider (linked identity, verified address, provisioning), unlink.
Hard: a token names a user and not an address; it is consumed by one statement
and its effect is another; provisioning is three transactions. Correct if a
verified address was proven to be the user's, and a provisioned user can sign in.

**Notification outbox and feed** *(Outbox; Pages for the feed's pages)*. State:
`notifications` with dedupe keys and read marks. Operations: enqueue, claim,
send, record, list, mark read, purge. Hard: as for webhooks, and the record
names the row by id alone. Correct if repeated mails and extra attempts are
each paid for by a fault.

**Tasks and projects** *(Workspace)*. State: their rows, audit entries, webhook
events. Operations: create, update, bulk update, archive, restore a task;
create, archive, restore a project. Hard: a call looks at the project and takes
its timestamp before it locks the task; the event is queued after the commit.
Correct if what lists hide was meant to be hidden, and the newest audit entry
and the last event tell the status of the task.

**Labels** *(TaskLabels)*. State: `labels`, `task_labels`. Operations: create,
delete with cascade, replace the set of a task. Hard: the set is replaced by a
DELETE and an INSERT that see different snapshots. Correct if a task has the
labels of one request.

**Attachments, storage and comments** *(TaskThreads)*. State: `attachments`,
`task_comments`, files, audit entries. Operations: upload (count, write file,
insert row, clean up on error), delete (row, then file), comment, delete. Hard:
cap checked before the insert; lost answers to commits; orphaned files. Correct
if a row has its file, orphans are explained by errors, and the cap is exceeded
by overlap alone.

**Keyset pagination and exports** *(Pages)*. State: six lists, a cursor.
Operations: a page by (updated_at, id) or (created_at, id), a chunk of an export,
and the changes meanwhile. Hard: rows move or appear behind the cursor with
timestamps taken earlier; tasks come and go with their project and their labels,
without a timestamp. Correct if whoever reads to the end gets every row once that
was neither written, shown nor hidden meanwhile.

**Rate limiter** *(RateLimiter)*. State: a token bucket in Redis with an expiry.
Operation: a Lua script over the caller's clock reading. Hard: late readings put
the bucket's time back; the key expires or Redis is lost. Correct if the requests
let through in any span keep to rate and burst but for those.

**Retention** *(purge actions of JobQueue, SweepScheduler, Outbox and Pages;
purged refresh tokens are not told from ended ones in Sessions)*. Deletes old
terminal jobs, tokens, notifications, audit rows.

**Audit log** *(reading: Pages; the entries of tasks: Workspace; of attachments
and comments: TaskThreads)*.

**HTTP and gRPC surface; process start, configuration, metrics** *(not
modelled)*: see [Not modelled](#not-modelled).

## Modules and how they correspond to the code

A row of a table is a function from ids to records holding the columns that
some statement tests; `"absent"` and `"purged"` stand for no row before and
after. A local variable that lives across statements is a field of the process
that holds it: what a processor or a call read earlier, and acts on later, is
never looked up again. Deadlines appear as the comparison the code makes: `due`
(`scheduled_at <= now`), `stale` (`started_at <= now - lease`), `live`
(`expires_at > now`); a clock appears only where two deadlines or timestamps are
related (Reminders, SweepScheduler, Workspace, Pages, RateLimiter).

Two kinds of variables belong to no row. Counters such as `faults`, `stalls`,
`errors`, `losses` and `redeliveries` bound the behaviours and let
properties say what a duplicate must have been paid with. History variables
record what happened: `acked`, `floor`, `lost` and `accepted`; in Webhooks and
Outbox the `lease` of a row, which names the claim that put it off; in
SweepScheduler `started`; in Membership `dirty`, `raced` and `taken`; in Sessions `root`, `since`, `origin` and `left` of a token; in Accounts `proven`,
`overtaken`, `provisioned` and `halfMade`; in Workspace `frozen`, `late` and `met`;
in TaskLabels `asked` and `met`; in TaskThreads `unsure` and `faulty`; in Pages
`quiet` and `backwards`; in RateLimiter `granted`, `since` and `rewound`. No
statement of the system reads any of these, except that a bounded fault is
disabled once its bound is reached.

| Module | State ↔ code | Actions ↔ code |
|---|---|---|
| JobLifecycle | what a reader of `background_jobs` sees | the promise: Submit, Start, Succeed, Lapse (a run ends badly), Forget |
| JobQueue, JobQueueProofs | `job` rows, `queue` Redis list, `handoff` INSERTed but not RPUSHed, `batch` listed but not pushed, `worker` program counters with the claimed record, `artifact` the file | CreateJob/EnqueueJob: `create_export_job`; ListReady/Dispatch: `dispatch_ready_jobs`; Dequeue: BLPOP; MarkRunning: `mark_job_running`; StoreArtifact: `process_export_job`; CompleteJob, FailJob, ReapStaleJobs: the UPDATEs of `db/jobs.rs`; PurgeTerminalJob: retention |
| Webhooks, WebhooksProofs | `hook` and `delivery` rows, open registrations (`creating`, `counted`), `dispatcher` with the batch it claimed | LockTenant/CountWebhooks/InsertWebhook: `create_webhook`; EmitTaskEvent; ClaimPending: `claim_pending_webhook_deliveries`; LoadWebhook/Post/MarkDelivered/FailDelivery: the dispatcher; LoseAnswer: the endpoint took the request, its answer is lost; ScheduleArrives: a lease or a backoff passes; Redeliver |
| Outbox, NotificationsProofs | `notice` rows with dedupe key and read mark, what each notifier claimed (`batch`) and has not recorded (`outcome`) | EnqueueNotification, ClaimPendingNotifications, Send, Record, EndPass: `services/jobs.rs` and `db/notifications.rs`; MarkRead, MarkAllRead; PurgeTerminalNotification |
| Reminders, NotificationsProofs | `outbox` rows with their dedupe key, `open` tasks, `disabled` kinds, `sweep` with its list of candidates | ListCandidates: `list_due_reminder_candidates`; ReadClock, EnqueueNext: the loop of the sweep; SetPreference, CloseTask |
| SweepScheduler, WorkspaceProofs | sweep rows with scheduled_at and finished_at, `scheduler` program counters, `running` what each processor has claimed | Look/Insert: `ensure_*_job`; Start: `mark_job_running`; Complete: `complete_job`; Retry, GiveUp: `fail_job`; Abandon: no outcome is written; Reap: `requeue_stale_jobs`; Purge: `purge_terminal_jobs` |
| Membership, MembershipProofs | `role`, `address`, `invitation` rows, `call` with what it has read | AskRoleChange, AskInvitation: the middleware and `ensure_admin_role`; CheckTarget, CountOwners, WriteRole: `update_member_role`, `remove_member`; FindInvitee, CheckInvitee, WriteInvitation: `create_invitation`; PresentToken (the own address is read), then AcceptInvitation: one transaction; ChangeEmail: `update_user_email` |
| Sessions, SessionsProofs | `token` rows with the access token of the pair, `member`, `call` with what it has resolved or the rows its UPDATE has seen | Login, Refresh, SwitchTenant, then ResolveMembership and CreateRefreshToken or RotateRefreshToken: `services/auth.rs`; Logout, LogoutAll, PasswordStored, DeleteMembership, then SelectRows and ApplyRevocation, the two halves of one UPDATE; DenyAccessToken: Redis |
| Accounts, SessionsProofs | `email`, `verified`, `link`, `token` rows, `call` | Register, ResendVerification, RequestPasswordReset, ChangeEmail, then CreateUserToken and EnqueueEmail; VerifyEmail, ConfirmPasswordReset, then their effects; SignIn, LookUpEmail, Provision, LinkOAuthAccount: `services/oauth.rs` |
| Workspace, WorkspaceProofs | `project`, `task` rows, the newest audit entry and the last event of a task, `call` | CreateTask, UpdateTask, BulkUpdateStatus, ArchiveTask, RestoreTask look and take the timestamp; CommitTasks: the transaction; PublishEvents: after the commit; the three actions of projects |
| TaskLabels, WorkspaceProofs | `labels` sets, `request` | SetTaskLabels (the look), DropLabels, CommitLabels: the transaction of `set_task_labels`; CreateLabel, DeleteLabel |
| TaskThreads, TaskThreadsProofs | `owner` of a row, `stored` files, audit entries (`removals`), `doing` | UploadAttachment (the count), PutFile, CreateAttachmentRow, CleanUp; DeleteAttachment, DeleteAttachmentRow, Unlink: `services/attachments.rs` with `db/attachments.rs` and `storage.rs`; for comments `services/comments.rs` with `db/comments.rs` |
| Pages, WorkspaceProofs | timestamps of the rows of a list (`updated`), changes that have theirs (`writing`), the `reader`'s cursor | TakeTimestamp/CommitWrite: a change with a timestamp; ArchiveProject, RestoreProject, SetTaskLabels, DeleteLabel: tasks come and go without one; one action per list; ExportChunk: `process_export_job`; read marks, deletions and purges |
| RateLimiter, WorkspaceProofs | the bucket (`tokens`, `time`, `expires`), `reading` a clock reading on its way | ReadClock, RunScript: `cache.rs` |
| TaskRequests, TaskRequestsProofs | `changes` committed, `version`, `entry`, `key` in Redis, `writer` and `reader` program counters | FirstLookup…DeleteKey: `create_task` of `http/handlers.rs` with `cache.rs`; Commit/Bump: `services/tasks.rs`; ReadVersion…FillEntry: a cached read |
| Creations, TaskRequestsProofs | `rows`, `key`, `request` | the steps of a keyed request, for the eight handlers of `http/handlers.rs` that take one: what is validated before the claim or after it, what follows the commit, what the database refuses |

Composition. JobQueue is the detailed form of JobLifecycle
(`Lifecycle == INSTANCE JobLifecycle WITH ...`, `LifecycleSpec`). SweepScheduler
uses a job's life cycle as its environment: Start, Complete, Retry, GiveUp and
Reap are the statements that JobQueue details, without the attempts that decide
between Retry and GiveUp. Reminders is what runs inside a sweep
job, and what it inserts is drained as Outbox describes. TaskRequests joins the
cache protocol and the idempotency protocol, because the fault that breaks
exactly-once creation (a failed bump) belongs to the first; Creations takes the
claim as one step and varies what the handlers do around it. The bump and the
event that Workspace publishes are those of TaskRequests and Webhooks. A
removal that Membership decides is, in Sessions, DeleteMembership and the
revocation after it; a password reset that Accounts confirms is PasswordStored.

Modules of several parts. Four modules put together parts that share no state:

| Module | Parts |
|---|---|
| TenantRequests | TaskRequests and Creations |
| UserAccess | Sessions and Accounts |
| Notifications | Reminders and Outbox |
| WorkspaceParts | SweepScheduler, Workspace, TaskLabels, TaskThreads, Pages and RateLimiter |

Each declares the variables of all its parts and a variable `part` or `half`,
chosen at the start, that says which of them moves while the others stay where
they start (`PartsSpec`). So a run explores the sum of the states of its parts,
not their product, and a property of one part is checked in all of its states.
A theorem that one part's own specification implies a property carries over,
because a behaviour of `PartsSpec` is one of each part's specification, with
stutters. The MC modules only add the values of the instances and symmetry.
MCWebhooks has a variable of the same kind (`wide`) that chooses between two
racing registrations with one event, and one webhook with two events.

Abstractions worth knowing:

* **JobQueue.** The row is written by id alone in CompleteJob and FailJob, so
  both act on whatever status the row has by then. FailJob decides from the
  claimed attempts. `WorkersMayStall` says whether LeaseExpires may hit a row
  whose processor is alive: the code has no heartbeat, so only the length of
  jobs against `job_lease_seconds` decides this in practice.
* **Webhooks.** Signing, URL validation and event filters are left out; every
  webhook subscribes to every event. A task event is lost for good if the
  insert of its deliveries fails after the task's transaction
  (`services/tasks.rs:134`): the model starts at the insert.
* **Webhooks, Outbox.** A claim sets scheduled_at a lease ahead, a failure a
  backoff. Either passes whatever is going on, but only a lease that passes while
  its holder is still at it is charged as a stall: the backoff of a late failure,
  under the claim of another, is not.
* **Reminders.** One assignee. The list is ordered by due date alone
  (`db/tasks.rs:535`), so which of two tasks due at the same time comes first, and
  which of them the limit cuts off, is any. Retention deletes notifications after days;
  the model keeps them, which is right as long as `notification_retention_days`
  exceeds the dedupe window, by default 30 days against 24 hours; `config.rs`
  does not enforce that. Preferences are
  tested when candidates are listed (`services/jobs.rs:379`), not when the
  reminder is inserted. The audit rows of a sweep, which a retry repeats
  (`db/tasks.rs:547`), are left out.
* **Membership.** One tenant; users are registered from the start. `dirty` marks
  a call that another write overtook after its first read (of a role; for calls
  that read addresses, of an address too); `raced` that such a call wrote; `taken`
  an invitation whose address a member moved to.
* **Sessions.** One user. An UPDATE of several rows under READ COMMITTED is two
  steps: the rows its snapshot sees, then their change. A row committed in
  between, by a rotation for instance, is not among them.
* **Accounts.** A password and a profile are not told apart from another; links
  are used by whoever has the mail.
* **Workspace.** Of a task only its status (open or archived) and its project
  are kept: no other field is in a guard.
* **Pages.** Timestamps are numbers, ids break ties as uuids do. One change may
  stamp several rows, as a bulk update does. Which project and labels a task has
  is not kept: any tasks may be shown or hidden at once.
* **RateLimiter.** Whole units: the script computes in floating point, and the
  answer's Retry-After truncates to whole seconds (`http/helpers.rs:165`).
* **TaskRequests.** Tasks are abstracted to the number of committed changes; a
  read that returns n has seen the first n. One cached answer, one key.
* **Creations.** A row is named after the request that created it. The key is
  scoped by tenant and route, not by user.

## Runs

TLC explores every state of each. Deadlock is not an error in any of them: the
bounded models stop when ids, faults and clock ticks are used up.

| Run | Instance | Question | States |
|---|---|---|---|
| `jobqueue_stall` | 1 export, 3 processors that may outlast leases, budget 2, 1 fault, fair | What holds when the reaper takes a job from a live processor: distinct claims, at most 2·MaxAttempts−1 runs; and every job settles | 64 thousand |
| `jobqueue_crash` | export and sweep, 2 processors within leases, 1 fault | Exclusive runs, result describes the file, refinement of JobLifecycle | 0.3 million |
| `jobqueue_completed` | 1 export, 2 processors | *expected violation*: completed stays completed | |
| `webhooks` | 2 webhooks and 1 event, or 1 webhook and 2 events; 2 dispatchers, batch 2, cap 1, budget 2, one stall, one crash or lost answer, one redelivery, fair | Cap under racing registrations; a status is earned; duplicates and extra attempts are each paid for by a fault; every delivery settles | 0.6 million |
| `notifications` | Reminders: 2 tasks, 2 sweeps, window 2, horizon 3, 1 fault, fair. Outbox: 2 rows, 1 key, 2 notifiers, batch 2, budget 2, 1 fault | Spacing of reminders; every overdue task is reminded; repeated mails and extra attempts cost faults | 0.5 million |
| `reminders_starved` | the sweeps with a candidate limit of 1 | *expected violation*: every overdue task is reminded | |
| `membership` | 2 users, 3 addresses, 2 calls; at most 3 calls in flight and pending invitations together | Losing the last owner needs a race; a pending invitation of a member's address a race or a member's move; admins touch only members | 0.7 million |
| `membership_owner` | the same | *expected violation*: a tenant keeps an owner | |
| `task_requests` | TaskRequests: a creation and its retry, another change, a reader, 2 faults, fair. Creations: 3 requests on each of the 8 routes, 2 faults | Reads see answered changes; the key is released; rows beyond the first and rows nobody is told of cost faults | 1.6 million |
| `task_requests_pending` | the first without faults | *expected violation*: a pending key has a request at work | |
| `sessions` | Sessions: 2 tenants, 3 tokens, 2 calls at a time, 4 in all, 1 revocation. Accounts: 2 users, 2 addresses, 1 identity, 4 calls | One live session per proof; survivors of a revocation or a removal raced it; verified addresses were proven; provisioned users keep a link | 0.9 million |
| `workspace` | SweepScheduler: 2 schedulers, 2 processors, 3 rows, interval 1, retention 0, backoff 0, horizon 1. Workspace: 1 project, 2 tasks, 2 calls, 3 stamps. TaskLabels: 2 tasks, 2 labels, 4 requests. TaskThreads: 3 files, 1 comment, cap 1. Pages: 3 rows, page 1, 2 writes, six lists. RateLimiter: capacity 3, refill 2, horizon 4, 1 loss | Cadence of sweeps; hidden tasks; truth of audit log and events; label sets; cap and files of attachments; completeness of pages; rate | 1.7 million |

Why the bounds are enough to make the interesting cases happen:

* `jobqueue_stall`: a budget of two distinguishes first, last and extra attempts
  (`AttemptsBounded` is met with equality: a late failure of attempt 1 requeues
  the row after attempt 2, which makes attempt 3), three processors hold
  attempts 1, 2 and 3 at once, and a queue of two holds a duplicate.
* `jobqueue_crash`: two jobs let a processor that lost one take the other and
  the reaper find two rows at once.
* `webhooks`: two dispatchers with batches of two overlap in one delivery and
  differ in another; a cap of one with two registrations is the cap's race. A
  stall, a crash or lost answer and a redelivery in one behaviour are the
  combinations that DuplicatesCostFaults and AttemptsCostFaults speak about: after
  the stall, the first dispatcher's failure makes the row due under the claim of
  the second.
* `notifications`: with window 2 and horizon 3 two windows are entered, so
  reminders straddle an edge; two sweeps overlap, one dies half way. Two rows
  that want one key meet the unique index, and a budget of two tells a retry
  from the last attempt.
* `membership`: two owners and two calls are the least that can lose the last
  owner; one address is free, so both users can move and swap. Three calls and
  invitations together (`FewAtOnce`, a constraint: what exceeds it is checked and
  not continued) are two overlapping calls on one invitation, or one call while
  two are pending; two calls with two pending invitations are left to the proofs.
* `task_requests`: two faults are needed for two extra creations or for a lost
  Redis after a failed bump; one reader suffices because readers interact only
  through entries, which it finds again from its own earlier reads. Three
  requests are an original, a retry that overlaps it and one that comes after.
* `sessions`: three tokens are a session, its successor and another session;
  two calls are a rotation and what it races, four in a row let one be removed,
  join again and log in. Two users with two addresses can swap them; an address
  that one gives up is taken by the other, which is what stale links are about.
* `workspace`: two actors overlap in every part. Three files exceed a cap of one
  by overlap and by delete-and-upload; three rows at page size one have a middle
  page; three instants of refill overflow the bucket. Three sweep rows
  are needed for one scheduler to create a second sweep beside the first. The
  instants of the sweeps are hours, of which there are two, so a backoff of
  seconds is none of them (`Backoff = 0`): a sweep is reaped under its processor,
  completed by another, queued again by the late failure of the first and run
  again within one, and purged, or out of its interval, in the next. Longer
  intervals, other retentions and backoffs are left to the proof of `CadenceKept`.

## Fairness

* JobQueue: the dispatch, processing and reaping loops run on timers that keep
  firing, and each loop continues after an error, hence weak fairness of their
  steps; a processor ends every job it runs (an export is finite); the clock
  makes backoffs and leases pass. Nothing is assumed of submissions, faults or
  the purge. Strong fairness is never needed: a step another processor disables
  has been taken by that processor.
* Webhooks: the dispatch loops, and the passing of scheduled_at. The endpoint
  always answers or times out within ten seconds (`WEBHOOK_REQUEST_TIMEOUT`).
* Reminders: the clock, and each sweep's next step; sweeps are created for ever
  by the schedulers.
* TaskRequests: requests that have begun run on, and a key with an expiry
  expires. Clients owe nothing; crashes are separate actions without fairness.

Of a run of several parts the fairness is that of the part with the liveness
property (Reminders in `notifications`, TaskRequests in `task_requests`), and the
property says nothing about behaviours that move another part: there the clock
stands still, which Reminders' fairness rules out, or no key is ever claimed.
Safety properties are checked in the states of every part. Runs without a
liveness property use the specifications without fairness.

## Proofs

Every invariant that a run checks, every action property and the refinement is
also a theorem. Eight modules hold them, listed with `PROJECT.json`'s
"theorems". The constants are arbitrary: any number of jobs, processors,
dispatchers, notifiers, webhooks, users, addresses, tenants, tokens, calls, tasks,
projects, labels, files, rows, schedulers, sweeps, requests, readers and clients,
any positive budget, cap, page size, window and rate. The assumptions are those
the modules name, which TLC evaluates in the runs:

| Assumption | Why the code justifies it |
|---|---|
| what a proof counts is finite: `MembershipAssumption` (users), `RemindersAssumption` (tasks), `OutboxAssumption` (notifiers), `TaskRequestsAssumption` and `CreationsAssumption` (requests), `WorkspaceAssumption` (calls), `ThreadsAssumption` (files, comments, callers), `PagesAssumption` (rows) | at any time there are finitely many rows, and calls in flight |
| numbers that must not be zero: attempts allowed (`JobQueueAssumption`, `WebhooksAssumption`, `OutboxAssumption`), intervals and windows (`SweepSchedulerAssumption`, `RemindersAssumption`), refill (`BucketAssumption`) | `Cli::validate` refuses others (`config.rs:175-189`, `config.rs:250-282`), or they are constants of the source |
| caps, batches and pages are positive (`WebhooksAssumption`, `ThreadsAssumption`, `PagesAssumption`) | constants of the source (10, 20, 50); the size of a page is clamped to at least one |
| what stands for "none" is no id (`SweepSchedulerAssumption`, `CreationsAssumption`, `AccountsAssumption`, `WorkspaceAssumption`, `ThreadsAssumption`) | ids are uuids, and "none" is NULL, an absent row or an absent key |
| ids of the rows of a list are integers (`PagesAssumption`) | uuids are totally ordered |
| `Exports` are jobs (`JobQueueAssumption`), `Keyed` are writers (`TaskRequestsAssumption`), files are no comments (`ThreadsAssumption`) | kinds of rows and of requests |
| the bounds of the models, and clocks, are naturals | the models' own |

Three things are stated by the theorems themselves: `~WorkersMayStall` in the
second half of JobQueueProofs; in TaskThreadsProofs `Apart` and `Finitely`, which
WorkspaceProofs discharges from `ThreadsAssumption`; in WebhooksProofs `Finitely`
(finitely many webhooks and dispatchers).

Each theorem follows from an inductive invariant. Below, why the stated property is not inductive and what is added.

**JobQueueProofs**

* `TypeCorrect`: `Spec => []TypeOK`, by one step per action.
* `Safety`: `Spec => [](ClaimsDistinct /\ DeadLetterIsSpent /\
  CompletedExportHasFile)`, even when processors outlast their leases. None of
  the three is inductive. `IInv` adds `ClaimNotAhead` (a held claim's attempt is
  at most the row's counter, so the next claim takes a number nobody holds, and
  fail_job, comparing the claimed number, never gives up a row whose own counter
  is below the budget) and `StoredHasFile` (a processor past the upload has left
  a file).
* `BoundedRuns`: `Spec => []AttemptsBounded`. The argument is a count: past
  MaxAttempts, a job returns to the queue only by the late failure of a claim
  below MaxAttempts that is still held, and each such claim ends once. So
  attempts + (1 if queued) + (number of held claims below MaxAttempts) is at most
  2·MaxAttempts − 1 from the moment attempts reach MaxAttempts (`BudgetLeft`).

JobQueueProofs, while no live processor outlasts its lease (`~WorkersMayStall`)

* `ExclusiveRuns` and `ResultsDescribe`: at most one processor runs a job, and a
  completed export's result describes the stored file. `CInv` adds that a holder
  owns its row (running, same attempt, not stale), that queued rows have budget
  left and that a stored file is of the holder's attempt.
* `Implements`: `Spec => LifecycleSpec`, the refinement. Every action maps to one
  step of JobLifecycle or a stutter; ReapStaleJobs maps to Lapse of several jobs
  at once, CompleteJob to Succeed because the holder owns its row.

**WebhooksProofs**

* `TypeCorrect`.
* `CapIsKept`: `Spec => []CapHolds`. `CapInv` adds that one registration is open
  at most (`OneOpen`: the lock) and that one which has passed the test leaves
  room for itself (`RoomIsKept`).
* `DuplicatesArePaid`, `AttemptsArePaid`: a ledger for each delivery. A dispatcher
  that holds a claim may still add an answer or send the row back to pending; a
  row that is due may be claimed again. `Ledger(d)` counts those rights, as
  cardinalities of the sets of dispatchers that have them, together with the
  answers and attempts already used, against one plus the losses and outlasted
  leases so far. Every step is one of the moves of `Change(d)`, and no move
  adds a right without spending another or a fault. The late failure that makes a
  row due under the claim of another spends the right it had to do so.
* `StatusTells`: `Spec => []StatusIsEarned`. `Earned(d)`: while no lease has been
  outlasted, whoever holds a delivery owns its row; and once one has, but no
  redelivery came between, whatever a holder knows is still about this round.

**MembershipProofs**

* `TypeCorrect`: the records of the three kinds of calls and of invitations, whose
  role is never `owner`.
* `OwnersLostByRace` (`OwnerLossCostsRace`), `InviteesAreStrangers`
  (`InvitedIsStranger`), `AdminsReach` (`AdminsManageMembersOnly`). The inductive
  part is `Fresh`: while no write has overtaken a call, what it read still holds.
  The target of an admin's call is a plain member, a call about to take a role
  from an owner leaves another one, no holder of an address about to be invited
  has a role, and whoever is about to accept has the invited address. A write of
  a fresh call therefore keeps an owner and invites no member; as no two users
  have one address (`OneHolder`), an acceptance spends the one invitation its
  user's address has. A change of address touches no role, so it outdates only the
  calls that read addresses, and it marks the invitation it moves to.

**SessionsProofs**. `SInv` has three parts, one for each theorem after
`TypeCorrect`, which rests on the first.

* `RotationIsExclusive` (`OneSessionPerProof`), from `Shape`: a call's fields at
  each of its statements (`CallShape`) and that a session's root is a row
  (`RootsKnown`). A rotation gives the root away in the step that ends its holder.
* `RevocationIsComplete` (`SurvivorsRacedRevocation`), from `Revoked`: a call whose
  proof is older than a revocation knows that it raced one (`CallsTell`), and a
  row that a revocation under way has not seen is of such a call, or of an access
  token (`WhileRevoking`).
* `RemovalIsComplete` (`StraySessionsCostFaults`), from `Removed`: a call about to
  write for a tenant the user has left is marked (`WritesOnStale`), a removal under
  way has the rows it has yet to revoke (`WhileRemoving`), and a rotation inherits
  what excuses the row it replaces (`RotationsInherit`).

The steps that only end rows, or change no row, are treated once (`QuietKeeps`).

* `VerifiedIsProven` (`VerifiedWasProven`). MarkUserEmailVerified writes for the user
  it has read, whatever the address is by then, so the property says nothing
  about the state before it. `AInv` adds that the address of a user whom a call is
  about to mark was proven (`CallsBacked`); that a call about to store a
  verification link has the address its user has (`CallsCurrent`); and that a
  usable link was sent to that address, or a call that is to replace the link
  knows the new one (`TokensCurrent`) -- each but for the overtaken. A change of
  address (`AddressChanges`) turns all of them over at once: it unmarks the user,
  overtakes the calls that had read, and is itself the call that replaces the link.
* `ProvisionedStayLinked` (`ProvisionedKeepsLink`) needs beyond itself only what a
  call holds at each statement (`CallHolds`).
* `UserAccessKeepsTypes` and `UserAccessHolds` put both parts together.

**TaskThreadsProofs**

* `RowsHaveFiles` (`TypeOK /\ RowHasFile`), `OrphansAreExplained`
  (`OrphansCostFaults`), `DeletedOnce` (`DeletionIsToldOnce`). `TInv` adds that a
  call that inserts has its id to itself (`OwnIds`: fresh uuids), and from that
  what each call may rely on between its statements (`CallsRelyOn`): one that is
  to insert finds its file in place and no row, one that cleans up finds no row
  but that of an unanswered commit, one that unlinks finds the row deleted.
* `CapOvershoot` (`CapExceededByOverlap`): rows present and uploads past their
  count number at most cap − 1 + callers (`WithinCap`), since a call enters when
  the rows present are below the cap.

**WorkspaceProofs**, one argument for each part, and `WorkspaceKeepsTypes`,
`WorkspaceIsTold` and `WorkspaceHolds` for all of them.

* `TypeCorrect`, `SweepsLimited`: `Spec => []CadenceKept`. Between a scheduler's
  retention sweep and the end of the cadence some row holds the next one back
  (`HeldBack`): a retention sweep scheduled since then and, if it is terminal,
  finished since then. Completing, failing and reaping leave it so, whoever
  writes and whatever the status was, because they move scheduled_at only forward
  and stamp finished_at with the present; the purge takes the row away only when
  the retention is over. A scheduler about to insert has therefore waited for the
  cadence since its own last sweep (`Spaced`), and a claimed row is still there
  (`ClaimsPresent`).
* `NobodyFilesUnseen` (`HiddenWithProject`), `StatusIsTold` (`ToldIsTrue`),
  `TasksKeepTypes`. `TaskInv` adds that a call naming a project archived since its
  look is `dirty` (`NamesOpenProject`), and for a task on which no calls met: one
  call at most is about it (`Alone`), its timestamp is younger than the task's
  entries (`StampIsNew`), and what it is to publish is the row (`RowIsCurrent`).
  Timestamps last because a call about to write has taken one of those left
  (`StampRoom`).
* `LabelSetsAreWhole` (`LabelsAreOneRequest`): a request that met no other has
  deleted, or will keep, whatever its task is labelled with (`DropsTheRest`).
* `UploadsExceedCap`, `RowsMatchFiles`: the theorems of TaskThreadsProofs for this
  instance.
* `QuietRowsComeOnce` (`PagesComplete`), `PagesKeepTypes`. `PageInv` says of each row
  that was neither written, shown nor hidden since the reader began that it was
  got once if it matches and the cursor has passed it, and not at all otherwise;
  and of every row that did not move back that it was got at most once, and then
  lies behind the cursor (`GotOnce`). A page takes every row between two cursors:
  the order of a list is total (`Ordered`), and a finite list has a first row
  after any cursor, by induction over the strict subsets of a finite set.
  How often a row can come at all, which its type bounds, needs a count of the
  writes left (`PageRoom`).
* `BucketKeepsRate` (`RateHolds`): a ledger. What was let through, and what the
  bucket holds, is at most what it held when full, once more for each loss, and
  what the time up to its own timestamp earned; a bucket set back owes what was
  rewound (`RateLedger`).

**TaskRequestsProofs**

* `TypeCorrect`: the changes committed and the requests still to commit number at
  most the requests; likewise versions and bumps (`Room`).
* `FreshReads`: `Spec => []ReadYourWrites`. What readers may count on changes only
  together with the version, so all readers of one version have the same floor;
  an answer under a version is at least that floor, and no answer is stored under
  a version to come (`FInv`). A failed bump, executed or not, adds nothing that
  readers may count on.
* `CreationsArePaid` (`CreationsCostFaults`), `RequestsKeepTypes`. Whoever may still
  create, or has yet to delete the key, takes up the room of a row, and so does a
  key that is free or that nobody works for: rows and such rights number at most
  one and the faults so far (`RowsCostFaults`). A row nobody was told of is one
  whose request met a fault after its commit (`UntoldCostFaults`); a pending key
  that nobody works for, without a fault, is one whose request was refused after
  the claim (`PendingCostsFault`).
* `RequestsHold` puts both halves together.

**NotificationsProofs**

* `RemindersKeepApart` (`RemindersSpaced`). The inductive part is the unique index
  (`Keyed`): no two reminders have one dedupe key. Of three of a kind for a task the
  second is therefore in a later window than the first, and the third than the
  second, so a whole window lies between the first and the last; the rest is
  arithmetic of division (`LaterBucket`, `KeysKeepApart`).
* `MailsArePaid` (`MailsCostFaults`), `OutboxKeepsTypes`. As for webhooks, a ledger
  for each row (`Ledger`): a notifier that holds it may add a mail or send it back
  to pending, and a row that is due, or pending with nobody left, may be claimed
  again, at once if a late failure left a backoff under another's claim. The bound
  on attempts in the type invariant comes from the same ledger.
* `NotificationsKeepTypes` and `NotificationsHold` put both halves together.

Model-checked only: liveness under fairness (`EventuallySettled` of JobQueue and of
Webhooks, `EveryOverdueTaskReminded`, `KeyReleased`), which rests on ENABLED and is
outside what the prover handles. It is the one kind of property of the runs that
no theorem states.

## Where the code and its documentation disagree

Four disagreements have a run that finds the behaviour.

* `jobqueue_completed`: a job that a client has seen completed may be queued
  again. `fail_job` writes by id: the reaper requeued the row, another processor
  completed it, then the first one's failure arrives.
  `docs/frontend-contract.md:344-345` lets a client fetch the result once the
  status is `completed`.
* `reminders_starved`: the candidate list is limited to the earliest due dates
  and does not leave out what was reminded already; with the list full of tasks
  that stay overdue, later ones never get a reminder. `README.md:144` promises
  one to each assignee.
* `membership_owner`: two calls, each taking an owner's role from a different
  owner, both count two. `docs/frontend-contract.md:234`: "a tenant always
  retains at least one `owner`". `OwnerLossCostsRace` shows that a race is the
  only way.
* `task_requests_pending`: `create_task` claims the key before it validates the
  payload and leaves by the early return, so the key stays pending until it
  expires and retries are told that a request is in progress
  (`docs/frontend-contract.md:191-192`). `CreationsCostFaults` names the routes
  that do the same.

Smaller observations met while modelling. Those with a property are stated by
one that holds and says what the behaviour costs.

* A webhook delivery can be attempted more often than the budget of five in
  `README.md:162`, by one attempt for each crash, lost answer or outlasted lease
  (`AttemptsCostFaults`), and so can a mail (`MailsCostFaults`): the claim does not look at the
  attempts spent, and if it did, a crash during the last attempt would leave the
  row pending for ever.
* `ensure_due_reminder_job` and `ensure_retention_job` can insert a duplicate per
  racing scheduler. What each scheduler keeps is the cadence (`CadenceKept`), and
  that only while job rows are retained for longer than the interval: the row
  that holds the next sweep back is itself subject to retention, and
  `config.rs:274-281` only asks both to be positive.
* A creation whose row is committed and whose next step fails, or whose commit
  is not answered, deletes the key all the same. Where the database refuses a
  second row of the name, as for labels and invitations, the retry is refused for
  ever; elsewhere it makes a second row (`CreationsCostFaults`). The key is scoped
  by tenant and route and not by user.
* A reset or change of the password, and logging out everywhere, do not end all
  sessions. `docs/frontend-contract.md:98`: a reset "revokes every refresh token
  the user holds, so all sessions must log in again"; line 102: after a change
  "clients should treat this as a global logout and re-authenticate"; line 129:
  "access tokens on other devices stay valid until their short TTL expires";
  `README.md:142`: both revoke "all of the user's refresh tokens". But
  `switch_tenant` (`services/auth.rs:226-239`) asks for an access token only, so
  one issued before the revocation gets a refresh token with a whole life of its
  own, with no race and after everything was revoked; and so does a login or
  rotation that raced the revocation. `SurvivorsRacedRevocation` says that there
  is no third way.
* A member may hold a pending invitation, and so be back after a removal, without
  any race: `change_email` (`services/account.rs:165-192`, `db/users.rs:132-146`)
  looks at no invitations, so a member may move to an address that is invited.
  `create_invitation` refuses the reverse order: "user is already a member of
  this tenant" (`services/memberships.rs:57`). `InvitedIsStranger` says that this
  and races are the only ways.
* A task may have more than 20 attachments: `README.md:152` and
  `docs/frontend-contract.md:318` say that it "holds at most 20 attachments", but
  `services/attachments.rs:29` counts before the file is written and the row
  inserted. With n uploads at a time there may be n - 1 too many, and no more
  (`CapExceededByOverlap`).
* A list or an export leaves out a task that was not written while it was read, if
  its project was archived or restored, or its labels changed, in between
  (`db/projects.rs:163-207`, `db/tasks.rs:640-682`): none of these touches
  `tasks.updated_at`. `PagesComplete` speaks of the other rows.
* Refresh tokens: a rotation or login that has read the membership before a
  removal inserts a live row after it (`StraySessionsCostFaults`); the row is of
  no use while the user is out of the tenant, and is again once invited back.
* An upload whose commit is not answered deletes the file of a row that is there
  (`FilesMatchRows`); a failed write of a file may leave a part of it behind, as
  may a crash, and nothing collects such files. Purged export jobs leave theirs
  (`db/retention.rs:22`).
* Two requests that set the labels of one task may end up merged
  (`LabelsAreOneRequest`), while the doc comment of `set_task_labels`
  (`db/labels.rs:121`) says that it "replaces the full label set".
* A task filed under a project while that is archived is hidden
  (`HiddenWithProject`), and two calls on one task may send their events in another
  order than they committed (`ToldIsTrue`). Lists hide the tasks of archived
  projects (`db/tasks.rs:680`), the dashboard's counts include them
  (`db/tasks.rs:15-40`).
* A clock that runs behind sets the bucket's time back, and the span is earned
  twice (`RateHolds`). Retry-After is cut to whole seconds
  (`http/helpers.rs:165`), so a client that obeys it may be refused once more.
* A retried reminder sweep repeats its audit rows (`db/tasks.rs:547`), and
  preferences are those of the time of the list (`services/jobs.rs:379`).
* An expired invitation is hidden from the list and still occupies the unique
  index (`db/invitations.rs:63`), so the address cannot be invited again until
  the old row is revoked by id.

## Not modelled

* **HTTP and gRPC surface**: routing, payload types, conversions and the OpenAPI
  document hold no state. Handlers whose steps matter are modelled with the
  component they drive.
* **Process start, configuration, metrics**: read once; the sampler only reads.
* **Reads without a protocol**: search, project and dashboard summaries, the
  badge count, single rows. What the cache does to them is in TaskRequests.
* **Formats**: event filters, signatures and URL validation of webhooks, the
  content of exports and mails, content types, hashes and the encoding of tokens
  and cursors. Fields of tasks, projects and profiles that no guard reads.
* **Storage**: a file is there or not; paths and keys are left out.
* **Audit log**: the general audit log is append-only and best effort; an insert
  that fails is logged and dropped, and no state depends on it. Which call writes
  which event is left out, except the entries of tasks, attachments and comments,
  which are part of the transactions they tell about.
* **External**: Postgres (a statement or a transaction is one action, but for
  the UPDATEs whose snapshot and effect are told apart in Sessions; READ
  COMMITTED shows in that a series of statements sees what commits in between),
  Redis (a command or a script is one action), the endpoints of webhooks, the
  mail provider, the social login providers and the exchange with them, the file
  system.

## What could come next

* An abstract outbox (pending, delivered, given up; at least once) that Webhooks
  and Outbox both implement: their two ledgers are one argument.
* What holds of all the parts of a request at once: Workspace with TaskRequests
  (the bump of a call that changes tasks) or with Webhooks (its event).
* The audit rows of a reminder sweep, event filters, and the summaries.

## Running the tools

```
tlc -workers 4 -config JobQueueStall.cfg MCJobQueue.tla
for m in JobQueue Webhooks Membership Sessions TaskRequests Notifications \
         TaskThreads Workspace; do tlapm ${m}Proofs.tla; done
```

The run names, modules and configurations are in `PROJECT.json`.
