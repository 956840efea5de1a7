# Formal models of xgen-sdk

`xgen-sdk` is the library the services of the platform share: approvals
(결재), configuration (Redis and PostgreSQL), the database pool, control
policies, quotas, storage, catalogs.  It has no server of its own: its functions
run inside many pods at once, against one PostgreSQL and one Redis, and most of
what can go wrong goes wrong between two of their queries.  This directory
holds TLA+ models of that, the TLC runs that check them and TLAPS proofs about
them.  Paths below are relative to `src/src/xgen_sdk/`.

## 1. Inventory

| Component | State | Operations | Interacts with | Hard part | Models |
|---|---|---|---|---|---|
| Approval engine (`approval/engine.py`) | none: pure functions on a request and its steps | `open_steps`, `_step_of`, `decide`, `advance`, `cancel`; `plan_steps`, `plan_line_slots`, `fill_open_slots` | called by store and followup | its rules judge a snapshot | `ApprovalEngine`, `ApprovalRequest` |
| Approval store, life of a request (`approval/store.py`) | `approval_requests`, `approval_request_steps` | `submit`, `decide`, `cancel`, `system_cancel` | engine, registry hooks, notifier | every query commits by itself; calls interleave, die in the middle | `ApprovalStore` |
| Approval store, settlement | `applied_at`, `apply_error`, `apply_claimed_at` | `_settle_hooks`, `finish`, `settle`, `claim_settlements` | registry (`run_apply`, `run_reject`), block appliers, workers of other services | claims with a lease, dead workers, failing hooks | `Settlement` |
| Follow-up lines (`approval/followup.py`, `sql.py`) | `followup_config`, `followup_selection`, row and table locks, line revisions | `decision`, `cancel`, `candidates`, `save_line` | engine, store, administrators | row locks, stale screens, a line edited under its preview | `FollowupDecision` |
| Lines and forms (`store.py`, `templates.py`, `policy.py`) | templates of lines and forms, the policy of an action | `update_line`, `set_line_form`, `create_form`, `update_form`, `delete_form`, `delete_line`, `set_policy` | requests copy them | guards that read one table and write another, query by query | `FormTemplates` |
| Blocks (`store.py`, `blocks.py`, `evaluation.py`) | `approval_request_blocks` | `fill_block`, the required blocks of a decision | decisions, follow-up locks | a value checked before an approval and written after it | `FormBlocks` |
| Policy, catalog, directory, notifier | policy rows, notices | look-ups, `set_policy` | store | little state; notices are counters in the models | `FormTemplates` (`set_policy`) |
| Deployment stages (`deploy_state_machine.py`) | stage of a workflow, legacy flags | `next_stage_on_*`, flags, groups | approval outcomes arrive late | a decision for a request that was withdrawn and sent again | `DeployApproval` |
| Configuration cache (`config/redis_config.py`) | Redis key, version sentinel, row in `persistent_configs`, value cache per pod | `probe_value`, `set_config`, `delete_config`, version checks, reconnection | every pod; Redis and the database | two stores and a cache without a transaction, outages, restores | `ConfigCache` |
| Configuration objects (`config/base_config.py`, `config_composer.py`) | the values a pod holds, the versions it has seen | `.value`, `refresh`, `update_config`, `probe_config_value`, `refresh_all_if_stale_status`, `ensure_redis_sync` | redis_config, other pods | two levels of "seen", defaults against outages | `ComposerSync` |
| Database pool (`db/pool_manager.py`) | `_pool`, `_pool_lock`, `_recovery_lock`, `_recovering` | `connect`, `disconnect`, `reconnect`, `health_check`, `get_connection`, recovery, retries | all threads of a pod | attributes read without the lock, recovery under load, retries of what was done | `DbPool` |
| ComfyUI client (`comfyui/client.py`) | the prompts of a server that several calls share | `run_workflow`: `submit`, `wait`, `fetch`, `abandon_prompt` | an HTTP server, asyncio cancellation | a prompt given up while requests about it are on the way | `ComfyJob` |
| Anomaly telemetry (`anomaly/telemetry.py`) | a queue and a writer thread per process | `record_event`, `flush`, `_run`, `_write` | request threads, fork, the database | batches of several databases, a fork, a lost commit | `Telemetry` |
| Schema and CRUD (`db/app_db.py`, ...) | - | SQL generation, migrations | pool | sequential | not modelled |
| Redis client (`redis/`) | connection | commands with reconnection | configuration | little of its own | not modelled |
| Control policy, quota, LLM catalog, storage | rules and caches, usage windows, objects | evaluation, loading, reservation, transfer | configuration, DB, Redis | cached rules; limits under concurrency | not modelled (section 6) |
| Authorization, DB connections and credentials, judges, logging, facade | - | - | - | pure tables, CRUD, wiring | not modelled |

What makes each modelled component correct is listed with its module in section 3;
`PROJECT.json` lists the hazards with the line where each one bites and the
properties that cover it.

## 2. Plan

Done, in this order:

1. **ApprovalEngine / ApprovalStore**: the ledger without follow-up lines, query by
   query; **ApprovalStore_proofs**.
2. **ApprovalRequest / FollowupDecision**: the abstract request, and the locked path of
   follow-up lines shown to implement it; **FollowupDecision_proofs**.
3. **Settlement**: claims, leases, hooks, liveness.
4. **ConfigCache** and **DbPool**: the two places where the threads and pods of the whole
   library meet; **ConfigCache_proofs**, **DbPool_proofs**.
5. **FormTemplates** and **FormBlocks**: write skew between lines, forms and policies, and
   between blocks and approvals; **Request_proofs** for both, for Settlement and for
   DeployApproval: the tables around a request before, while and after it is decided.
6. **DeployApproval**: the duplicate check of `submit` with and without the partial
   unique index, half-written requests, and stages driven by outcomes that settle late.
7. **ComposerSync**: the settings a pod holds, on top of the ladder of ConfigCache;
   **ComposerSync_proofs**.
8. **ComfyJob**: prompts that are given up; **ComfyJob_proofs**.
9. **Telemetry**: a queue, a writer, a fork; **Telemetry_proofs**.

Left, in the order of what they would show: `plan_steps`, `plan_line_slots` and
`fill_open_slots` as operators against reference definitions; the reserve pool of the
event loop and the schema migrations; the control policy loader (a cache that keeps its
last good rules); quota windows; the LLM catalog cache and how `anomaly/llm.py` tells a
time-out from a stop; storage transfers.

Compositions: ApprovalStore, FormBlocks and FollowupDecision use the engine's operators;
FollowupDecision instantiates ApprovalRequest; Settlement takes over where either of the
ledgers hands an outcome to the hooks (`handed`), and DeployApproval has its `Settle` as
one step (`OkMeansDone` and `HooksDoNotOverlap` are what makes that one step); ComposerSync
has a read of ConfigCache's ladder as one step.

Every safety property that a run checks is also stated by a theorem.

## 3. Modules

Conventions.  An action is one query, or one transaction, with the computation
around it.  A call in progress is a record with a `pc`; what a call has read and
still uses is kept in its record, never read again.  A definition whose name ends in
`...Wrong` is never part of a specification: it is the definition after it with a
mistake a maintainer could make, and `PROJECT.json` ("mutants") names the property
that notices.

### ApprovalEngine (`approval/engine.py`)
Operators only.  A line is a function from orders to step states, `absent` where no
row exists.  `OpenSteps`, `StepOf`, `MayDecide`/`Decided`, `Advance`, `MayCancel`
are `open_steps`, `_step_of`, `decide`, `advance`, `cancel`.  The check of required
form blocks that `decide` makes before an approval is left out: it only refuses
more, and the blocks are the business of FormBlocks.

### ApprovalStore (`approval/store.py`)
One request with a line of `N` steps, `Calls` handler invocations at once.
Variables are the columns (`status`, `current`, `canceledBy`, `steps`), the calls, and
history: the outcomes handed to the hooks, the notices sent, whether a call read
a half-written line (`early`) and whether a call ended before its last query (`died`).

| code | actions |
|---|---|
| `submit` 350-392 | `SubmitRequest`, `SubmitStep` per INSERT, `SubmitAnnounce` |
| `get` | two queries: the row (`Begin`), then the steps (in `DecideCheck`, `CancelCheck`) |
| `decide` 459-538 | `DecideRead`, `DecideCheck`, `DecideMark` (2), `DecideAdvance` (3), `DecideMove` (4), `DecideEffect`, `DecideHooks`, `DecideTell` |
| `cancel`, `system_cancel`, `_close_as_canceled` | `CancelRead`, `CancelCheck`, `CancelSkip`, `CancelClose`, `CancelHooks` |
| a dead pod, an error, a retry after a commit (`_execute_with_retry`) | `Die` |

`plan_steps` refuses a repeated approver, so an order also names its approver.
A retried conditional UPDATE whose first attempt had committed finds no row and
ends the call with "already handled": for the ledger that is a call that dies.

Properties: `LineOrder` (nobody has the turn or a decision before everyone ahead
approved), `OutcomeHasItsDecisions`, `HooksSeeTheOutcome`, `SettledToldOnce`,
`QuietLedgerIsTidy`, `TerminalIsFinal`, `DecisionsAreFinal`.

### ApprovalRequest and FollowupDecision (`approval/followup.py`)
`ApprovalRequest` states what a request promises: one line, one turn, decisions that
are atomic, a line that may grow once.  `FollowupDecision` models `decision` and
`cancel` with their locks: `LockRequest` is `locked_request`, `DecisionConnect` takes
`locked_configuration` and compares the previewed revision (`version`), and
`DecisionCommit` writes everything of the transaction at once, which is what the
commit makes visible.  `EditLine` is an administrator's `save_line`.  `Click` is a user
who sends what is on the screen, and the screen may be old by the time the locks are
held.  `DecisionReport`, the reads and notices after the commit, is one step.
`IsARequest` is the refinement: the steps that have a row are the abstract line.

### Settlement
`Load` is a worker's `settle`, `LoadInline` the deciding call's `_settle_hooks`,
`Claim` the conditional UPDATE of `_claim_apply`, `ClaimUnavailable` the branch that
goes on without a claim, `RunHook`/`FailHook` one hook, `Stamp` the write of
`applied_at`.  Time is abstracted to a claim that is fresh or stale; `disturbed`
remembers that a claim could not be written or ran out under a running hook, the
two cases in which the code itself gives up exclusion.

### ConfigCache (`config/redis_config.py`)
One setting.  `redis` holds its key and the version sentinel, `db` its row; a value is
the number of the write it comes from.  One pod is modelled whole (`pod`, the manager
and its value cache); calls of other pods only ever touch the stores, so they run "elsewhere"
without a cache.

| code | actions |
|---|---|
| `probe_value`, `_known_version`, `probe_config_version`, `_note_version` | `ReadStart` .. `ReadHit` |
| `_probe_redis_value`, `_probe_db_row`, `_restore_to_redis`, remembering the result | `ReadRedis`, `ReadDb`, `ReadRestore`, `ReadStore` |
| `set_config` | `SetRedis`, `Incr`, `SetForget`, `SetDb` |
| `delete_config` | `DeleteRead`, `DeleteRedis`, `DeleteDb`, `Incr`, `DeleteForget` |
| `_ensure_connection` | `Ensured`, the states of the manager it can leave behind |
| time, Redis | `RecheckDue`, `EntryExpires`, `MissExpires`, `Cut`, `Heal`, `Flush` |

`OutageIsNotUnset`: "could not read" never turns into "not set".  `FreshEntryIsCurrent`:
an entry whose version is still the sentinel's is what the stores hold, however reads and
writes interleave.  It is stated for runs without faults, outside the window in which a
writer has written and not yet moved the sentinel (`Writing`), and without a `crossed`
pair (a restore or a write that reached one store after a different write reached it):
those leave the two stores themselves different, which no version can show.
`PodConverges` has no such conditions: whatever happened, the pod ends up with no entry or
with what the stores give.  `OneThreadAsks`: one thread at a time asks for the version, also
after one that failed or died.

### DbPool (`db/pool_manager.py`)
`pool` is the attribute `_pool`; a call that has picked a pool remembers whether that
one is still open (`mine`).  A critical section in which nothing waits is one step;
`poolLock` and `dozer` show the two that wait with a lock held: `pool.wait` under
`_pool_lock`, and the half second under `_recovery_lock`.

| code | actions |
|---|---|
| `get_connection`, `health_check` | `Check`, `Unavailable`, `Pick`, `Acquire`, `Acquire2`, `RecoveryFailed`, `Recheck` |
| `execute_query` / `execute_insert`, `_execute_with_retry` | `Body` (statement and commit), `Operational`, `Retry` |
| `_try_recover_connection` | `Enter`, `Doze`, `RecoverClose`, `Create`, `Ready`, `Unmark` |
| `connect`, `reconnect`, `disconnect` | `Create`/`Ready`, `Reconnect`, `Disconnect` |

`Body` answers, loses the connection before the commit, or loses the answer of a commit
that happened; `RowsPerCall` counts commits against lost answers.  What psycopg and
contextlib do is taken from how the code uses them: a pool that is closed raises
`PoolClosed`, a busy or unreachable one `PoolTimeout` (both `OperationalError`),
`wait` closes a pool that does not fill, and a generator that yields after a throw is
a `RuntimeError`.  `Init` has no pool and a manager that is set up for PostgreSQL: the state after
`disconnect` or after a `connect` that failed, from which a first `connect` is one of the calls.

### FormTemplates (`approval/store.py`, `policy.py`)
One line, one form, one policy, edited by `Actors` one query at a time.

| code | actions |
|---|---|
| `update_line` 130-177 | `UpdateLine`, `UpdateLineGuard`, `UpdateLineDelete`, `UpdateLineInsert` |
| `set_line_form` 1448-1465 | `SetLineForm`, `SetLineFormCount`, `SetLineFormUpdate`, `DetachForm` |
| `create_form`, `update_form`, `_write_steps`, `_write_blocks` | `CreateForm`, `UpdateForm`, `UpdateFormGuard`, `WriteForm`, `WriteDelete`, `WriteInsert`, `WriteFlag`, `DeactivateUsed` |
| `delete_form`, `delete_line` | `DeleteForm`, `DeleteFormUsed`, `DeleteFormRow`; `DeleteLine`, `DeleteLineClear`, `DeleteLineHide` |
| `set_policy` | `SetPolicy`, `SetPolicyUpsert` |
| `submit`, `_guard_steps_cover_form`, `snapshot_form_blocks` | `Submit`, `SubmitCover`, `SubmitCopy` |
| a call that ends between two queries | `DieHalfWay` |

`LineCoversItsForm`: three guards (`_guard_form_still_fits`, `_guard_lines_still_fit` and
the count in `set_line_form`) each close a door the other edits open; together they keep
every line as long as its form.  Two edits that meet do break it: each guard reads what
the other writes, and no lock or constraint stands behind them.  `crossed` remembers that
two edits met or one died half way, and the property is stated without it;
`RequestIsCovered` is what matters after it: a request is never submitted with a block that
has no approver, unless its form was being written meanwhile.  `DefaultLineIsUsable`: a
locked policy never names nothing, and the line a policy names is not hidden.  The second half
is the promise of `delete_line`, which empties the policies that name a line before it hides it
(two queries, either of which may be the last).  `set_policy` can undo it: it takes any line id
and never asks whether the line is active (`policy.py:151-180`), so it may name a line that is
hidden already, or one that a `delete_line` under way has looked up and is about to hide.
`revived` remembers either; nothing else that edits do, alone or crossing, breaks the promise.

### FormBlocks (`store.fill_block`, `approval/blocks.py`)
Block 0 is the draft, block k belongs to the approver of step k.  `FillRead`, `FillCheck`,
`FillWrite` are the three statements of `fill_block`; `DecideRead`, `DecideJudge`,
`DecideMark`, `DecideMove` the decision with its check of required blocks
(`unfilled_upto`); `FillLocked` and `DecideLocked` the same under the row locks of a
request with a follow-up configuration.  `SubmitDraft` is `_apply_draft_values`, `Withdraw`
a cancellation.  `fill_block` writes without looking again (1650), so a value that was on
its way when an approval was made lands under it: `raced` remembers that, and
`SignedBlocksStand` and `ApprovedIsFilled` say that this is the only way.

### DeployApproval (`deploy_state_machine.py` with `approval/store.py`)
One workflow and the requests submitted for it.  `Deploy`, `SubmitInsert`, `SubmitSteps` are
`submit` with its look-up (`find_pending_for_target`), its INSERT (with the partial unique
index of `models.py:220-224`, or without it where the migration could not make it:
`indexed`), and its first step row.  `OwnerWrites` is what follows: the rest of `submit` (further
steps, blocks, the notice), its return, and the write of the stage by the service that called it,
computed before `submit` or from the stage read afterwards.  `LineDecides` needs no more than the
step row, as `decide` does, and `WithdrawRequest` not even that: a request can be decided, withdrawn
and settled while its submission is under way.  `Settle` hands the
outcome to the hook, which moves the stage by `OnApproval`; `DeployFree`, `SwitchOff`,
`Revoke` are the transitions that need no approval.  `Infer(Flags(stage))` rebuilds a stage
from the legacy flags; that this keeps its group is proved (`FlagsAlwaysKeepTheGroup`).
Three histories qualify the properties, and each is a way the code leaves open: `met` (two
submissions looked before either wrote), `hurried` (a request submitted over an outcome not yet
applied, whose hook then moves the newer deployment), and `early` (the requests whose outcome was
handed over before the owner had written the stage: the hook meets `idle` and is refused, and the
stage becomes `pending_approval` with nothing left to move it).  `WaitingHasARequest` lets a
deployment wait for an `early` request and for no other that is over, and `OutcomeMovesItsOwn`
says nothing about a deployment that waits for an `early` one: whatever is approved next opens it.

### ComposerSync (`config/base_config.py`, `config_composer.py`)
`pod` holds, per setting, the value, whether it was loaded, the version it was read under and
the last version seen; a `call` is what the pod is doing; `remote` is another pod's
`set_config`.  `Value`/`ValueVersion`/`Resolve`/`Through`/`Keep`/`Seen` are `.value` and
`_resolve`, `Update`/`Set`/`Incr`/`SetDb`/`Align` are `update_config`, `Check` ..
`Answer` `probe_config_value`, `Status`/`Final` the loop of `refresh_all_if_stale_status`
and `refresh_all`, `Sync`/`Health`/`Exists` `ensure_redis_sync`.  Outages, lost keys and a
restart are actions of their own.  A read of a setting is one step (`Probes`): the value cache
of `probe_value`, which repeats an answer for up to a second, is left to ConfigCache.  What it
could add here is an answer read before a write and used after it, which an alignment past that
write makes an instance of `over`.

`AnswerIsCurrent`: an answer that was verified is not older than a write that had reached
everything before the question.  `DefaultReplacesNothing`: a store that does not answer never
makes a registered default overwrite what an administrator has set.  Histories: `settled` (the
newest write that both stores and the sentinel have), `basis` (the version each held value was
read at; a value of one's own counts as read at the version it was written over, and one's own
INCR moves what was current along), `crossed` (a write reached a store after a newer one), `over`
(an alignment set the sentinels past the `basis` of a value the pod holds: `update_config` after
another pod's write, or `refresh_all` and `ensure_redis_sync` around one), `blind`
(`ensure_redis_sync` wrote a value that was unread or not the newest: `exists()` answers "no" for
an error, so an outage between two of its calls is enough).  TLC stops at states after any of
them (`Uncrossed`); the properties say nothing about those.

### ComfyJob (`comfyui/client.py`)
A request to the server is three steps, sent, handled and answered, and a caller that gives
up on it leaves it on the way (`stray`), where the server may still find it.  `Begin`,
`Submitted`, `Polled`, `PollFails`, `Wake`, `Fetched`, `Deadline` are `run_workflow` with
`submit`, `wait` and `fetch`; `StartAbandon`, `Abandoned`, `TaskGoesOn`, `TaskTimesOut`
`abandon_prompt` and its shielded task; `Cancel` an asyncio cancellation at any await;
`RunJob`, `EndJob`, `ServeCall`, `ServeTask`, `ServeStray`, `LoseStray` the server and the
network, external, taken from how the client uses them.

`AbandonedIsStopped` depends on the order of the two requests: first out of the queue, then
interrupted; the other way round a prompt starts in between.  `NothingLeftRunning` excepts
two cancellations the code cannot act on (`unsure`): one during the submission, when the
client does not know the id yet, and one during the abandonment itself.

### Telemetry (`anomaly/telemetry.py`)
`mem[p]` is the `_Writer` object of a process, `writer[p]` its thread, `calls` what request
threads are doing.

| code | actions |
|---|---|
| `record_event`, `submit`, `_ensure` | `Submit`, `Ensure`, `EnsureLock`, `EnsureStart` / `StartFails`, `Put` |
| `flush` | `FlushBegin`, `FlushTrue`, `FlushReturns` (late, or done) |
| `_run` | `WriterGet`, `WriterMore`, `WriterDone` (task_done) |
| `_write`, `insert_rows` | `WriterWrite`, `WriterFails` (with or without the rows), `WriterWakes` |
| fork, the end of a process | `Fork`, `Exit` |

A forked child has the memory of its parent, locks included, and none of its threads.
`FlushMeansStored`: True from `flush` means that what was accepted before is a row, or its
group failed twice.  `ChildWritesItsOwn`: a child never writes what its parent has queued.
`EventsSettle`: accepted events are written or given up in the end.  The history `lost`
keeps the events of groups that were given up; a lost answer to a commit may make an event
both a row and lost.

## 4. Runs

| run | module, bounds | states | shows |
|---|---|---|---|
| `store` | MCApprovalStore, N = 2, 3 calls, symmetry | 1.47M | all safety properties of the ledger, with calls that die anywhere |
| `followup` | MCFollowupDecision, line of 2, one follow-up line with 3 edits, 2 calls | 94k | refinement of ApprovalRequest, the stale-screen properties, and what a quiet request has reported |
| `settlement` | 2 workers, 2 deaths | 18k | exclusion of hooks, at-most-once but for deaths, and that an outcome is applied in the end |
| `forms` | FormTemplates, 2 actors, forms and lines of up to 2 steps, 3 calls | 418k | the guards of lines and forms close each other's doors, and no line is hidden under a policy |
| `fill` | FormBlocks, N = 2, 2 calls, all blocks required, 4 values | 152k | what was signed stands, and what was approved is filled |
| `deploy` | DeployApproval, 2 submissions at once, 3 requests | 1.29M | one open request, no stage that waits for nothing, outcomes that move their own deployment |
| `config` | ConfigCache, 2 calls at once, 1 write, 1 delete, 1 fault | 1.5M | safety of the cached value and of "not set", convergence of the pod |
| `composer` | ComposerSync, 2 settings, 2 writes, 1 fault, symmetry | 8.7M | a verified answer is current, a default replaces nothing |
| `dbpool` | DbPool, 2 threads, pool of 1, 1 retry, 2 faults | 339k | one recovery at a time, rows against lost answers, calls end, the pool comes back |
| `dbpool_reconnect` | same | violation | `reconnect` without a pool waits for itself (`app_db.py:205`) |
| `comfy` | ComfyJob, 2 calls on one server, 2 failures, 1 cancellation | 686k | what is given up is stopped, nothing is left running, every call ends |
| `telemetry` | Telemetry, 2 threads, 2 databases, queue of 1, batch of 2, 2 events, 2 faults | 470k | flush tells the truth, a child writes its own, accepted events settle |

Bounds.  Every race of the ledger is between a call that read and one that wrote,
so two calls show all the races; the third is there for an interloper between a pair
(a decision, a withdrawal and a submission that is still writing).  `N = 2` is
the smallest line with a turn to pass on and an end.  `store` with `N = 3` was also run
once outside the time of a regular run (12.6M states, 3 calls) and holds.  The
follow-up line is edited to a different line and then to an unusable one; it starts with
the approver who closes the first line, so a double click can reach a second step
of the same person.  `LongestLine` is the length of the
longest of its edits.  Notices are counted up to 2, enough to tell never, once and
more.  `MaxDeaths = 2` lets a worker die, its successor die too, and a third finish.

In FormTemplates a form of two steps is the smallest that can be longer than a line, and
three calls build a line with a form and edit it; two at once show every crossing.  In FormBlocks
two approvers are one who has signed and one who may still write, two calls a fill against a
decision or another fill, and four values fill all three blocks and replace one.  In
DeployApproval three requests allow one withdrawn, one decided late and one open; two
submissions at once are what the unique index is for.

In ConfigCache two calls show every race of a reader with a writer, a deleter or another
reader; one write suffices, since a second one only repeats the race, and one fault at a
time is what the ladder of stores is built for.  ComposerSync needs two settings (the version
is shared by all of them) and two writes (one of each pod).  In DbPool a pool of one
connection makes the second thread find it busy, one retry is the smallest number that
distinguishes a retry from the end, and two faults allow a lost answer followed by a recovery
that fails, the only way to a second commit.  In ComfyJob the second call is the one whose
prompt must not be hit by the first one's interrupt, and two failures are the poll limit, or
one poll and one abandonment.  In Telemetry two events of two databases make a batch of two
groups, a queue of one can be full, and two faults make one group fail for good.
`CHECK_DEADLOCK` is off where the modelled program does stop: processes exit, calls are used
up by their bound, and in DbPool a thread can wait for itself (`dbpool_reconnect`).

Fairness is assumed in Settlement, ConfigCache, DbPool, ComfyJob and Telemetry.  In Settlement
workers poll `claim_settlements` for ever (`WF Load`), a worker that has started goes on unless
it dies (`WF Finish`; deaths are bounded), time passes (`WF LeaseExpires`).  The
first comes from the owning services' loops, which call `settle` for every row
`claim_settlements` returns; nothing is assumed of clicks, deaths, or the inline call.  In
ConfigCache a call that has started goes on, an outage ends, entries age (the age is a
wall-clock test on every read), and a pod that goes on asking reconnects: after the cooldown
`_ensure_connection` tries again on every call.  Nothing obliges anyone to read, write or check
the version.  In DbPool a thread runs and gets a lock that becomes free again and again (strong
fairness: `threading.Lock` wakes its waiters), and an outage ends; nobody is obliged to begin a
call, so `PoolComesBack` has the stream of queries as its premise.  In ComfyJob time passes
(`Deadline`), a request is answered or fails (`Serves`), and the event loop goes on with what is
ready (`CallSteps`, `TaskSteps`); nothing is assumed of the prompts, which may run for ever.
In Telemetry the writer thread runs and its writes end, because a connection is waited for at
most a second; nothing is assumed of request threads, forks or exits.

### Known disagreements

One run, `dbpool_reconnect`, shows a violation that the code has: `reconnect` without a pool
(after `disconnect`, or while a recovery has closed the old one) holds the non-reentrant
`_pool_lock` and calls `_connect_postgresql_pool`, which takes it again.

The models have more behaviours in which the code does something else than its comments say.
They were found as counterexamples of properties stated from those comments; the properties are
kept here as text, and the histories named in section 3 are what the others need to exclude them.

* "Always exactly one pending step" (`models.py:243`): `decide` takes the order from a row it
  read (`store.py:459`) before the steps; if another approver moves the turn in between, it still
  marks its own step but neither advances nor closes the request, which stays open without a turn.
* "The last person's approval is the final one" (`engine.py:13`): a decision between two of
  `submit`'s INSERTs (`store.py:374`) finds no later step and approves the request.
* "Withdrawn only while nobody has approved" (`engine.py:27`): `cancel` checks a snapshot and then
  closes whatever is pending (`store.py:713`), an approval in between included.
* One outcome, one notice (`test_approval_concurrency.py:85`): `followup.decision` reports from a
  ledger read after its commit (`followup.py:349`), so two calls can report the same outcome.
* A delete from both stores stays (`redis_config.py:897`): a reader that had read the row before
  puts the key back (`_restore_to_redis`, 396).
* "On a connection error, recover and retry" (`pool_manager.py:737`): the generator of
  `get_connection` yields a second time after a throw (743), which contextlib turns into a
  `RuntimeError` that nothing retries.
* A pod "does not stay stale after its own write" (`config_composer.py:170`): `update_config` sets
  the version it has seen for all settings to the version of its own write (210), past a write of
  another pod that it has not read.
* Two edits of a line and its form that meet leave a line shorter than its form (`store.py:195`
  against 1266), and a decision withdrawn and deployed again can move the newer deployment
  (`deploy_state_machine.py:125`).
* A line that is some action's default is not simply taken down, because the dialog would come up
  empty (`store.py:259`): `set_policy` accepts a line that `delete_line` has hidden
  (`policy.py:153`), one call after the other, and leaves such a policy behind.
* An outcome is applied to the deployment that asked for it: a request can be decided as soon as it
  has a step (`store.py:374`), before its owner writes the stage.  The hook meets `idle`,
  `next_stage_on_approval` refuses (`deploy_state_machine.py:134`), and the stage then written waits
  for a request that is over.
* A pod that dies in the middle of `submit` leaves an open request that nobody can decide and that
  blocks its target until the system withdraws it (`store.py:374` against 330).
* "Recording does not hold up the request" (`telemetry.py:9`): a process that forks while another
  thread holds `_lock` (87) leaves a child in which every `record_event` waits for ever.

Read while modelling, and not in a model: `quota/resolver.py` loses a role's BLOCK where a
stricter WARN follows it; `create_tables` never learns that a unique index could not be made
(`app_db.py:345`), because `execute_query` returns None where it expects an exception, so
`_unenforced_unique_indexes` stays empty; `probe_config_value` answers ("ok", default) for a
setting that was never read.

## 5. Proofs

`ApprovalStore_proofs` proves, for every `N \in Nat \ {0}` (`NAssumption`) and every set
`Calls`, with calls that interleave and die anywhere:

* `TypeCorrect`, `LineOrderHolds`, `OutcomeIsDecided`, `HooksGetTheOutcome`
  (invariants) and `OutcomeIsFinal`, `DecisionsStand` (action properties).

None of these invariants is inductive.  `Invariance` proves `IInv`, which adds

* `VerbFits`: a call that decides carries a decision, one that withdraws a withdrawer;
* `RowsAreAPrefix` and `Insertion`: the rows that exist are a prefix of the line, and one
  call at most is inserting, at its end;
* `LineWasComplete`: unless `early`, no call works on a line that is still growing;
* `VerdictHolds`: what `advance` computed from its snapshot (everyone up to the old
  turn approved, somebody rejected, nobody left) is still true of the steps when it is
  used, because decisions are never overwritten;
* `ClosedAsDecided`: a closed request has the decisions its status claims, or a call
  that won the transition and has its remaining steps still to write.

`Invariance` is one lemma per action on the operators of the ledger, then the
case split over `Next`.  The inductive invariant was first checked by TLC
(N = 3, 2 calls).

What the ledger tells is a second invariant on top of it, `TInv` (`NothingIsForgotten`), about
calls that have won something and not yet acted on it: one call at most is closing the request
and has not told the requester (`OneCloses`); who has the turn was told, or a call in progress
is about to tell (`TurnWillBeTold`); a closed request with steps still open has a call that is
about to skip them (`RestWillBeSkipped`).  Without calls in progress nothing is "about to" any
more: `RequesterIsToldOnce` (`SettledToldOnce`) and `QuietLedgerTidied` (`QuietLedgerIsTidy`).

`FollowupDecision_proofs` proves the four invariants of the locked path (`FollowupIsMade`,
`ClicksLandWhereMeant`, `PreviewIsConnected`, `QuietIsReported`) and the refinement
`RefinesRequest` (`Spec => IsARequest`) for any approvers, any lines and edits of them
(`LongestLine` bounds their length) and any set of calls.  `IInv` adds

* `LineIsWhole`: the orders that have a step are an initial part of the ledger, as long as the
  first line and, once connected, the edit of the follow-up line that was previewed;
* `Turns`: the shape of a line in each status: approved before the turn, waiting after it;
* `LocksHold`: what a call judged under its row locks (the request is open, the turn is the one
  clicked, the follow-up line has the revision previewed) still holds when it commits;
* `Reports`: what has not been told yet, a call in progress is about to tell.

The refinement reads the abstract line off the steps that have a row.  `LocksHold` makes every
commit one step of ApprovalRequest: an approval that passes the turn, one that ends the line,
one that grows it, a rejection, a withdrawal; the other actions, `EditLine` included, map to a
stutter.

`ConfigCache_proofs` proves `OutagesAreNotUnset`, `FreshEntriesAreCurrent` and
`OneThreadAsksAtATime` for any set of calls in the two pods and any bounds on writes, deletes
and faults.  `IInv` has two halves.  For outages: unless somebody deleted the setting its row
stays (`RowKept`), neither the pod nor a read that is about to be remembered has "missing"
(`PodKept`, `CallKept`).  For fresh entries, while nothing has failed and no write crossed another (`Calm`):
no version the pod or a call has is from the future (`VersionsSeen`), so the INCR that ends a write outdates
them all; a read whose version is still the sentinel's carries what the stores hold, unless
somebody is writing (`CallRight`, `EntryRight`); and a name remembered as missing that has a row has its
key in Redis too, or a delete that has yet to reach the database (`MissedRight`).
`OthersStayRight` carries the calls that a step does not touch over a change of the stores:
either somebody is writing, or the version has moved, or what they hold is the same.

`DbPool_proofs` proves `TypesAlways`, `RowsPerCallAlways` and `OneRecoveryAlways` for
every set of threads, pool size, number of retries and number of faults
(`DbPoolAssumption`).  Here too the invariant has to be strengthened, by `IInv`:

* `KindFits`: which places of the code a kind of call can be at (only a query retries,
  only a health check rechecks, only queries and health checks recover the pool);
* `BackFits`: a recovery returns to a place of its own kind of call, and to a retry
  only where one is left;
* `RowsFit`: until a call ends, each of its commits is one whose answer was lost, and
  there is at most one per attempt.  The second connection of `get_connection` is the
  delicate place: that a call commits at most once per attempt holds only because a
  call whose first connection broke (`lost`) never gets to use it;
* every call's lost answers are among the `faults` that happened.

The calls share only the pool, so a step is proved in two halves: the `...Fits` lemmas
say what a record of one call keeps when a step changes it, and `StepOf` says what else
a step must show for the whole invariant, the calls of all other threads included
(closing the pool changes their `mine`, which none of these properties reads).

`Request_proofs` has four specifications, which share no variable.

* FormTemplates: `LinesCoverTheirForms`, `RequestsAreCovered` and `DefaultLinesAreUsable`, for
  any number of administrators and requesters and forms and lines of any length.  `Knows` is
  what an edit still has of what its guards read, query by query: `update_line` that its new
  approvers are enough for the form, `update_form` that the line is long enough for the new
  steps and how far it has written them.  `EditsApart` says that it holds of the one edit under
  way as long as no two met (`crossed`), and that the line fits its form between edits.
  `CalmStays` is about submissions and needs no such condition: a submission that is calm has
  the form to itself, so what it copies is what it counted.  `EditGoesOn`, `EditBegins` and
  `EditsUntouched` carry the calls of the others over a step; that a set of steps has a last
  one comes from the well-foundedness of the natural numbers (`LeastExists`).  `PolicyKept` is a
  second invariant on top, and has no use for `crossed`: unless `revived`, a `delete_line` that is
  about to hide the line has left no policy that names it, a `set_policy` in progress writes no
  hidden line, and the two are not under way together.  `PolicyStaysKept` goes through the calls
  that touch neither with two lemmas (`OthersBegin`, `OthersGoOn`).
* FormBlocks: `SignedBlocksAlwaysStand` and `ApprovedIsAlwaysFilled`, for every line, every set
  of required blocks and every set of calls.  `BlocksInv` says what still holds of a call
  between its query and its write while nothing `raced`: a block about to be written is under
  nobody's approval (`FillStillMay`), an approval about to be marked still has its blocks
  (`JudgedStill`), and so have those that were made (`ApprovedHave`).  It needs the order of
  the line (`LineInv`), since a block is protected by whoever approved at or after it.
* Settlement: `HooksNeverOverlap`, `RerunsAlwaysHaveADeath` and `OkAlwaysMeansDone`, for any set
  of workers and number of deaths.  The strengthening is `HoldsTheClaim` (unless a claim was
  `disturbed`, who runs hooks has it, fresh, and the request is not yet stamped),
  `RunsAccountedFor` (one run is in progress or has been stamped, every other one ended in a
  death) and `DoneSoFar` (a run without an error has done the hooks before the one it is at).
* DeployApproval: `OneOpenRequestAlways`, `WaitingAlwaysHasARequest`, `OutcomeAlwaysMovesItsOwn`
  and `FlagsAlwaysKeepTheGroup` for any number of requests and submissions.  `DeployInv` adds
  `OwnRequest` (a submission that is not over has a request with a row, and if that one has been
  applied it is `early`), `LookedUp` (without the index, and unless two submissions `met`, one that
  looked and found nothing still finds nothing), and `OneLive` (at most one request can still move
  the stage, unless somebody `hurried`): with `WaitingHasARequest` it is the one waited for.

`ComposerSync_proofs` proves `DefaultsOverwriteNothing` and `VerifiedIsCurrent` for any set of
settings and any number of writes and faults.  For the first, `Unset` says of a default that is on
its way (`_resolve` found both stores empty) that, as long as no write was finished or begun since,
the database still has nothing, nor has Redis until the default is in it; every other write is of a
value that is not older than what it replaces, or sets `crossed` or `blind` (`Spared`).  The second
needs `Current`, about a pod while nothing has failed, crossed or been aligned too early (`Calm`):

* `Connected`: every query is answered, so no read ends in "error" and no recovery is due;
* `InRedis`: Redis has what is settled, what the other pod is writing, and what this call has
  written, or something newer.  So a value that was read now is newer than no write (`NothingNewer`);
* `Based`: the version the pod believes in is at most the version each value was read at, and where
  a newer write was told to the sentinel that version is behind it; the same for the value the
  call has in hand.  The one exception is `OwnWrite`, between the row of `update_config` and its
  end, when the pod still holds what it has just replaced;
* `SyncHolds`: `ensure_redis_sync` writes what the pod holds;
* `Checked`: a check that is past the sentinel, or past its setting in `refresh_all`, holds the
  value it will answer with (`Answered`).

So a sentinel that has not moved means that no newer write was told of (`StatusCalm`), and one that
has moved makes the check read all settings again (`SeenChecked`).  Most steps of a call leave the
stores and the held values alone: `Frame` carries the invariant over those, and only `Checked` is
left to show.  The invariant was checked by TLC with one setting and three writes, and with two and
two.


`ComfyJob_proofs` proves `AbandonedIsAlwaysStopped` and `NothingIsLeftRunning` for any set of
calls and any bounds on failures and cancellations.  `Stopping` follows a prompt through the two
requests: after "delete" was handled it does not wait any more, so it can only be running or
over, and "interrupt" ends the former.  `Knowing` says, while no request has failed, what a call
knows about its prompt at each place it can be at, and which of the two requests it has behind
it, unless it is `unsure`.

`Telemetry_proofs` proves `FlushAlwaysMeansStored` and `ChildAlwaysWritesItsOwn` for any number
of threads, databases and events, any queue and batch size, and any faults.  The counter of the
queue is the heart of the invariant: in a process with a queue of its own it is what is in the
queue and in the writer's hands (`Counted`), and what was accepted and is in neither has been
settled, so a counter of zero means that everything is.  `Settles` says that what a batch has no
more to do is settled, and `TwoFailures` pays two faults for each group that was given up.  A step
of one process is proved good for that process (`Good`), and `Untouched` carries the others over.

Every inductive invariant was first checked by TLC, on the instance of its run or one near it
(`TemplatesInv` and `PolicyKept` with four calls, 2.9M states; that of ConfigCache with two writes, 8.9M).

Only model-checked:

* liveness (`EventuallyApplied`, `PodConverges`, `CallsEnd`, `PoolComesBack`, `EveryCallEnds`,
  `EventsSettle`), since fairness (ENABLED) is out of this prover's reach;
* `dbpool_reconnect`, a violation, which there is nothing to prove about.

## 6. Not modelled

Parts of modelled components: `plan_steps`, `plan_line_slots` and `fill_open_slots` (what a line
looks like before it is a request); the notices of a withdrawal; `resolve_line` and the history of
policies, the catalog of actions and the directory; the rules between lines in `validate_config`;
scoring; the local fallback of the configuration, the cache versions of other namespaces and the
name index; the reserve pool of the event loop, SQLite and the migrations; parsing of ComfyUI
workflows and outputs; the middleware that counts downloads and the classification of outcomes in
`anomaly/llm.py`.

Components that were read and left: the Redis client and the local configuration (a connection
and a dictionary, whose failures are the outages of ConfigCache and ComposerSync); the process
pool for PDF text (`control_policy/files.py` 595-692: one lock around one worker, restarted when
it fails) and the policy loader; quota (sums over usage that other services write); storage.

Everything else is not a matter of states: SQL generation and CRUD (`db/app_db.py`,
`db_connections`, `db_credentials`), readers of file formats (`control_policy/_hwp.py`, `files.py`),
cryptography (`storage/crypto.py`), static tables (`auth`, `llm_catalog`, `audio_catalog`), form
templates and block types as data, prompts and calls to models (`quality_judge`), wiring and
output (`app.py`, `logging`, `notification`).  That is most of the lines of the library and the
reason why the definitions here stand for little more than a tenth of them: the lines they do
stand for are those in which two actors, or a failure, can meet.
