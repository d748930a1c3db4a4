# CareerOS Local: verification development

TLA+ models of the parts of CareerOS Local in which ordering, crashes and
concurrency decide whether the user's records survive, with their TLC instances
and TLAPS proofs. Paths are relative to `src/`; Python paths without a prefix
are under `src/backend/`.

Contents: [the system](#1-the-system), [inventory](#2-inventory),
[modules and code](#3-modules-and-how-they-correspond-to-the-code),
[what the runs check](#4-runs), [fairness](#5-fairness), [proofs](#6-proofs),
[disagreements found](#7-where-code-and-documents-disagree),
[what is left out](#8-only-model-checked-and-not-modelled),
[plan](#9-plan), [how to run](#10-running).

## 1. The system

CareerOS Local is a desktop application. A Tauri supervisor (Rust) starts one
FastAPI sidecar; the sidecar owns a SQLite vault (WAL, `synchronous=FULL`),
content-addressed files next to it and a managed llama.cpp runtime; a React UI
talks to it over authenticated loopback HTTP. External agents (Codex, Claude
Code) reach it through a stdio MCP process and a bridge of six tools.

Three kinds of concurrency meet in the sidecar:

* *the event loop*: middleware, `async` routes, scheduled searches and the
  search pipeline; what runs between two awaits is atomic;
* *worker threads*: synchronous routes and `run_in_threadpool`; SQLite
  serialises their transactions, nothing serialises their reads;
* *process death*: the supervisor, the user or the machine may stop the sidecar
  at any instruction; SQLite and the files stay.

`career/activity.py:1` names the one topology that is supported, a single worker
process, and all models take it: there is one event loop, and in-memory
registries are the truth until the process dies.

How the parts meet:

```
 UI / bridge / scheduler
        | private request: reader permit          maintenance request
        v                                               v
  VaultActivityGate  <------ maintenance lock + writer permit
        |                                               |
        |  searches: search_status + profile lock <-----+ cancel_and_clear_tasks
        |  agent work: one transaction per call         | begin_vault_maintenance
        v                                               v
  SQLite vault  <--- rows, lifecycle, sessions ---  delete_complete_vault /
  files, .trash, .restore  <--- moves, journal ---  restore_archive
```

`VaultGate` models the gate by itself. The other modules use what it proves:
`VaultMaintenance` assumes that one maintenance request is inside
`maintenance()` and that its destructive part runs without readers
(`MaintenanceRunsAlone`), `SearchTasks` has the writer enter only when the
permits of all searches and polls are back (`Drained`), and `AgentWork` lets
maintenance happen only between calls. `SearchPipeline` is what one attempt of
`SearchTasks` does between taking the slot and its terminal status.
`AuthSessions` has maintenance as the changes of lifecycle and session rows that
`VaultMaintenance` makes. `Applications` has the resume as the versions that
`ResumePublication` commits, and the effects of `AgentWork` on an application
(`Observe`, `AcceptMaterials`).

## 2. Inventory

Each component with its state, its operations, what is hard about it and what
makes it correct. PROJECT.json lists the same components with their sources.

| component (lines) | state | operations | hard part | correct when | module |
|---|---|---|---|---|---|
| activity gate (`career/activity.py`, 0.1k) | `_readers`, `_writer`, `_waiting_writers`, a condition, a lock | `reader`, `try_reader`, `writer`, `maintenance` | cancellation at every wait, lost wake-ups, writer priority | writer alone, counters exact, nobody forgotten | `VaultGate` |
| vault maintenance (`career/deletion.py`, `portability/restore.py`, 2.8k) | `vault_lifecycle_state`, fingerprint, rows, files, `.trash`, `.restore`, session families | reset, restore, erasure, retry | crash between file and row steps, failing clean-up, lost commit acknowledgements, competing requests | "ready" means rows and files agree and nothing deleted is readable | `VaultMaintenance`, `VaultPromise` |
| searches of a profile (`services/search_status.py`, `search/finalization.py`, scheduler, 2.0k) | three registries in memory; lock, status and receipt columns | reserve, activate, run, stop, poll, schedule, quiesce | TTLs, stale tokens, threads, swallowed database errors, restarts | one run, owning its lock; stop is final; receipts count each run once | `SearchTasks` |
| search pipeline and catalogue (`search/`, `services/search/`, `jobs/`, 4k) | catalogue rows with revisions, dedup state, queue, counters, Jobs | query, observe, deduplicate, normalize, filter, analyse, save | awaits between reading a row and writing a result for it; two coroutines joined by a queue; partial failures | results are of the current text, every listing is counted once, "done" leaves nothing out | `SearchPipeline` |
| external agent work (`agent_work/`, 2.7k) and automation grants | requests, proposals, grants, input revisions | create, submit, view, accept, reject, cancel, list; issue, revoke | reads outside the transaction that writes, retries, revocation in between | one effect, as reviewed, on live authority and current inputs | `AgentWork`, `AgentPromise` |
| managed runtime (`inference/`, 3.3k) | installer thread, two events, startup lease, process handle, files | install, pause, resume, cancel, start, restart, erase, shut down | thread against loop, a start that loses its lease, waits at shutdown | no server without an owner, none after exit; "ready" has a server; waits end | `ManagedRuntime` |
| authentication sessions (`services/auth_sessions.py`, routes, 0.9k) | eight families per user, refresh digests, lifecycle | register, log in, rotate, maintenance access, log out | two tabs rotate one token, stale reads before `BEGIN IMMEDIATE` | a replay ends the family, a logout is final, no login slips past maintenance | `AuthSessions` |
| resumes (`resumes/`, `career/repository.py`, 3k) | draft, profile, versions, rendered files, journals | edit, synchronize, promote, publish, delete | crash and ambiguous commit in two-phase publication | version rows and files appear together, as current as when locked | `ResumePublication` |
| applications and dossiers (`applications/`, 5.1k) | timeline, row, dossier draft, packets, journals | append, prepare, tasks; save, accept, publish | projection from two reads, revision races, packet clean-up | the board follows from the timeline; a packet is what was saved | `Applications` |
| durable storage (`storage/`, 0.7k) | temporary files, links | write, publish, remove | crash between fsync, link and directory fsync | a published file is whole | a step that may fail |
| restore journal copies (`portability/journal.py`) | two checksummed copies with generations | prepare, read, clear | torn pair | the newest complete record is found | not modelled |
| circuit breaker (`providers/circuit_breaker.py`) | state, failure count, time | call, reset | several calls at once in half-open | an open breaker closes only after a fresh success | not modelled |
| career assets (`career/`) | uploads, journals | upload, reconcile | as for resumes | as for resumes | not modelled |
| desktop entry and supervisor (`desktop/`, `frontend/src-tauri/src/`, 2.7k) | sidecar process, instance lock, backups, startup migrations | start, watch, stop, back up | restart races, interrupted migration | one sidecar per vault | not modelled |
| matching, AI, campaigns, workflows, archive validation (20k) | none that outlives a call, or single-row updates | parse, score, prompt, validate | text processing | out of a model checker's interest | not modelled |
| UI, schema, migrations | presentation, declarations | | | | not modelled |

The hazards these bring are listed one by one, at their lines and with the
properties that watch them, in PROJECT.json (`hazards`); the four without a
property carry the reason.

## 3. Modules and how they correspond to the code

`map` in PROJECT.json gives the lines of every definition. This section gives
the reading.

### VaultGate — `career/activity.py`

| TLA+ | code |
|---|---|
| `readers`, `writer`, `waitingWriters` | `_readers`, `_writer`, `_waiting_writers` |
| `lockHolder` | who is inside `_maintenance_lock` |
| `pc[t]` | where the task's coroutine stands: `out`, `waiting` in `Condition.wait`, `inside` as a reader, `queued` for the maintenance lock, `preparing` inside `maintenance()`, `writing` |
| `asleep` | waiters that no `notify_all` has reached since they last evaluated their predicate |

The condition's lock is never held over an await, so each critical section is
one action. Sleeping is not: `wait_for` evaluates its predicate, sleeps, and
evaluates it again only when notified. `Enter…`/`Block…` are the first
evaluation, `Wake…`/`Resleep…` the later ones, `Cancel…` a `CancelledError`
inside the wait with the `finally` blocks it runs, `Leave…` the end of the
context manager. Readers are private requests, bridge requests and scheduled
searches; probes are `/health/ready` (`try_reader`); maintainers are the routes
for reset, restore and erasure, which nest `writer()` in `maintenance()`.

### VaultMaintenance — deletion, restore, journal, lifecycle

| TLA+ | code |
|---|---|
| `lifecycle`, `fingerprint` | `User.vault_lifecycle_state`, `User.vault_maintenance_fingerprint` |
| `rows` | the account's whole record set, named by the archive it would export to; `None` when it owns nothing |
| `live`, `trash` | files at their canonical paths; files under `.trash/user-N` |
| `foreign` | files that a row of another account binds too |
| `journal` | `.restore/user-N`: archive fingerprint and the paths the restore creates |
| `remnants` | deleted rows still readable in SQLite pages or the WAL until sanitisation |
| `family[s]` | a session family: `full`, `recovery` (a login during maintenance) or `sentinel` (the revoked row that authorises finishing an erasure) |
| `req`, `running`, `step`, `transitioned`, `staged`, `failed` | the requests, and the local state of the one inside `maintenance()` |
| `inflight` | an ordinary request authorised before and still running |
| `faults` | what is left of the budget for crashes and failing steps |

A deletion goes `begun → stage → commit → sanitize → purge → unjournal →
finalize`; a restore goes `begun → prepare → write → commit_restore →
unjournal_restore`, with `rollback` from any of them. Each file move is a step;
each commit is a step with three outcomes (done, not done, not verifiable);
each clean-up may fail part way; `Crash` keeps exactly what is durable. An error
before the restore's transaction is a fault, unless it will be met again at every
try: of an archive in `Refused` (invalid, or in conflict with the shared catalogue)
or of a vault that is not empty (`Acceptable`). What
each route does with the pending state after each kind of error is in
`ClearIfTransitioned`, `Finish` and the actions that use them.
`begin_vault_maintenance` checks again what `get_vault_maintenance_authority`
had checked before the wait for the lock: `Submit` and `Begin` are separate
steps for that reason.

`VaultPromise` is the abstract specification: the account owns nothing or one
whole record set, one operation is announced at a time, and "ready" returns only
when it has happened or has not. `KeepsPromise` is the refinement, with
`content <- rows`, `pending <- lifecycle`, `archive <- fingerprint`.

### SearchTasks — the searches of one saved profile

| TLA+ | code |
|---|---|
| `lock` | `search_lock_token`, `search_lock_state`, and whether its TTL has passed |
| `dbStatus`, `receipt` | `search_status_payload`; `last_search_started_at` with `search_run_count` |
| `memStatus`, `reservation`, `active` | `_statuses`, `_reserved_tasks`, `_active_tasks` |
| `requests` | start requests that were authorised and have not reserved yet |
| `phase[a]` | attempt `a`: `queued` (background task created), `activating` (inside `register_task`, between its two critical sections), `readiness`, `pipeline`, `closing` |
| `cancelled`, `orphans` | tasks with a `CancelledError` on its way; runs that left a gathered child behind |
| `vault`, `joining` | the maintenance request as searches see it: `quiescing` is inside `cancel_and_clear_tasks`, `draining` waits for the writer permit |
| `poll` | a status poll in a worker thread |
| `stopped`, `completed` | history: what the user was told, and which pipelines ended well |

Attempts are numbered in the order of their reservations, which is also the
order of their `started_at`. What runs on the loop needs `LoopFree`, because
`register_task` makes its database call on the loop without the module lock;
polls run in threads and do not need it. `_with_profile_repo` swallows database
errors, so every write through it has a branch in which it is lost and a fault
is spent.

### AgentWork — requests, proposals and grants

| TLA+ | code |
|---|---|
| `work[r]` | the row of `agent_work_requests` with its proposal; `rev` is its `revision`, `due` says that `expires_at` has passed, `seen` is the version its context was built from, `receipt` the versions stored with `accepted_receipt` |
| `grants[g]` | `automation_grants`: active, revoked, expired or pruned, and whether it may write proposals |
| `inputs` | the version of profile, facts, CV, job and application that `require_current_inputs` compares |
| `effects[r]` | what acceptance wrote into the career data, how often, and what the owner had before them |
| `call[c]` | an operation in flight with what it has read |
| `view[r]` | what the review page last showed |
| `told` | the answers clients were given |

Each route is synchronous, has its own session and reads before its first write
takes SQLite's writer reservation. So `Begin…` reads and remembers, and
`Commit…` (or `Fail`) is everything from the conditional UPDATE to the commit;
other calls commit in between. The list expires overdue work and is the only
operation that does.

`AgentPromise` is the abstract specification: at most one answer per request,
which never changes and either takes effect once or is dropped.

### SearchPipeline — one run between its slot and its terminal status

| TLA+ | code |
|---|---|
| `catalog[l]` | the `ScrapedJob` row: content revision, content, and the revision its normalization is of |
| `job[l]` | the revision the profile's `Job` is analysed for |
| `query`, `queue`, `closed` | the coroutines of `execute_and_push`, `job_queue`, whether `None` has been put |
| `seen`, `past` | `dedup_state` of the run, `profile_history` loaded when it began |
| `consumer` | where `_processing_consumer` waits, the batch it holds, what is left of it, the rows captured for the model call |
| `tally`, `fate` | the counters of the status, and the observations behind them |
| `repeats`, `outside` | history: what was dropped as known, what others changed meanwhile |

What runs between two awaits is one action: `SettleQuery` is the catalogue's
upserts, the deduplication and the `put` of a query whose providers have
answered; `Observed` and `Sifted` are what one observation does to the rows and to
the dedup state. A model call is an interval: `TakeBatch` captures, `Filter` writes the
normalizations that are still of the captured revision; `Analyse` answers, and `Save`
takes one analysis after the other in the order of the batch (`IsNext`) and compares
its row again. `Outcome` is the chain of conditions that ends a run, in
the code's order.

### ManagedRuntime — installer, child process, requests, shutdown

| TLA+ | code |
|---|---|
| `runtime`, `archive`, `weights` | what the data directory holds |
| `phase`, `modelKey`, `replaceFrom`, `cancelled`, `paused`, `workerDone`, `task` | the fields of `ManagedRuntime` guarded by its status lock, its two events and `_worker_done` |
| `worker[k]` | where an installer thread is (`_install_sync`) |
| `lease`, `start[s]` | `StartupOwnership` and where the `start()` of an installer, the lifespan or a restart is |
| `process`, `endpoint`, `alive` | the handle, the published endpoint, the children the system runs |
| `call[c]` | a request that waits for the installer: resume, cancel, remove |
| `app` | the lifespan: up, or how far its `finally` has come |

Everything between two sections of the status lock is a step of its own, so the
thread, up to four starts and the requests interleave at every point where the
code lets them. `raised` is the exception of a setup that failed before the `try` of
`_install_sync` (`SetupFails`); every later wait for that task ends with it (`Thrown`).
`Init` ranges over what an earlier process can have left on disk.

### AuthSessions — session families

| TLA+ | code |
|---|---|
| `row[f]` | the `auth_sessions` row of a family: live, revoked or the erasure sentinel; `gen` counts its rotations, so a token is `<<family, generation>>` |
| `row[f].born` | the rank of `created_at`: which of the stored families is the oldest |
| `cookie`, `bearer` | what a browser holds, shared by its tabs |
| `req[r]` | a request: what it has read, where it stands |
| `answered`, `twice`, `left` | history: tokens whose presentation the database has answered, the families of those it answered twice, families a logout reported as revoked |

A read outside `BEGIN IMMEDIATE` is an action of its own (`ReadUser`,
`MaintenanceRead`, `RotateRead`, `LogoutRead`); the conditional UPDATE of a
rotation and the second look after it failed are two (`RotateCas`,
`RotateInspect`), with anything in between, and each may fail (`RotateFails`). A sentinel
read as expired is renewed in a step of its own (`MaintenanceRenew`), and that is refused
when its row has gone meanwhile.

### ResumePublication — a resume draft, its versions and their files

| TLA+ | code |
|---|---|
| `draft`, `profileRev` | the `ResumeDraft` row, `CandidateProfile.revision` |
| `versions`, `files`, `journals` | committed versions, their two files each, publication journals |
| `writer` | who holds SQLite's writer reservation |
| `op[r]` | a request: rendering, recovering, storing, committing, examining, cleaning, deleting |

A publication renders without a lock, then reserves the writer, compares
revisions, reconciles old journals, writes its own, stores two files and commits;
the commit may fail, succeed, or succeed and report a failure, after which
`Examine` looks at the rows under a new reservation. A deletion marks the draft
in one transaction and unlinks and deletes in another. A synchronisation writes back
what it read, so a revision may be given twice; `draft.overwritten` remembers that one
did overwrite an edit. `Crash` keeps rows, files
and journals.

### Applications — timeline, board, dossier draft, packets

| TLA+ | code |
|---|---|
| `log` | the `ApplicationEvent` rows in the order of their commits |
| `app` | the `Application` row: revision, stage, next action, linked resume version |
| `draft`, `packets` | the dossier draft and the published packets |
| `files`, `journals` | packet files and journals by dossier |
| `resume`, `profile`, `published` | the resume the draft may be bound to, as far as dossiers depend on it |
| `op[r]` | a request: what it has read, where its publication stands |

An edit of the timeline reads the row and then the events, and writes under
`UPDATE ... WHERE revision = ?` (`Wins`); its reads are two actions, since
nothing holds the database still between them. Of the resume and the profile only the
revisions matter here; a synchronisation or a save may put them back at an earlier one
than the last (`EditResume`, `EditProfile`). `Tasks` folds task events into
tasks as `_task_snapshots` does; `NextAction` is the projection. A publication
holds the vault lock throughout and SQLite's writer until its commit.

## 4. Runs

| run | instance | checks | distinct states |
|---|---|---|---|
| `gate` | 3 readers, 1 probe, 2 maintainers | exclusion, no lost wake-up; readers and writers do not wait for ever | 1,424 |
| `maintenance` | 2 requests, 2 families, 2 record sets sharing a file, 2 faults | files, rows, journal and lifecycle agree; refinement of `VaultPromise` | 312,522 |
| `maintenance_live` | 1 request at a time, 2 families, 2 record sets, one with 2 files and one that is always refused, 1 fault | retries end each pending state but that of a refused archive, erasure ends any | 16,219 |
| `search` | 2 attempts, 2 start requests, 1 fault | one owner, final stops, exact receipts, quiescing; maintenance gets through, a start is possible again | 202,172 |
| `search_drained` | 1 attempt, no fault | *violated*: `WorkDrained` | |
| `agent` | 1 request, 1 grant, 2 calls, 2 results, 2 edits | one effect, as reviewed, true pages and answers, live authority; refinement of `AgentPromise`; work settles | 395,970 |
| `runtime` | 1 model, 1 waiting request, 3 requests on an empty disk or 2 on an installed runtime, 1 restart, 1 fault | servers have owners and are gone at exit, "ready" has a server, no stale progress but that of a setup that raised; waits and shutdown end | 482,594 |
| `access` | 2 requests, 1 browser, 3 families, 2 slots, 1 rotation each, 1 fault | logout is final, one live family under maintenance, tokens exchanged once, neither side of a theft race keeps a session | 4,725,650 |
| `resumes` | 3 requests, 2 versions, 2 edits, 2 faults | no stray file, no version's file lost, published versions whole, of the revisions and the content of their commit | 3,876,699 |
| `applications` | 2 requests, 2 stages, 2 contents, 4 events, edits and faults | the board is the projection of the timeline, nothing lost, packets kept and as saved | 1,396,078 |
| `pipeline` | 2 queries at once, 2 adverts, 2 texts, 2 runs, 1 change by others, 2 faults | current results, exact accounts, a clean "done" is whole, never stuck | 1,270,843 |
| `pipeline_history` | 1 advert, 2 texts, 3 runs, 1 fault | *violated*: `HistoryIsAnalysed` | |

Why these bounds show the interesting cases:

* *Gate.* Two readers can sleep while a third is inside, and one maintainer can
  queue behind another that waits, so every notification has somebody to miss.
  The gate has no data; beyond this number tasks are interchangeable, and the
  safety properties are proved for any number.
* *Maintenance.* Two faults suffice for a crash during the recovery from a
  crash. Two requests are a request and the one it races. The shared file
  distinguishes "mine" from "also theirs". `Refused` is empty here, since a refusal
  changes nothing that safety speaks of; the liveness run has one archive of each sort,
  takes one request
  at a time, as the UI sends them, and one fault, after which recovery must end.
* *Searches.* Two attempts are the one that runs and a late or new one; one fault
  is a crash or one lost write anywhere. TTLs need no bound: they pass at any
  time. The safety properties are proved for any number of attempts.
* *Agent work.* Two calls are needed for anything to happen between a read and
  its commit; two results for a proposal to differ from the one reviewed; two
  edits for inputs that change again after the work was made for the first.
* *Runtime.* One installation, one pause or cancellation and one request that
  meets them are three; the installed disk needs only two for a start that meets
  a removal or a restart. Two installer threads exist at once only when a request
  did not wait for the first.
* *Access.* Two requests are two tabs, a browser and a copy of its cookie, or a tab and
  a logout; three families make two slots overflow; one fault is a lost answer, an
  expiry, or a statement that fails.
* *Resumes.* Two versions distinguish the one being written from the one that
  must be kept; two faults are a lost acknowledgement and a crash during the
  clean-up that follows it.
* *Applications.* Two requests race on one row; four steps are a task, its change,
  a packet and what interferes with one of them.
* *Pipeline.* Two queries feed the queue while a batch is consumed; two adverts
  with two texts give duplicates by key and by text and changes of either; the
  second run has a history.

`MaxFaults`, `MaxAttempts`, `MaxRequests`, `MaxEdits`, `MaxGen`, `MaxVersions`,
`MaxSteps`, `MaxRank`, `MaxFound`, `MaxRuns` and `MaxChanges` are bounds that are
not in the code. `MaxActiveGrants`, `HistoryLimit`, `MaxSlots`, `MaxRestarts` and
`Concurrency` are limits of the code, made small so that they are reached.
Deadlock is checked where the system goes on for ever; `access`, `resumes`,
`applications` and `pipeline` really stop when their bounded identifiers,
versions, steps or runs are used up.

The type invariant `TypeOK` of each component is not a property of a run. It is a
theorem (section 6), and TLC confirms it on the instances of the table when it is
added to the invariants of their configurations.

Definitions with the comment "Fault:" (`PurgeTrash_OnlyThisAttempt` and the like) stand beside the operators
they distort. They are plausible mistakes (a forgotten reset, a check that is not
repeated, a notification left out); each property has one that breaks it, listed
under `mutants`, and no specification uses them.

## 5. Fairness

* *Gate* (`FairSpec`). Weak fairness for what the event loop runs once it is
  ready and for request bodies, which end; strong fairness for `LockMaintenance`
  and `WakeReader`, since `asyncio.Lock` hands itself over in FIFO order and a
  notified reader is scheduled before a maintainer that becomes ready after it.
  Nobody has to send a request.
* *Maintenance* (`LiveSpec`). A running request goes on, earlier activity drains,
  a user who has no usable session logs in, and at some point nobody logs out
  any more. That the user retries (`UserRetries`) or falls back on erasure
  (`UserErases`) is a hypothesis inside each property that needs it, because
  only the user can provide it. The finite fault budget says that disk and
  database work again at some point.
* *Searches* (`FairSpec`). The loop runs what is ready, a pipeline ends or meets
  its timeout, a worker thread finishes its poll, time passes. Starting,
  stopping and polling are nobody's obligation. `SlotComesBack` has two hypotheses
  about the owner instead: a search that is shown as active and that nothing runs
  any more is stopped in the end (`StopsDeadRun`), without which the cap refuses each
  start; and maintenance does not stay pending for good (`CompletesMaintenance`).
* *Agent work* (`FairSpec`). Calls end, time passes, and the owner opens the list
  again and again, since nothing else expires work; `WorkSettles` supposes that
  maintenance is over for good, because routes are refused while it is pending.
* *Runtime* (`FairSpec`). Installer threads are scheduled, each wait of a download,
  a reap or a health check has a timeout, and the loop runs what is ready.
  Requests are nobody's obligation, nor is a shutdown; once begun it goes on.

The other modules state safety only. `NeverStuck` of the pipeline is an invariant:
in every state before the terminal one, a step of the run itself is possible. That
the guard of such a step holds is a theorem (`SomeoneCanGoOn`).

## 6. Proofs

Eight modules prove every safety property that the runs `gate`, `maintenance`,
`search`, `agent`, `access`, `resumes`, `applications`, `runtime` and `pipeline`
check, the invariants and the action properties, for every value of the constants
that satisfies the named assumption of the module. The exception is `NeverStuck`,
which speaks of ENABLED (section 8). The assumptions:

* `TaskAssumption`: finite, disjoint sets of tasks;
* `MaintenanceAssumption`, `SearchAssumption`, `AgentAssumption`,
  `SessionAssumption`: bounds are natural numbers (`MaxSlots` a positive one), `None`
  is none of the values, and `Refused` is any set of archives;
* `ResumeAssumption`: bounds are natural numbers, `None` is no request and no number;
* `ApplicationsAssumption`: bounds are natural numbers, `None` is no request, stage
  or content, and "saved" is a stage;
* `RuntimeAssumption`: bounds are natural numbers, `None` is no model and no starter,
  and the default model is a model;
* `PipelineAssumption`: bounds are natural numbers, `Concurrency` a positive one, `None`
  is no text. Listings, texts and queries may be any sets.

Each module follows the same plan: an inductive invariant `IInv`, `Init => IInv`,
`IInv /\ [Next]_vars => IInv'` with one step per action, and `IInv => P` for every property.

* **VaultProofs, the gate.** The module extends `VaultGate` and `VaultMaintenance`; the gate's
  initial states and steps are called `GateInit` and `GateNext` for that reason.
  `CountersExact` is not inductive: a step of a task says
  nothing about a cardinality unless one knows at which place each task is. `GateInv`
  keeps `waitingWriters` and `writer` as functions of the one task that can hold
  the maintenance lock (`LockExact`, `WriterFields`), the reader count as a
  cardinality (`ReadersCounted`), and who may sleep (`SleepersWait`). Theorems:
  `GateTypeCorrect`, `MaintenanceRunsAlone`, `GateCountersExact`,
  `NoWaiterForgotten`.
* **VaultProofs, maintenance.** "In ready, files and rows agree" says nothing about
  the states in between. `ControlInv` relates the running request to the durable
  lifecycle; `RowsInv`, `DeletionInv` and `RestoreInv` say what each step may rely
  on; `LeftoverInv` says what an interrupted operation can have left behind;
  `UntouchedInv` says that a request that may still withdraw has touched nothing.
  Theorems: `MaintenanceTypeCorrect`, `ReadyVaultIsIntact`, `BoundFilesSurvive`,
  `ForeignFilesSurvive`, `OrphansAreClaimed`, `JournalAlwaysMatches`,
  `RecoveryOnlyContinues`, and `ImplementsPromise`. `ManagedFilesAreKept` and
  `JournalIsSound` join what the run checks as `ManagedFilesKept` and `JournalSound`.
* **SearchTasksProofs.** The central fact is `SlotInv`: the attempt that lives is
  the registered one, and one between activation and the end of its pipeline
  holds the active lock, whatever TTL has passed. `WorkInv` ties running attempts
  to the maintenance that joins them; `StatusInv` makes a "done" status true;
  `ReceiptInv` bounds the counter by the number of completed runs *up to that of
  the last receipt*, which is what makes it inductive. Theorems:
  `SearchTypeCorrect`, `OneSearchAtATime`, `RunningSearchOwnsLock`,
  `RegistryIsExact`, `StoppedStaysStopped`, `ReceiptsAreExact`,
  `MaintenanceFindsNoSearch`, and `OneOwnerAlways`, which joins the first ones.
* **AgentWorkProofs.** `RowInv` says that the revision tells how far a row has
  come, so that a remembered revision determines what its reader saw (`Saw`).
  `ViewInv` and `CallInv` carry that through pages and calls in flight, `ToldInv`
  through answers. `AuthorisedEffects` is an action property and follows from the
  actions that change a proposal or an effect (`OnlyAnswers`). Theorems:
  `AgentTypeCorrect`, `AppliedExactlyOnce`, `AcceptedIsReviewed`,
  `RevisionIsExact`, `AnswersAreKept`, `EffectsAreAuthorised`,
  `WorkAppliedAsReviewed`, `WhatIsShownIsTrue`, `ImplementsAgentPromise`.
* **AuthSessionsProofs.** That a revoked family stays revoked rests on what nobody
  can do: `HeldInv` and `RequestInv` say that every cookie, bearer and request in
  progress names a family drawn before, so that a new one is nobody's, and
  `RowsKept` that no step gives a drawn family a row, life or an older token again.
  `TokenInv` puts every token that was exchanged or refused behind its family's row
  (`Past`: the family is dead or has gone further), and also the one of a request that
  has lost the conditional update and not yet looked again. That is why the update lets
  nobody exchange a token twice, and why a second answer finds the family dead or ends
  it; that it stays so is the monotony of rows. `OneLives` is what a pending
  vault relies on. Theorems: `LogoutFinal`, `OnePending`, `TokenExchangedOnce`,
  `TheftRaceEnds`, `FamiliesOnlyFade`, and `SessionsTypeCorrect`, which holds the cap:
  `Bounded` says that the stored families fit the slots and that no token presented
  is of the last generation. `SlotsSuffice` is the argument of
  `_available_session_slot`: without the revoked and expired rows, and without the
  oldest when the rest fills every slot (`OldestKept`: there is one, since `born` is a
  natural number), one more family fits.
* **ResumePublicationProofs.** `NoStrayArtifact` speaks of files, and says nothing of
  the request that is about to store or unlink one. `WriterInv` says that SQLite's
  writer reservation is held at exactly four places, `DrawnInv` that version numbers
  are drawn once, so that a request's number is nobody else's, and one part per place says
  what a request there may rely on: between the comparison of revisions and the commit they are
  current (`SnapshotInv`), what it stores is claimed by a journal and not committed
  (`StoreInv`), what it cleans up is not committed (`CleanInv`), and what it
  committed is still committed, or gone with all its files (`CommitInv`). `ContentInv`
  adds that, until a synchronisation has overwritten an edit, who rendered the draft's
  revision rendered its content; afterwards an equal revision says nothing about the
  content, and `PublishedWhole` claims nothing about it. Theorems:
  `ResumeTypeCorrect`, `ArtifactsAreOwned`, `CommittedVersionsKept`,
  `PublishedWhole`. The last two are action properties.
* **ApplicationsProofs.** `BoardExact` and `TimelineWhole` compare the row with the
  whole log, while a request computes its change from what it read in two statements.
  `ReaderInv` says that the events were read after the row, hence contain those of
  the row's revision at least; who wins the conditional update has therefore read the
  whole log. `TaskInv` bounds identifiers and revisions by the place in the log, so
  that a new task is new, and `Fits` says of an operation that its event continues
  the log. `VaultInv` (one publication at a time) and `ClaimInv` with `Allowed`
  carry a packet from the claim to its commit; `CountInv` bounds the steps, the one a
  lost answer repeats included. Theorems: `ApplicationTypeCorrect`, `BoardIsExact`,
  `TimelineIsWhole`, `PacketsAreKept`, `PacketsAreSaved`.
* **ManagedRuntimeProofs.** The manager publishes, terminates and forgets a child in
  different critical sections. The lease orders them: it is taken in `Begin` only,
  so a start that still holds it when it spawns has met no other spawn, and
  finds no handle (`LeaseInv`). `ChildInv` and `ReadyInv` say that a child under a
  health check, or of a ready manager, is published and *spared*: no step in progress
  remembers it as one to terminate. `OneChild` follows. `ExitInv` is the way out of
  the lifespan: past the quiesce the cancellation stays, no call and no
  restart is left, and the last stop finds what is left. `PhaseInv` names who will
  replace a status that shows progress: an installer thread that has still to report
  (`Shows`), or a resident start that owns the lease; or else it is the status that a
  setup which raised has left (`SetupRaised`). Theorems:
  `RuntimeTypeCorrect`, `ServersAreOwned`, `ReadyIsServed`, `PhaseSettles`. The run
  has one waiting request, the theorems any number.
* **SearchPipelineProofs.** A query's items go through two recursive functions,
  `Catalogued` and `Deduplicated`, so what they do to a batch of any length takes an
  induction. The library's induction theorem has an operator as parameter and cannot be
  used here; `Induction` states it over a *set* of numbers instead, from the least
  counterexample (`LeastNumber`). With it, `CataloguingDef` and `SiftingDef` show that
  the two functions exist and satisfy their equations, and `CataloguedProperties` and
  `DeduplicatedProperties` that each step, `Observed` or `Sifted`, keeps what was true of the
  items before it: among others, that no observation is kept twice, which is what
  lets a queue of batches be counted as a set.
  The invariant follows an observation from the queue to the exit where it is counted:
  `RowsInv` (a normalization is of the row's own revision), `PlacedInv` (an observation
  on its way is of a listing the run knows, and of the row's text as long as it is of
  the row's revision), `ApartInv` (it is in one place only), `FiniteInv` (the places are
  finite, so they can be counted), `StreamInv` (the end of the stream comes last and
  once), `WholeInv` (without errors, every listing the run knows is analysed, on its way,
  filtered or changed by others) and `Accounted` itself. Theorems: `TypeCorrect`,
  `RevisionsOnlyGrow` (a captured revision tells which text it was), `ResultsStayCurrent`,
  `CountersAddUp`, `DoneLeavesNothing`, `SomeoneCanGoOn`.

## 7. Where code and documents disagree

Two are runs that end in a counterexample; PROJECT.json quotes the lines.

1. `search_drained`: when one of two gathered children fails, the other outlives
   the run and its permit, because "error" is not a state at which it stops; it
   can still be at work in the writer section of a maintenance operation.
2. `pipeline_history`: the catalogue records a changed text when it is observed,
   before it is analysed. When that run is stopped or fails, or another profile's
   run was first to see the change, the next run finds an unchanged row whose key
   is in the profile's history and drops it as a duplicate: the old analysis stays
   hidden for ever, although the documents promise that the listing re-enters the
   pipeline until a fresh result replaces it.

The models show further behaviour that a maintainer may want to know of and that
no property is claimed against:

* FR-092 says that readers fail fast once a writer waits; `reader()` queues them
  (`career/activity.py:35`), only the readiness probe is refused.
* A restore that dies after it announced itself and before its archive and the vault
  were checked stays `restore_pending` in spite of retries when the vault holds
  records, and, on an empty vault too, when the archive is invalid or in conflict with
  the shared catalogue (`portability/restore.py:1642`): each retry is refused alike, and
  only the request that left "ready" may return to it (`api/routes/portability.py:138`).
  Erasure is the way out (`ErasureRecovers`).
* After a crash during a search the persisted status counts as an active search,
  and the next start is refused with "Too many active searches"
  (`api/routes/search.py:93`) until the user stops the dead one.
* An installation whose setup raises (`inference/managed_runtime.py:1062`, the catalogue
  or a directory) does so before the handler that would record it: the status stays
  "downloading_runtime" with no thread behind it, and every waiter for that task gets
  the exception, as a comment at line 1586 says of erasure. After a pause the status is
  "paused", and a resume raises each time. A cancellation changes the status before it
  raises, and a new installation, which is refused for the same model while it shows as
  paused, forgets the task.
* A retry of an acceptance whose answer was lost is told that the work has expired
  once its time is over (`agent_work/guards.py:45`), although the receipt exists.
* `synchronize` writes back a draft it read before a longer merge
  (`resumes/sync_service.py:85`): an edit, or the mark of a deletion, that was
  committed in between is overwritten (`WriteSync`). The row can then be at the revision
  that another edit had given it, with other content: a publication that rendered the
  one passes the comparison of revisions and is stored while the draft says the other.
* The job a dossier belongs to is marked as applied by one of two code paths that
  look at different rows (`applications/service.py:383`,
  `services/search/persistence.py:796`); the marker is not modelled.
* `providers/circuit_breaker.py:6` speaks of one probe call in half-open; the code
  admits any number.

## 8. Only model-checked, and not modelled

*Only model-checked*: all liveness properties (`EveryoneServed`,
`PendingConverges`, `ErasureRecovers`, `MaintenanceProceeds`, `SlotComesBack`,
`WorkSettles`, `WaitsEnd`), since liveness under fairness is beyond the proof
system used here, and `NeverStuck` of `SearchPipeline`, because the prover does not
reason about ENABLED. What makes `NeverStuck` true is proved as `SomeoneCanGoOn`: the guard of
one of the run's own steps holds; that each of these steps then has a successor is read
off the actions and checked by TLC.

*Abstracted inside the modules*:

* the rows of an account are one value in `VaultMaintenance`: that one transaction
  inserts or deletes all of them is taken from SQLite;
* the validation of archives, payloads and contexts is a refusal or a pass, for an
  archive the same at every try;
* the restore journal is one durable record, not two checksummed copies;
* the managed runtime that erasure also removes is a clean-up step that may fail;
* one account, one saved profile, one resume draft, one application: others appear
  as `foreign` files, as the cap that counts active searches, and as observations
  of the shared catalogue (`OtherObserves`);
* deleting a saved profile while it is searched;
* an unexpected exception in a query, which leaves its siblings running, is in
  `SearchTasks` (`orphans`) and not in `SearchPipeline`;
* texts, scores, rendered documents, signatures and checksums.

*Not modelled*: see the last rows of the inventory, and PROJECT.json for the
reason given with each component. Most of the repository's size is of this kind:
parsing and normalization of listings, scoring, prompts, schemas, archive
validation, the React interface and the Rust supervisor.

## 9. Plan

In the order of what a failure would cost the user.

1. **Vault** — `VaultGate`, `VaultMaintenance` refining `VaultPromise`. Done:
   checked and proved.
2. **Searches** — `SearchTasks` and `SearchPipeline`. Done: checked and proved.
   Left: the deletion of a profile.
3. **Agent work** — `AgentWork` refining `AgentPromise`. Done: checked and proved.
4. **Sessions** — `AuthSessions`. Done: checked and proved.
5. **Publication** — `ResumePublication` and `Applications`. Done: checked and proved.
   Left: `RestoreJournal` (two copies, generations) refining the one record of
   `VaultMaintenance`, and career assets.
6. **Runtime** — `ManagedRuntime`. Done: checked and proved.
7. **CircuitBreaker** — the calls admitted in half-open and the late answers of
   calls that began before the breaker opened.
8. **Desktop** — supervisor, startup migrations, backups.

Every safety property that a run checks is proved, except `NeverStuck`. New proofs go
with new modules: next would be the refinement of the one journal record by
`RestoreJournal`.

## 10. Running

`tlc -config MCVaultGate.cfg MCVaultGate.tla`, and likewise for the other
configurations; PROJECT.json (`runs`) pairs modules and configurations.
`tlapm VaultProofs.tla`, and likewise for the other proof modules. The
longest run takes some two minutes on two cores, the longest proof some minutes.
