# Verification of cognitrix: durable tasks, the browser chat and its files

TLA+ models of the parts of cognitrix that decide something, their TLC runs, and TLAPS proofs of the theorems that
matter most. Paths are relative to the repository root; `repository.py`, `orchestrator.py` and so on are in
`src/cognitrix/tasks/`, `routes/tasks.py` is in `src/cognitrix/api/`.

    tlc -config TaskRunLifecycle_races.cfg MCTaskRunLifecycle     # a run: <run>.cfg with its module
    tlapm TaskRunLifecycle_proofs.tla                             # the proofs of a module

`PROJECT.json` maps every definition to the lines it models and lists runs, mutants, hazards, findings and theorems.

## 1. The system

cognitrix is a multi-agent assistant: a FastAPI web process, Celery workers, a SQL database (SQLite, PostgreSQL or
MySQL), optionally Redis, and a browser client. A user chats with an agent over a server-sent event stream, or
creates a *task* that workers execute durably.

| Component | State it keeps | Operations | Talks to | What is hard, and what makes it correct |
|---|---|---|---|---|
| Run lifecycle (`repository.py`, `recovery.py`, `run.py`) | one `TaskRun` row: status, version, generation, lease, cancel mark, outbox | claim, heartbeat, finish, cancel, force, fail queued, recover | worker, API, recovery loop, broker | reads and conditional UPDATEs of many processes; skewed clocks; crashes. One execution, one final outcome, a cancel that counts, every run ends |
| Admission (`repository.py`) | `TaskRunHead`: active run, tombstone, version | reserve, insert, confirm, release, reconcile, tombstone | API, scheduler, recovery | slow and dead creators look alike. One active run, deletion is final |
| Steps (`orchestrator.py`, `dag.py`, `repository.py`) | `TaskRunStep` rows, event-loop tasks | compile, seed, schedule, store, close | planner, agents, lifecycle | parallel bodies, partial failure, resume beside a stale worker. Dependencies first, nothing done is lost or repeated |
| Event log (`events.py`, `repository.py`) | outbox in the run row, event rows | append, flush, recover | SSE endpoint | exactly once out of at-least-once delivery |
| Completion webhook (`repository.py`, `completion.py`) | notification columns of the run | claim, post, acknowledge, give up | worker, post-run signal, recovery | leases and retries; one deliverer at a time, settled for good |
| Task row (`completion.py`, `routes/tasks.py`, `celery_worker.py`) | status, pid, `deleted_at`, results | projection, full-row and column writes | everybody | no version column: lost updates |
| Scheduler (`scheduler.py`) | schedule columns of the Task row | claim, start, drop, revert | API, admission | claim before start, concurrent edits. An occurrence fires once at most, a one-shot at least once |
| Orchestration (`orchestrator.py`, `executor.py`, `evaluation.py`, `planning/`) | local to a worker | guard, plan, execute, review, finalize | models, steps | modelled as far as it changes shared state |
| Budget and accounting (`budget.py`, `accounting.py`) | ledger of one run, usage column of its row | reserve, charge, retry, publish | limits, lifecycle | concurrent calls against one limit, snapshots written late. The limit holds, row and ledger agree |
| Provider limits (`providers/limits.py`) | semaphores, Redis leases | acquire, renew, release | model calls | timeouts with an unknown answer, cancelled owners. A request holds its slots, every slot comes back |
| Chat stream (`utils/sse.py`, `routes/agents.py`) | queues, one turn, consumers | connect, supersede, drain, stop, evict | sessions, staging | reconnects between any two awaits; no event lost, a stop stops its turn |
| Turns (`sessions/base.py`, `agents/base.py`) | history of the turn, its batch of tool calls | ask the model, check, run, stop, save | chat stream, tools | a stop at any await; turns that share execution slots. Every call answered once, every turn ends |
| Questions, approvals (`questions/`, `safety/`) | pending futures and timers | ask, answer, cancel, time out | turns, chat stream | answer against timeout. The user's word holds, nobody waits for a question that is gone |
| Session ownership (`session_ownership.py`) | binding, reservations, quota, lifecycle state | reserve, adopt, commit, release, clear, delete | media, chat | crashes between quota and file; stale tokens. What is stored is charged and owned |
| Sessions as clients use them (`utils/ws.py`, `api/routes/sessions.py`) | Session row, binding, the copy of a connection | create, choose, use, clear, delete | ownership, turns | two rows and no transaction, stale copies. No unowned history, no forgotten turn |
| Documents (`media/staging.py`, `documents.py`, `document_storage.py`) | staged batches, journals, metadata rows, bytes | stage, promote, roll back, sweep, recover | ownership, sessions | four stores, crashes, sweeps of live data. Nothing in use is swept, everything else is |
| Private files (`media/secure_fs.py`) | a directory | create, delete, recover a quarantine | documents, staging | every system call may fail, the machine may stop. Exactly the file meant is deleted |
| Images (`media/service.py`) | three files and a row per artifact | commit, thumbnail, delete | sessions, tools | cancelled threads, half commits. Rows and files agree |
| MCP (`mcp/`) | exit stacks, sessions, status file | connect, call, disconnect | tools | unlocked awaits. What is open can be used and closed |
| Skills, memory, agents, providers, CLI, configuration, auth, frontend | mostly none that is shared | calls | | sequential, or outside |

The components interact through the database: the API inserts a run and publishes a message; a worker claims the
run, renews its lease, writes steps and events, and finishes; the recovery loop of every web process looks for what
the others left behind. The head row admits runs, the Task row repeats their status for the client, and the
scheduler is one more caller of the start path. Events leave the run row through an outbox, the completion webhook
through leased columns. A chat turn arrives over the browser's stream, promotes the uploads staged for it into its
session, asks the model, and runs the tools it calls, some of which wait for the user; a clear or a deletion of the session
takes the binding through a lifecycle state while it empties the other stores.

## 2. Modules

Each model has one action per read or conditional UPDATE of the code, because any other process can run between
them; in the models of one event loop (`ChatStream`, `SessionTurns`, `MediaAssets`, `McpConnections`) one action is the
code between two awaits, in `SecureFiles` one system call. A `MC` module gives the definitions TLC needs beyond a `.cfg`
(plans, symmetry, several small components in one run), a `_proofs` module holds the theorems. What a property claims
only as long as nothing out of its reach has happened is written with a *history variable* (`late`, `stale`, `lost`,
`alone`, `crossed`, ...): a model is never kept from the bad case, the property says what it survives.

| Module | Models | Left to |
|---|---|---|
| `TaskRunLifecycle` | one run row, its head reservation, its outbox | `TaskRunHead` (who becomes the head), `TaskSteps` (what happens while it runs) |
| `EventLog`, `TaskRunEventLog` | what the event log of a run promises its reader; the refinement that shows the lifecycle implements it | |
| `TaskRunHead` | the head of one task and the runs that compete for it | `TaskRunLifecycle` (how a run ends) |
| `TaskSteps` | step rows of consecutive runs, `run_dag` | the lifecycle: claim, renewal and finish are one step each |
| `CompletionNotification` | notification columns of one run | the lifecycle: other writes only move the version |
| `TaskRow` | the Task row next to the runs of the task | lifecycle and head: a run's own writes are atomic |
| `Scheduler` | the schedule of one task | head: a run is active or not |
| `ModelCalls` | budget ledger, usage row and execution slots of the model calls of runs | `TaskSteps`: who calls |
| `ChatStream` | one browser stream: its turn, the output of it, its connections | `SessionTurns`: the body of the turn emits, ends or fails |
| `SessionTurns` | the turns of the chat, their tool calls, approvals and questions | tools: they return, or run another turn |
| `ChatSessions` | the Session row, its binding and its history under the clients of one user | `SessionTurns`, `SessionDocuments` |
| `SessionDocuments` | the documents of one session in four stores: promotion, clear, delete, recovery | `AttachmentStaging`: an upload is there or not |
| `AttachmentStaging` | the batches of uploads before their turn, sweeps, cleanup capacity | `SessionDocuments`: a promotion ends one way or the other |
| `SecureFiles` | creation and deletion of one file or directory, by system call | its callers: when |
| `MediaAssets` | files and rows of the images of one session | `SecureFiles`: an unlink happens or not |
| `McpConnections` | connections of one process to MCP servers | tools: when they are called |

How the modules fit: each takes the guarantee of the one below it as an atomic step. `TaskRow` and `Scheduler` assume
one active run at a time, which is `TaskRunHead!OneActiveRun`; `TaskSteps` assumes that only one claim exists per
run (`OneExecution`) and that a run's outcome is final (`TerminalFrozen`); `TaskRunHead` assumes that a run becomes
terminal once; `CompletionNotification` starts with the terminal write. `ChatStream` assumes that a turn ends
(`SessionTurns!LoopEnds`). `SessionDocuments` and `AttachmentStaging` take the deletion of a file as one step that may fail, which is
`SecureFiles!DeletesExactly`, and that a crash may cut in two where `ChildGoes` says that nobody finds the file again.

`MCServices`, `MCSessionDocuments`, `MCStoredFiles` and `MCChat` check components beside each other that share no state: the
variable `part`, which never changes, says of a behaviour which of them it is about, the others keep the state they start in, and a component's
fairness is asked only in its own behaviours. Nothing is composed there; they are runs with several initial states. Each of these
modules extends the components it puts beside each other, so a run checks the very definitions the theorems are about.

### TaskRunLifecycle
`run` is the row, `head` whether the run still holds the head, `events` the event rows, `timer` the time left of lease, queue timeout
and cancel grace on the database clock; a process clock may be up to `Skew` ahead. `op[p]` is the operation process
`p` is in the middle of together with the row it read; `body[w]` is what the worker is doing. A conditional UPDATE is
`...Commit`; its WHERE clause is the operator `...Matches`.
Left out: `lease_owner` (deliveries of one message share the owner, the generation is the token), giving up after
`MAX_CAS_ATTEMPTS` = 64 (an operation may be abandoned by a crash instead), the read half of a heartbeat (it writes
only the lease), usage and context writes of a running worker (they only move the version).

### EventLog and TaskRunEventLog
`EventLog` knows no processes: events are posted until a verdict, and shown to the reader once and in order, at some later
time. Under the refinement an event is posted with the UPDATE that puts it into the outbox of the run row, and shown when a
flush has inserted the event row; a number that is in neither place maps to `"lost"`, which no abstract state has. A run whose
message cannot be published fails without an event: `Failed` names that exception, as `_fail_queued` writes none.

### TaskRunHead
A creator is also the id of its run. It may be suspended anywhere, also for longer than the reservation timeout (300 s)
between its reservation and its INSERT; `late` records that. `UniqueIndex` says whether the partial unique index on
active runs exists (SQLite and PostgreSQL have it, MySQL does not); without it `OneActiveRun` holds until somebody is late.

### TaskSteps
`rows[r][s]` is the step row, `body[r][s]` the event-loop task, `pc[r]` the worker of run `r`. A run that was ended from
outside keeps its worker, whose writes repeat the lease in their WHERE clause. `deps` is what the planner answered: one
of `Plans`, any graphs over the indexes, cyclic and dangling ones included; `run_dag` refuses those.

### CompletionNotification
`late` records that some process could see the lease of a working deliverer expired: the code gives itself 15 of the 60
seconds, but name resolution and a suspended process are outside that budget. `left` is the time to the next attempt or
the end of the lease; a process may be up to `Skew` ahead of it.

### TaskRow
`task` is the row, `copy[p]` and `found[p]` are the row and the run as process `p` read them, `report[r]` is what the worker of `r` is
about to write. Processes are pairs of a role and an id; a client that cancels asks again while the run is cancelling. `Prompt` says whether a
run starts only after every process of the run before has come to its end, which nothing in the code enforces.

### Scheduler
`row` holds the schedule columns, `claim[s]` the occurrence a scheduler has claimed, `started` the occurrences that started
a run, `twice` whether one did again. `stale`: an edit has put an old schedule back; `late`: a start failed after its job was
published; `crossed`: a claim was put back after the schedule had changed. Each can make the code fire an occurrence twice, see the
known gaps.

### ModelCalls
`ledger[r]` is the `BudgetLedger`, `column[r]` the usage column, `writer[r]` the snapshot `_UsageWriter` is writing. `lease` and
`orphan` are what Redis holds, `unit` the semaphores; `store` says which of the two limits the calls. `sent` counts what
really reached a provider, `extra` what a provider reported beyond its reservation. A run whose process dies is over: recovery
fails it (`recovery.py:94`), nobody claims it again, and a run that resumes its steps is another one with a budget of its own. What is left is
its row, with or without the write that was under way, and its leases in Redis until they expire.
Left out: the local fallback of a development process whose Redis fails, streams nobody iterates, cost in USD,
`TaskUsageCollector`, `acquire_parallel`.

### ChatStream
A connection is called by its generation, which it claims when its response is first iterated. `pc[c]` is the await it is in,
`hand[c]` what it has taken from a queue and not passed on; `out` is the output of the turn, with the terminal event beside
the bounded queue; `replay` the item a superseded connection leaves to the newer one; `withdrawn` the turns that ended because the user
cancelled their question, which reaches the task as a cancellation without a stop (`questions/broker.py:138`). Events are numbered as they are
emitted, so the order of the numbers is the order the browser must see. `task` is the manager's task of the turn, which
outlives the connection that started it. `lost` records the items that went away with a connection.
Left out: actions that start no turn, the snapshot of a pending question, eviction from the registry, staging (its failure is
`PostFail` or a failed cleanup in `Complete`), a cancellation of the task by anybody else (the renewal of a provider limit that loses
its Redis lease cancels the caller; what it interrupts is `ModelCalls`).

### SessionTurns
`phase[t]` is where the turn is. `hist[t]` is the turn's part of `session.chat` as a sequence of user message, calls and results, `saved[t]`
what of it is in the row. `job[t][i]` is what has become of call `i` of the batch; `cut[t]` a cancellation the task has not met yet,
`halted` the streams whose user asked to stop. A call of kind `"agent"` runs the turn `Child[t]` of a fresh session inside its slot; its
questions go to the stream of its parent. A cancelled batch with completed calls records its results and then sends them (`SendCompleted`,
phase `"unwinding"`); a stop that arrives meanwhile makes `EndUnwind` record stopped results once more, and `interrupted` names the
turn. Several stops of one turn are modelled. Two bounds are assumptions of the module (`TurnsAssumption`): a delegated agent delegates
no further (the code lets it three deep), and a batch delegates at most once.
Left out: a wait for cancelled calls that is itself cancelled no longer waits for a delegated turn (the model still does); the CLI's approvals, the permanent approval cache, a `save` that fails (it is
logged), `ExecutionControlError`.

### ChatSessions
`rows` and `binding` are the two rows of a session, `age[i]` the generation of the binding, `chat[i]` the turns its stored history holds,
`loaded[c]` the history a connection has in memory. `op[c]` is what a client is in the middle of. `owed[i]` collects the turns that
ended, were saved and had the session to themselves: `TurnsKept` says that a later turn keeps them. `lost` and `revived` name the sessions whose creation or deletion did not come
to its end, see the known gaps.

### SessionDocuments
`own` is the binding with its ledger, `row`, `file` and `history` are the other three stores. A promotion reserves, writes the
row, writes the bytes, adopts, commits and saves the history; every step is one write, and the maintenance loop undoes or
finishes what a dead turn left. Leases may have run out whenever they are looked at. `moved` says who moved the version
since a clear or delete read its token; `"begin"` among them is a newer generation, whose documents an older clear no longer lists. A clear
checks its authority (`CheckAuthority`) and lists the rows (`FindDocuments`) in two steps, with awaits between them; `outrun` collects the documents
a request listed when another had meanwhile finished the work of its generation. A crash inside the deletion of a file whose row has no
identities yet leaves the file where nobody finds it, which is `"torn"` too (`Losable`). The sweep of the ledgers reads a page of 64 bindings and is
not fair; see `PageComes`. `SlowTurns` allows a live promotion to outlast its five-minute lease.

### AttachmentStaging
`disk[b]` is how far a batch directory is built or taken apart, `journal[b]` its recovery journal, `held[b]` the capacity units
of its upload. A sweep (`Observe`, then removal) remembers what it saw; the claim of the turn is in between. `hidden` are the batches in whose
directory a dead cleanup left something under a quarantine name: a cleanup keeps no journal, so no sweep knows what that is, and the directory
is never empty (`Removable`).

### SecureFiles
`names` is what a process sees under the leaf and under the quarantine name, `flushed` what a power cut would leave, `removal[a]` where
the deletion of process `a` is. `kind.traced` says whether something on disk tells the child apart from its leaf: a recovery journal by its
contents, a batch directory because a sweep takes it under any name, a file whose identity a journal or a row holds. Only a traced child is found
under its quarantine name by a process that did not put it there (`Find`). `alone` are the
operations that had the directory to themselves, which is what the module asks of its callers.
Left out: Windows, the grammar of names, directories in the path, a child that cannot be identified any more (it is left in
place with an error), other files of the directory.

### MediaAssets
`temps` and `files` are the files on disk, `rows` the rows, `holder` has the lock of the session. `stray` are files a cleanup
gave up on, `doomed` artifacts a deletion has begun with. The work of a thread goes on when its caller is cancelled, and the
caller waits for it (`_settle`).

### McpConnections
`stacks[s]` and `sessions[s]` are the two dictionaries of `DynamicMCPClient`, `open` the transports that are alive, `broken` those whose server
or transport died on its own: nobody is told, and the session stays registered. `tested` are the servers whose entry in the status file
`test_connection` wrote through a client of its own; that client's own connection is left out. `crossed`
and `doubtful` name what met a concurrent change of its server, which nothing locks.

## 3. Runs

Every bound is a constant of the module (`Max...`) and named there. Times are small numbers that keep the order of
the timeouts, which is all the code compares.

| Run | Question | Instance |
|---|---|---|
| `TaskRunLifecycle_races` | Who wins when workers, cancel, recovery and publisher race, under skew? `OneExecution`, `CancelWins`, `OwnTerminalToken`, `TerminalFrozen` | two deliveries of the message (the least that can execute twice), one client, one recovery pass: every pair of operations can interleave |
| `TaskRunLifecycle_live` | A worker that beats and emits, a crash and a store failure anywhere: `RecoveryJustified`, `LogRefined`, `RunSettles` | one worker, one recovery pass, one beat, one event; a second crash adds no new pair |
| `TaskRunHead_admission` | Two requests, a deletion, recovery, suspended creators, a crash, no index: `OneActiveRun`, `DeletionFences`, `ReservationFreed` | two requests: one admitted, the other reserving or confirming; any number of them is proved |
| `TaskSteps_dag` | Parallel steps with every way to end, and a resumed run beside the stale worker of the first: `DependenciesFirst`, `BooksClosed`, `RowsFrozen`, `RunsEnd` | four steps, two slots; four plans once with three troubles (a wait for a slot, a join, a cycle, a dangling reference), a chain twice with one |
| `Services_used` | *Notification:* deliverers that are late or die, skewed clocks: `DeliveredOnce`, `Settles`. *Model calls:* two steps share budget, actor and provider: `BudgetHolds`, `SlotPerRequest`, `CallsReturn` | two deliverers (any number is proved), two attempts, one crash, four claims; two workers, both stores, two slots each, four tokens, two requests, one retry, one crash, interruption or failure of Redis; any sizes are proved for the two invariants |
| `TaskRow_writers` | Every writer of the row when runs do not overlap: `RowIsTrue`, `RowAgrees` | two runs, a client that cancels and forces, an edit, a deletion, a recovery pass; one crash, late process or edit; the edit comes before the second run; any number, also of runs that overlap, is proved for `RowIsTrue` |
| `Scheduler_fires` | `OnceEach`, `OneShotFires` | two schedulers, one edit, one change of the schedule, one crash, three instants; any number is proved for `OnceEach` |
| `Sessions_owned` | *Documents:* `QuotaHolds`, `HistoryServed`, `DeadSettles`. *Rows:* `SessionsKept` | two promotions into a session with room for one, a clear and a deletion, one generation after the first, a crash between any two writes; one promotion under two clears, of which the second may resume the work of the first (any number of each is proved for the two invariants); two clients, one session, two turns, a clear or deletion, one failure, cancellation or death; any number of each is proved |
| `StoredFiles_kept` | *Staging:* `SweepsKeepOff`, `EverythingSwept`. *Files:* `DeletesExactly`, `ChildGoes`. *Images:* `ImagesAgree` | one batch, two sweeps, two faults; two removers and the maker of a child, a file or a directory, traced or not, two failed calls and one death; two creators, a viewer and a clear, room for one of them (four bytes), two failed calls; any number of each is proved for `SweepsKeepOff`, `DeletesExactly` and `ImagesAgree` |
| `Chat_turns` | *Stream:* `InOrder`, `TurnHeld`, `StopHonored`, `TurnEnds`. *Turns:* `ProtocolClosed`, `QuestionsHold`, `LoopEnds`. *MCP:* `ConnectionsHeld` | two connections (one supersedes the other; any number is proved for the three invariants), a queue of one and two events (the emitter blocks), two turns (a stop or an output of the first can meet the second); two streams, one with a delegated agent, two rounds with all kinds of calls, two slots (any turns, rounds, batches and slots are proved for the two invariants); two tools, one server, three connections, two failures, deaths or connection tests (any number is proved) |

Deadlock is not checked: the processes come to their end and the bounds are used up, in every module.

`ChatSessions`, `AttachmentStaging` and `MediaAssets` were also checked on larger instances, two of which take
longer than a run should: two sessions (8.2 million states), two batches in a capacity of three, two viewers (1.3 million).

### Findings
Runs with `expect: violation` show where the code does something else than it says.

| Run | What happens |
|---|---|
| `TaskSteps_partial` (`WholePlan`) | A worker dies inside `compile_steps`; the resumed run takes the rows it finds for the plan |
| `Scheduler_clobber` (`PauseSticks`) | The revert of a one-shot claim overrides a pause, because `NULL` columns are left out of its condition |

### Known gaps
What the passing properties exclude, because the code does not give it. The models contain the behaviour, unless it is said
here that they do not; the premise of the property named leaves it out.

- *No index, late creator* (`OneActiveRun`, premise `UniqueIndex \/ ~late`). On MySQL a creator suspended past the reservation
  timeout ends with a second active run. `repository.py:807` calls the process-local creation lock the fallback there, but
  `_task_creation_lock` (`repository.py:205`) has no caller.
- *Deletion beside a late creator* (`DeletionFences`, premise `~late`). The INSERT does not move the head's version, so a
  recovery pass that read head and missing row before it frees the head after the creator has looked at it again; a deletion
  then commits before the job is published, which `repository.py:1061` excludes.
- *A conflict that is none.* `reconcile_task_head` compares an active run of an earlier read with the head (`repository.py:979`)
  and does not look at the first one again: a request fails although its run has ended. The model takes the branch (`pc` is
  `"conflict"`); nothing is written.
- *Resurrection* (`EditKeepsDeletion` is about edits). `cancel_task` (`routes/tasks.py:979`), `task_prerun_handler`
  (`celery_worker.py:283`) and `task_postrun_handler` (`:304`) save a whole row they read earlier and clear `deleted_at` again; the head
  stays tombstoned.
- *A late cancelled status* (`TaskRow`, constant `Prompt`). `cancel_task` writes CANCELLED into the Task row after it has
  cancelled the run and freed the head (`routes/tasks.py:966`), and an edit that was read before puts it back later. When the next
  run was published in between, its worker reads CANCELLED at its entry guard (`orchestrator.py:1220`) and ends a run nobody
  asked to cancel; with `Prompt = FALSE`, or an edit across the start, TLC finds it.
- *An edit takes a claim back* (`OnceEach`, premise `~stale`). `save_task` carries `next_run_at` over from the row it read, on
  condition of `deleted_at` alone (`routes/tasks.py:649`); the occurrence fires again.
- *A start that fails after publication* (`OnceEach`, premise `~late`). The `except` of `tick` (`scheduler.py:133`) reverts the
  claim whatever went wrong, also when only `attach_queue_job_id` or the pid write failed; the occurrence fires again.
- *A claim put back across a change* (`OnceEach`, premise `~crossed`). The revert's condition is the value the claim wrote, not the
  schedule it was made of, and the claim's condition is `next_run_at` alone. A tick that read the old, recurring schedule can so
  claim an old instant that was put back into a new, one-shot schedule, and moves it on to an instant that has fired. It
  takes two changes and three ticks that overlap; the proof attempt found it, TLC confirms it with two changes and three schedulers. A single
  process, which `scheduler.py` assumes, has one tick at a time.
- *A superseded connection drops an item* (`InOrder`, premise `"event" \notin lost`). The comment at `sse.py:120` says that an
  item a superseded connection has dequeued is preserved. The code does so when the wait sees both at once; an item taken
  when `is_disconnected()` or the `gather` after the wait returns is dropped by the check at `sse.py:983`, the terminal event too.
- *A turn lost with its connection* (`TurnHeld`, place `lost`; `TurnEnds`, premise `Abandoned`). A response that is cancelled
  with the turn in hand leaves `turn_pending` set: the stream refuses every later turn, and the manager is never idle.
- *Nobody reads* (`TurnEnds`, premise `Abandoned`). Without a connection the emitter waits at a full queue; while it waits the
  manager is not evicted either.
- *A stop has no turn.* One that was sent for a turn that has just ended stops the next.
- *Delegations as many as slots* (`LoopEnds`, `DelegationAssumption`). A `call_agent` call keeps its execution slot while its agent runs; when
  as many of them run at once as there are slots (`agents/base.py:476`), and each agent calls a tool, none ever ends.
- *A question inside a delegation.* The comment at `agents/base.py:476` and `docs/designs/2026-07-20-interactive-chat-questions-design.md`
  say that an interactive wait does not occupy a slot. A question of a delegated agent gives its own slot back, not the one
  its parent's `call_agent` holds.
- *A stop while results are sent* (`ProtocolClosed`, premise `interrupted`). A cancelled batch records its results and then awaits the browser
  (`sessions/base.py:569`) before it forgets the batch (`:578`). A stop that arrives there makes the handler at `:764` record a stopped result
  for every call of the batch again, which `agents/base.py:374` excludes: two results per call are saved.
- *Half a compensation* (`SessionsKept` is about rows). A creation whose compensation fails after the row leaves a binding without a
  row. It authorizes nothing, but no request can delete it: each answers 404.
- *Two turns of one session on two connections* (`SessionsKept`, `owed`). Each saves the whole history it has in memory; the later
  one forgets the other's. A save that is later than a deletion inserts the row again (`revived`), and a clear
  that is resumed twice empties what was said in between.
- *The first clear of a session with documents* is refused: deleting a document moves the version of the binding, and the clear's
  own token is stale (`session_ownership.py:865`, 409). The retry succeeds.
- *An overtaken clear* (`QuotaHolds`, `HistoryServed`, `DeadSettles`, history variable `outrun`). A clear checks its generation
  (`artifacts.py:475`), deletes the images (`:490`) and only then lists the documents, asking for a binding but not for a state
  (`documents.py:531`). A second clear may resume the same generation and finish meanwhile; a new turn then promotes a document that the
  first one lists and deletes. The history names a file that is gone.
- *A page of 64 bindings* (`DeadSettles`, `PageComes`). The sweep of the ledgers reads the 64 bindings longest unchanged that have a ledger
  (`session_ownership.py:466`, `documents.py:698`). A binding with committed documents has one and is not changed by a sweep: with 64 older
  ones a token without a row is never looked at. Rows and files are settled by the sweep of the rows, which does not depend on it.
- *Torn bytes* (`DeadSettles`, `EverythingSwept`). A file cut off by a crash between its creation and its last byte is refused by every later
  inspection; so is a batch whose manifest was cut off, or whose journal is torn and whose manifest is gone.
- *A death inside a deletion* (`EverythingSwept`, `hidden`; `ChildGoes`, `Stranded`; `DeadSettles`). What is deleted is first renamed to its quarantine
  name (`secure_fs.py:1336`). A process that dies before the unlink leaves it there, and only what is traced is found: not a manifest, or a
  file without a recorded identity, that a cleanup was removing (`staging.py:262`), nor the bytes of a document whose row has no identities yet
  (`document_storage.py:309`). The batch directory is then never empty, and every sweep leaves it (`staging.py:2316`); of a document whose
  deletion dies after the unlink, an empty directory may stay, which no property is about.
- *A promotion outlasting its lease* (`SlowTurns`). With `SlowTurns = TRUE` recovery takes up a document whose turn is alive.
- *Changes across a restart of a connection* (`ConnectionsHeld`, `doubtful`). Two connects of one server overwrite each other's stack; a failing one
  closes the stack of the other; a stopped one leaves its own; closing a stack from another task raises. The status file
  survives the process that wrote it.
- *A server that dies* (`ConnectionsHeld`, history variable `broken`). A call over a dead transport fails or times out (`client.py:302`), the session stays registered,
  and a connect answers "Already connected" (`client.py:40`) until somebody disconnects; `mcp/api.py:164` reports the server as broken.
- *A test of a connection* (`ConnectionsHeld`, history variable `tested`). `test_connection` connects and disconnects a client of its own
  (`client.py:335`), which writes the status file the registered connection is in.
- *A cancelled cleanup of an image* (`ImagesAgree`, outcome `lost`). A cancellation that arrives in the `finally` of `_commit_processed`
  (`service.py:557`) leaves an artifact nobody was told of, although the docstring at `service.py:265` settles every side effect.
  A process that dies between the renames and the row leaves files nothing collects, and images are not fenced by the
  generation of the session.
- *The row of a crashed run* (`BudgetHolds`, `RowFollows`). Reservations of the attempts a crash cut off stay in the usage row, which may
  miss the last request of each step. The run that resumes the steps starts with no usage and a new wall clock
  (`repository.py:1599`), so the limits bound a run, not a task.
- *The backstop of Celery guesses* (`RowIsTrue`, premise `~guessed`). `task_postrun_handler` looks for the run by its job id and then for the
  task by its pid (`celery_worker.py:288`, `:297`). When both are attached between the two reads (`routes/tasks.py:876`), a task in
  progress is saved as completed, whatever has become of its run: one cancelled before it was claimed, for instance. The next
  recovery pass repairs it (`RowAgrees`), unless an edit that read it is saved after that.
- *Another writer in the directory* (`DeletesExactly`, `alone`). Between its last look and the unlink a deletion cannot tell whether the name still
  means the child.

## 4. Fairness

Safety needs none. For liveness:
- `TaskRunLifecycle`, `TaskRunHead`: the clock and the steps of the recovery loop, which runs for ever in every web
  process and catches its errors (`recovery.py:192`). Workers, clients and publishers are never assumed to go on.
- `TaskSteps`: the worker's event loop and the bodies, which are bounded by the wall clock of the budget and by
  cancellation, and the end from outside once the worker is gone, which is `RunSettles` above.
- `CompletionNotification`: the clock and the deliverers, of which one is the recovery loop. Deliverers that are late over and
  over could take the notification from each other for ever; `Settles` says so.
- `TaskRow`: the projections of the recovery loop.
- `Scheduler`: the clock, the tick, the end of runs (`RunSettles`), and two assumptions on the environment: a start
  that is tried again and again succeeds once (strong fairness of `Start`: the broker comes back), and the user does
  not start the task by hand for ever.
- `ModelCalls`: each step of a worker happens (a provider answers or its timeout ends the wait). A worker that polls Redis comes to its
  deadline, and a semaphore serves its waiters in order, so one or the other is strongly fair. A lease nobody renews expires.
- `ChatStream`: the event loop runs what is ready, and the POST and the body of the turn come to their end. A response that
  is being sent is sent or its connection breaks; the browser is not assumed to reconnect.
- `SessionTurns`: the steps of a turn and the timers; waiters for a slot are served in order, which is strong fairness of the start
  of a call. What is sent to the browser is taken. Nothing is asked of the user.
- `SessionDocuments`: the maintenance loop goes on with the row it took, and comes back for every expired row: a page of them is sorted by expiry, and
  taking a row moves its expiry (strong fairness, other actors can be in its way). The sweep of the ledgers is not fair, as its page does not move;
  `DeadSettles` says what is settled without it and what more is when it comes (`PageComes`). Turns and requests may stop anywhere.
- `AttachmentStaging`: a sweep lists all batches and comes back for each (strong fairness); a promotion or cleanup that began ends.
- `SecureFiles`: a creation that began goes on, and whoever knows the child tries to delete it until that succeeds. A process that does not know it finds it
  by its leaf, or by what traces it, and not otherwise.

`TaskRunLifecycle_races`, `MediaAssets`, `ChatSessions` and `McpConnections` are checked for safety only.

## 5. Proofs

`TaskRunLifecycle_proofs`, for any number of workers, clients and recovery passes, any timeouts and any skew:
`Typing`, `CancelDecides`, `ClaimedOnce`, `BlameIsJust`, `TokenIsOwn`, `OutcomeIsFinal`. The invariant `SafetyInv` adds to the
properties what makes them inductive: a snapshot is never newer than the row, and one of the row's version and status is the
row as far as the outcome goes (`SnapshotsAge`); a commit in progress started from a live row (`CommitsLive`); a
status of cancelling or a cancelled end shows the cancel mark (`CancelShows`); bodies follow claims (`ClaimsInOrder`);
an error ends a run (`ErrorsEnd`). Every action is one of a few effects on the row (it leaves it, asks for
cancellation, ends it queued, ends it fenced, claims it, ends it as its owner); the lemma `Effect` of each action says
which, and the invariant is proved once per effect.

The second half of the same module proves `LogImplemented`, the refinement `Spec => LogRefined` of the lifecycle. The
invariant `LogInv` divides the numbers given out: the older ones are in the table only, the rest is the outbox in order, of which the
first may be in the table already (`Numbered`, `Stored`), and what a process is about to take out of the outbox is in the table
(`DropsStored`). Every action is then a post, an unannounced failure, a showing, or a stutter.

`TaskRunHead_proofs`, for any number of requests: `PromptHeaded`, `PromptDeletionFences` and `AdmitsOneActiveRun`, all without an
assumption beyond the module's. The invariant is `~late => HeadInv`. `HeadInv`: where a creator is tells what its row and the
head look like (`RowPlaces`, `Reserved`, `RowHeaded`), what recovery may free was abandoned (`Abandoned`), and a tombstone
is final (`Buried`). That one run is active follows from it until somebody is late, and from the index after that.

`Services_proofs` is about two modules that share nothing but the run that checks them. Of `CompletionNotification`, for any number of
deliverers: `NotificationTyping` and `SettledForGood` at any speed, `OneDeliverer` and `AttemptsCounted` until one is late, and
`DeliversOnce`, which joins `OneDeliverer` and `SettledForGood` to what the run checks. The invariant ties the lease that is left to
the holder (`LeaseHeld`) and the attempts to the crashes (`TriesCounted`).

Of `ModelCalls`, for any workers, runs, limits and budgets (`Sized`: the workers are finitely many, the limits and the budget natural numbers) and any
number of faults: `CallsHoldSlots`, `CallsWithinBudget`, `CallsReservations`. Slots (`SlotInv`): where a worker is tells which of its
two keys it holds, unless its lease lapsed (`Held`), and the leases of a key, orphans included, are no more than its limit (`Room`). Books (`BudgetInv`): what a
ledger has reserved is the sum of the reservations of the workers of its run that have an attempt open
(`Sums`, `OpenOnly`); the usage row is never ahead of the ledger, and behind it only while a worker of the run still has to write or died
before it did, as is the snapshot on its way into the row (`Balance`); requests that were sent are counted.

`TaskSteps_proofs`, for every set of plans, any parallelism, any number of resumed runs and troubles: `StepsDependenciesFirst`,
`StepsRowsFrozen`, `StepsBooksClosed`, `StepsNeverStall` (the error "no runnable steps" of `run_dag` cannot be reached) and
`StepsTypeOK`. The invariant is a set of facts about each run alone (`RunInv`): what `run_dag` has in memory is what the rows say
(`InMemory`), the nodes it is about to start have their dependencies (`InBatch`), what is done is on its way into a row or there
(`NotLost`). Two more relate runs: the rows of an ended run stay (`EndedStay`), so that what a resumed run took over from it is
still true (`Seeded`). That an acyclic plan always has a node to start is an argument about a minimal element of the
steps that are left, not an induction over the plan.

`Scheduler_proofs`, for any number of schedulers, edits, changes and crashes and any interval: `ScheduleTyping` and
`OccurrencesStartOnce`. The invariant is about the claims made since the last change of the schedule. For a recurring schedule a claim
takes the interval from the instant that was due to the one it leaves in `next_run_at`; the intervals of claims in flight are disjoint,
`next_run_at` lies behind all of them, and what has started lies in none (`Recurring`). A one-shot schedule is due, in one hand or
started (`OneShot`). That what a tick saw still means the schedule of today follows from the instants alone (`Since`), until a claim is put
back across a change.

The same module is about `TaskRow`, the other columns of the row, for any number of runs, requests, workers, clients, edits, deletions, recovery
passes and deaths: `RowIsAlwaysTrue`. It does not use `Prompt`: the row says completed or failed only of a run that is, also when runs
overlap. A write that is late is harmless for that reason only: the run it speaks of has not changed since. So `RowInv` says of every place a
status is kept until it is written (the copies of the row, the runs found, the reports of the workers) that there is a run for it
until the backstop has guessed wrong (`NotesAreSound`, `Sound`), and each action leaves runs alone that have ended (`Ended`). The one action that could take an ended run back is its
creation, which comes once (`Unborn`).

`Chat_proofs` is about three modules. Of `ChatStream`, for any number of connections, turns and events and any queue size: `StreamTyping`, `TurnIsHeld`,
`StopIsHonored`, `StreamInOrder`. The invariant of the first three has three parts: one connection is inside the consumer lock and what
it holds tells where it is (`Shape`); the places that can have the turn exclude each other (`Held`), which needs `Shape` so that two
connections never hold it; the stop flag is the browser's word on the pending turn, and a task that ends as stopped without it had its question
cancelled (`Stops`), which needs `Held` so that a turn that ends is the one that is pending. `OrderInv` adds for the order that what a connection holds, the replayed item, the queue and what is not
emitted yet follow each other in this order (`Ordered`), and that an output that is closed is empty (`Drained`).

Of `McpConnections`, for any number of tools, servers, connections, failures and restarts: `LinksOwned` and `LinksHold`. A
connection belongs to one server (`Owned`, without exception). Changes of one server that met have spoiled what they work on (`Met`); one
that met nobody works on the connection its server has registered, or both are spoiled (`Follows`). So a stack that is overwritten or
removed takes no open connection with it that nobody spoiled (`Closable`), and where nobody has doubts the two dictionaries agree, with the
status file too unless a test wrote it, and the one change there is knows it (`Steady`). A connection that dies on its own may do so at any
point of a change, so `Steady` says of the registered connection that it is open or broken.

Of `SessionTurns`, for any number of turns, rounds and slots and any batches of calls (within the two bounds of `TurnsAssumption`):
`ProtocolIsClosed` and `QuestionsAreHeld`. A history keeps to the protocol when every message that issues calls is followed by one result
for each of them, in their order, and by nothing else before. `LoopInv` says where it does not at the moment: while a batch is checked or run the history
ends with the message that issued as many calls as the batch has (`Waiting`), and so every end of a batch, by its results, by a stop or by a
cancellation, has to close exactly that one (`InProtocol`). A turn that sends the results of a cancelled batch has closed it already: it is in
protocol until a stop meets it there, and `interrupted` after that. A delegated turn goes on only while the call that runs it does
(`Delegating`), so that a question, which may be that of a delegated turn, is always that of a running call (`Awaited`). The
conjuncts of `QuestionsHold` about a single step (an answer is final, a stopped timer submits nothing) follow from the actions and the
invariant. The lemmas about `Paired` are about concatenation; that the results of a batch close its calls is arithmetic over their
positions, not an induction.

`StoredFiles_proofs` is about three modules. Of `AttachmentStaging`, for any number of uploads and sweeps, any capacity and any number of
faults: `SweepsAlwaysKeepOff`. The invariant follows a batch from hand to hand. What its upload and its turn have reached tells what is on
disk (`Written`), the unit that pays for a later removal is held as long as there is something to remove (`Paid`), no sweep works
on a batch that is being written (`Staged`), and one that waits with a queued lease, or is claimed, is in no sweep's hands (`Reserved`). A
sweep that gives up before its journal leaves the batch to its turn, so a queued batch has to be whole until then
(`Intact`); without that the claim would find a batch that was taken apart.

Of `MediaAssets`, for any number of creations, views and deletions, any quota and any number of failures: `ImagesAlwaysAgree`. One
call has the lock (`Locked`). Every file on disk is named by a row, is one a cleanup gave up on, or is owed by a call (`Accounted`, with `Owed` as a
function of where the call is), so who ends, and owes nothing, leaves nothing behind. Each call may rely on what its own steps reached
(`Progress`): the pictures it has promoted, the bytes it has reserved, the files of the doomed rows it has removed. The
room for a new thumbnail was found without the one it replaces, which counts until the row names the new one (`Replacing`).

Of `SecureFiles`, for any number of processes, failed calls, deaths and power cuts: `DeletionsAreExact`. `ChildInv` says of a deletion that has had the
directory to itself what the two names stand for at each of its system calls (`Sees`); whoever changes a name takes this from everybody
else. So its unlink finds the child, its flush makes that last, and the child of a deletion that was reported is under no name,
flushed or not (`ChildFree`). Who can find a child again matters to `ChildGoes` only. It stays so because the child is created once, before anybody deletes (`Begun`), and a rename or a
power cut brings nothing back that was under no name.

`SessionDocuments_proofs`, for any number of uploads, requests, generations, crashes and sweeps and any quota: `QuotaKept` and
`HistoryAlwaysServed`. Both assume `~SlowTurns`, as the run does: no live promotion outlasts its lease of five minutes, which the code
does not enforce (see the known gaps). `QuotaInv`: where a turn, a request or the loop is tells what the row, the file and the ledger of
the document it works on look like, token by token, and the counter is the number of committed tokens. `ServedInv`: the danger is
a deletion of bytes that a running turn still remembers and writes back into the history. So the invariant names the documents that no
history can name again (`Lost`: known to no running turn and not in the history, or known only to turns that were running when a clear
began, `Covered`), and says that a clear lists, and the loop deletes the bytes of, only those. What a request listed after another had ended its
clear is exempt by name (`outrun`), and only that: a document gets into it by such a listing alone. The proof needs the generation check
of `delete_owned_session_artifacts` (`CheckAuthority`, the mark `"begin"`): without it the documents of a later generation would
be on the list of an older clear.

The same module is about `ChatSessions`, for any number of clients, sessions, turns, changes, failures and deaths: `SessionsAlwaysKept`. The invariant
`RowsInv` says of each client what it may rely on while others act: nobody else creates its session, and whoever works on a session another one works
on knows it (`Alone`); a session that is to be claimed is untouched, one whose row was taken back has none
(`CreationHeld`); a clear or deletion that still holds its generation finds the binding as its stage left it, and a deletion that is
about to remove the binding finds no row (`ChangeHeld`); the history a turn works on has all that is owed (`TurnInHand`). Other clients are dealt with once: what a step has to leave them is
`Leaves`, and `BesideHeld` says that it is enough. The generation is what makes it inductive: a change holds at least generation 1 and a
claim only generation 0, so a compensation never takes back a binding somebody clears or deletes.

Assumptions are those named in the modules (`ProcsAssumption`, `TimesAssumption`, `HeadAssumption`, `StepsAssumption`,
`NotificationAssumption`, `StreamAssumption`, `ScheduleAssumption`, `SessionAssumption`, `StagingAssumption`, `ImagesAssumption`, `TurnsAssumption`,
`RowsAssumption`, and `Sized` of `ModelCalls`, which `ServicesAssumption`
repeats); TLC evaluates them in every run of the module. `RowIsAlwaysTrue` and `DeletionsAreExact` use none. `~SlowTurns` is a hypothesis of the two theorems about documents.

Only model-checked: liveness, which with ENABLED is out of the prover's reach (`RunSettles`, `ReservationFreed`, `RunsEnd`, `Settles`,
`CallsReturn`, `RowAgrees`, `OneShotFires`, `DeadSettles`, `EverythingSwept`, `ChildGoes`, `TurnEnds`, `LoopEnds`). Every other property of a
passing run is stated by a theorem.

## 6. Not modelled

Wording, prompts, model answers, ranking, rendering, pixels and file formats, the CLI, the frontend, authentication, API keys, memory,
skills and migrations: sequential code or data. `results` of the Task row (a known lost update, see the hazards). The event
stream endpoint and the text buffer of the emitter. The legacy Celery task. Of the modelled components, what each section
above leaves out; `PROJECT.json` names it per component.

## 7. Plan

1. Done: lifecycle with its event log as a refinement, admission, steps, notification, Task row, scheduler, model calls; chat
   stream, turns, sessions, documents, staging, private files, images, MCP connections; a proof of every invariant and action property
   the passing runs check, and of the refinement.
2. Models next: the registry of chat streams and its eviction, the event stream endpoint, the runs of skills.
