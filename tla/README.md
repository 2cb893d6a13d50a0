# Formal model of flops-agent

flops-agent is an asyncio framework for agent services: a *run* is one turn of
a conversation, driven by a background task, whose events any number of clients
can stream, leave and resume. This directory models the parts of it whose
correctness depends on interleavings, failures and restarts.

Paths below are relative to `src/src/flops_agent/`.

## The system

| component | source | state | operations |
|---|---|---|---|
| Run: event log and subscribers | `engine/execution.py` | `_log`, `_open_slot`, `_inplace_ok`, `_status`, `interrupted`, `_subscribers`, store | `emit`, `finish`, `interrupt_for_shutdown`, `subscribe`, `wait` |
| RunStore | `seams/run_store.py` | log chunks, status, stop flag, dispatch records per run | `append_chunks`, `replace_chunk`, `mark_*`, `list_active_run_ids`, `record_dispatch` |
| RunPool | `engine/execution.py` | runs by id, the run of each session | `add`, `find`, `discard`, `active` |
| Runtime | `engine/runtime.py` | database locks per session, pool | `start`, `load_session`, `settle_session_markers`, `clear_*`, `recover`, `shutdown`, stop watcher |
| Runner | `engine/runner.py` | step, pending calls, suspend marker | `drive`, `loop`, `run_step`, `handle_tool_call`, `apply_answer`, `resume_dispatch_plan` |
| Session | `entities/session.py` | messages, meta | append, truncate, repair |
| Database | `seams/database.py` | messages and meta per session | `patch_meta`, `append_messages`, `sync_session` |
| Inbox | `seams/inbox.py` | messages for a running session | `push`, `drain` |
| Executor link | `executor/link.py` | waiters, ledger (seen, parked) | `dispatch`, `receive` |
| Compaction | `engine/compaction.py` | none: pure functions of a history, a policy and the records | `projection_char_weight`, `build_llm_messages_with_context_projection`, `plan_new_compaction`, `repair_active` |
| CompactionStore | `seams/compaction_store.py` | archived records, the active one | `append_and_activate`, `set_active`, `prune_above` |
| Registry, schemas, wire, crypto, safety, provider | `tools/`, `wire.py`, `crypto/`, `safety/`, `providers/` | tables | lookups, conversions |

How they interact: a product calls `Runtime.load_session` and `Runtime.start`;
`start` creates a Run and a task that marks the session active in the Database,
opens the RunStore record, drives the Runner (which emits events on the Run,
persists messages through the Runtime and dispatches tools through the executor
link), finishes the Run, settles the session's markers and leaves the pool.
Clients subscribe to the Run. `Runtime.shutdown` marks what runs for recovery;
the next process calls `Runtime.recover`.

Everything runs in one event loop, so code between two awaits is atomic; what
makes the behaviours hard is what happens at the awaits: store and database
calls run in worker threads, tasks can be cancelled there, locks are released
and taken again, calls fail, and the process dies. `PROJECT.json` lists each
hazard at its line with the properties that cover it.

What makes each part correct, and where it is hard:

| component | correct when | hard because of |
|---|---|---|
| event log, subscribers, RunStore | every client reads every event once and in order, across reconnects and restarts; log and store agree; streams end | store calls queued behind a lock, rolling snapshots, cancels and deaths in between |
| RunPool, session markers | one turn per session; nobody clears the marker or the question of a live run; a marker at rest is explained | check and delete with an await in between, late wrap-ups, recovery |
| tool dispatch, executor link | a call runs at most once, is answered once, and its outcome reaches the run | lost messages and acknowledgements, timeouts, a restart in mid-batch |
| Session, Database, Inbox | memory and database agree by position; what a run did is stored; a call has one result, behind its batch | synchronisation by length only, failing and cancelled writes, answers in later runs |
| Runner, stop watcher | a stop is obeyed, and ends the run; a retry shows nothing twice; a turn does not end silently while a rescue is left; a delivered message is picked up | a stop, a cancel or a message at every await; retries and rescues within a step; polling |
| Compaction | every message is sent or summarised; calls and results are never separated; repair and request weigh alike; a repair settles | a history that is edited or grows meanwhile, another model's window, several functions that must agree on one size |

## The modules

`RunLog` -- one Run, its store and its subscribers, over several lives of the
process. `EventBroadcast` is what it promises: every client reads the events
from the first, in order, each once. `RunLogProofs` holds the theorems of
`RunLog`, `RunLogReadersProofs` those about what its readers get.

`SessionMarkers` -- one session over the lives of its runs: the pool, the
active-run marker and the pending question in the database, and the session's
lock. `MCSessionMarkers` adds symmetry. `SessionMarkersProofs` holds its
theorems.

`ToolDispatch` -- the tool calls of one run from the model's request to the
settled step, the executor link with its ledger, and the remote executor with
its outbox, over deaths of the server process. `MCToolDispatch` gives it batches;
`ToolDispatchProofs` holds its theorems.

`SessionHistory` -- the messages of one session in memory and in the database,
over the runs that load, extend, cut and write them back, the questions they
leave and the answers they get. `SessionHistoryProofs` holds its theorems, `SessionHistoryStoredProofs` those about
what is stored when a run has finished and where the results stand.

`RunDrive` -- how a run is driven from await to await: its steps, retries,
rescues, calls and messages, and how it is stopped, cancelled, and started again
after the process died. `RunDriveProofs` holds its theorems.

`Projection` -- how a history is weighed and how it is sent: the pure functions of
compaction. `Compaction` -- the summaries of one session: planned, stored, used,
repaired and pruned while the history grows and is edited. `MCCompaction` gives it
kinds of messages; `CompactionProofs` holds the theorems.

The five state machines are five views of one run, each with what the others
leave to chance. `RunDrive` has the order of the awaits, `RunLog` what `finish` and
every event do to the log, `SessionMarkers` the `opening` and `settling` of
`RunDrive` with the database lock, `ToolDispatch` its `tools` with the executor,
`SessionHistory` the messages of which `RunDrive` knows the last. `Compaction` reads
that history.

### RunLog and the code

| model | code |
|---|---|
| `log`, `openSlot`, `inplaceOk` | `Run._log`, `_open_slot`, `_inplace_ok` |
| `writes` | the queue of coroutines at `Run._store_write_lock` and the store calls each makes in turn |
| `status`, `interrupt` | `Run._status`, `Run.interrupted` with the state of the background mark |
| `storeStatus`, the store's log | `RunMeta.status`, the chunks in the RunStore |
| `Emit` | `emit` up to its first store call: feed the coalescer, update the log, compute the live cursor, snapshot the subscribers |
| `StoreCall` | one call in a worker thread of `_persist_parts` or of `finish`, which may fail |
| `Finish`, `Cancel`, `Interrupt` | `finish`, a driving task cancelled while `drive` catches it, `interrupt_for_shutdown` |
| `CancelLate`, `driver` | a driving task cancelled in `finalize`, or in an await of `finish` before it sends the sentinels: the task is gone |
| `Subscribe`, `Receive`, `EndStream`, `Disconnect` | the parts of the generator `subscribe` between its yields |
| `Crash`, `Recover` | process death; a new Run object over the old record |

An event is identified by the order in which it was emitted, and a log entry by
the set of events it stands for, so that completeness and order can be read off
without payloads. A feed of the coalescer yields at most one segment, held back,
appended, or a rolling snapshot. A client always resubscribes with the last
cursor it kept, or from the start. A run without a store behaves as one whose
store loses everything at a crash. Histories (what each client saw, which cursor
it kept) are part of the state.

### SessionMarkers and the code

| model | code |
|---|---|
| `marker`, `ask` | `active_run_id` and the owner of `pending_interaction` in the session's meta |
| `copy[r]` | the same two fields in the `meta` of the Session object run `r` works on |
| `lane[l]` | waiters, in order, of the asyncio.Lock in `_database_locks` of Runtime `l`; the head holds it |
| `pc[r]` | the await at which the request, then the driving task, of `r` is |
| `pool`, `current` | `RunPool._by_id`, `RunPool._by_session[session]` |
| `result`, `asks`, `interrupted` | `Run._status`, `Runner.suspend_marker`, `Run.interrupted` |
| `storeStatus` | the RunStore's status of `r` |
| `cut` | history: the wrap-up of `r` was cut short by a cancel, a crash or a failing delete |
| `Request`, `Load`, `Refuse`, `Start` | `load_session` under the lock, then `start` |
| `QueueMark`, `PersistMark`, `Open` | `_drive` up to `runner.drive` |
| `Answer`, `Ask`, `PostAsk`, `Gate` | `apply_answer`, `suspend_for`, `mark_session_suspended_async`, a suspending gate |
| `Finish`, `Record` | `Run.finish` up to and with its last store write |
| `ReadMarker`, `Unmark`, `ReadAsk`, `Unask`, `PostAsk` | the two halves of each guarded clear in `settle_session_markers_async`, and the back-fill |
| `Discard` | the `finally` of `_drive` |
| `Interrupt`, `Crash`, `Resume`, `GiveUp` | `shutdown`, process death with `recover` of the next process |
| `Sweep`, `Dismiss` | `clear_session_active_run` and `clear_session_suspended` called by the product |

Each run has a Session object of its own, as when every request loads the
session. A read of the database or the store never fails (a failing read falls
back to the Session object); writes may. The mark that a shutdown leaves in the
store takes effect at once: its queueing behind the run's other store writes is
`RunLog`'s subject. A hard cancel can hit a run while it drives, not while it
settles. Of the product's entry points the synchronous ones are modelled.

### ToolDispatch and the code

| model | code |
|---|---|
| `db`, `memory` | the history in the database, `Session.messages` |
| `recorded`, `taskId` | the run's dispatch records in the RunStore, and the task id the router merged into each |
| `seen`, `parked` | the ledger's two tables |
| `waiting`, `queue` | `ExecutorLink._waiting`: registered waiters, and those with an outcome in their queue |
| `receiving` | the outcome `receive` has marked and not yet routed: the process can die there, nothing else can happen |
| `pc`, `calls`, `index`, `first`, `resuming` | where `run_step` is, `tool_calls`, the call at hand, `step = 0`, `resuming` |
| `Redispatch`, `AskModel`, `Conclude` | `plan_step` with `resume_dispatch_plan`, the model's answer with and without calls |
| `BeforeDispatch`, `RecordDispatch` | `before_dispatch`, each store call of `record_dispatches` |
| `IssueTask`, `Send`, `TakeParked`, `AwaitReplay`, `Collect`, `TimeOut` | the router, then `ExecutorLink.dispatch` from await to await |
| `EndStep`, `SettleDispatches` | `on_step_end` before and after its awaits |
| `SeeStop`, `Cancelled`, `Finalize`, `Finish` | the ways a run ends, `finalize`, `Run.finish` |
| `ReceiveNew`, `Route`, `ReceiveAgain` | `receive` up to the mark, after it, and for a duplicate |
| `Shutdown`, `Crash`, `Restart`, `Recover` | the shutdown sweep, the death of the process, its return, `recover` |

The router, which the repository leaves to the product, is the one
`docs/06-recovery.md` describes: it makes a fresh task id, records it through
`ToolContext.record_dispatch` before it dispatches, and resumes with the recorded
id. The executor runs every `run_tool` message it gets and keeps the outcome
until it is acknowledged; tasks, and acknowledgements, may be lost. A message of
the history is the batch it carries or the answer it is: an outcome or an error.
Persisting writes all the database lacks, or fails and is logged. A run's end is
one status, `ended`. Gates, questions to the user and rewritten batches do not
occur here. After a hard cancel the tool's own task lives on in its waiter
(`Orphan`).

### SessionHistory and the code

| model | code |
|---|---|
| `db`, `ask` | the session's messages and `pending_interaction` in the database |
| `memory`, `pending` | `Session.messages` and the same field of `Session.meta` |
| `op`, `next` | the call in a worker thread the run, or the product's save, awaits, and where it goes on |
| `adrift` | calls in worker threads whose caller was cancelled |
| `batch`, `at`, `suspended` | `Runner.tool_calls`, the call at hand, `Runner.suspend_marker` |
| `inbox` | `MemoryInbox._queues` of the session |
| `Load`, `Edit`, `StartWith...`, `StartFromState` | `load_session`; `truncate_after` and `save_session`; `start` with `accept_query` |
| `ApplyAnswer`, `RefuseAnswer` | the first step of a run that brings an answer |
| `Reply`, `AskForTools`, `ToolResult`, `Interval` | `run_step`: `build_reply`, `before_dispatch`, one call's result, `append_arrivals` and `on_step_end` |
| `Suspend`, `MarkQuestion` | `handle_tool_call` with a request, a suspending `after_execute` or a suspending gate; `suspend_for` |
| `GoOn`, `Conclude`, `Interrupted`, `Finish` | `should_continue`, the ways a run ends, each with `finalize`, and `settle_session_markers_async` |
| `StoreCount`, `StoreWrite`, `StoreFails` | `sync_session` in its two database calls, `replace_message`, and `persist`'s handler |
| `CancelWhileStoring`, `Adrift` | a cancel at `asyncio.to_thread`: the lock is released, the thread is not |

A message is its number, its role, the calls it makes or answers, and how often
its text was extended; the number is the order in which messages were made, so
that a message written twice, or at another's position, shows. Each run loads
the session anew; the product may start one with a text while a question is open,
which keeps the question for later (`StartOver`; `over` is the history of the calls
passed over so). It saves an edit before it goes on. Which dead run's question `settle_session_markers_async`
clears is `SessionMarkers`' subject: here it may clear any. A recovered run's
re-dispatch is `ToolDispatch`'s. A step that lands no message is left out.

### RunDrive and the code

| model | code |
|---|---|
| `pc[r]` | the await at which the task of run `r` is: `InLoop` is inside `Runner.loop`, whose exceptions `drive` catches |
| `done`, `flag`, `cut` | `Run._status` is final, `Run._stop_requested`, the task was cancelled |
| `pool`, `current` | `RunPool._by_id`, `RunPool._by_session[session]` |
| `status`, `intent` | the RunStore's status, with one word for the final ones, and its stop request |
| `step` | what `run_step` and `stream_llm` hold of the step in progress: attempt, accumulated output, calls left, `_rescue_armed`, the rescues used |
| `step.shown`, `step.begun` | histories: text of the step the client has; requests and tools begun under a stop |
| `tail`, `stored` | the last message of the history in memory and in the database, as far as it decides |
| `inbox` | for each message, whether it is in the queue of `MemoryInbox`, and for which boundary |
| `Start`, `Begin`, `Open` | `Runtime.start`, the task's first instant, `initialize_store` to `on_loop_start` |
| `Guard`, `Plan`, `Answer`, `Send`, `Chunk` | the head of `loop`, `plan_step`, `apply_answer`, `consume_stream` |
| `Arm`, `Land`, `Retry`, `Resend` | `arm_reply_rescue`, `build_reply`, the two ends of the backoff in `stream_llm` |
| `Call`, `Gate`, `Return`, `Boundary`, `Judge` | the loop over calls, `before_tool`, a tool's end, `append_arrivals`, `should_continue` |
| `Raise`, `Report`, `Finish`, `Settle`, `Cancel` | an exception, `drive`'s handler, `finalize` with `finish`, the wrap-up and `discard`, `task.cancel()` |
| `Stop`, `RequestStop`, `Watch` | `Run.stop`, the store's request from another process, one successful probe of the watcher |
| `Deliver`, `Crash`, `Recover`, `Resume`, `Refuse` | `Runtime.deliver`, process death, `recover` and `_resume_one` |

One step is kept, not one per run: the theorem behind this is `Owner`, below. Text
is counted, not spelled. Every failure of a stream may be retried or not, as the
policy decides from the kind of error. A stream, a tool and a gate end in time; a
store that fails is `RunLog`'s and `SessionMarkers`' subject. `FairSpec` assumes weak
fairness of each run's task and of its watcher: the event loop runs what is
ready, and the store answers one of the watcher's probes in the end.

### Projection, Compaction and the code

| model | code |
|---|---|
| `messages` | `Session.messages`: of each its kind, its identity and the message whose call it answers |
| `archive`, `active` | the records and the active id of a CompactionStore |
| `job` | the `CompactionPlan` being carried out in the background, with the messages its transcript was built from |
| `window` | `CompactionPolicy.window_usable` of the model in use |
| `Weight`, `Suffix` | `projection_char_weight`, `suffix_l1_totals`: the ruler |
| `Tier`, `ToolText`, `SoftTrimmed`, `MiddleOmitted`, `UserText` | grading and trimming |
| `AlignedStart` | `adjust_tail_start_for_tool_protocol` |
| `Projected`, `Expanded`, `Reinjected`, `ImagesElided` | `build_llm_messages_with_context_projection` and what it calls |
| `Trigger` to `TargetLow`, `TailOk`, `Combined`, `WithinBounds` | the thresholds of `CompactionPolicy` and the tail's floors |
| `Repair` | `repair_active` with `try_rehome_from_archive`, its outcome applied to the store |
| `StartPlan`, `PlannedEnd`, `IdealEnd` | `plan_new_compaction`, `compute_ideal_covers_exclusive_end` |
| `Activate`, `TranscriptCut`, `PassesGate` | the summary arrives: `build_from_scratch_transcript`, `quality_gate_check`, `append_and_activate` |
| `Grow`, `Edit` | `Session.append`, `Session.truncate_after` |
| `of`, `cut`, `fresh` | histories: the messages a summary stands for, how many of them were left out of what the summariser read, and that nothing happened since one was stored |

A kind of message has a role and sizes in characters; text is never looked at.
The switches of `ProjectionConfig` are at their defaults. The loop around these
functions is the product's: the model follows the order the module's docstring
asks for, repair first, then judge and plan, then summarise in the background, and
applies an outcome at once. The model in use may change, and the user may edit the
history, at any time, also while a summary is being made. An edit cuts the
messages and nothing else: the archive, the active record and the job stay as
they are, and a summary may arrive for messages that are gone. A result comes only
while its turn is open; an answer behind other messages is left out.

## What the runs check

Every property is named in the `.cfg` and stated above its definition.

| run | configuration | question |
|---|---|---|
| `log_passthrough` | `RunLogPassthrough.cfg`: 2 clients that reconnect, appends may fail | do clients read every event, once, in order, to the end (refinement of `EventBroadcast`, and liveness) |
| `log_restart` | `RunLogRestart.cfg`: rolling snapshots, three emits under way, failing overwrites, a shutdown, a crash | do the cursors of live deliveries survive reconnects and restarts; does each entry of the store stand at its index in the log |
| `log_faults` | `RunLogFaults.cfg`: failing calls, a hard cancel, a shutdown, a crash | is the durable log only extended or its open slot overwritten; is a terminal status final; does every stream end, unless the driver was cancelled within `finalize` or `finish` |
| `markers_overlap` | `SessionMarkers.cfg`: 3 runs, one Runtime, questions, cancel, shutdown, dismissal | is one turn running at a time, and are its marker and its question left alone |
| `markers_restart` | `SessionMarkersRestart.cfg`: 2 runs, a crash, failing writes | is every marker at rest explained, and does every ended run leave the pool |
| `dispatch` | `ToolDispatch.cfg`: two calls, two deaths, stop, shutdown, cancel, lost messages, one failing operation | is a call run at most once and answered at most once; is the evidence for a resume durable before the task is sent; does nobody wait beside a parked outcome; do outboxes drain and runs end |
| `dispatch_over` | `ToolDispatchOver.cfg` | *violated*: after a shutdown in mid-batch the resumed run asks the model while a call is out |
| `history` | `SessionHistory.cfg`: three runs, one failing call, cancelled write or death | do database and memory agree on every position; is a finished run stored in full; has a call one result, behind it, and right behind its batch unless a run was started over the open question; does only an edit make the stored history shorter |
| `history_cancel` | `SessionHistoryCancel.cfg` | *violated*: a message is written twice when a run is cancelled during a write |
| `drive` | `RunDrive.cfg`: two runs, a message, two calls in a step, two attempts, one rescue, one death | is at most one thing begun after a stop, and does a stop end the run; is a text shown once; is a rescue made before the run ends silently; are messages served at their boundary |
| `compaction` | `Compaction.cfg`: five messages of seven kinds, edits at any time, two summaries, with and without a known window | is every message sent or summarised, but for what is written over an edited part of a summary; do results follow their calls in a request; do repair and request weigh alike; is a repaired record in order |
| `compaction_repeat` | `CompactionRepeat.cfg` | *violated*: a summary just stored is out of range at once, and is made again |

The three violated properties are what a doc or a comment of the repository says;
`PROJECT.json` quotes each. All three were also reproduced by running the code with
the same interleaving or the same numbers.

`history_cancel`: the session's lock is released when the await of the writing
thread is cancelled, `finalize` writes the same messages, and the thread's own
write comes after. What such a thread may do later is open-ended (it can even
truncate what a later run has written), so the properties of `history` are about
executions without one; those of a cancel between writes are included.
With `"after"` among the `Suspensions`, `RunIsStored` fails: a suspension decided by
`after_execute` cuts the batch in memory (`runner.py:556`) and leaves the database's
copy as it was when a result already follows it.

`dispatch_over`: cancelling the driving task makes `finalize` persist the answers
collected so far, so the history no longer ends with the batch, and the test for
a resume, which looks at the last message only, fails. A batch that dies without
that last persist is resumed.

`compaction_repeat`: the end of a new summary is chosen with the summary before it
as overhead, or with none; the repair judges the record with its own. Near the
upper bound the two differ by enough. `Windows` has only the known window there,
so that the disagreement is not one between two models.

Bounds. `MaxEvents`, `MaxInFlight`, `MaxConnects` and `MaxCrashes` bound the log's
length, the store writes under way, reconnects and process deaths; they appear
in guards, and the state spaces are finite. Two or three events are enough for
a slot to open, be overwritten and be closed by a later entry; `log_restart` has five, and
three writes under way, so that a failing overwrite has one before it and one behind, two connects for
a cursor to be used once, one crash for a resumed run with a preloaded log. For
the markers, three runs give an old run that settles, a current one and one
waiting to start; the third matters only to the order of the lane. The number of
runs is the only bound there besides crashes. For dispatch, two calls give a
batch that is answered in part, two deaths one of a process that was itself
resuming; the batch of a later step matters in `dispatch_over`, where the model
asks for it. `MaxFailures = 1` allows one failure of any operation in `Failing`.
For `drive`, a second run is what a recovered one can be refused for; two calls
leave one when a stop comes between them, two attempts give one retry, one rescue
a reply before and after it; a message is one in the queue or none. The steps of a
run are not bounded at all. For compaction, five messages hold a question, a
batch with both results, and one more; the sizes put each trim, each tier, the
image limit, both thresholds and the tail's floors between two histories that
occur, and two summaries let one be restored from the archive. The seven kinds are a
question with an image and metadata, a text longer than users' limit, a notification,
a batch of two calls, a result too short to be restored, one that every tier trims,
and one of an exempt tool. `OneRuler` compares what `Unruled` leaves of them: every
kind but the exempt result, in the tail of a record and, with two graded results,
without one; records over short results, since longer ones are restored.

What `AtMostOnce` does not promise: `Failing` leaves out the router's own record
(`note`), and one persist may fail, not two. With `Failing = {"note"}`, or with
`{"persist"}` and `MaxFailures = 2` over `TwoSteps`, a call is run twice: a task
that is not on record is sent again, and records of a later batch make the
stale tail of the database resumable. The code logs and goes on in both cases.

Deadlock is not checked: all runs may have ended and nobody need ask for another.

Fairness. `RunLog` assumes that a worker-thread call returns, that a woken
coroutine runs and that a connected client keeps reading; emitting, finishing,
crashing and disconnecting are never forced. `SessionMarkers` assumes weak
fairness of each run's own task: the event loop runs every ready task, thread
calls return and the product's `on_run_end` returns. How long a run drives and
what users do is left open. `ToolDispatch` assumes weak fairness of the driving
task (timeouts included, since every dispatch has a deadline), of the
executor's replay and of delivered acknowledgements, that a process that is
shutting down exits, and that a dead one is started again; deaths, stops,
losses and executions are never forced.

For the history, five messages are a question, a batch of three cut behind its
second call with one result before it, the answer, and what follows; three runs
ask, go on over the question, and answer. One fault (`MaxFaults`) of three kinds.

## Known deviations

What the code does that a reader of its docs might not expect, met while
modelling. Those that a constant of a model shows name it; the properties above
are stated so as to hold beside them.

* A replayed delivery of the open slot carries a cursor behind the slot
  (`execution.py:628`): what the slot gets later is lost to a client that
  reconnects with it. `TrustReplay = TRUE` in `RunLogRestart.cfg` breaks `GapFree`;
  with `FALSE` the client keeps the cursors of live deliveries only.
* With a store without `buffer_len` a resumed run overwrites entries of its former
  life: `CanSize = FALSE` in `RunLogFaults.cfg` breaks `StoreOnlyGrows`.
* With the InMemoryDatabase, whose mark does not take the session's lock, an old
  run's wrap-up deletes the marker of the new one: `SyncMark = TRUE` in
  `SessionMarkers.cfg` breaks `NeverClearsLive`. So do two Runtimes on one pool
  (`Lanes = {base, derived}`): `with_overrides` gives the derivation locks of its own,
  and the two halves of a guarded clear are not excluded from the other's mark, nor
  from the other's question (`LiveAskKept` fails likewise).
* While a suspended run is still in the pool, another run's wrap-up deletes its
  question (`runtime.py:464` looks at the running runs only). `LiveAskKept` is about
  running runs.
* `receive` acknowledges an outcome once it is in a queue in memory, before the end
  of the step persists it (`link.py:113`): if the process dies in between, the
  outcome is gone and the call times out after the resume.
* A cancel before the task's first step runs nothing of it, `finally` included: the
  run never ends, stays in the pool, and its session refuses every start. A cancel
  inside `finalize` skips `finish` (`runner.py:243-247`): no final status, and
  subscribers wait. So they do after a cancel inside `finish` before it sends the
  sentinels (`execution.py:519-540`), where the status may be recorded or not.
  `CancelLate` in `RunLog` and `Cancel` in `RunDrive` have these; `StreamsEnd` and
  `StopEnds` except them.
* `start` does not ask whether the session has an open question (`runtime.py:1070-1114`),
  and settling a run keeps the question of another (456-474). A run started with a text
  over an open question therefore adds its messages behind the calls that wait, and the
  answer given later becomes a result behind those, which providers reject. The docs
  show the answer as the next thing to start (`docs/05-cancellation-and-suspension.md`)
  and say that an additional message is no substitute for it
  (`docs/errors-and-limits.md:25`), but do not forbid it. `ResultsFollowCalls` excepts
  the calls in `over`.
* A stop in the process itself is a flag of the Run object: if the process dies
  before the run ends, recovery resumes it. A resume that is refused because the
  user has started another run leaves the status `running` until the next recovery.
* A message delivered after the last look at the inbox, or before a stop or a
  failure, stays in the queue; the next run gets it. A process death loses a
  MemoryInbox.
* When the rescue itself brings nothing at all, an empty reply is kept: the turn has
  nothing to see (`tests/test_kernel_inbox.py:17-19`).
* Compaction counts the latest user message at its ordinary limit, while the request
  gives it what the hard cap leaves (`compaction.py:596-640`), so such a request is
  larger than what was judged. Restored results, exempt tools and images beyond the
  limit differ as well: `Unruled` lists them.
* `reserved_tail_messages` reserves nothing when the history is not longer than it
  (`compaction.py:1345-1366`); a transcript whose last message alone exceeds its limit
  is sent whole (1126-1140); and the `verbatim_hard_max_chars` of the docs bounds
  only the latest user message, not the request.
* A record is not compared with the messages it was made from, only its end with the
  length of the history (`compaction.py:917-922`, 1506-1540, 1563-1594). After an edit
  and new messages a record that ends within the new history is kept, or restored from
  the archive, and a summary that was being made during the edit is stored: the request
  then tells of messages that are gone, and hides what was written in their place.
  `NothingLost` excepts just that (`HiddenBy`): what is hidden was written after the
  summary was planned. A product that calls `prune_above` with every edit, and drops a
  summary being made, has none of it; nothing in the repository asks for that.

## What is proved

`RunLogProofs`, for any number of clients, events, crashes and failures:

* `TypeCorrect`: the type invariant, by a strengthening (no log before the store is
  ready, and the slot below).
* `SlotCorrect`: the slot that a rolling snapshot may overwrite is the last
  entry of the log.
* `FirstStatusWins`: `TerminalIsFinal`, step by step: what could touch the log, the
  status or the interruption looks at the status first.
* `LogAndStoreInLockstep`: `Lockstep`, if appends arrive (`AppendsArrive`: none fails, and
  no write is cancelled) and the log of a restarted run is its store (`LogIsRebuilt`);
  overwrites may fail. `Aligned`: the queued appends are, in their order, exactly the
  entries the store does not have yet, and a queued overwrite is of an entry that is
  there or appended before it. `Exact`: an entry differs from its copy only while an
  overwrite of it is queued; once one has failed it no longer has to (`LockInv`), but what
  the store has, or is to get, stays part of the entry at its index (`Kept`).
* `NothingDurableIsLost`: `StoreOnlyGrows`, if overwriting has a length to go by
  (`OverwritesKnowingly`) and not both an append fails and a write is cancelled
  (`OneFault`). Without a failed append `Kept` holds: every write on its way to an
  index has at least what is there, in the order of the queue. A failed append shifts
  the store under the log; then no overwrite can reach the store any more: either
  the slot is given up (`NoSlot`), or the store stays shorter than every index an
  overwrite could name (`Behind`), and `replace_chunk` rejects it. A write whose
  caller was cancelled is the last overwrite there is.

`RunLogReadersProofs`, for any number of clients, reconnects, events, segments,
shutdowns and, where the log is rebuilt from the store, crashes:

* `CursorsSkipNothing`, `NoGaps`: `CursorSound` and `GapFree`, from one invariant
  (`ReadInv`). For each client what it has got, with each delivery on its way, is
  `Closed`: with an event it has every earlier one of the log. Every cursor on its
  way `Vouches` for no more than the client has by then, and stays below the open
  slot (`Limit`) and within the store, so that a restart cannot put other
  events under it. What a connected client has, is sent, or is owed by an emit that
  waits for the store is the whole log. That the segments are `Nested` (a later one has no
  event earlier than one of a segment before, unless that has it too) is what makes
  replays of an overwritten slot harmless. The theorems assume a coalescer that
  holds nothing back between segments (`SegmentsOnly`), no cancelled emit (`NoCancel`),
  clients that keep the cursors of replays only where no slot is overwritten and no
  restart follows (`ReplaysAreFinal`), and restarts only from a store that has
  everything (`StoreIsComplete`). Each is necessary: without any one of the four TLC
  finds both properties violated.
* `ImplementsBroadcast`: the refinement, `OrderedBroadcast`. `OrderInv`: entry i of the
  log is event i, every delivery has one event, and a client has a beginning of the
  run. That the next delivery of a client is the next event, neither a later one nor
  one it has, is what `ReadInv` says of it: with the delivery the client is `Closed`
  (`ReadsNext`). So a `Receive` that changes what a client has is `Read`, an `Emit` is
  `Publish`, and every other step stutters. It takes the default coalescer
  (`AppendsOnly`), a process that does not die (`NeverCrashes`: what was not stored
  by then, nobody reads later) and no cancelled emit (`NoCancel`: it is logged, but not
  delivered to those connected). Without any one of the three TLC finds it violated.
* `NothingTwice`: `NoDuplicates`. `DupInv`: along the way from the log to a client, what
  it has, what its stream holds and what waits for the store to be sent to it are
  each later than the one before (`FreshClient`, `InTurn`), and everything the log has
  behind a cursor is later than the delivery that carried it (`Older`). Across a
  restart the store holds a part of the log in its order, no entry further back than it
  was (`Unsent`), so that a cursor skips at least what it skipped. It takes the default
  coalescer (`AppendsOnly`), clients that keep every cursor (`TrustReplay`), and, where
  a new process reads the store back, that this read does not fail and no store call
  of a cancelled emit overtakes another (`RestartsInOrder`). Each is necessary too;
  failing appends, and a store without `buffer_len`, do no harm.

`SessionMarkersProofs`, for any number of runs and crashes and any failures:

* `TypeCorrect`: the type invariant, from `LaneType` (queueing, releasing and
  re-queueing keep a lane a queue of runs) and one step per action.
* `OneTurn`: a session has at most one running turn. The invariant is
  `CurrentRunning`, whatever runs is what `RunPool._by_session` names; it is
  inductive because `start` refuses while the named run is not done and
  `discard` forgets only the entry of the run that leaves.
* `LiveMarkerSafe`: with one Runtime and a database off the event loop, no step
  takes the marker of a running run away. `NeverClearsLive` is an action
  property; the state a step can rely on is `MarkInv`: the stage of a task
  determines whether its run is in the pool and done (`StageInv`), a run that
  may still start has no terminal record (`RecordInv`), who is about to delete
  the marker holds the lane (`HoldsInv`), and what it is about to delete names a
  run that is over for good (`UnmarkInv`). The last is the heart: between the
  read and the delete nobody can mark the session, since marking takes the lane,
  and a run that was found dead cannot come back (`GoneStays`).
* `LiveAskSafe`: `LiveAskKept`, with one Runtime, by the same argument for the
  question (`UnaskInv`): a question is written under the lane only, so what a
  wrap-up has found dead is what it deletes. The InMemoryDatabase does no harm here.
* `MarkerAtRest`: `MarkerExplained`, with no condition: several Runtimes, the
  InMemoryDatabase and every disturbance included. `ExplainedInv`: a run whose marker
  is there and that neither runs nor wraps up is one recovery may start again or was
  cut short, and one that is past the deletion of its own marker failed to delete it.
  Nobody else has to be relied on, since only a run itself writes its name there.

`ToolDispatchProofs`, for any batches, any number of deaths and failures and any
interruptions:

* `TypeCorrect`: the type invariant, and that the task in hand is always the task
  of the current call.
* `ExecutedOnce`: `AtMostOnce`, if writing the history and the router's record
  never fails (`ReliableRecords`). A call is not run twice because it never gets
  a second task, and it never gets one because a run started again finds the
  first on record. `TailInv` says that much of the batch at the end of a history:
  each of its calls has no task yet, or the one its record names. The records are
  cleared only when the answers are in the database (`StepInv` at `settle`), and
  then the batch is no tail any more. `Ahead` carries this over to the batch
  being handled: what is still ahead is fresh, or resumable. `AskedInv` says that
  the calls the model asks for next are new.
* `AnsweredOnceEach`: `OneAnswer`, whatever fails. `AnswersInv`: an answer stands
  behind a batch that has its call (`AskedFor`), no batch is in a history twice
  (`AskedOnce`), and the calls from the current one on have no answer (`Open`).
  A batch that is dispatched again ends the history, so an answer to one of its
  calls would stand behind an equal batch further up.
* `ParkedIsCollected`: `NeverBehindParked`. A task that is still to be sent is
  nowhere yet (`IssuedInv`), so no outcome of it can be parked.
* `EvidenceIsFirst`: `EvidenceFirst`, under the condition of `ExecutedOnce`, whose
  invariant tells that a call which gets a task has no other. `WrittenInv` says
  what the database has of the step at each place; the records are cleared where
  database and memory are equal and the whole batch is answered (`Collected`), and a
  task of an older batch has the later turn for its evidence.

`RunDriveProofs`, for any number of runs, messages, steps, calls, attempts, rescues
and deaths:

* `TypeCorrect`: the type invariant.
* `StopIsObeyed`: `StopObeyed`. The invariant is in three layers. `Supervised`: what
  recovery may take up is neither over nor at work. `Owner`: a run at work is the
  session's current one and not done, so `start` refuses every other; this is why
  the state of a step can be that of one run. `StepSound`, with `Sound`: what each
  place knows of the step; where something is about to begin nothing has begun
  under a stop, because the checkpoint before it looked. `AtWork` is the lemma all
  steps within the loop rest on.
* `ShownKept`, `MessagesServed`, `RescueFirst`: `ShownIsKept` from `Sound` at `stream`;
  `InboxServed` and `NotSilent` step by step, from the same invariant.

`CompactionProofs`, for any history, kinds, sizes, policy, windows and number of
summaries:

* `TypeCorrect`: the type invariant, in particular that the planner's search stays
  in the history (`PlannedEndType`).
* `TailBeginsWhole`: wherever a summary ends, the aligned tail does not begin among
  the results of a turn.
* `RepairIsStable`: `RepairSettles`. It needs `Numbered`: the numbers of records are
  given out one by one and the summary being made has the latest, so the active id
  names the record that was chosen; and that the judgment of a record depends on
  the history and the window alone (`SameJudgment`).
* `EveryMessageReaches`: `NothingLost`, with edits at any time. The invariant is `CoverInv`:
  of every record in the archive, the active one or not, and of the plan being carried
  out, what an edit left is in its place, and every other message up to its end is
  later than all it stands for (`Covers`); and every result stands behind its batch with
  only results between (`TurnsInOrder`). The first is not disturbed by an edit, which
  only takes messages away, nor by a new message, whose identity is later than all
  before, and holds of a new plan, whose transcript never leaves out everything
  (`SomethingIsRead`). The second is why the kept tail begins no later than the summary
  ends (`KeptReachesBack`), so that nothing falls between the two.
* `ResultsBehindBatches`: `TurnsWhole`, from the same invariant and `TailBeginsWhole`.
  `Placed` says of a request which stretch of it each message of the tail became.
* `RulersAgree`: `OneRuler`, if only assistants carry arguments and results are sent as
  text (`CarriedByRole`), and the floor of the latest user message is not below the
  limit of the others (`LatestGetsMore`; 4000 and 600 in `ProjectionConfig`). Each is
  necessary: for kinds and sizes that break one, TLC finds a request that weighs
  something else. `Ruled` is what `Unruled` leaves; `SentWeighs` compares one message,
  `NothingElided` shows that no image is dropped, and `TailAdds` adds up.

What these three say of a whole history needs inductions. The library's induction
theorems take an operator and cannot be cited here, so `UpTo` states induction up to a
bound for a set, and follows from the least natural number outside that set. The
recursive functions in the model are of the form `CHOOSE f : f = ...`; that such an f
exists is proved for the concatenation of a sequence of sequences (`JoinedExists`), the
sums from the end (`FollowsExists`) and the sum over a finite set (`TotalRecurs`), from
which `FlattenLaid`, `FollowsSums` and `RecursTotal` say what the model's operators
yield.

`SessionHistoryProofs`, for any number of runs, messages, deliveries, deaths, failures
and cancelled writes:

* `TypeCorrect`: the type invariant, and that only a message that is there is replaced.
* `PositionsHold`, `TruncationsAreEdits`: `PositionsAgree`, `OnlyEditsTruncate`. While no
  write was cancelled no thread is adrift, what is awaited writes the history in
  memory, by the length the database has, the two agree position by position, and the
  database is ahead only while an edit is being saved (`PositionsInv`). A step of a run
  keeps the identity of every message it has (`Kept`) and hands what it awaits the
  history it leaves (`Awaits`); `WrittenPositions` is the case analysis of
  `sync_session`.
* `NoSecondResult`: `OneResultPerCall`, by `ResultInv`. A message keeps its role, and a
  result its call, at its place (`Alike`), in the database too; what a step adds holds at
  most one result, of a call that has none (`Silent`, `Answering`). The calls of a batch
  from the current one on have no result (`Ahead`) because a batch is asked for with
  calls not made before (`ResultsMade`), and an answer is looked for before it is given.
* `FinishedIsStored` (`SessionHistoryStoredProofs`): `RunIsStored`, unless
  `after_execute` suspends calls. `StoredInv`: outside an awaited operation the two
  histories are equal wherever both have a message; during one they may differ at the
  message it writes, which for `sync_session` is the last of both. That a cut batch is a
  single message, so that one replacement is enough, is `CallInv`: a call is asked for
  in one message only, also after an answer has put a lost call back.
* `ResultsBehindCalls` (there too): `ResultsFollowCalls`, whatever is suspended, whatever
  fails, and with runs started over an open question. `FollowInv` says it of both
  histories (`Followed`) and adds what the next result needs: nothing but results
  stands behind a call that waits for its answer (`Awaited`), in the database for the
  question it has, in memory for the question and for the calls just suspended. A run
  that goes on to add anything else has answered the question first, or was started over
  it, which puts its calls among those passed over (`Goes`, `over`); and the batch at hand
  ends the history (`Stands`). A batch is cut in memory only, so the database may have
  calls that memory has not, never the other way round (`NoneMissing`), and never a
  call that is asked about (`NoneCut`): whichever of the two the next run loads, an
  answer finds its call.

The assumptions are the `ASSUME`s of the modules, and for `LogAndStoreInLockstep`,
`NothingDurableIsLost`, `CursorsSkipNothing`, `NoGaps`, `ImplementsBroadcast`,
`NothingTwice`, `LiveMarkerSafe`, `LiveAskSafe`, `ExecutedOnce`, `EvidenceIsFirst`,
`FinishedIsStored` and `RulersAgree` the conditions each names. All are necessary: for
the log TLC finds the property violated when any one is dropped (the deviations above
have the two that matter most, `TrustReplay` and `CanSize`); for the markers see what
`SyncMark` and two Runtimes change, for the next two what `AtMostOnce` does not
promise, for `FinishedIsStored` the remark on `"after"`, above.

Model-checked only: liveness (`StreamsEnd`, `EveryEventArrives`, `DoneLeavesPool`,
`OutboxDrains`, `RunEnds`, `StopEnds`), which is beyond the prover. Every invariant and
action property of the passing runs is a theorem.

## Plan

All planned modules are there. What is left, most important first:

1. Waiting in place for an answer (`InteractionKind.WAIT`), and gates and questions
   in `ToolDispatch`.
2. `SessionHistory` with the projection: what a compacted session sends while a run
   extends it.
3. Assembling calls from fragments of a stream, against a reference definition.

## Not modelled

Tool tables and schemas (`tools/registry.py`, `tools/schema.py`, `tools/on_executor.py`,
`tools/navigation.py`), the wire format, encryption, safety patterns and the
provider adapter: lookups and conversions without shared state. Products'
overrides of hooks are taken to return and to leave the framework's state alone.
