-------------------------------- MODULE RunLog --------------------------------
(***************************************************************************)
(* One round of execution (class Run, engine/execution.py): the Runner     *)
(* hands events to `emit'; a coalescer merges them into log segments; the  *)
(* segments go to an in-memory log and, off the event loop, to a RunStore; *)
(* each event goes live to the subscribers.  A client that lost its        *)
(* connection, or whose server restarted, resubscribes with the cursor of  *)
(* the last delivery it received.                                          *)
(*                                                                         *)
(* The event loop runs one coroutine at a time, so everything between two  *)
(* awaits is one action here.  Store calls run in a worker thread: the     *)
(* call and the loop's continuation after it are two actions.  Every       *)
(* operation that touches the store goes through `_store_write_lock', a    *)
(* FIFO asyncio.Lock: `writes' is its queue, the head being its holder.    *)
(*                                                                         *)
(* Events are the numbers 1..emitted in the order of their emission.  A    *)
(* log segment is the set of the events merged into it.  Cursors count     *)
(* log entries, as in the code; entry k of the log is log[k] here and      *)
(* `_log[k-1]' there.                                                      *)
(***************************************************************************)
EXTENDS Naturals, Sequences, FiniteSets

CONSTANTS
    Clients,        \* subscribers (browser tabs)
    MaxEvents,      \* bound: events emitted over all process lives
    MaxInFlight,    \* bound: emits awaiting the store at once
    MaxConnects,    \* bound: subscriptions per client
    MaxCrashes,     \* bound: process deaths
    Policies,       \* what the coalescer may do with an event
    Outcomes,       \* terminal statuses `finish' may be called with
    Disturbances,   \* what the environment may do
    CanReplace,     \* the store has the optional replace_chunk
    CanSize,        \* the store has buffer_len, needed to pre-warm the log
    TrustReplay     \* clients also keep the cursor of a replayed delivery

ASSUME BoundsAssumption ==
    /\ MaxEvents \in Nat
    /\ MaxInFlight \in Nat \ {0}
    /\ MaxConnects \in Nat
    /\ MaxCrashes \in Nat

ASSUME PoliciesAssumption == Policies \subseteq {"append", "hold", "snapshot"}

ASSUME OutcomesAssumption ==
    Outcomes \subseteq {"done", "stopped", "failed", "suspended"}

ASSUME DisturbancesAssumption ==
    Disturbances \subseteq {"create", "append", "replace", "read", "mark",
                            "interrupt", "cancel"}

ASSUME CapabilitiesAssumption ==
    /\ CanReplace \in BOOLEAN
    /\ CanSize \in BOOLEAN
    /\ TrustReplay \in BOOLEAN

VARIABLES
    emitted,      \* number of events emitted so far
    proc,         \* "down", "starting" (store not ready) or "up"
    log,          \* Run._log
    openSlot,     \* Run._open_slot, as a 1-based index; 0 is None
    inplaceOk,    \* Run._inplace_ok
    held,         \* coalescer: events accumulated, not yet in a segment
    window,       \* coalescer: events of the rolling snapshot being built
    status,       \* Run._status
    driver,       \* the driving task: "running", "cancelled", "closing" or
                  \* "gone", cancelled where it no longer handles it
    interrupt,    \* Run.interrupted: "no", "due" (mark task created), "yes"
    finished,     \* Run._finished
    writes,       \* queue of `_store_write_lock'
    detached,     \* store calls whose awaiting coroutine was cancelled
    store,        \* the run's buffer in the RunStore
    storeStatus,  \* RunMeta.status; "none" before create_run
    crashes,      \* process deaths so far
    conn,         \* per client: "off", "on", "draining" or "ended"
    stream,       \* per client: deliveries its generator has yet to yield
    cursor,       \* per client: the credential it would resubscribe with
    seen,         \* per client: the events it received
    connects      \* per client: subscriptions so far

runVars == <<log, openSlot, inplaceOk, held, window, status, driver,
             interrupt, finished>>
storeVars == <<writes, detached, store, storeStatus>>
clientVars == <<conn, stream, cursor, seen, connects>>
vars == <<emitted, proc, log, openSlot, inplaceOk, held, window, status, driver,
          interrupt, finished, writes, detached, store, storeStatus, crashes,
          conn, stream, cursor, seen, connects>>
-------------------------------------------------------------------------------
(***************************************************************************)
(* Data                                                                    *)
(***************************************************************************)
Events == 1 .. MaxEvents
Part == SUBSET Events

Delivery == [kind : {"live", "replay", "end"}, events : Part, cursor : Nat]
Live(e, k) == [kind |-> "live", events |-> {e}, cursor |-> k]
Replay(p, k) == [kind |-> "replay", events |-> p, cursor |-> k]
Sentinel == [kind |-> "end", events |-> {}, cursor |-> 0]

\* What one coroutine has to do in the store: nothing, RPUSH one segment, or
\* LSET one segment.  `at' is the index of the segment in the log.
Write == [kind : {"none", "append", "replace"}, at : Nat, part : Part]
NoWrite == [kind |-> "none", at |-> 0, part |-> {}]

\* A call whose coroutine was cancelled: its write, or finish's terminal mark.
TerminalMark == [kind |-> "mark", at |-> 0, part |-> {}]
Call == Write \cup {TerminalMark}

\* A coroutine queued on `_store_write_lock': an emit, the flush of `finish',
\* the terminal mark of `finish', or the mark of an interruption.  `saved' is
\* the outcome of its store call: "no" while it has not returned.
OpOf(roles, events) ==
    [role : roles, write : Write, saved : {"no", "ok", "rejected"},
     event : events, cursor : Nat, targets : SUBSET Clients]
Op == OpOf({"emit"}, Events) \cup OpOf({"flush", "finish", "interrupt"}, {0})

EventsIn(s) == UNION {s[i] : i \in DOMAIN s}
MinOf(a, b) == IF a < b THEN a ELSE b
Done == status # "running"
LockFree == writes = <<>>
EmitsInFlight == {i \in DOMAIN writes : writes[i].role = "emit"}
Subscribers == {c \in Clients : conn[c] = "on"}

TypeOK ==
    /\ emitted \in 0 .. MaxEvents
    /\ proc \in {"down", "starting", "up"}
    /\ log \in Seq(Part)
    /\ openSlot \in Nat
    /\ inplaceOk \in BOOLEAN
    /\ held \in Part
    /\ window \in Part
    /\ status \in {"running", "done", "stopped", "failed", "suspended"}
    /\ driver \in {"running", "cancelled", "closing", "gone"}
    /\ interrupt \in {"no", "due", "yes"}
    /\ finished \in BOOLEAN
    /\ writes \in Seq(Op)
    /\ detached \in SUBSET Call
    /\ store \in Seq(Part)
    /\ storeStatus \in {"none", "running", "done", "stopped", "failed",
                        "suspended", "interrupted"}
    /\ crashes \in 0 .. MaxCrashes
    /\ conn \in [Clients -> {"off", "on", "draining", "ended"}]
    /\ stream \in [Clients -> Seq(Delivery)]
    /\ cursor \in [Clients -> Nat]
    /\ seen \in [Clients -> SUBSET Events]
    /\ connects \in [Clients -> 0 .. MaxConnects]

Init ==
    /\ emitted = 0
    /\ proc = "starting"
    /\ log = <<>>
    /\ openSlot = 0
    /\ inplaceOk = TRUE
    /\ held = {}
    /\ window = {}
    /\ status = "running"
    /\ driver = "running"
    /\ interrupt = "no"
    /\ finished = FALSE
    /\ writes = <<>>
    /\ detached = {}
    /\ store = <<>>
    /\ storeStatus = "none"
    /\ crashes = 0
    /\ conn = [c \in Clients |-> "off"]
    /\ stream = [c \in Clients |-> <<>>]
    /\ cursor = [c \in Clients |-> 0]
    /\ seen = [c \in Clients |-> {}]
    /\ connects = [c \in Clients |-> 0]
-------------------------------------------------------------------------------
(***************************************************************************)
(* Starting: create_run, probe the store, pre-warm the log                 *)
(***************************************************************************)
\* Fault: create_run records a status the vocabulary does not know.
CreatedStatusUnknown == IF storeStatus = "none" THEN "created" ELSE storeStatus

\* create_run never rewrites an existing record.
CreatedStatus == IF storeStatus = "none" THEN "running" ELSE storeStatus

\* Fault: a resumed run starts with an empty log.
PreloadedNothing == <<>>

\* A store without buffer_len skips the pre-warm and nothing else.
Preloaded == IF CanSize THEN store ELSE <<>>

\* A failed or inconsistent read gives up the pre-warm and overwriting.
InitializeStore ==
    /\ proc = "starting"
    /\ proc' = "up"
    /\ \/ storeStatus' = CreatedStatus
       \/ "create" \in Disturbances /\ UNCHANGED storeStatus
    /\ \/ /\ log' = Preloaded
          /\ inplaceOk' = CanReplace
       \/ /\ CanSize /\ "read" \in Disturbances
          /\ log' = <<>>
          /\ inplaceOk' = FALSE
    /\ UNCHANGED <<emitted, openSlot, held, window, status, driver, interrupt,
                   finished, writes, detached, store, crashes, clientVars>>
-------------------------------------------------------------------------------
(***************************************************************************)
(* Writing the log                                                         *)
(***************************************************************************)
\* _apply_to_log on one segment: overwrite the open slot or append.
Overwrites(roll) == roll /\ inplaceOk /\ openSlot # 0

LogAfter(part, roll) ==
    IF Overwrites(roll) THEN [log EXCEPT ![openSlot] = part]
                        ELSE Append(log, part)


SlotAfter(roll) ==
    IF Overwrites(roll) THEN openSlot
    ELSE IF roll /\ inplaceOk THEN Len(log) + 1 ELSE 0

WriteFor(part, roll) ==
    IF Overwrites(roll)
    THEN [kind |-> "replace", at |-> openSlot, part |-> part]
    ELSE [kind |-> "append", at |-> Len(log) + 1, part |-> part]

\* Fault: a live cursor counts the open slot.
LiveCursorPastSlot(length, slot) == length


\* While a slot is open a live cursor stops short of it.
LiveCursor(length, slot) == IF slot # 0 THEN slot - 1 ELSE length


\* `_persist_parts' returns without awaiting when there is nothing to write
\* and nobody holds the lock; otherwise the coroutine queues up.
PassesThrough(write) == write.kind = "none" /\ LockFree

\* Fault: a subscriber's queue holds one delivery, the next ones are dropped.
DeliverBounded(item, targets) ==
    stream' = [c \in Clients |->
                 IF c \in targets /\ stream[c] = <<>> THEN <<item>>
                                                   ELSE stream[c]]

\* put_nowait of one delivery into the queue of every target.
Deliver(item, targets) ==
    stream' = [c \in Clients |->
                 IF c \in targets THEN Append(stream[c], item) ELSE stream[c]]

EmitOp(write, e, k) ==
    [role |-> "emit", write |-> write,
     saved |-> IF write.kind = "none" THEN "ok" ELSE "no",
     event |-> e, cursor |-> k, targets |-> Subscribers]

\* The part of emit after the coalescer: log, queue for the store, deliver.
Persist(write, k) ==
    IF PassesThrough(write)
    THEN /\ Deliver(Live(emitted + 1, k), Subscribers)
         /\ UNCHANGED writes
    ELSE /\ writes' = Append(writes, EmitOp(write, emitted + 1, k))
         /\ UNCHANGED stream

\* The coalescer completes a segment.
FeedSegment(part, roll) ==
    /\ held' = {}
    /\ window' = IF roll THEN part ELSE {}
    /\ log' = LogAfter(part, roll)
    /\ openSlot' = SlotAfter(roll)
    /\ Persist(WriteFor(part, roll), LiveCursor(Len(log'), openSlot'))

\* The coalescer keeps accumulating.
FeedHeld ==
    /\ held' = held \cup {emitted + 1}
    /\ UNCHANGED <<window, log, openSlot>>
    /\ Persist(NoWrite, LiveCursor(Len(log), openSlot))

\* A cancelled driver emits one last event, Cancelled; it is no snapshot.
MayEmit ==
    /\ proc = "up"
    /\ ~Done
    /\ driver \in {"running", "cancelled"}
    /\ emitted < MaxEvents
    /\ Cardinality(EmitsInFlight) < MaxInFlight

Emit ==
    /\ MayEmit
    /\ \/ /\ "append" \in Policies
          /\ FeedSegment(held \cup {emitted + 1}, FALSE)
       \/ /\ "snapshot" \in Policies
          /\ driver = "running"
          /\ FeedSegment(window \cup held \cup {emitted + 1}, TRUE)
       \/ /\ "hold" \in Policies
          /\ FeedHeld
    /\ emitted' = emitted + 1
    /\ driver' = IF driver = "cancelled" THEN "closing" ELSE driver
    /\ UNCHANGED <<proc, inplaceOk, status, interrupt, finished, detached,
                   store, storeStatus, crashes, conn, cursor, seen, connects>>
-------------------------------------------------------------------------------
(***************************************************************************)
(* The store                                                               *)
(***************************************************************************)
\* replace_chunk rejects an index out of range.
InRange(i) == i \in DOMAIN store

\* append_chunks or replace_chunk; the outcome the awaiting coroutine sees.
StoreAfter(write) ==
    IF write.kind = "append" THEN Append(store, write.part)
    ELSE IF write.kind = "replace" /\ InRange(write.at)
         THEN [store EXCEPT ![write.at] = write.part]
         ELSE store


\* What finish records; an interrupted run stays interrupted.
MarkOf(role) ==
    IF role = "interrupt" \/ interrupt # "no" THEN "interrupted" ELSE status

\* mark_finished and mark_interrupted ignore a run without a record.
MarkedStatus(role) == IF storeStatus = "none" THEN "none" ELSE MarkOf(role)

\* Fault: a rejected overwrite goes unnoticed.
SaveHeadUnnoticed(outcome) == writes' = [writes EXCEPT ![1].saved = "ok"]

SaveHead(outcome) == writes' = [writes EXCEPT ![1].saved = outcome]

\* The worker thread of the lock holder performs its store call.  append and
\* mark failures are swallowed; a failed or rejected replace is noticed.
StoreCall ==
    /\ proc = "up"
    /\ writes # <<>>
    /\ Head(writes).saved = "no"
    /\ LET op == Head(writes) IN
       \/ /\ op.role \in {"emit", "flush"}
          /\ \/ op.write.kind = "append" \/ InRange(op.write.at)
          /\ store' = StoreAfter(op.write)
          /\ SaveHead("ok")
          /\ UNCHANGED storeStatus
       \/ /\ op.write.kind = "append" /\ "append" \in Disturbances
          /\ SaveHead("ok")
          /\ UNCHANGED <<store, storeStatus>>
       \/ /\ op.write.kind = "replace"
          /\ ~InRange(op.write.at) \/ "replace" \in Disturbances
          /\ SaveHead("rejected")
          /\ UNCHANGED <<store, storeStatus>>
       \/ /\ op.role \in {"finish", "interrupt"}
          /\ \/ storeStatus' = MarkedStatus(op.role)
             \/ "mark" \in Disturbances /\ UNCHANGED storeStatus
          /\ SaveHead("ok")
          /\ UNCHANGED store
    /\ UNCHANGED <<emitted, proc, runVars, detached, crashes, clientVars>>

MarkOp(role, targets) ==
    [role |-> role, write |-> NoWrite, saved |-> "no", event |-> 0,
     cursor |-> 0, targets |-> targets]

\* The loop resumes the lock holder: it releases the lock and goes on to its
\* next await.  emit delivers; the flush of finish queues up for the terminal
\* mark; after that mark finish puts the sentinels and sets `_finished'.
ResumeHolder ==
    /\ proc = "up"
    /\ writes # <<>>
    /\ Head(writes).saved # "no"
    /\ inplaceOk' = (inplaceOk /\ Head(writes).saved = "ok")
    /\ LET op == Head(writes) IN
       \/ /\ op.role = "emit"
          /\ Deliver(Live(op.event, op.cursor), op.targets)
          /\ writes' = Tail(writes)
          /\ UNCHANGED finished
       \/ /\ op.role = "flush"
          /\ writes' = Append(Tail(writes), MarkOp("finish", op.targets))
          /\ UNCHANGED <<stream, finished>>
       \/ /\ op.role = "finish"
          /\ Deliver(Sentinel, op.targets)
          /\ writes' = Tail(writes)
          /\ finished' = TRUE
       \/ /\ op.role = "interrupt"
          /\ writes' = Tail(writes)
          /\ UNCHANGED <<stream, finished>>
    /\ UNCHANGED <<emitted, proc, log, openSlot, held, window, status, driver,
                   interrupt, detached, store, storeStatus, crashes, conn,
                   cursor, seen, connects>>

\* A worker thread cannot be cancelled: its call is made anyway, outside the
\* lock, and nobody looks at its outcome.
DetachedCall ==
    /\ \E w \in detached :
          /\ detached' = detached \ {w}
          /\ \/ w.kind # "mark" /\ store' = StoreAfter(w) /\ UNCHANGED storeStatus
             \/ w.kind = "mark" /\ storeStatus' = MarkedStatus("finish")
                /\ UNCHANGED store
             \/ w.kind \in Disturbances /\ UNCHANGED <<store, storeStatus>>
    /\ UNCHANGED <<emitted, proc, runVars, writes, crashes, clientVars>>
-------------------------------------------------------------------------------
(***************************************************************************)
(* Ending                                                                  *)
(***************************************************************************)
FlushWrite == IF held = {} THEN NoWrite ELSE WriteFor(held, FALSE)

\* Fault: the subscribers are cleared before they are remembered.
FinishOpForgetful(write) == MarkOp("finish", {})

FinishOp(write) ==
    IF PassesThrough(write)
    THEN MarkOp("finish", Subscribers)
    ELSE [EmitOp(write, 0, 0) EXCEPT !.role = "flush"]

\* finish, up to its first await: flush the coalescer, set the status, take
\* the subscribers.  It is a no-op once the status is terminal.
Finish(outcome) ==
    /\ proc = "up"
    /\ driver # "gone"
    /\ ~Done
    /\ EmitsInFlight = {}
    /\ status' = outcome
    /\ log' = IF held = {} THEN log ELSE LogAfter(held, FALSE)
    /\ openSlot' = IF held = {} THEN openSlot ELSE SlotAfter(FALSE)
    /\ held' = {}
    /\ window' = {}
    /\ writes' = Append(writes, FinishOp(FlushWrite))
    /\ UNCHANGED <<emitted, proc, inplaceOk, driver, interrupt, finished,
                   detached, store, storeStatus, crashes, clientVars>>

\* Fault: a shutdown interrupts a run that is already done.
InterruptDone ==
    /\ "interrupt" \in Disturbances
    /\ proc \in {"starting", "up"}
    /\ interrupt = "no"
    /\ interrupt' = "due"
    /\ Deliver(Sentinel, Subscribers)
    /\ UNCHANGED <<emitted, proc, log, openSlot, inplaceOk, held, window,
                   status, driver, finished, storeVars, crashes, conn, cursor,
                   seen, connects>>

\* interrupt_for_shutdown: sentinels at once, the mark in a task of its own.
Interrupt ==
    /\ "interrupt" \in Disturbances
    /\ proc \in {"starting", "up"}
    /\ ~Done
    /\ interrupt = "no"
    /\ interrupt' = "due"
    /\ Deliver(Sentinel, Subscribers)
    /\ UNCHANGED <<emitted, proc, log, openSlot, inplaceOk, held, window,
                   status, driver, finished, storeVars, crashes, conn, cursor,
                   seen, connects>>

\* The task of interrupt_for_shutdown reaches the write lock.
QueueInterruptMark ==
    /\ proc = "up"
    /\ interrupt = "due"
    /\ interrupt' = "yes"
    /\ writes' = Append(writes, MarkOp("interrupt", {}))
    /\ UNCHANGED <<emitted, proc, log, openSlot, inplaceOk, held, window,
                   status, driver, finished, detached, store, storeStatus,
                   crashes, clientVars>>

\* What the thread of a cancelled coroutine has yet to do.
CallOf(op) == IF op.role = "finish" THEN TerminalMark ELSE op.write

\* A cancelled coroutine leaves the queue of the write lock.  If it held the
\* lock its thread goes on; what it had put into the log stays there.
Abandon(i) ==
    /\ writes' = [j \in 1 .. Len(writes) - 1 |->
                     writes[IF j < i THEN j ELSE j + 1]]
    /\ detached' = IF i = 1 /\ writes[i].saved = "no"
                   THEN detached \cup {CallOf(writes[i])}
                   ELSE detached

\* The driving task is cancelled inside its loop, possibly while its emit
\* awaits the store; it goes on to emit Cancelled and to finish.
Cancel ==
    /\ "cancel" \in Disturbances
    /\ proc = "up"
    /\ driver = "running"
    /\ ~Done
    /\ driver' = "cancelled"
    /\ \/ /\ EmitsInFlight = {}
          /\ UNCHANGED <<writes, detached>>
       \/ \E i \in EmitsInFlight :
             /\ EmitsInFlight = {i}
             /\ Abandon(i)
    /\ UNCHANGED <<emitted, proc, log, openSlot, inplaceOk, held, window,
                   status, interrupt, finished, store, storeStatus, crashes,
                   clientVars>>

\* It is cancelled where nothing catches that: in the handling of an error or
\* of the first cancel, in `finalize' or in an await of `finish'.  Nothing more
\* is emitted or finished, no sentinel is put and `_finished' is never set.
CancelLate ==
    /\ "cancel" \in Disturbances
    /\ proc = "up"
    /\ driver # "gone"
    /\ driver' = "gone"
    /\ \/ /\ ~Done
          /\ EmitsInFlight = {}
          /\ UNCHANGED <<writes, detached>>
       \/ \E i \in DOMAIN writes :
             /\ writes[i].role # "interrupt"
             /\ EmitsInFlight \subseteq {i}
             /\ Abandon(i)
    /\ UNCHANGED <<emitted, proc, log, openSlot, inplaceOk, held, window,
                   status, interrupt, finished, store, storeStatus, crashes,
                   clientVars>>
-------------------------------------------------------------------------------
(***************************************************************************)
(* Reading                                                                 *)
(***************************************************************************)
\* Fault: a replayed entry carries the cursor before it.
BacklogBehind(k) ==
    [i \in 1 .. Len(log) - MinOf(k, Len(log)) |-> Replay(log[k + i], k + i - 1)]

\* Fault: the backlog starts one entry late.
BacklogLate(k) ==
    [i \in 1 .. Len(log) - MinOf(k + 1, Len(log)) |->
        Replay(log[k + 1 + i], k + 1 + i)]

\* The entries after cursor k, each with the cursor after it.
Backlog(k) ==
    [i \in 1 .. Len(log) - MinOf(k, Len(log)) |-> Replay(log[k + i], k + i)]

\* subscribe, up to its first yield.  On a run that is done the generator
\* ends after the backlog as if it had found the sentinel there.
Subscribe(c) ==
    /\ proc = "up"
    /\ conn[c] \in {"off", "ended"}
    /\ connects[c] < MaxConnects
    /\ connects' = [connects EXCEPT ![c] = @ + 1]
    /\ conn' = [conn EXCEPT ![c] = "on"]
    /\ stream' = [stream EXCEPT ![c] =
                    IF Done THEN Append(Backlog(cursor[c]), Sentinel)
                            ELSE Backlog(cursor[c])]
    /\ UNCHANGED <<emitted, proc, runVars, storeVars, crashes, cursor, seen>>

\* The next delivery reaches the client, which keeps its cursor.
Receive(c) ==
    /\ conn[c] = "on"
    /\ stream[c] # <<>>
    /\ LET d == Head(stream[c]) IN
       \/ /\ d.kind # "end"
          /\ seen' = [seen EXCEPT ![c] = @ \cup d.events]
          /\ cursor' = IF d.kind = "live" \/ TrustReplay
                       THEN [cursor EXCEPT ![c] = d.cursor]
                       ELSE cursor
          /\ stream' = [stream EXCEPT ![c] = Tail(@)]
          /\ UNCHANGED conn
       \/ /\ d.kind = "end"
          /\ conn' = [conn EXCEPT ![c] = "draining"]
          /\ stream' = [stream EXCEPT ![c] = <<>>]
          /\ UNCHANGED <<cursor, seen>>
    /\ UNCHANGED <<emitted, proc, runVars, storeVars, crashes, connects>>

\* After the sentinel the generator awaits `wait()' and returns.
EndStream(c) ==
    /\ conn[c] = "draining"
    /\ finished
    /\ conn' = [conn EXCEPT ![c] = "ended"]
    /\ UNCHANGED <<emitted, proc, runVars, storeVars, crashes, stream, cursor,
                   seen, connects>>

\* The client goes away: its generator is closed, its queue discarded.
Disconnect(c) ==
    /\ conn[c] \in {"on", "draining"}
    /\ connects[c] < MaxConnects
    /\ conn' = [conn EXCEPT ![c] = "off"]
    /\ stream' = [stream EXCEPT ![c] = <<>>]
    /\ writes' = [i \in DOMAIN writes |->
                    [writes[i] EXCEPT !.targets = @ \ {c}]]
    /\ UNCHANGED <<emitted, proc, runVars, detached, store, storeStatus,
                   crashes, cursor, seen, connects>>
-------------------------------------------------------------------------------
(***************************************************************************)
(* Process death and recovery                                              *)
(***************************************************************************)
\* Everything in memory is lost; what the store holds stays.
Crash ==
    /\ proc # "down"
    /\ crashes < MaxCrashes
    /\ crashes' = crashes + 1
    /\ proc' = "down"
    /\ log' = <<>>
    /\ openSlot' = 0
    /\ inplaceOk' = TRUE
    /\ held' = {}
    /\ window' = {}
    /\ status' = "running"
    /\ driver' = "running"
    /\ interrupt' = "no"
    /\ finished' = FALSE
    /\ writes' = <<>>
    /\ detached' = {}
    /\ conn' = [c \in Clients |-> IF conn[c] = "ended" THEN "ended" ELSE "off"]
    /\ stream' = [c \in Clients |-> <<>>]
    /\ UNCHANGED <<emitted, store, storeStatus, cursor, seen, connects>>

\* Runtime.recover: a run the store lists as active is started again under
\* its old id, by a new Run object (mark_resuming sets it running).
Recover ==
    /\ proc = "down"
    /\ storeStatus \in {"running", "interrupted"}
    /\ storeStatus' = "running"
    /\ proc' = "starting"
    /\ UNCHANGED <<emitted, runVars, writes, detached, store, crashes,
                   clientVars>>
-------------------------------------------------------------------------------
Run ==
    \/ InitializeStore
    \/ Emit
    \/ StoreCall
    \/ ResumeHolder
    \/ \E outcome \in Outcomes : Finish(outcome)
    \/ QueueInterruptMark

Reader(c) == Subscribe(c) \/ Receive(c) \/ EndStream(c)

Environment ==
    \/ \E c \in Clients : Disconnect(c)
    \/ DetachedCall
    \/ Interrupt
    \/ Cancel
    \/ CancelLate
    \/ Crash
    \/ Recover

Next == Run \/ (\E c \in Clients : Reader(c)) \/ Environment

Spec == Init /\ [][Next]_vars
(***************************************************************************)
(* Fairness: the event loop resumes every coroutine that can go on, worker *)
(* threads return, a connected client reads.  Nothing obliges the driver   *)
(* to emit or to end, a client to connect or leave, a process to die.      *)
(***************************************************************************)
Fairness ==
    /\ WF_vars(InitializeStore)
    /\ WF_vars(StoreCall)
    /\ WF_vars(ResumeHolder)
    /\ WF_vars(QueueInterruptMark)
    /\ \A c \in Clients : WF_vars(Receive(c)) /\ WF_vars(EndStream(c))

FairSpec == Spec /\ Fairness
-------------------------------------------------------------------------------
(***************************************************************************)
(* Properties                                                              *)
(***************************************************************************)
\* Events that are not lost: a crash loses what the store did not have.
Surviving == IF proc = "up" THEN EventsIn(log) \cup held ELSE EventsIn(store)

\* No gaps (execution.py:78-86): a client that has received an event has
\* received every earlier one that still exists, however often it lost its
\* connection or the server died in between.
GapFree ==
    \A c \in Clients : \A e \in seen[c] : \A f \in Surviving :
        f < e => f \in seen[c]

\* A client's credential never vouches for a log entry whose events the
\* client has not received: resubscribing with it skips nothing.  It relates
\* every cursor handed out, through reconnections and restarts, to the log
\* the new process rebuilt from the store (subscribe, _seed_log_from_store).
CursorSound ==
    proc = "up" =>
        \A c \in Clients : \A i \in 1 .. MinOf(cursor[c], Len(log)) :
            log[i] \subseteq seen[c]

\* No duplicates (execution.py:78-86): with the default coalescer no event is
\* ever queued for a client that already has it, nor queued for it twice.
NoDuplicates ==
    \A c \in Clients : \A i \in DOMAIN stream[c] :
        /\ stream[c][i].events \cap seen[c] = {}
        /\ \A j \in 1 .. i - 1 : stream[c][i].events \cap stream[c][j].events = {}

\* Log and store indices stay in lockstep (execution.py:220-226, 464-475),
\* whatever emits race for the write lock: what the store still lacks is queued
\* for it, entry by entry and in the log's order; an entry is the log's unless a
\* newer version is queued for it or an overwrite has failed.  Then the slot
\* keeps a previous snapshot, which the log's has outgrown, never another
\* segment's.
AppendsQueued == {i \in DOMAIN writes :
                    /\ writes[i].write.kind = "append"
                    /\ writes[i].saved = "no"}
ReplacesQueued == {i \in DOMAIN writes :
                    /\ writes[i].write.kind = "replace"
                    /\ writes[i].saved = "no"}
OverwriteFailed ==
    ~inplaceOk \/ \E i \in DOMAIN writes : writes[i].saved = "rejected"
Lockstep ==
    proc = "up" =>
        /\ Len(store) + Cardinality(AppendsQueued) = Len(log)
        /\ \A i \in DOMAIN store :
              /\ store[i] \subseteq log[i]
              /\ \/ store[i] = log[i]
                 \/ \E j \in ReplacesQueued : writes[j].write.at = i
                 \/ OverwriteFailed

\* Overwriting never destroys what another segment recorded: an event that
\* is durable at some index stays durable at that index ("Corrupting someone
\* else's position is irreversible", execution.py:225), whatever store calls
\* fail and whenever the process dies.
StoreOnlyGrows ==
    [][\A i \in DOMAIN store : i \in DOMAIN store' /\ store[i] \subseteq store'[i]]_vars

\* The slot index and the log length are one fact (execution.py:413-415): an
\* open slot is the last entry of the log.
SlotIsLast == openSlot # 0 => openSlot = Len(log)

\* The first terminal status wins, and nothing is logged after it: neither a
\* second finish nor a shutdown racing the first changes what readers find.
TerminalIsFinal ==
    [][(Done /\ proc' = proc) => /\ status' = status
                                 /\ log' = log
                                 /\ (interrupt # "no" <=> interrupt' # "no")]_vars

\* Every event emitted while a client stays connected reaches it.
EveryEventArrives ==
    \A c \in Clients : \A e \in Events :
        (conn[c] = "on" /\ e \in EventsIn(log)) ~>
            (e \in seen[c] \/ conn[c] # "on" \/ interrupt # "no")

\* Once the run has a terminal status every open stream comes to its end,
\* whatever store calls fail and though the driver's emit was cancelled, unless
\* the driver is cancelled where it no longer handles that: `finish' then stops
\* between two awaits and its streams stay open (execution.py:519-559).
StreamsEnd ==
    \A c \in Clients :
        (Done /\ conn[c] \in {"on", "draining"}) ~>
            (conn[c] \in {"off", "ended"} \/ ~Done \/ driver = "gone")
-------------------------------------------------------------------------------
(***************************************************************************)
(* A run with the default coalescer implements the ordered broadcast.      *)
(***************************************************************************)
Broadcast == INSTANCE EventBroadcast
             WITH Readers <- Clients, published <- emitted, taken <- seen

\* Whatever connects, leaves, resubscribes or interrupts, a client reads the
\* run's events in order, each once (emit, subscribe, and the doc of
\* Delivery, execution.py:78-86).
OrderedBroadcast == Broadcast!Spec
===============================================================================
