----------------------------- MODULE ToolDispatch -----------------------------
(***************************************************************************)
(* The tool calls of one run, dispatched to a remote executor, over the    *)
(* deaths of the server process.                                           *)
(*                                                                         *)
(* The Runner (engine/runner.py) appends the batch of calls the model asks *)
(* for to the history, persists it, records it in the RunStore, dispatches *)
(* the calls one after the other and, when all are collected, persists     *)
(* again and clears the records.  A run started again looks at the tail of *)
(* the history and at the records, and dispatches the same batch without   *)
(* asking the model.  The ExecutorLink (executor/link.py) routes an        *)
(* outcome to its waiter, or parks it in the durable ledger if nobody      *)
(* waits yet; the executor replays an outcome until it is acknowledged.    *)
(*                                                                         *)
(* External: the router that calls the link (it records the task id and    *)
(* resumes with it, as docs/06-recovery.md asks), the executor and the     *)
(* connection.  A history message is the batch or the answer it carries.   *)
(***************************************************************************)
EXTENDS Naturals, Sequences

CONSTANTS
    Calls,          \* tool call ids
    Batches,        \* what the model asks for, one sequence of calls a step
    MaxCrashes,     \* bound: deaths of the server process
    MaxFailures,    \* bound: operations that fail without ending the run
    Failing,        \* the operations that may fail
    Interruptions   \* what may end a run early

Operations == {"persist", "record", "pending", "note", "clear", "send",
               "seen", "mark", "park", "take", "ack"}

ASSUME BatchesAssumption ==
    /\ Batches \in Seq(Seq(Calls))
    /\ \A b \in DOMAIN Batches : Batches[b] # <<>>
    /\ \A b, d \in DOMAIN Batches :
         \A i \in DOMAIN Batches[b], j \in DOMAIN Batches[d] :
            Batches[b][i] = Batches[d][j] => b = d /\ i = j
ASSUME BoundsAssumption == MaxCrashes \in Nat /\ MaxFailures \in Nat
ASSUME FailingAssumption == Failing \subseteq Operations
ASSUME InterruptionsAssumption == Interruptions \subseteq {"stop", "shutdown"}

VARIABLES
    db,          \* database: the session's history
    recorded,    \* RunStore: calls with a dispatch record
    taskId,      \* RunStore: task id in a call's record, 0 if it has none
    status,      \* RunStore: the run's status
    seen,        \* ledger: tasks whose outcome has been received
    parked,      \* ledger: parked outcomes
    up,          \* the server process is up
    pc,          \* where the run's driving task is
    memory,      \* Session.messages
    calls,       \* Runner.tool_calls: this step's batch
    index,       \* the call of the batch that is being handled
    first,       \* Runner.step = 0
    resuming,    \* Runner.resuming is not empty
    task,        \* the task the router dispatches for the current call
    stop,        \* Run.stop_requested
    draining,    \* Run.interrupted: the process is going away
    waiting,     \* ExecutorLink._waiting: tasks with a waiter
    queue,       \* outcomes in the waiters' queues
    receiving,   \* the outcome receive() is routing, a set of at most one
    asked,       \* batches the model has asked for
    issued,      \* task ids the router has made, per call
    sent,        \* run_tool messages on their way
    executions,  \* how often the executor has run a call
    outbox,      \* the executor's unacknowledged outcomes
    acks,        \* acknowledgements on their way
    crashes,     \* deaths so far
    failures     \* failures so far

store == <<db, recorded, taskId, status>>
ledger == <<seen, parked>>
step == <<memory, calls, index, first, resuming>>
control == <<pc, task, stop, draining, up>>
link == <<waiting, queue, receiving>>
remote == <<sent, executions, outbox, acks>>
world == <<asked, issued, crashes, failures>>
vars == <<store, ledger, step, control, link, remote, world>>
-------------------------------------------------------------------------------
Task == Calls \X (Nat \ {0})
Ask(batch) == [role |-> "assistant", calls |-> batch]
Answer(c, kind) == [role |-> "tool", call |-> c, kind |-> kind]
Reply == Ask(<<>>)

Message ==
    {Reply} \cup {Ask(Batches[b]) : b \in DOMAIN Batches}
            \cup {Answer(c, kind) : c \in Calls, kind \in {"outcome", "error"}}

Answers(history, c, kinds) ==
    {i \in DOMAIN history : \E kind \in kinds : history[i] = Answer(c, kind)}
Answered(history, c) == Answers(history, c, {"outcome", "error"}) # {}

Init ==
    /\ db = <<>> /\ recorded = {} /\ taskId = [c \in Calls |-> 0]
    /\ status = "running"
    /\ seen = {} /\ parked = {}
    /\ up = TRUE /\ pc = "plan" /\ memory = <<>> /\ calls = <<>> /\ index = 1
    /\ first = TRUE /\ resuming = FALSE /\ task = <<>>
    /\ stop = FALSE /\ draining = FALSE
    /\ waiting = {} /\ queue = {} /\ receiving = {}
    /\ asked = 0 /\ issued = [c \in Calls |-> 0]
    /\ sent = {} /\ executions = [c \in Calls |-> 0] /\ outbox = {} /\ acks = {}
    /\ crashes = 0 /\ failures = 0

\* receive() runs without an await: nothing else happens in the process.
At(label) == up /\ receiving = {} /\ pc = label

Goto(label) == pc' = label /\ UNCHANGED <<task, stop, draining, up>>

\* An operation fails, and the code only logs that.
Fail(operation) ==
    /\ operation \in Failing
    /\ failures < MaxFailures
    /\ failures' = failures + 1
    /\ UNCHANGED <<asked, issued, crashes>>

\* Runner.persist: the delta is everything the database does not have yet.
Persist ==
    /\ \/ db' = memory /\ UNCHANGED world
       \/ Fail("persist") /\ UNCHANGED db
    /\ UNCHANGED <<recorded, taskId, status>>
-------------------------------------------------------------------------------
(***************************************************************************)
(* The Runner                                                              *)
(***************************************************************************)
Current == calls[index]

\* The call has its result: on to the next one, or to the end of the step.
Land(kind) ==
    /\ memory' = Append(memory, Answer(Current, kind))
    /\ index' = index + 1
    /\ pc' = IF index < Len(calls) THEN "call" ELSE "end"
    /\ task' = <<>>
    /\ UNCHANGED <<calls, first, resuming, stop, draining, up>>

\* The batch the history ends with.  Fault: the last batch, answered or not.
TailBatchAnywhere ==
    LET batches == {i \in DOMAIN memory : memory[i].role = "assistant"}
    IN  IF batches = {} THEN <<>>
        ELSE memory[CHOOSE i \in batches : \A j \in batches : j <= i].calls
TailBatch ==
    IF memory = <<>> \/ memory[Len(memory)].role # "assistant" THEN <<>>
    ELSE memory[Len(memory)].calls

\* A batch nobody has answered, and a record of some dispatch of this run: only
\* the first step of a run that was started again looks.
Resumable == first /\ TailBatch # <<>> /\ recorded # {}

\* The same batch again; it is in the history and on record already.
Redispatch ==
    /\ At("plan") /\ ~stop /\ Resumable
    /\ calls' = TailBatch
    /\ index' = 1
    /\ resuming' = TRUE
    /\ Goto("call")
    /\ UNCHANGED <<store, ledger, memory, first, link, remote, world>>

\* The model asks for its next batch, or, when there is none, replies: a step
\* without calls, which has nothing to dispatch.  Records that cannot be read
\* are no records.
Request(batch) ==
    /\ At("plan") /\ ~stop
    /\ \/ ~Resumable /\ UNCHANGED failures
       \/ Resumable /\ "pending" \in Failing
          /\ failures < MaxFailures /\ failures' = failures + 1
    /\ calls' = batch
    /\ memory' = Append(memory, Ask(batch))
    /\ index' = 1
    /\ UNCHANGED <<store, ledger, first, resuming, link, remote>>

AskModel ==
    /\ asked < Len(Batches)
    /\ Request(Batches[asked + 1])
    /\ asked' = asked + 1
    /\ Goto("before")
    /\ UNCHANGED <<issued, crashes>>

Conclude ==
    /\ asked = Len(Batches)
    /\ Request(<<>>)
    /\ Goto("end")
    /\ UNCHANGED <<asked, issued, crashes>>

\* Fault: the batch is written when its results are.
BeforeDispatchUnwritten ==
    At("before") /\ Goto("record") /\ UNCHANGED <<store, ledger, step, link, remote, world>>
BeforeDispatch ==
    /\ At("before") /\ Persist /\ Goto("record")
    /\ UNCHANGED <<ledger, step, link, remote>>

\* record_dispatches, one store call per tool call.
RecordDispatch ==
    /\ At("record")
    /\ \/ recorded' = recorded \cup {Current} /\ UNCHANGED world
       \/ Fail("record") /\ UNCHANGED recorded
    /\ IF index < Len(calls)
         THEN index' = index + 1 /\ Goto("record")
         ELSE index' = 1 /\ Goto("call")
    /\ UNCHANGED <<db, taskId, status, ledger, memory, calls, first, resuming,
                   link, remote>>

\* All calls are collected: on_step_end persists, notifies, clears the records.
EndStep ==
    /\ At("end") /\ Persist /\ Goto("settle")
    /\ UNCHANGED <<ledger, step, link, remote>>

ClearDispatches ==
    \/ recorded' = {} /\ taskId' = [c \in Calls |-> 0] /\ UNCHANGED world
    \/ Fail("clear") /\ UNCHANGED <<recorded, taskId>>

\* A step without calls leaves the records alone, and is the last one.
SettleDispatches ==
    /\ At("settle")
    /\ resuming' = FALSE
    /\ first' = FALSE
    /\ IF calls # <<>>
         THEN ClearDispatches /\ Goto("plan")
         ELSE Goto("final") /\ UNCHANGED <<recorded, taskId, world>>
    /\ UNCHANGED <<db, status, ledger, memory, calls, index, link, remote>>

\* A stop is seen before a step and before each call.
SeeStop ==
    /\ At("plan") \/ At("call")
    /\ stop
    /\ Goto("final")
    /\ UNCHANGED <<store, ledger, step, link, remote, world>>

\* task.cancel(): by the product after stop(), or by the process that goes
\* away.  The tool's own task is not cancelled and goes on waiting.
Cancelled ==
    /\ \E label \in {"plan", "before", "call", "wait", "end", "settle"} : At(label)
    /\ stop \/ draining
    /\ Goto("final")
    /\ UNCHANGED <<store, ledger, step, link, remote, world>>

Finalize ==
    /\ At("final") /\ Persist /\ Goto("finish")
    /\ UNCHANGED <<ledger, step, link, remote>>

\* The recorded status: done and stopped are both an end.
Finish ==
    /\ At("finish")
    /\ status' = IF draining THEN "interrupted" ELSE "ended"
    /\ Goto("none")
    /\ UNCHANGED <<db, recorded, taskId, ledger, step, link, remote, world>>
-------------------------------------------------------------------------------
(***************************************************************************)
(* The router and ExecutorLink.dispatch                                    *)
(***************************************************************************)
\* resume_of names the task of the dispatch before the restart.
Known == resuming /\ taskId[Current] # 0
KnownTask == <<Current, taskId[Current]>>

Dispatching == At("call") /\ ~stop

\* A first dispatch: a fresh task id, on record before anything is sent.
\* Fault: ids start at 0, which the record cannot tell from no id.
IssueTaskFromZero ==
    /\ Dispatching /\ ~Known
    /\ task' = <<Current, issued[Current]>>
    /\ issued' = [issued EXCEPT ![Current] = @ + 1]
    /\ recorded' = recorded \cup {Current}
    /\ taskId' = [taskId EXCEPT ![Current] = issued[Current]]
    /\ pc' = "send"
    /\ UNCHANGED <<db, status, ledger, step, stop, draining, up, link, remote,
                   asked, crashes, failures>>
IssueTask ==
    /\ Dispatching /\ ~Known
    /\ task' = <<Current, issued[Current] + 1>>
    /\ issued' = [issued EXCEPT ![Current] = @ + 1]
    /\ \/ /\ recorded' = recorded \cup {Current}
          /\ taskId' = [taskId EXCEPT ![Current] = issued'[Current]]
          /\ UNCHANGED failures
       \/ /\ "note" \in Failing /\ failures < MaxFailures
          /\ failures' = failures + 1
          /\ UNCHANGED <<recorded, taskId>>
    /\ pc' = "send"
    /\ UNCHANGED <<db, status, ledger, step, stop, draining, up, link, remote,
                   asked, crashes>>

\* The waiter is registered before the task is sent.
Send ==
    /\ At("send")
    /\ waiting' = waiting \cup {task}
    /\ sent' = sent \cup {task}
    /\ Goto("wait")
    /\ UNCHANGED <<store, ledger, step, queue, receiving, executions, outbox,
                   acks, world>>

\* send() raises: the waiter is gone again, and the error is the result.
SendFails ==
    /\ At("send") /\ Fail("send") /\ Land("error")
    /\ UNCHANGED <<store, ledger, link, remote>>

\* A resumed dispatch takes a parked outcome...
TakeParked ==
    /\ Dispatching /\ Known
    /\ KnownTask \in parked
    /\ parked' = parked \ {KnownTask}
    /\ Land("outcome")
    /\ UNCHANGED <<store, seen, link, remote, world>>

\* ... or waits for the replay, and never sends the task again.
\* Faults: it sends the task again; it does not look in the ledger.
AwaitReplayResends ==
    /\ Dispatching /\ Known /\ KnownTask \notin parked
    /\ waiting' = waiting \cup {KnownTask}
    /\ sent' = sent \cup {KnownTask}
    /\ task' = KnownTask
    /\ pc' = "wait"
    /\ UNCHANGED <<store, ledger, step, stop, draining, up, queue, receiving,
                   executions, outbox, acks, world>>
AwaitReplayUnread ==
    /\ Dispatching /\ Known
    /\ waiting' = waiting \cup {KnownTask}
    /\ task' = KnownTask
    /\ pc' = "wait"
    /\ UNCHANGED <<store, ledger, step, stop, draining, up, queue, receiving,
                   remote, world>>
AwaitReplay ==
    /\ Dispatching /\ Known
    /\ \/ KnownTask \notin parked /\ UNCHANGED world
       \/ Fail("take")
    /\ waiting' = waiting \cup {KnownTask}
    /\ task' = KnownTask
    /\ pc' = "wait"
    /\ UNCHANGED <<store, ledger, step, stop, draining, up, queue, receiving,
                   remote>>

\* The dispatch returns and takes its waiter, and the waiter's queue, away.
Return(kind) ==
    /\ waiting' = waiting \ {task}
    /\ queue' = queue \ {task}
    /\ Land(kind)
    /\ UNCHANGED <<store, ledger, receiving, remote, world>>

Collect == At("wait") /\ task \in queue /\ Return("outcome")
\* Fault: a replay is waited for without a deadline.
TimeOutOfFirst == At("wait") /\ ~resuming /\ task \notin queue /\ Return("error")
TimeOut == At("wait") /\ task \notin queue /\ Return("error")

\* The task of a cancelled call: nobody takes the result it returns.
Orphan(t) ==
    /\ up /\ receiving = {}
    /\ t \in waiting /\ ~(pc = "wait" /\ t = task)
    /\ waiting' = waiting \ {t}
    /\ queue' = queue \ {t}
    /\ UNCHANGED <<store, ledger, step, control, receiving, remote, world>>
-------------------------------------------------------------------------------
(***************************************************************************)
(* ExecutorLink.receive, and the executor                                  *)
(***************************************************************************)
\* An outcome that is seen for the first time, or whose record is unreadable;
\* the mark is written before the outcome is routed.
ReceiveNew(t) ==
    /\ up /\ receiving = {} /\ t \in outbox
    /\ \/ /\ t \notin seen
          /\ \/ seen' = seen \cup {t} /\ UNCHANGED world
             \/ Fail("mark") /\ UNCHANGED seen
       \/ t \in seen /\ Fail("seen") /\ UNCHANGED seen
    /\ receiving' = {t}
    /\ UNCHANGED <<store, parked, step, control, waiting, queue, remote>>

Route(t) ==
    /\ up /\ t \in receiving
    /\ receiving' = {}
    /\ IF t \in waiting
         THEN queue' = queue \cup {t} /\ UNCHANGED <<parked, world>>
         ELSE /\ \/ parked' = parked \cup {t} /\ UNCHANGED world
                 \/ Fail("park") /\ UNCHANGED parked
              /\ UNCHANGED queue
    /\ acks' = acks \cup {t}
    /\ UNCHANGED <<store, seen, step, control, waiting, sent, executions, outbox>>

\* A duplicate is only acknowledged.  Fault: it is ignored.
ReceiveAgainSilent(t) == up /\ receiving = {} /\ t \in outbox \cap seen /\ UNCHANGED vars
ReceiveAgain(t) ==
    /\ up /\ receiving = {}
    /\ t \in outbox \cap seen
    /\ acks' = acks \cup {t}
    /\ UNCHANGED <<store, ledger, step, control, link, sent, executions, outbox,
                   world>>

Acknowledged(t) ==
    /\ t \in acks
    /\ acks' = acks \ {t}
    /\ outbox' = outbox \ {t}
    /\ UNCHANGED <<store, ledger, step, control, link, sent, executions, world>>

LoseAck(t) ==
    /\ t \in acks /\ Fail("ack")
    /\ acks' = acks \ {t}
    /\ UNCHANGED <<store, ledger, step, control, link, sent, executions, outbox>>

Execute(t) ==
    /\ t \in sent
    /\ sent' = sent \ {t}
    /\ executions' = [executions EXCEPT ![t[1]] = @ + 1]
    /\ outbox' = outbox \cup {t}
    /\ UNCHANGED <<store, ledger, step, control, link, acks, world>>

LoseTask(t) ==
    /\ t \in sent
    /\ sent' = sent \ {t}
    /\ UNCHANGED <<store, ledger, step, control, link, executions, outbox, acks,
                   world>>
-------------------------------------------------------------------------------
(***************************************************************************)
(* The life of the process                                                 *)
(***************************************************************************)
Driving == up /\ receiving = {} /\ pc # "none"

RequestStop ==
    /\ "stop" \in Interruptions
    /\ Driving /\ ~stop
    /\ stop' = TRUE
    /\ UNCHANGED <<store, ledger, step, pc, task, draining, up, link, remote, world>>

\* The shutdown sweep leaves the driving task alone; the process that goes
\* away cancels it, or just dies.
Shutdown ==
    /\ "shutdown" \in Interruptions /\ crashes < MaxCrashes
    /\ Driving /\ ~draining
    /\ draining' = TRUE
    /\ status' = "interrupted"
    /\ UNCHANGED <<db, recorded, taskId, ledger, step, pc, task, stop, up, link,
                   remote, world>>

Forget ==
    /\ memory' = <<>> /\ calls' = <<>> /\ index' = 1
    /\ first' = TRUE /\ resuming' = FALSE
    /\ task' = <<>> /\ stop' = FALSE /\ draining' = FALSE
    /\ waiting' = {} /\ queue' = {} /\ receiving' = {}

Crash ==
    /\ up /\ crashes < MaxCrashes
    /\ crashes' = crashes + 1
    /\ up' = FALSE /\ pc' = "none"
    /\ Forget
    /\ acks' = {}
    /\ UNCHANGED <<store, ledger, sent, executions, outbox, asked, issued, failures>>

\* The process is back and takes the executor's messages...
Restart ==
    /\ ~up
    /\ up' = TRUE
    /\ UNCHANGED <<store, ledger, step, pc, task, stop, draining, link, remote, world>>

\* ... and starts the run again, from the history in the database.
Recover ==
    /\ At("none") /\ ~draining
    /\ status \in {"running", "interrupted"}
    /\ status' = "running"
    /\ memory' = db
    /\ Goto("plan")
    /\ UNCHANGED <<db, recorded, taskId, ledger, calls, index, first, resuming,
                   link, remote, world>>
-------------------------------------------------------------------------------
Tasks == waiting \cup receiving \cup outbox \cup acks \cup sent

RunStep ==
    \/ Redispatch \/ AskModel \/ Conclude \/ BeforeDispatch \/ RecordDispatch
    \/ EndStep \/ SettleDispatches \/ SeeStop \/ Finalize \/ Finish
    \/ IssueTask \/ Send \/ TakeParked \/ AwaitReplay \/ Collect \/ TimeOut
    \/ Recover

LinkStep(t) == ReceiveNew(t) \/ Route(t) \/ ReceiveAgain(t)

Next ==
    \/ RunStep \/ Cancelled \/ SendFails
    \/ \E t \in Tasks :
         \/ LinkStep(t) \/ Acknowledged(t) \/ LoseAck(t)
         \/ Execute(t) \/ LoseTask(t) \/ Orphan(t)
    \/ RequestStop \/ Shutdown \/ Crash \/ Restart

Spec == Init /\ [][Next]_vars

\* The event loop runs what is ready, timeouts expire, a process that goes away
\* does so and is started again, and the executor replays what it still has.
FairSpec ==
    /\ Spec
    /\ WF_vars(RunStep) /\ WF_vars(Restart) /\ WF_vars(draining /\ Crash)
    /\ WF_vars(\E t \in Tasks : LinkStep(t))
    /\ WF_vars(\E t \in Tasks : Acknowledged(t))
-------------------------------------------------------------------------------
(***************************************************************************)
(* Properties                                                              *)
(***************************************************************************)
Labels == {"none", "plan", "before", "record", "call", "send", "wait", "end",
           "settle", "final", "finish"}

TypeOK ==
    /\ db \in Seq(Message) /\ memory \in Seq(Message)
    /\ recorded \subseteq Calls /\ taskId \in [Calls -> Nat]
    /\ status \in {"running", "interrupted", "ended"}
    /\ calls \in {<<>>} \cup {Batches[b] : b \in DOMAIN Batches}
    /\ index \in 1..Len(calls) + 1
    /\ pc \in Labels
    /\ up \in BOOLEAN /\ first \in BOOLEAN /\ resuming \in BOOLEAN
    /\ stop \in BOOLEAN /\ draining \in BOOLEAN
    /\ seen \subseteq Task /\ parked \subseteq Task /\ waiting \subseteq Task
    /\ queue \subseteq Task /\ receiving \subseteq Task
    /\ sent \subseteq Task /\ outbox \subseteq Task /\ acks \subseteq Task
    /\ task \in Task \cup {<<>>}
    /\ asked \in 0..Len(Batches) /\ issued \in [Calls -> Nat]
    /\ executions \in [Calls -> Nat]
    /\ crashes \in 0..MaxCrashes /\ failures \in 0..MaxFailures

\* No tool call is run twice, whatever dies and however often the run is
\* dispatched again ("it never sends ``run_tool`` again, avoiding duplicate
\* execution", ExecutorLink.dispatch).
AtMostOnce == \A c \in Calls : executions[c] <= 1

\* The history has one answer per call: a batch that is dispatched again has
\* no answer yet.
OneAnswer ==
    \A c \in Calls, i, j \in DOMAIN memory :
        (/\ memory[i].role = "tool" /\ memory[i].call = c
         /\ memory[j].role = "tool" /\ memory[j].call = c) => i = j

\* What an executor may have been sent is in the database, with the task's id
\* in the RunStore until its answer, or a later turn of the model, is in the
\* database too: a process that dies at any point leaves the evidence its
\* successor resumes from (before_dispatch; settle_dispatches after persist).
EvidenceFirst ==
    failures = 0 =>
        \A t \in sent \cup outbox \cup waiting :
            \E i \in DOMAIN db :
                /\ \E b \in DOMAIN Batches :
                     /\ db[i] = Ask(Batches[b])
                     /\ \E k \in DOMAIN Batches[b] : Batches[b][k] = t[1]
                /\ \/ taskId[t[1]] = t[2]
                   \/ Answered(db, t[1])
                   \/ \E j \in DOMAIN db : j > i /\ db[j].role = "assistant"

\* Nobody waits for an outcome that is already parked: a waiter that looked in
\* the ledger too early, or not at all, would time out with the answer at hand.
NeverBehindParked == failures = 0 => waiting \cap parked = {}

\* Every outcome leaves the executor's outbox, whether it was waited for,
\* parked or a duplicate ("Duplicate terminal outcomes still need
\* acknowledgement", ExecutorLink.receive).
OutboxDrains == \A c \in Calls : <<c, 1>> \in outbox ~> <<c, 1>> \notin outbox

\* The run comes to an end whatever became of its tasks: no dispatch, resumed
\* or not, waits for ever for a task that was never sent or an outcome that
\* is gone.
RunEnds == <>(status = "ended")

\* A run that is started again never asks the model while a call of an
\* earlier process is out and uncollected ("calling the LLM again would make
\* the model re-request the same batch of tools", Runner.plan_step).
NeverAsksOver ==
    [][AskModel \/ Conclude =>
         \A c \in Calls : first /\ taskId[c] # 0 => Answered(memory, c)]_vars
===============================================================================
