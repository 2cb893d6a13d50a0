---------------------------- MODULE SessionHistory ----------------------------
(***************************************************************************)
(* The history of one session, in memory and in the database, over the     *)
(* runs that load it, extend it and write it back.                         *)
(*                                                                         *)
(* A run (engine/runner.py) loads the history, appends to it, edits its    *)
(* last reply or cuts a batch of calls, and persists after every phase: a  *)
(* worker thread compares two lengths and appends, truncates or replaces   *)
(* the last message (seams/database.py).  The session has one run at a     *)
(* time (SessionMarkers); a write that fails is logged and the run goes    *)
(* on, and a cancelled run leaves the thread of its write behind.          *)
(*                                                                         *)
(* External: the model, the tools, and the product that edits the history  *)
(* between runs and saves it.                                              *)
(***************************************************************************)
EXTENDS Naturals, Sequences, FiniteSets

CONSTANTS
    MaxRuns,        \* bound: runs of the session
    MaxMessages,    \* bound: messages ever made
    MaxArrivals,    \* bound: messages delivered to the inbox
    MaxCrashes,     \* bound: deaths of the process
    MaxFailures,    \* bound: store operations that fail
    MaxAdrift,      \* bound: store operations whose caller is cancelled
    MaxFaults,      \* bound: these three together
    BatchSizes,     \* how many calls the model may ask for in a step
    Arrivals,       \* roles of the messages that are delivered
    Suspensions     \* the ways a tool call may suspend the run

ASSUME BoundsAssumption ==
    {MaxRuns, MaxMessages, MaxArrivals, MaxCrashes, MaxFailures, MaxAdrift, MaxFaults}
        \subseteq Nat
ASSUME BatchSizesAssumption == BatchSizes \subseteq Nat \ {0}
ASSUME ArrivalsAssumption == Arrivals \subseteq {"user", "companion"}
ASSUME SuspensionsAssumption == Suspensions \subseteq {"request", "after", "gate"}

VARIABLES
    db,         \* database: the messages
    ask,        \* database: the call whose question is pending, as a sequence
    memory,     \* Session.messages
    pending,    \* Session.meta: the pending question
    pc,         \* where the session's run, or the product, is
    op,         \* the store operation that is awaited
    next,       \* where its caller goes on
    adrift,     \* the operations in worker threads nobody waits for any more
    batch,      \* Runner.tool_calls
    at,         \* the call of the batch that is being handled
    suspended,  \* Runner.suspend_marker: the suspended call
    inbox,      \* the roles of the messages waiting at each boundary
    made,       \* messages made so far
    runs, arrived, crashes, failures, cancels,
    over        \* history variable: the calls a run was started over, not answered

database == <<db, ask>>
session == <<memory, pending>>
io == <<op, next, adrift>>
step == <<batch, at, suspended>>
counters == <<runs, arrived, crashes, failures, cancels, over>>
vars == <<database, session, pc, io, step, inbox, made, counters>>
-------------------------------------------------------------------------------
Call == (1..MaxMessages) \X (Nat \ {0})
Message == [id: 1..MaxMessages, role: {"user", "companion", "assistant", "tool"},
            calls: Seq(Call), text: Nat \ {0}]
NoOp == [kind |-> "none", history |-> <<>>, n |-> 0]

New(n, role, theCalls) == [id |-> made + n, role |-> role, calls |-> theCalls, text |-> 1]

Holds(message, role, call) ==
    message.role = role /\ \E k \in DOMAIN message.calls : message.calls[k] = call
HasToolCall(history, call) == \E i \in DOMAIN history : Holds(history[i], "assistant", call)
HasToolResult(history, call) == \E i \in DOMAIN history : Holds(history[i], "tool", call)

\* A companion is metadata attached to what precedes it: what is open is the
\* last message but companions, if it is a reply without calls.
EndsWithOpenReply(history) ==
    \E i \in DOMAIN history :
        /\ history[i].role = "assistant" /\ history[i].calls = <<>>
        /\ \A j \in i + 1..Len(history) : history[j].role = "companion"

\* The message whose calls end after the suspended one, if it must be cut.
CutAt(history, call) ==
    {i \in DOMAIN history :
        /\ Holds(history[i], "assistant", call)
        /\ history[i].calls[Len(history[i].calls)] # call}
Upto(theCalls, call) ==
    SubSeq(theCalls, 1, CHOOSE k \in DOMAIN theCalls : theCalls[k] = call)
TruncateToolCallsAfter(history, call) ==
    [i \in DOMAIN history |->
        IF i \in CutAt(history, call)
        THEN [history[i] EXCEPT !.calls = Upto(@, call)] ELSE history[i]]

Init ==
    /\ db = <<>> /\ ask = <<>> /\ memory = <<>> /\ pending = <<>>
    /\ pc = "idle" /\ op = NoOp /\ next = "idle" /\ adrift = <<>>
    /\ batch = <<>> /\ at = 1 /\ suspended = <<>>
    /\ inbox = [step |-> <<>>, turn |-> <<>>]
    /\ made = 0 /\ runs = 0 /\ arrived = 0
    /\ crashes = 0 /\ failures = 0 /\ cancels = 0 /\ over = {}

\* Messages are made at the end of the history.
Grow(messages) ==
    /\ made + Len(messages) <= MaxMessages
    /\ made' = made + Len(messages)
    /\ memory' = memory \o messages

Goto(label) == pc' = label /\ UNCHANGED io

\* Fault: the next call is not reset.
TakeUpWhereItWas(theCalls) == batch' = theCalls /\ UNCHANGED at
TakeUp(theCalls) == batch' = theCalls /\ at' = 1

\* persist: the caller waits for the thread.
Persist(history, label) ==
    /\ op' = [kind |-> "count", history |-> history, n |-> 0]
    /\ pc' = "io" /\ next' = label
    /\ UNCHANGED adrift

FaultsLeft == crashes + failures + cancels < MaxFaults
Fail ==
    /\ failures < MaxFailures /\ FaultsLeft
    /\ failures' = failures + 1
    /\ UNCHANGED <<runs, arrived, crashes, cancels, over>>
-------------------------------------------------------------------------------
(***************************************************************************)
(* The product: load, edit and save, start                                 *)
(***************************************************************************)
\* Fault: a batch that waits for its results is left out.
LoadedWithoutTail ==
    IF db # <<>> /\ db[Len(db)].role = "assistant" /\ db[Len(db)].calls # <<>>
    THEN SubSeq(db, 1, Len(db) - 1) ELSE db
Loaded == db
Load ==
    /\ pc = "idle"
    /\ memory' = Loaded /\ pending' = ask
    /\ Goto("loaded")
    /\ UNCHANGED <<database, step, inbox, made, counters>>

\* truncate_after keeps the companions of the message; the edit is saved before
\* anything else ("first edit and persist", docs/api_surface.md).
Edit ==
    /\ pc = "loaded"
    /\ \E i \in DOMAIN memory :
         LET dropped == {j \in i + 1..Len(memory) :
                            \E k \in i + 1..j : memory[k].role # "companion"}
             kept == SubSeq(memory, 1, Len(memory) - Cardinality(dropped))
         IN  /\ dropped # {}
             /\ memory' = kept
             /\ Persist(kept, "loaded")
    /\ UNCHANGED <<database, pending, step, inbox, made, counters>>

\* The question the session was loaded with, if it has no answer yet.
OpenCalls == {c \in {pending[n] : n \in DOMAIN pending} : ~HasToolResult(memory, c)}

Begin(label) ==
    /\ pc = "loaded" /\ runs < MaxRuns
    /\ runs' = runs + 1
    /\ TakeUp(<<>>) /\ suspended' = <<>>
    /\ Goto(label)
    /\ UNCHANGED <<database, pending, inbox, arrived, crashes, failures, cancels>>

\* accept_query.  Nobody refuses a text while a question is open: the question is
\* kept, and may be answered in a later run.  (A run that recovers dispatches the batch
\* at the end again: ToolDispatch.)
StartOver == Begin("plan") /\ over' = over \cup OpenCalls
StartWithText ==
    StartOver /\ Grow(<<New(1, "user", <<>>)>>)
StartFromState ==
    StartOver /\ UNCHANGED <<memory, made>>
StartWithAnswer ==
    Begin("answer") /\ UNCHANGED <<memory, made, over>>

Deliver ==
    /\ arrived < MaxArrivals
    /\ arrived' = arrived + 1
    /\ \E role \in Arrivals, boundary \in {"step", "turn"} :
         inbox' = [inbox EXCEPT ![boundary] = Append(@, role)]
    /\ UNCHANGED <<database, session, pc, io, step, made, runs, crashes, failures, cancels, over>>
-------------------------------------------------------------------------------
(***************************************************************************)
(* The run                                                                 *)
(***************************************************************************)
\* apply_answer: refused if there is nothing to answer, or an answer already.
\* A call the history has lost gets a message of its own before its result.
\* Faults: the answer is not looked for; the lost call is not put back.
AnswerPossibleAlways == pending # <<>>
AnswerPossible == pending # <<>> /\ ~HasToolResult(memory, pending[1])
AnswerMessagesUnpaired == <<New(1, "tool", pending)>>
AnswerMessages ==
    IF HasToolCall(memory, pending[1]) THEN <<New(1, "tool", pending)>>
    ELSE <<New(1, "assistant", pending), New(2, "tool", pending)>>

ApplyAnswer ==
    /\ pc = "answer" /\ AnswerPossible
    /\ Grow(AnswerMessages)
    /\ pending' = <<>>
    /\ \/ ask' = <<>> /\ UNCHANGED counters
       \/ Fail /\ UNCHANGED ask
    /\ Persist(memory', "plan")
    /\ UNCHANGED <<db, step, inbox>>
RefuseAnswer ==
    /\ pc = "answer" /\ ~AnswerPossible
    /\ Persist(memory, "finish")
    /\ UNCHANGED <<database, session, step, inbox, made, counters>>

\* build_reply: a reply goes on at the end of the history, if that is open.
Reply ==
    /\ pc = "plan"
    /\ TakeUp(<<>>) /\ UNCHANGED suspended
    /\ IF EndsWithOpenReply(memory)
         THEN memory' = [memory EXCEPT ![Len(memory)].text = @ + 1] /\ UNCHANGED made
         ELSE Grow(<<New(1, "assistant", <<>>)>>)
    /\ Persist(memory', "next")
    /\ UNCHANGED <<database, pending, inbox, counters>>

\* The batch is written before its first call is handled.
AskForTools ==
    /\ pc = "plan"
    /\ \E size \in BatchSizes : TakeUp([k \in 1..size |-> <<made + 1, k>>])
    /\ UNCHANGED suspended
    /\ Grow(<<New(1, "assistant", batch')>>)
    /\ Persist(memory', "tools")
    /\ UNCHANGED <<database, pending, inbox, counters>>

ToolResult ==
    /\ pc = "tools" /\ at <= Len(batch)
    /\ Grow(<<New(1, "tool", <<batch[at]>>)>>)
    /\ at' = at + 1
    /\ Goto("tools")
    /\ UNCHANGED <<database, pending, batch, suspended, inbox, counters>>

\* suspend_for: what is cut is rewritten at once, then the question is recorded.
\* Fault: it is left to the next persist.
SuspendForCutUnwritten(call) ==
    /\ memory' = TruncateToolCallsAfter(memory, call)
    /\ Goto("mark")
SuspendForCut(call) ==
    /\ memory' = TruncateToolCallsAfter(memory, call)
    /\ IF CutAt(memory, call) = {} THEN Goto("mark")
       ELSE /\ \E i \in CutAt(memory, call) :
                 op' = [kind |-> "replace", history |-> memory', n |-> i]
            /\ pc' = "io" /\ next' = "mark" /\ UNCHANGED adrift

\* A suspension by after_execute cuts, one by the gate does not; neither writes.
Suspend ==
    /\ pc = "tools" /\ at <= Len(batch)
    /\ suspended' = <<batch[at]>>
    /\ \E kind \in Suspensions :
         \/ kind = "request" /\ SuspendForCut(batch[at])
         \/ /\ kind = "after"
            /\ memory' = TruncateToolCallsAfter(memory, batch[at])
            /\ Persist(memory', "finish")
         \/ /\ kind = "gate" /\ UNCHANGED memory
            /\ Persist(memory, "finish")
    /\ UNCHANGED <<database, pending, batch, at, inbox, made, counters>>

MarkSuspended ==
    /\ pending' = suspended
    /\ \/ ask' = suspended /\ UNCHANGED counters
       \/ Fail /\ UNCHANGED ask
    /\ UNCHANGED <<db, memory, step, inbox, made>>
MarkQuestion == pc = "mark" /\ MarkSuspended /\ Persist(memory, "finish")

\* Messages for the interval between two steps; on_step_end persists.
Interval ==
    /\ pc = "tools" /\ at > Len(batch)
    /\ Grow([i \in DOMAIN inbox.step |-> New(i, inbox.step[i], <<>>)])
    /\ inbox' = [inbox EXCEPT !.step = <<>>]
    /\ Persist(memory', "next")
    /\ UNCHANGED <<database, pending, step, counters>>

NextStep ==
    /\ pc = "next" /\ batch # <<>>
    /\ Goto("plan")
    /\ UNCHANGED <<database, session, step, inbox, made, counters>>

\* Where the run would end, both queues are looked at.
Arrived == inbox.step \o inbox.turn
GoOn ==
    /\ pc = "next" /\ batch = <<>> /\ Arrived # <<>>
    /\ Grow([i \in DOMAIN Arrived |-> New(i, Arrived[i], <<>>)])
    /\ inbox' = [step |-> <<>>, turn |-> <<>>]
    /\ Persist(memory', "plan")
    /\ UNCHANGED <<database, pending, step, counters>>
Conclude ==
    /\ pc = "next" /\ batch = <<>> /\ Arrived = <<>>
    /\ Persist(memory, "finish")
    /\ UNCHANGED <<database, session, step, inbox, made, counters>>

\* A stop seen at a boundary, or a failure of the model: the run is finalized
\* where it is.  So is one that is cancelled, which does not settle its markers.
Interrupted ==
    /\ pc \in {"plan", "answer", "tools", "next"}
    /\ \E label \in {"finish", "idle"} : Persist(memory, label)
    /\ UNCHANGED <<database, session, step, inbox, made, counters>>

\* settle_session_markers: it records a question nobody has recorded yet, and
\* clears the question of a run that looks dead (SessionMarkers has the guard).
ClearQuestion ==
    /\ suspended = <<>> /\ ask # <<>>
    /\ pending' = <<>>
    /\ \/ ask' = <<>> /\ UNCHANGED counters
       \/ Fail /\ UNCHANGED ask
    /\ UNCHANGED <<db, memory, step, inbox, made>>
LeaveQuestion ==
    /\ suspended = <<>> \/ pending # <<>>
    /\ UNCHANGED <<database, session, step, inbox, made, counters>>
Finish ==
    /\ pc = "finish"
    /\ \/ suspended # <<>> /\ pending = <<>> /\ MarkSuspended
       \/ ClearQuestion
       \/ LeaveQuestion
    /\ Goto("idle")
-------------------------------------------------------------------------------
(***************************************************************************)
(* The database                                                            *)
(***************************************************************************)
\* sync_session, given the length it has read: append, truncate or replace.
\* Fault: it appends from a length that counts from one.
SyncedOffByOne(history, stored) ==
    IF Len(history) > stored THEN db \o SubSeq(history, stored + 2, Len(history))
    ELSE IF Len(history) < stored THEN SubSeq(db, 1, Len(history)) ELSE db
Replaced(history, i) == IF i \in DOMAIN db THEN [db EXCEPT ![i] = history[i]] ELSE db
Synced(history, stored) ==
    IF Len(history) > stored THEN db \o SubSeq(history, stored + 1, Len(history))
    ELSE IF Len(history) < stored
      THEN SubSeq(db, 1, IF Len(history) < Len(db) THEN Len(history) ELSE Len(db))
      ELSE Replaced(history, stored)

Counted(o) == [o EXCEPT !.kind = "write", !.n = Len(db)]
Write(o) ==
    db' = IF o.kind = "write" THEN Synced(o.history, o.n) ELSE Replaced(o.history, o.n)

StoreCount ==
    /\ op.kind = "count"
    /\ op' = Counted(op)
    /\ UNCHANGED <<database, session, pc, next, adrift, step, inbox, made, counters>>

Return(label) == op' = NoOp /\ pc' = label /\ next' = "idle" /\ UNCHANGED adrift

StoreWrite ==
    /\ op.kind \in {"write", "replace"}
    /\ Write(op)
    /\ Return(next)
    /\ UNCHANGED <<ask, session, step, inbox, made, counters>>

\* The run only logs the failure; the product's save raises.
StoreFails ==
    /\ op # NoOp /\ Fail
    /\ Return(IF next = "loaded" THEN "idle" ELSE next)
    /\ UNCHANGED <<database, session, step, inbox, made>>

\* A run that is cancelled while it persists: the session's lock is released,
\* the thread, if it has started, goes on.  The run is finalized, unless it was
\* that already; its markers are not settled.
CancelWhileStoring ==
    /\ op # NoOp /\ next # "loaded" /\ cancels < MaxAdrift /\ FaultsLeft
    /\ cancels' = cancels + 1
    /\ adrift' = Append(adrift, op)
    /\ IF next \in {"finish", "idle"}
         THEN pc' = "idle" /\ next' = "idle" /\ op' = NoOp
         ELSE /\ pc' = "io" /\ next' = "idle"
              /\ op' = [kind |-> "count", history |-> memory, n |-> 0]
    /\ UNCHANGED <<database, session, step, inbox, made, runs, arrived, crashes, failures, over>>

Rest(i) == SubSeq(adrift, 1, i - 1) \o SubSeq(adrift, i + 1, Len(adrift))
AdriftCounts(i) ==
    /\ adrift[i].kind = "count"
    /\ adrift' = [adrift EXCEPT ![i] = Counted(@)]
    /\ UNCHANGED db
AdriftWrites(i) ==
    /\ adrift[i].kind # "count"
    /\ Write(adrift[i])
    /\ adrift' = Rest(i)
AdriftEnds(i) == adrift' = Rest(i) /\ UNCHANGED db
Adrift ==
    /\ \E i \in DOMAIN adrift : AdriftCounts(i) \/ AdriftWrites(i) \/ AdriftEnds(i)
    /\ UNCHANGED <<ask, session, pc, op, next, step, inbox, made, counters>>

Crash ==
    /\ crashes < MaxCrashes /\ FaultsLeft
    /\ crashes' = crashes + 1
    /\ memory' = <<>> /\ pending' = <<>> /\ pc' = "idle"
    /\ op' = NoOp /\ next' = "idle" /\ adrift' = <<>>
    /\ batch' = <<>> /\ at' = 1 /\ suspended' = <<>>
    /\ inbox' = [step |-> <<>>, turn |-> <<>>]
    /\ UNCHANGED <<database, made, runs, arrived, failures, cancels, over>>
-------------------------------------------------------------------------------
Product == Load \/ Edit \/ StartWithText \/ StartFromState \/ StartWithAnswer \/ Deliver
RunStep ==
    \/ ApplyAnswer \/ RefuseAnswer \/ Reply \/ AskForTools \/ ToolResult \/ Suspend
    \/ MarkQuestion \/ Interval \/ NextStep \/ GoOn \/ Conclude \/ Interrupted \/ Finish
Store == StoreCount \/ StoreWrite \/ StoreFails \/ CancelWhileStoring \/ Adrift

Next == Product \/ RunStep \/ Store \/ Crash
Spec == Init /\ [][Next]_vars
-------------------------------------------------------------------------------
(***************************************************************************)
(* Properties                                                              *)
(***************************************************************************)
Labels == {"idle", "loaded", "plan", "answer", "tools", "mark", "next", "io", "finish"}
Question(q) == q \in Seq(Call) /\ Len(q) <= 1
Operation == [kind: {"none", "count", "write", "replace"}, history: Seq(Message), n: Nat]

TypeOK ==
    /\ db \in Seq(Message) /\ memory \in Seq(Message)
    /\ Question(ask) /\ Question(pending) /\ Question(suspended)
    /\ pc \in Labels /\ next \in Labels \ {"io"}
    /\ op \in Operation /\ (op = NoOp <=> pc # "io")
    /\ adrift \in Seq(Operation)
    /\ batch \in Seq(Call) /\ at \in 1..Len(batch) + 1
    /\ inbox \in [{"step", "turn"} -> Seq(Arrivals)]
    /\ made \in 0..MaxMessages
    /\ runs \in 0..MaxRuns /\ arrived \in 0..MaxArrivals
    /\ crashes \in 0..MaxCrashes /\ failures \in 0..MaxFailures /\ cancels \in 0..MaxAdrift
    /\ over \subseteq Call

\* The database and the run agree, message by message, on what both have: no
\* write, failed or not, in whatever order of failures and deaths, leaves a
\* message of another turn in between (sync_session compares lengths only).
PositionsAgree ==
    (cancels = 0 /\ pc # "idle") =>
        \A i \in DOMAIN db \cap DOMAIN memory : db[i].id = memory[i].id

\* When a run has finished, and nothing failed, the database has its history,
\* replies that were continued and batches that were cut included ("progress is
\* never lost", Runner.finalize; "a mid-history edit must be persisted on the
\* spot", Runner.persist_message).
RunIsStored == (pc = "finish" /\ failures = 0 /\ cancels = 0) => db = memory

\* What the database has of a run it keeps: only the product's edit makes it
\* shorter.
OnlyEditsTruncate == [][cancels = 0 /\ next # "loaded" => Len(db') >= Len(db)]_vars

\* A call is answered once, however often an answer is submitted, the process
\* dies or the question's marker is left behind (apply_answer).
OneResultPerCall ==
    cancels = 0 =>
        \A i, j \in DOMAIN memory :
            (/\ memory[i].role = "tool" /\ memory[j].role = "tool"
             /\ memory[i].calls = memory[j].calls) => i = j

\* The model sees every result behind its call, and right behind it, with only
\* results in between, also when a call is suspended and answered in a later run
\* ("a valid pair -- otherwise a dangling tool result gets dropped and the model
\* never sees the answer", apply_answer) -- unless a run was started over the
\* open question, with a text or from the state: its messages then lie between.
ResultsFollowCalls ==
    (cancels = 0 /\ pc = "plan") =>
        \A j \in DOMAIN memory : memory[j].role = "tool" =>
            \E i \in 1..j - 1 :
                /\ Holds(memory[i], "assistant", memory[j].calls[1])
                /\ memory[j].calls[1] \notin over =>
                       \A k \in i + 1..j - 1 : memory[k].role = "tool"

\* A message is written once: the operations on one session are serialized, and
\* no write overtakes another (seams/database.py, _database_call).
WrittenOnce == \A i, j \in DOMAIN db : db[i].id = db[j].id => i = j
===============================================================================
