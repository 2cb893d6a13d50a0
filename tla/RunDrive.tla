-------------------------------- MODULE RunDrive --------------------------------
(***************************************************************************)
(* How a run is driven (Runner.drive and the methods it calls,             *)
(* engine/runner.py), and how it is stopped, cancelled, and started again  *)
(* (run supervision, engine/runtime.py; Run.stop, engine/execution.py).    *)
(*                                                                         *)
(* A run's task goes from one await to the next; pc says at which it       *)
(* waits.  A stop only sets a flag, which the task reads at its            *)
(* checkpoints; it comes from the process itself or through the store, to  *)
(* which a watcher beside the task looks.  A hard cancel ends the await.   *)
(* One run of the session at a time is in its loop, so the state of the    *)
(* step is kept once.  Of the history only its last message counts here;   *)
(* SessionHistory and ToolDispatch have the rest.                          *)
(*                                                                         *)
(* The provider, the tools, the users and the product are external.        *)
(* Nothing bounds the steps of a run: a session may go on for ever.        *)
(***************************************************************************)
EXTENDS Naturals, FiniteSets

CONSTANTS
    Runs,          \* run ids of the session
    None,          \* no run
    Messages,      \* messages delivered to the session while it works
    MaxText,       \* bound: pieces of text in one stream
    MaxCalls,      \* bound: calls in one step
    MaxAttempts,   \* LLMStreamRetryPolicy.max_attempts; 1 without a policy
    MaxRescues,    \* silent_reply_max_rescues; 0 without rescues
    MaxCrashes     \* bound: process deaths

ASSUME NoneAssumption == None \notin Runs
ASSUME BoundsAssumption ==
    /\ {MaxText, MaxRescues, MaxCrashes} \subseteq Nat
    /\ {MaxCalls, MaxAttempts} \subseteq Nat \ {0}

VARIABLES
    pc,            \* where the run's task is
    done,          \* runs with a final status (Run._status)
    flag,          \* runs whose _stop_requested is set
    cut,           \* runs whose task was cancelled
    pool,          \* RunPool._by_id
    current,       \* RunPool._by_session
    status,        \* RunStore: status; "over" stands for the final ones
    intent,        \* RunStore: runs with a stop request, until they are over
    listed,        \* runs recover() has yet to look at
    crashes,       \* process deaths so far
    step,          \* the step in progress
    tail,          \* the last message of the session's history
    stored,        \* the same of the stored history
    inbox          \* where each delivered message is

registry == <<done, flag, cut, pool, current>>
outside == <<status, intent, listed, crashes>>
history == <<tail, stored, inbox>>
vars == <<pc, registry, outside, step, history>>
-------------------------------------------------------------------------------
\* Where `drive' catches what is raised, and goes on to the end.
InLoop == {"head", "planning", "request", "stream", "backoff", "tools", "gated", "executing",
           "boundary", "judging"}
Places == {"new", "created", "opening", "failing", "finalizing", "settling", "over", "down",
           "resuming", "refused"} \cup InLoop

\* A message that waits for the model; calls; a reply; a reply with nothing to see.
Tails == {"asking", "calls", "reply", "mute"}

\* What the stream has brought (StreamAccumulator).
Output == [text: 0..MaxText, think: BOOLEAN, calls: 0..MaxCalls]
Nothing == [text |-> 0, think |-> FALSE, calls |-> 0]

\* shown is the text of the step that the client has; todo, the calls not yet
\* handled; begun, the requests and tool executions begun after a stop.
Step == [nth: {"first", "resumed", "later"}, attempt: 0..MaxAttempts, acc: Output,
         shown: Nat, todo: 0..MaxCalls, rescue: {"none", "armed", "applied"},
         rescues: 0..MaxRescues, begun: Nat]
Blank == [nth |-> "first", attempt |-> 0, acc |-> Nothing, shown |-> 0, todo |-> 0,
          rescue |-> "none", rescues |-> 0, begun |-> 0]

Done(r) == r \in done
Goto(r, place) == pc' = [pc EXCEPT ![r] = place]
End(r) == Goto(r, "finalizing") /\ step' = Blank

\* One more thing begun under a stop.
Begun(r) == IF r \in flag THEN step.begun + 1 ELSE step.begun

NextStep(r) ==
    /\ Goto(r, "head")
    /\ step' = [Blank EXCEPT !.nth = "later", !.rescue = step.rescue,
                             !.rescues = step.rescues, !.begun = step.begun]
-------------------------------------------------------------------------------
(* Starting                                                                *)

Busy == current # None /\ ~Done(current)

\* Runtime.start: the task and the watcher are created; the session is as stored.
Launch(r, nth) ==
    /\ ~Busy
    /\ Goto(r, "created")
    /\ pool' = pool \cup {r} /\ current' = r
    /\ step' = [Blank EXCEPT !.nth = nth]
    /\ tail' = stored
    /\ UNCHANGED <<done, flag, cut, outside, stored, inbox>>

Start(r) == pc[r] = "new" /\ Launch(r, "first")

\* The task gets to run, and marks the session.
Begin(r) ==
    /\ pc[r] = "created"
    /\ Goto(r, "opening")
    /\ UNCHANGED <<registry, outside, step, history>>

\* initialize_store makes the run known; then accept_query and on_loop_start: a
\* query is appended, unless it is empty or an answer.
Open(r) ==
    /\ pc[r] = "opening"
    /\ Goto(r, "head")
    /\ status' = [status EXCEPT ![r] = IF @ = "none" THEN "running" ELSE @]
    /\ tail' \in {tail, "asking"}
    /\ UNCHANGED <<registry, intent, listed, crashes, step, stored, inbox>>
-------------------------------------------------------------------------------
(* A step: the model's turn                                                *)

\* loop: no step is begun under a stop.
Guard(r) ==
    /\ pc[r] = "head"
    /\ IF r \in flag THEN End(r) ELSE Goto(r, "planning") /\ UNCHANGED step
    /\ UNCHANGED <<registry, outside, history>>

\* plan_step and build_request.  A first step may have nothing to answer, or calls
\* to dispatch again; otherwise the model is asked, with the rescue if one is armed.
Plan(r) ==
    /\ pc[r] = "planning"
    /\ \/ step.nth # "later" /\ End(r)
       \/ /\ step.nth = "resumed" /\ tail = "calls"
          /\ Goto(r, "tools")
          /\ \E n \in 1..MaxCalls : step' = [step EXCEPT !.nth = "later", !.todo = n]
       \/ /\ Goto(r, "request")
          /\ step' = [step EXCEPT !.nth = "later", !.attempt = 1,
                                  !.rescue = IF @ = "armed" THEN "applied" ELSE @]
    /\ UNCHANGED <<registry, outside, history>>

\* The user's answer to a suspended call: apply_answer appends it as the result.
Answer(r) ==
    /\ pc[r] = "planning" /\ step.nth # "later"
    /\ Goto(r, "request")
    /\ step' = [step EXCEPT !.nth = "later", !.attempt = 1]
    /\ tail' = "asking" /\ stored' = tail'
    /\ UNCHANGED <<registry, outside, inbox>>

SendContinued(r) ==
    /\ pc[r] = "request"
    /\ Goto(r, "stream")
    /\ step' = [step EXCEPT !.begun = Begun(r)]
    /\ UNCHANGED <<registry, outside, history>>
\* consume_stream: the request is sent, for a new StreamAccumulator.
Send(r) ==
    /\ pc[r] = "request"
    /\ Goto(r, "stream")
    /\ step' = [step EXCEPT !.acc = Nothing, !.begun = Begun(r)]
    /\ UNCHANGED <<registry, outside, history>>

\* A chunk: under a stop it is not fed any more.
Chunk(r) ==
    /\ pc[r] = "stream"
    /\ \/ r \in flag /\ End(r)
       \/ /\ r \notin flag
          /\ UNCHANGED pc
          /\ \/ /\ step.acc.text < MaxText
                /\ step' = [step EXCEPT !.acc.text = @ + 1, !.shown = @ + 1]
             \/ ~step.acc.think /\ step' = [step EXCEPT !.acc.think = TRUE]
             \/ step.acc.calls < MaxCalls /\ step' = [step EXCEPT !.acc.calls = @ + 1]
    /\ UNCHANGED <<registry, outside, history>>

Silent == step.acc.think /\ step.acc.text = 0 /\ step.acc.calls = 0
Rescuable == Silent /\ step.rescues < MaxRescues

\* arm_reply_rescue: a reply of thoughts alone is not kept, and asked for again.
Arm(r) ==
    /\ pc[r] = "stream" /\ Rescuable
    /\ Goto(r, "judging")
    /\ step' = [step EXCEPT !.acc = Nothing, !.rescue = "armed", !.rescues = @ + 1]
    /\ UNCHANGED <<registry, outside, history>>

\* build_reply, after absorb_reply_rescue: a rescue that failed shows the thoughts.
Reply ==
    LET acc == step.acc
        rescued == step.rescue = "applied"
        visible == acc.text > 0 \/ (rescued /\ Silent)
    IN  IF acc.calls > 0 THEN "calls"
        ELSE IF ~visible /\ ~acc.think /\ ~rescued THEN tail
        ELSE IF visible \/ tail = "reply" THEN "reply" ELSE "mute"

\* The reply is kept; calls are stored before they are dispatched, and a step
\* without calls ends here (on_step_end).
Land(r) ==
    /\ pc[r] = "stream" /\ ~Rescuable
    /\ Goto(r, IF step.acc.calls > 0 THEN "tools" ELSE "judging")
    /\ step' = [step EXCEPT !.acc = Nothing, !.shown = 0, !.attempt = 0, !.rescue = "none",
                            !.todo = step.acc.calls]
    /\ tail' = Reply /\ stored' = tail'
    /\ UNCHANGED <<registry, outside, inbox>>

RetryOnceMore(r) ==
    /\ pc[r] \in {"request", "stream"}
    /\ step.attempt <= MaxAttempts
    /\ Goto(r, "backoff")
    /\ step' = [step EXCEPT !.shown = 0]
    /\ UNCHANGED <<registry, outside, history>>
\* A request or stream fails, and another attempt is worth it: the client is told
\* to forget what it has of the step.
Retry(r) ==
    /\ pc[r] \in {"request", "stream"}
    /\ step.attempt < MaxAttempts
    /\ Goto(r, "backoff")
    /\ step' = [step EXCEPT !.shown = 0]
    /\ UNCHANGED <<registry, outside, history>>

ResendAnyway(r) ==
    /\ pc[r] = "backoff"
    /\ Goto(r, "request") /\ step' = [step EXCEPT !.attempt = @ + 1]
    /\ UNCHANGED <<registry, outside, history>>
\* After the backoff: the whole step is sent again, but not under a stop.
Resend(r) ==
    /\ pc[r] = "backoff"
    /\ IF r \in flag THEN End(r)
       ELSE Goto(r, "request") /\ step' = [step EXCEPT !.attempt = @ + 1]
    /\ UNCHANGED <<registry, outside, history>>
-------------------------------------------------------------------------------
(* A step: the tools' turn                                                 *)

\* run_step: before each call a stop is looked for.
Call(r) ==
    /\ pc[r] = "tools"
    /\ IF step.todo > 0 /\ r \in flag THEN End(r)
       ELSE Goto(r, IF step.todo = 0 THEN "boundary" ELSE "gated") /\ UNCHANGED step
    /\ UNCHANGED <<registry, outside, history>>

\* The call's result is appended.
Answered(r) ==
    /\ Goto(r, "tools")
    /\ step' = [step EXCEPT !.todo = @ - 1]
    /\ tail' = "asking"
    /\ UNCHANGED stored

\* The user is asked, now or through the product: the run ends here.
Suspend(r) == End(r) /\ UNCHANGED <<tail, stored>>

\* before_tool: the call is held, denied, or executed.
Gate(r) ==
    /\ pc[r] = "gated"
    /\ \/ Suspend(r)
       \/ Answered(r)
       \/ /\ Goto(r, "executing")
          /\ step' = [step EXCEPT !.begun = Begun(r)]
          /\ UNCHANGED <<tail, stored>>
    /\ UNCHANGED <<registry, outside, inbox>>

\* The tool is done -- an exception of its is a result -- or asks the user.
Return(r) ==
    /\ pc[r] = "executing"
    /\ Answered(r) \/ Suspend(r)
    /\ UNCHANGED <<registry, outside, inbox>>

PolledExactly(boundary) == {m \in Messages : inbox[m] = boundary}
\* Inbox.poll: the end of a turn takes both kinds of messages.
Polled(boundary) == {m \in Messages : inbox[m] = "step" \/ inbox[m] = boundary}

\* append_arrivals, then persist.
Arrive(messages) ==
    /\ inbox' = [m \in Messages |-> IF m \in messages THEN "gone" ELSE inbox[m]]
    /\ tail' = IF messages = {} THEN tail ELSE "asking"
    /\ stored' = tail'

\* The batch is over: messages for the step come in, on_step_end; the model is to
\* read the results.
Boundary(r) ==
    /\ pc[r] = "boundary"
    /\ Arrive(Polled("step"))
    /\ NextStep(r)
    /\ UNCHANGED <<registry, outside>>

JudgeWithoutRescue(r) ==
    /\ pc[r] = "judging"
    /\ IF Polled("turn") = {} THEN End(r) /\ UNCHANGED history
       ELSE Arrive(Polled("turn")) /\ NextStep(r)
    /\ UNCHANGED <<registry, outside>>
\* ending_after_step, should_continue, after a step without calls: a rescue goes
\* first, and new messages keep the run going.
Judge(r) ==
    /\ pc[r] = "judging"
    /\ IF step.rescue = "armed" THEN NextStep(r) /\ UNCHANGED history
       ELSE IF Polled("turn") = {} THEN End(r) /\ UNCHANGED history
       ELSE Arrive(Polled("turn")) /\ NextStep(r)
    /\ UNCHANGED <<registry, outside>>
-------------------------------------------------------------------------------
(* The end                                                                 *)

\* Something raises out of the loop, a stream that is not retried included.
Raise(r) ==
    /\ pc[r] \in InLoop \ {"head", "backoff", "executing"}
    /\ Goto(r, "failing")
    /\ step' = Blank
    /\ UNCHANGED <<registry, outside, history>>

\* drive: the error is reported.
Report(r) ==
    /\ pc[r] = "failing"
    /\ End(r)
    /\ UNCHANGED <<registry, outside, history>>

\* finalize stores the history; Run.finish: the run is done, its subscribers wake.
Finish(r) ==
    /\ pc[r] = "finalizing"
    /\ Goto(r, "settling")
    /\ stored' = tail
    /\ done' = done \cup {r}
    /\ status' = [status EXCEPT ![r] = "over"]
    /\ flag' = flag \ {r} /\ cut' = cut \ {r} /\ intent' = intent \ {r}
    /\ step' = Blank
    /\ UNCHANGED <<pool, current, listed, crashes, tail, inbox>>

\* RunPool.discard, when the task is over.
Leave(r) ==
    /\ Goto(r, "over")
    /\ pool' = pool \ {r}
    /\ current' = IF current = r THEN None ELSE current

\* The session's markers are settled, and the run leaves the pool.
Settle(r) ==
    /\ pc[r] = "settling"
    /\ Leave(r)
    /\ UNCHANGED <<done, flag, cut, outside, step, history>>

\* run.task.cancel(): the await the task is at raises.  In the loop drive catches
\* it, and ends as ever.  Before the task has begun nothing of it runs, not even
\* what takes it out of the pool; elsewhere only that runs.
Cancel(r) ==
    /\ r \in pool \ cut
    /\ cut' = cut \cup {r}
    /\ \/ /\ pc[r] = "created"
          /\ Goto(r, "over")
          /\ UNCHANGED <<step, pool, current>>
       \/ /\ pc[r] \in {"opening", "failing", "finalizing"}
          /\ Leave(r)
          /\ UNCHANGED step
       \/ /\ pc[r] \in InLoop
          /\ End(r)
          /\ UNCHANGED <<pool, current>>
    /\ UNCHANGED <<done, flag, outside, history>>
-------------------------------------------------------------------------------
(* Stopping                                                                *)

SetFlag(r) ==
    /\ r \in pool /\ ~Done(r) /\ r \notin flag
    /\ flag' = flag \cup {r}
    /\ UNCHANGED <<pc, done, cut, pool, current, outside, step, history>>

\* Run.stop, by way of Runtime.stop or stop_session.
Stop(r) == current = r /\ SetFlag(r)

\* stop_session, in another process.
RequestStop(r) ==
    /\ status[r] = "running" /\ r \notin intent
    /\ intent' = intent \cup {r}
    /\ UNCHANGED <<pc, registry, status, listed, crashes, step, history>>

WatchAtStart(r) == r \in intent /\ pc[r] = "created" /\ SetFlag(r)
\* The watcher asks the store until it hears of a request, or the run is done; a
\* probe that fails is none.
Watch(r) == r \in intent /\ SetFlag(r)
-------------------------------------------------------------------------------
(* Messages, death and recovery                                            *)

\* Runtime.deliver.
Deliver(m, when) ==
    /\ inbox[m] = "new"
    /\ inbox' = [inbox EXCEPT ![m] = when]
    /\ UNCHANGED <<pc, registry, outside, step, tail, stored>>

\* The process dies; its successor lists the runs left (recover).  A MemoryInbox
\* dies with it.
Crash ==
    /\ crashes < MaxCrashes
    /\ crashes' = crashes + 1
    /\ pc' = [r \in Runs |-> IF pc[r] = "new" THEN "new"
                             ELSE IF Done(r) THEN "over" ELSE "down"]
    /\ flag' = {} /\ cut' = {} /\ pool' = {} /\ current' = None
    /\ listed' = {r \in Runs : status[r] = "running"}
    /\ inbox' = [m \in Messages |-> IF inbox[m] \in {"step", "turn"} THEN "gone" ELSE inbox[m]]
    /\ step' = Blank
    /\ tail' = stored
    /\ UNCHANGED <<done, status, intent, stored>>

\* recover: mark_resuming, and the product's resume is scheduled; or the breaker
\* opens, which is up to the store.
Recover(r) ==
    /\ r \in listed
    /\ listed' = listed \ {r}
    /\ \/ UNCHANGED <<pc, status>>
       \/ Goto(r, "resuming") /\ status' = [status EXCEPT ![r] = "running"]
    /\ UNCHANGED <<registry, intent, crashes, step, history>>

\* _resume_one: the product starts the run under its id again.
Resume(r) == pc[r] = "resuming" /\ Launch(r, "resumed")

\* The user has started another: SessionRunActiveError, which is only logged.
Refuse(r) ==
    /\ pc[r] = "resuming" /\ Busy
    /\ Goto(r, "refused")
    /\ UNCHANGED <<registry, outside, step, history>>
-------------------------------------------------------------------------------
Init ==
    /\ pc = [r \in Runs |-> "new"] /\ done = {}
    /\ flag = {} /\ cut = {} /\ pool = {} /\ current = None
    /\ status = [r \in Runs |-> "none"] /\ intent = {}
    /\ listed = {} /\ crashes = 0
    /\ step = Blank
    /\ tail \in {"asking", "reply"} /\ stored = tail
    /\ inbox = [m \in Messages |-> "new"]

\* What the task, and before it recover, does by itself; a stream and a tool come to
\* an end.
TaskStep(r) ==
    \/ Begin(r) \/ Open(r) \/ Guard(r) \/ Plan(r) \/ Answer(r) \/ Send(r) \/ Chunk(r) \/ Arm(r)
    \/ Land(r) \/ Retry(r) \/ Resend(r) \/ Call(r) \/ Gate(r) \/ Return(r) \/ Boundary(r)
    \/ Judge(r) \/ Raise(r) \/ Report(r) \/ Finish(r) \/ Settle(r)
    \/ Recover(r) \/ Resume(r) \/ Refuse(r)

Next ==
    \/ \E r \in Runs :
        \/ TaskStep(r) \/ Watch(r)
        \/ Start(r) \/ Cancel(r) \/ Stop(r) \/ RequestStop(r)
    \/ \E m \in Messages, when \in {"step", "turn"} : Deliver(m, when)
    \/ Crash

Spec == Init /\ [][Next]_vars

\* The event loop runs what is ready, streams and tools end, and the store answers
\* in the end.
FairSpec == Spec /\ \A r \in Runs : WF_vars(TaskStep(r)) /\ WF_vars(Watch(r))
-------------------------------------------------------------------------------
(* Properties                                                              *)

\* The type invariant.
TypeOK ==
    /\ pc \in [Runs -> Places] /\ done \subseteq Runs
    /\ flag \subseteq Runs /\ cut \subseteq Runs /\ pool \subseteq Runs
    /\ current \in Runs \cup {None}
    /\ status \in [Runs -> {"none", "running", "over"}]
    /\ intent \subseteq Runs /\ listed \subseteq Runs /\ crashes \in 0..MaxCrashes
    /\ step \in Step /\ tail \in Tails /\ stored \in Tails
    /\ inbox \in [Messages -> {"new", "step", "turn", "gone"}]

\* A stop is seen at the next checkpoint: whatever the run was about to await, at
\* most one more request is sent or one more tool executed.  A retry, a batch and
\* the next step are no way around it (run_step: "interruption must be checked
\* chunk by chunk", runner.py:319).
StopObeyed == step.begun <= 1

\* The client is never shown a piece of text twice: while a reply comes in, what it
\* has of the step is what will be kept, however often the step was sent (stream_llm
\* discards and resends the whole step).
ShownIsKept == \A r \in Runs : pc[r] = "stream" => step.acc.text = step.shown

\* A run does not end on thoughts alone while a rescue is left: one that is due is
\* made before the run may conclude, and a reply without anything to see is kept
\* only when the last one has been spent, or when it is what the rescue brought
\* (arm_reply_rescue, absorb_reply_rescue).
NotSilent ==
    [][\A r \in Runs :
          /\ Land(r) /\ tail' = "mute" =>
                tail = "mute" \/ step.rescues = MaxRescues \/ step.rescue = "applied"
          /\ Judge(r) /\ pc'[r] = "finalizing" => step.rescue # "armed"]_vars

\* A message for the turn does not come in between calls and the model that reads
\* their results, and a run concludes only when nobody waits (inbox.py:3-9).
InboxServed ==
    [][\A r \in Runs :
          /\ Boundary(r) => \A m \in Messages : inbox[m] = "turn" => inbox'[m] = "turn"
          /\ Judge(r) /\ pc'[r] = "finalizing" =>
                \A m \in Messages : inbox[m] \notin {"step", "turn"}]_vars

\* A stop reaches the run, through the store, lost probes, a death and a recovery,
\* and the run ends, though its agent might never: unless the task is cut out of
\* reach of `finish', or the run is left behind by a recovery.
StopEnds ==
    \A r \in Runs :
        r \in flag \cup intent ~> Done(r) \/ r \in cut \/ pc[r] \in {"down", "refused"}
===============================================================================
