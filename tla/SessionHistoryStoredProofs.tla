---------------------- MODULE SessionHistoryStoredProofs ----------------------
(***************************************************************************)
(* For any number of runs, messages, batches, deliveries and deaths: that  *)
(* the database has the history of a run that has finished, if no store    *)
(* operation failed and none was cancelled, and if after_execute suspends  *)
(* no call (it cuts the history and leaves the cut unwritten); and that    *)
(* the model finds every result right behind its call, whatever fails.     *)
(***************************************************************************)
EXTENDS SessionHistoryProofs

NothingFailed == failures = 0 /\ cancels = 0

\* The database and the run have the same message at a position.
SameAt(i) == db[i] = memory[i]
Both == DOMAIN db \cap DOMAIN memory

StoredInv ==
    (NothingFailed /\ pc # "idle") =>
        /\ pc # "io" => \A i \in Both : SameAt(i)
        /\ pc = "finish" => db = memory
        /\ (pc = "io" /\ op.kind # "replace") =>
              \A i \in Both : SameAt(i) \/ (i = Len(db) /\ i = Len(memory))
        /\ (pc = "io" /\ op.kind = "replace") =>
              next # "finish" /\ \A i \in Both : SameAt(i) \/ i = op.n

\* A call is asked for in one message, and was made with it: what is cut behind it is
\* one message.
CallsOnce(history) ==
    \A call \in Call : \A i, j \in DOMAIN history :
        (Holds(history[i], "assistant", call) /\ Holds(history[j], "assistant", call)) => i = j
CallsMade(history, n) ==
    \A call \in Call : \A i \in DOMAIN history :
        Holds(history[i], "assistant", call) => call[1] <= n
CallInv ==
    NothingFailed =>
        /\ CallsOnce(db) /\ CallsOnce(memory)
        /\ CallsMade(db, made) /\ CallsMade(memory, made)

SInv == IInv /\ ResultInv /\ CallInv /\ StoredInv
-------------------------------------------------------------------------------
(* Calls                                                                   *)

\* A message of the new history asks for what it asked for, or it is the n-th, and asks
\* for a call that no message asked for.
CallKept(call, i) == i \in DOMAIN memory /\ Holds(memory[i], "assistant", call)
CallsKept ==
    \A call \in Call : \A i \in DOMAIN memory' :
        Holds(memory'[i], "assistant", call) => CallKept(call, i)
CallsNewAt(n) ==
    \A call \in Call : \A i \in DOMAIN memory' :
        Holds(memory'[i], "assistant", call) =>
            CallKept(call, i) \/ (i = n /\ ~HasToolCall(memory, call) /\ call[1] <= made')

LEMMA MadeMonotone ==
    ASSUME NEW history, NEW m \in Nat, NEW n \in Nat, m <= n, CallsMade(history, m)
    PROVE  CallsMade(history, n)
<1> SUFFICES ASSUME NEW call \in Call, NEW i \in DOMAIN history,
                    Holds(history[i], "assistant", call)
             PROVE  call[1] <= n
  BY DEF CallsMade
<1>1. call[1] \in Nat
  BY Bounds DEF Call
<1>2. call[1] <= m
  BY DEF CallsMade
<1> QED
  BY <1>1, <1>2

LEMMA NewCalls ==
    ASSUME NEW n, CallsNewAt(n), TypeInv, TypeInv', made' >= made,
           CallsOnce(memory), CallsMade(memory, made)
    PROVE  CallsOnce(memory') /\ CallsMade(memory', made')
<1>1. made \in Nat /\ made' \in Nat
  BY Bounds DEF TypeInv, MadeType
<1>2. CallsMade(memory, made')
  BY <1>1, MadeMonotone
<1>3. ASSUME NEW call \in Call, NEW i \in DOMAIN memory', NEW j \in DOMAIN memory',
             Holds(memory'[i], "assistant", call), Holds(memory'[j], "assistant", call)
      PROVE  i = j
  <2>1. /\ CallKept(call, i) \/ (i = n /\ ~HasToolCall(memory, call))
        /\ CallKept(call, j) \/ (j = n /\ ~HasToolCall(memory, call))
    BY <1>3 DEF CallsNewAt
  <2>2. \A k : CallKept(call, k) => HasToolCall(memory, call)
    BY DEF CallKept, HasToolCall
  <2>3. CallKept(call, i) /\ CallKept(call, j) => i = j
    BY DEF CallKept, CallsOnce
  <2> QED
    BY <2>1, <2>2, <2>3
<1>4. ASSUME NEW call \in Call, NEW i \in DOMAIN memory', Holds(memory'[i], "assistant", call)
      PROVE  call[1] <= made'
  BY <1>2, <1>4 DEF CallsNewAt, CallKept, CallsMade
<1> QED
  BY <1>3, <1>4 DEF CallsOnce, CallsMade

LEMMA KeptCalls ==
    ASSUME CallsKept
    PROVE  CallsNewAt(0)
BY DEF CallsKept, CallsNewAt

\* A step of a run that leaves the database alone.
LEMMA RunCalls ==
    ASSUME TypeInv, TypeInv', CallInv, NothingFailed, db' = db, made' >= made,
           NEW n, CallsNewAt(n)
    PROVE  CallInv'
<1>1. /\ CallsOnce(db) /\ CallsOnce(memory) /\ CallsMade(db, made) /\ CallsMade(memory, made)
  BY DEF CallInv
<1>2. CallsOnce(memory') /\ CallsMade(memory', made')
  BY <1>1, NewCalls
<1>3. made \in Nat /\ made' \in Nat
  BY Bounds DEF TypeInv, MadeType
<1>4. CallsMade(db, made')
  BY <1>1, <1>3, MadeMonotone
<1> QED
  BY <1>1, <1>2, <1>4 DEF CallInv

\* What is there stays as it is.
Untouched == \A i \in DOMAIN memory : i \in DOMAIN memory' /\ memory'[i] = memory[i]

LEMMA GrowUntouched ==
    ASSUME TypeInv, NEW messages \in Seq(Message), Grow(messages)
    PROVE  Untouched
<1>1. /\ memory \in Seq(Message) /\ memory' = memory \o messages
  BY DEF TypeInv, SessionType, Grow
<1> QED
  BY <1>1 DEF Untouched

\* Messages that ask for nothing.
Quiet(messages) == \A i \in DOMAIN messages :
    messages[i].role # "assistant" \/ messages[i].calls = <<>>

LEMMA QuietKept ==
    ASSUME TypeInv, NEW messages \in Seq(Message), Grow(messages), Quiet(messages)
    PROVE  CallsKept
<1> SUFFICES ASSUME NEW call \in Call, NEW i \in DOMAIN memory', Holds(memory'[i], "assistant", call)
             PROVE  CallKept(call, i)
  BY DEF CallsKept
<1>1. memory \in Seq(Message) /\ Len(memory) \in Nat /\ DOMAIN memory = 1..Len(memory)
      /\ DOMAIN messages = 1..Len(messages)
  BY DEF TypeInv, SessionType
<1>2. DOMAIN memory' = 1..Len(memory') /\ Len(memory') \in Nat
  BY <1>1, GrowStays, ConcatType DEF Grow
<1>3. CASE i <= Len(memory)
  <2>1. i \in DOMAIN memory /\ memory'[i] = memory[i]
    BY <1>1, <1>2, <1>3, GrowUntouched DEF Untouched
  <2> QED
    BY <2>1 DEF CallKept
<1>4. CASE ~(i <= Len(memory))
  <2>1. i - Len(memory) \in DOMAIN messages /\ memory'[i] = messages[i - Len(memory)]
    BY <1>1, <1>4, GrowStays
  <2> QED
    BY <2>1 DEF Quiet, Holds
<1> QED
  BY <1>3, <1>4

LEMMA OneQuiet ==
    ASSUME TypeInv, NEW role \in {"user", "companion", "assistant", "tool"},
           NEW theCalls \in Seq(Call), role # "assistant" \/ theCalls = <<>>,
           Grow(<<New(1, role, theCalls)>>)
    PROVE  CallsKept /\ Untouched /\ made' >= made
<1> DEFINE messages == <<New(1, role, theCalls)>>
<1>1. messages \in Seq(Message)
  BY OneMessage
<1>2. Quiet(messages)
  BY DEF Quiet, New
<1>3. Grow(messages)
  OBVIOUS
<1> HIDE DEF messages
<1> QED
  BY <1>1, <1>2, <1>3, QuietKept, GrowUntouched, GrowStays

LEMMA ArrivalsQuiet ==
    ASSUME TypeInv, NEW roles \in Seq(Arrivals),
           Grow([i \in DOMAIN roles |-> New(i, roles[i], <<>>)])
    PROVE  CallsKept /\ Untouched /\ made' >= made
<1> DEFINE messages == [i \in DOMAIN roles |-> New(i, roles[i], <<>>)]
<1>1. messages \in Seq(Message)
  BY ArrivalsMessages
<1>2. Quiet(messages)
  BY DEF Quiet, New
<1>3. Grow(messages)
  OBVIOUS
<1> HIDE DEF messages
<1> QED
  BY <1>1, <1>2, <1>3, QuietKept, GrowUntouched, GrowStays

LEMMA SameQuiet == TypeInv /\ UNCHANGED <<memory, made>> => CallsKept /\ Untouched /\ made' >= made
BY Bounds DEF TypeInv, MadeType, CallsKept, CallKept, Untouched
-------------------------------------------------------------------------------
(* The run                                                                 *)

\* A step of a run that lets the stored messages be, and waits for the store, if at
\* all, as persist does.
Steady ==
    /\ pc \notin {"idle", "io"} /\ db' = db /\ Untouched
    /\ pc' # "finish" /\ (pc' = "io" => op'.kind = "count")
    /\ NothingFailed' => NothingFailed

LEMMA Within ==
    ASSUME IInv, cancels = 0, pc \notin {"idle", "io"}, NEW i \in DOMAIN db
    PROVE  i \in DOMAIN memory /\ i <= Len(db) /\ Len(db) <= Len(memory)
BY NotAhead DEF IInv, TypeInv, DatabaseType, SessionType

LEMMA SteadyStored == IInv /\ StoredInv /\ Steady => StoredInv'
<1> SUFFICES ASSUME IInv, StoredInv, Steady, NothingFailed, NEW i \in DOMAIN db
             PROVE  db[i] = memory'[i]
  BY DEF StoredInv, Steady, Both, SameAt
<1>1. i \in DOMAIN memory
  BY Within DEF Steady, NothingFailed
<1>2. db[i] = memory[i]
  BY <1>1 DEF Steady, StoredInv, Both, SameAt
<1> QED
  BY <1>1, <1>2 DEF Steady, Untouched

LEMMA Counted0 == TypeInv /\ (UNCHANGED counters \/ Fail) => (NothingFailed' => NothingFailed)
BY DEF TypeInv, CounterType, counters, Fail, NothingFailed

LEMMA PersistSteady ==
    ASSUME NEW history, NEW label, Persist(history, label)
    PROVE  pc' # "finish" /\ (pc' = "io" => op'.kind = "count")
BY DEF Persist

LEMMA GotoSteady ==
    ASSUME NEW label \in Labels \ {"io", "finish"}, Goto(label)
    PROVE  pc' # "finish" /\ (pc' = "io" => op'.kind = "count")
BY DEF Goto

\* Steps that make nothing, or messages that ask for nothing.
Plain ==
    \/ RefuseAnswer \/ Conclude \/ Interrupted \/ NextStep \/ MarkQuestion \/ Finish
    \/ ToolResult \/ Interval \/ GoOn

LEMMA PlainSteady ==
    ASSUME TypeInv, Plain
    PROVE  Steady /\ CallsKept /\ made' >= made
<1> USE DEF Labels
<1>1. CASE RefuseAnswer \/ Conclude \/ Interrupted \/ NextStep
  <2>1. /\ UNCHANGED <<db, memory, made, counters>> /\ pc \notin {"idle", "io"}
        /\ \/ \E label : Persist(memory, label)
           \/ Goto("plan")
    BY <1>1 DEF RefuseAnswer, Conclude, Interrupted, NextStep, database, session
  <2>2. pc' # "finish" /\ (pc' = "io" => op'.kind = "count")
    BY <2>1, PersistSteady, GotoSteady
  <2> QED
    BY <2>1, <2>2, SameQuiet, Counted0 DEF Steady
<1>2. CASE MarkQuestion
  <2>1. UNCHANGED <<db, memory, made>> /\ (UNCHANGED counters \/ Fail) /\ pc = "mark"
        /\ Persist(memory, "finish")
    BY <1>2 DEF MarkQuestion, MarkSuspended
  <2> QED
    BY <2>1, PersistSteady, SameQuiet, Counted0 DEF Steady
<1>3. CASE Finish
  <2>1. UNCHANGED <<db, memory, made>> /\ (UNCHANGED counters \/ Fail) /\ pc = "finish"
        /\ Goto("idle")
    BY <1>3 DEF Finish, MarkSuspended, ClearQuestion, LeaveQuestion, database, session
  <2> QED
    BY <2>1, GotoSteady, SameQuiet, Counted0 DEF Steady
<1>4. CASE ToolResult
  <2>1. UNCHANGED <<db, counters>> /\ pc = "tools" /\ Goto("tools") /\ at \in DOMAIN batch
        /\ Grow(<<New(1, "tool", <<batch[at]>>)>>)
    BY <1>4 DEF ToolResult, database, TypeInv, StepType
  <2>2. <<batch[at]>> \in Seq(Call)
    BY <2>1, Element DEF TypeInv, StepType
  <2>3. CallsKept /\ Untouched /\ made' >= made
    BY <2>1, <2>2, OneQuiet, Zenon
  <2> QED
    BY <2>1, <2>3, GotoSteady, Counted0 DEF Steady
<1>5. CASE Interval
  <2>1. UNCHANGED <<db, counters>> /\ pc = "tools" /\ Persist(memory', "next")
        /\ Grow([i \in DOMAIN inbox.step |-> New(i, inbox.step[i], <<>>)])
    BY <1>5 DEF Interval, database
  <2>2. inbox.step \in Seq(Arrivals)
    BY DEF TypeInv, InboxType
  <2>3. CallsKept /\ Untouched /\ made' >= made
    BY <2>1, <2>2, ArrivalsQuiet, Zenon
  <2> QED
    BY <2>1, <2>3, PersistSteady, Counted0 DEF Steady
<1>6. CASE GoOn
  <2>1. UNCHANGED <<db, counters>> /\ pc = "next" /\ Persist(memory', "plan")
        /\ Grow([i \in DOMAIN Arrived |-> New(i, Arrived[i], <<>>)])
    BY <1>6 DEF GoOn, database
  <2>2. Arrived \in Seq(Arrivals)
    <3>1. inbox.step \in Seq(Arrivals) /\ inbox.turn \in Seq(Arrivals)
      BY DEF TypeInv, InboxType
    <3> QED
      BY <3>1 DEF Arrived
  <2>3. CallsKept /\ Untouched /\ made' >= made
    BY <2>1, <2>2, ArrivalsQuiet, Zenon
  <2> QED
    BY <2>1, <2>3, PersistSteady, Counted0 DEF Steady
<1> QED
  BY <1>1, <1>2, <1>3, <1>4, <1>5, <1>6 DEF Plain

LEMMA SteadyCalls ==
    ASSUME TypeInv, TypeInv', CallInv, NEW n, CallsNewAt(n), Steady, made' >= made
    PROVE  CallInv'
<1>1. CASE NothingFailed'
  BY <1>1, RunCalls DEF Steady
<1>2. CASE ~NothingFailed'
  BY <1>2 DEF CallInv
<1> QED
  BY <1>1, <1>2

\* The last reply is continued: the one message that is rewritten is the last that is
\* stored.
LEMMA ReplyStored ==
    ASSUME IInv, TypeInv', CallInv, StoredInv, Reply
    PROVE  CallInv' /\ StoredInv'
<1> USE DEF IInv
<1>1. /\ db' = db /\ UNCHANGED counters /\ pc = "plan" /\ Persist(memory', "next")
      /\ memory \in Seq(Message) /\ DOMAIN memory = 1..Len(memory) /\ Len(memory) \in Nat
  BY DEF Reply, database, TypeInv, SessionType
<1>2. CASE ~EndsWithOpenReply(memory)
  <2>1. Grow(<<New(1, "assistant", <<>>)>>) /\ <<>> \in Seq(Call)
    BY <1>2 DEF Reply
  <2>2. CallsKept /\ Untouched /\ made' >= made
    BY <2>1, OneQuiet, Zenon
  <2>3. Steady
    BY <1>1, <2>2, PersistSteady, Counted0 DEF Steady
  <2> QED
    BY <2>2, <2>3, KeptCalls, SteadyCalls, SteadyStored
<1>3. CASE EndsWithOpenReply(memory)
  <2>1. /\ memory' = [memory EXCEPT ![Len(memory)].text = @ + 1] /\ made' = made
        /\ Len(memory) \in DOMAIN memory
    BY <1>1, <1>3 DEF Reply, EndsWithOpenReply
  <2>2. /\ DOMAIN memory' = DOMAIN memory /\ Len(memory') = Len(memory)
        /\ \A i \in DOMAIN memory : i # Len(memory) => memory'[i] = memory[i]
    BY <1>1, <2>1
  <2>3. /\ memory'[Len(memory)].role = memory[Len(memory)].role
        /\ memory'[Len(memory)].calls = memory[Len(memory)].calls
    <3>1. memory[Len(memory)] \in Message
      BY <1>1, <2>1
    <3>2. memory'[Len(memory)] = [memory[Len(memory)] EXCEPT !.text = @ + 1]
      BY <1>1, <2>1, <3>1 DEF Message
    <3> QED
      BY <3>1, <3>2 DEF Message
  <2>4. CallsKept
    BY <2>2, <2>3 DEF CallsKept, CallKept, Holds
  <2>5. CallInv'
    <3>1. made' >= made
      BY <2>1, Bounds DEF TypeInv, MadeType
    <3>2. CASE NothingFailed'
      <4>1. NothingFailed
        BY <1>1, <3>2, Counted0
      <4> QED
        BY <1>1, <2>4, <3>1, <4>1, KeptCalls, RunCalls
    <3> QED
      BY <3>2 DEF CallInv
  <2>6. ASSUME NothingFailed', NEW i \in Both'
        PROVE  SameAt(i)' \/ (i = Len(db)' /\ i = Len(memory)')
    <3>1. NothingFailed
      BY <1>1, <2>6, Counted0
    <3>2. i \in DOMAIN db /\ i \in DOMAIN memory /\ i <= Len(db) /\ Len(db) <= Len(memory)
      BY <1>1, <2>6, <3>1, Within DEF Both, NothingFailed
    <3>3. db[i] = memory[i]
      BY <1>1, <3>1, <3>2 DEF StoredInv, Both, SameAt
    <3>4. CASE i = Len(memory)
      <4>1. Len(db) \in Nat
        BY DEF TypeInv, DatabaseType
      <4> QED
        BY <1>1, <2>2, <3>2, <3>4, <4>1
    <3>5. CASE i # Len(memory)
      BY <1>1, <2>2, <3>2, <3>3, <3>5 DEF SameAt
    <3> QED
      BY <3>4, <3>5
  <2>7. pc' = "io" /\ op'.kind = "count"
    BY <1>1 DEF Persist
  <2> QED
    BY <2>5, <2>6, <2>7 DEF StoredInv
<1> QED
  BY <1>2, <1>3

LEMMA AnswerSteady ==
    ASSUME IInv, TypeInv', ResultInv, CallInv, StoredInv, ApplyAnswer
    PROVE  CallInv' /\ StoredInv'
<1> USE DEF IInv
<1> SUFFICES ASSUME NothingFailed' PROVE CallInv' /\ StoredInv'
  BY DEF CallInv, StoredInv
<1>1. /\ pc = "answer" /\ pending # <<>> /\ db' = db /\ (UNCHANGED counters \/ Fail)
      /\ Persist(memory', "plan")
  BY DEF ApplyAnswer, AnswerPossible
<1>2. NothingFailed
  BY <1>1, Counted0
<1>3. pending \in Seq(Call) /\ pending[1] \in Call /\ pending = <<pending[1]>>
      /\ pending[1][1] <= made
  <2>1. pending \in Seq(Call) /\ Len(pending) <= 1 /\ Made(pending, made)
    BY <1>2 DEF TypeInv, SessionType, Question, ResultInv, Questions, NothingFailed
  <2>2. Len(pending) = 1
    BY <1>1, <2>1, OneOrNone
  <2>3. pending[1] \in Call /\ pending = <<pending[1]>> /\ 1 \in DOMAIN pending
    BY <2>1, <2>2
  <2> QED
    BY <2>1, <2>3 DEF Made
<1> DEFINE call == pending[1]
<1>4. \/ Grow(<<New(1, "tool", <<call>>)>>)
      \/ /\ ~HasToolCall(memory, call)
         /\ Grow(<<New(1, "assistant", <<call>>), New(2, "tool", <<call>>)>>)
  BY <1>3, Zenon DEF ApplyAnswer, AnswerMessages
<1>5. memory \in Seq(Message) /\ Len(memory) \in Nat /\ <<call>> \in Seq(Call)
      /\ DOMAIN memory = 1..Len(memory)
  BY <1>3 DEF TypeInv, SessionType
<1>6. \E n : CallsNewAt(n) /\ Untouched /\ made' >= made
  <2>1. CASE Grow(<<New(1, "tool", <<call>>)>>)
    <3>1. CallsKept /\ Untouched /\ made' >= made
      BY <1>5, <2>1, OneQuiet, Zenon
    <3> QED
      BY <3>1, KeptCalls
  <2>2. CASE /\ ~HasToolCall(memory, call)
             /\ Grow(<<New(1, "assistant", <<call>>), New(2, "tool", <<call>>)>>)
    <3> DEFINE messages == <<New(1, "assistant", <<call>>), New(2, "tool", <<call>>)>>
    <3>1. Grow(messages) /\ Len(messages) = 2
      BY <2>2
    <3>2. made + 1 <= MaxMessages /\ made + 2 <= MaxMessages
      BY <3>1, Bounds DEF Grow, TypeInv, MadeType
    <3>3. New(1, "assistant", <<call>>) \in Message /\ New(2, "tool", <<call>>) \in Message
      <4>1. 1 \in Nat \ {0} /\ 2 \in Nat \ {0}
        OBVIOUS
      <4> QED
        BY <1>5, <3>2, <4>1, NewType, Zenon DEF TypeInv
    <3>4. /\ messages \in Seq(Message) /\ messages[1].calls = <<call>>
          /\ messages[2].role = "tool" /\ DOMAIN messages = 1..2
      BY <3>3 DEF New
    <3> HIDE DEF messages
    <3>5. Untouched /\ made' >= made
      BY <3>1, <3>4, GrowUntouched, GrowStays
    <3>6. \A i \in DOMAIN memory' :
            \/ i \in DOMAIN memory /\ memory'[i] = memory[i]
            \/ i = Len(memory) + 1 /\ memory'[i].calls = <<call>>
            \/ memory'[i].role = "tool"
      <4> SUFFICES ASSUME NEW i \in DOMAIN memory'
                   PROVE  \/ i \in DOMAIN memory /\ memory'[i] = memory[i]
                          \/ i = Len(memory) + 1 /\ memory'[i].calls = <<call>>
                          \/ memory'[i].role = "tool"
        OBVIOUS
      <4>1. i \in 1..Len(memory') /\ Len(memory') \in Nat
        BY <1>5, <3>1, <3>4, GrowStays, ConcatType
      <4>2. CASE i <= Len(memory)
        BY <1>5, <3>5, <4>1, <4>2 DEF Untouched
      <4>3. CASE ~(i <= Len(memory))
        <5>1. i - Len(memory) \in 1..2 /\ memory'[i] = messages[i - Len(memory)]
          BY <1>5, <3>1, <3>4, <4>3, GrowStays
        <5>2. i - Len(memory) = 1 \/ i - Len(memory) = 2
          BY <5>1
        <5> QED
          BY <1>5, <3>4, <4>1, <5>1, <5>2
      <4> QED
        BY <4>2, <4>3
    <3>7. CallsNewAt(Len(memory) + 1)
      <4> SUFFICES ASSUME NEW c \in Call, NEW i \in DOMAIN memory',
                          Holds(memory'[i], "assistant", c)
                   PROVE  CallKept(c, i) \/ (i = Len(memory) + 1 /\ ~HasToolCall(memory, c)
                                             /\ c[1] <= made')
        BY DEF CallsNewAt
      <4>1. CASE i \in DOMAIN memory /\ memory'[i] = memory[i]
        BY <4>1 DEF CallKept
      <4>2. CASE i = Len(memory) + 1 /\ memory'[i].calls = <<call>>
        <5>1. c = call
          BY <4>2 DEF Holds
        <5>2. made \in Nat /\ made' \in Nat /\ call[1] \in Nat
          BY <1>3, Bounds DEF TypeInv, MadeType, Call
        <5>3. call[1] <= made'
          BY <1>3, <3>5, <5>2
        <5> QED
          BY <2>2, <4>2, <5>1, <5>3
      <4>3. CASE memory'[i].role = "tool"
        BY <4>3 DEF Holds
      <4> QED
        BY <3>6, <4>1, <4>2, <4>3
    <3> QED
      BY <3>5, <3>7
  <2> QED
    BY <1>4, <2>1, <2>2
<1>7. Steady
  BY <1>1, <1>2, <1>6, PersistSteady DEF Steady
<1> QED
  BY <1>6, <1>7, SteadyCalls, SteadyStored

LEMMA BatchSteady ==
    ASSUME IInv, TypeInv', CallInv, StoredInv, AskForTools
    PROVE  CallInv' /\ StoredInv'
<1> USE DEF IInv
<1> SUFFICES ASSUME NothingFailed' PROVE CallInv' /\ StoredInv'
  BY DEF CallInv, StoredInv
<1>1. /\ pc = "plan" /\ db' = db /\ UNCHANGED counters /\ Persist(memory', "tools")
      /\ Grow(<<New(1, "assistant", batch')>>)
  BY DEF AskForTools, database
<1>2. NothingFailed
  BY <1>1, Counted0
<1>3. PICK size \in Nat : batch' = [k \in 1..size |-> <<made + 1, k>>]
  BY BatchSizesAssumption DEF AskForTools, TakeUp
<1>4. batch' \in Seq(Call) /\ \A k \in DOMAIN batch' : batch'[k][1] = made + 1
  BY <1>3 DEF TypeInv, StepType
<1> DEFINE messages == <<New(1, "assistant", batch')>>
<1>5. messages \in Seq(Message)
  BY <1>1, <1>4, OneMessage
<1>6. Grow(messages) /\ Len(messages) = 1 /\ messages[1].calls = batch' /\ DOMAIN messages = 1..1
  BY <1>1 DEF New
<1> HIDE DEF messages
<1>7. Untouched /\ made' = made + 1 /\ made \in Nat
  <2>1. Untouched /\ made' = made + Len(messages)
    BY <1>5, <1>6, GrowUntouched, GrowStays
  <2>2. made \in Nat
    BY Bounds DEF TypeInv, MadeType
  <2> QED
    BY <1>6, <2>1, <2>2
<1>8. Steady
  BY <1>1, <1>2, <1>7, PersistSteady DEF Steady
<1>9. CallsNewAt(Len(memory) + 1)
  <2> SUFFICES ASSUME NEW c \in Call, NEW i \in DOMAIN memory', Holds(memory'[i], "assistant", c)
               PROVE  CallKept(c, i) \/ (i = Len(memory) + 1 /\ ~HasToolCall(memory, c)
                                         /\ c[1] <= made')
    BY DEF CallsNewAt
  <2>1. memory \in Seq(Message) /\ Len(memory) \in Nat /\ DOMAIN memory = 1..Len(memory)
    BY DEF TypeInv, SessionType
  <2>2. i \in 1..Len(memory')
    BY <1>5, <1>6, GrowStays
  <2>3. CASE i <= Len(memory)
    BY <1>7, <2>1, <2>2, <2>3 DEF Untouched, CallKept
  <2>4. CASE ~(i <= Len(memory))
    <3>1. i - Len(memory) = 1 /\ memory'[i] = messages[i - Len(memory)]
      BY <1>5, <1>6, <2>4, GrowStays
    <3>2. i = Len(memory) + 1 /\ memory'[i].calls = batch'
      BY <1>6, <2>1, <2>2, <3>1
    <3>3. c[1] = made + 1
      BY <1>4, <3>2 DEF Holds
    <3>4. ~HasToolCall(memory, c)
      <4>1. CallsMade(memory, made)
        BY <1>2 DEF CallInv
      <4> QED
        BY <1>7, <3>3, <4>1 DEF CallsMade, HasToolCall
    <3> QED
      BY <1>7, <3>2, <3>3, <3>4
  <2> QED
    BY <2>3, <2>4
<1> QED
  BY <1>7, <1>8, <1>9, SteadyCalls, SteadyStored

\* A batch is cut in one message, and that message is written at once.
LEMMA SuspendStored ==
    ASSUME IInv, TypeInv', CallInv, StoredInv, Suspend, "after" \notin Suspensions
    PROVE  CallInv' /\ StoredInv'
<1> USE DEF IInv
<1> SUFFICES ASSUME NothingFailed' PROVE CallInv' /\ StoredInv'
  BY DEF CallInv, StoredInv
<1>1. /\ pc = "tools" /\ db' = db /\ UNCHANGED counters /\ made' = made /\ at \in DOMAIN batch
      /\ SuspendForCut(batch[at]) \/ (UNCHANGED memory /\ Persist(memory, "finish"))
  BY DEF Suspend, database, TypeInv, StepType
<1>2. NothingFailed /\ made' >= made
  BY <1>1, Counted0, Bounds DEF TypeInv, MadeType
<1> DEFINE call == batch[at]
<1>3. call \in Call
  BY <1>1, Element DEF TypeInv, StepType
<1>4. CASE UNCHANGED memory /\ Persist(memory, "finish")
  <2>1. CallsKept /\ Untouched
    BY <1>1, <1>4, SameQuiet
  <2>2. Steady
    BY <1>1, <1>2, <1>4, <2>1, PersistSteady DEF Steady
  <2> QED
    BY <1>2, <2>1, <2>2, KeptCalls, SteadyCalls, SteadyStored
<1>5. CASE SuspendForCut(call)
  <2>1. /\ DOMAIN memory' = DOMAIN memory
        /\ \A i \in DOMAIN memory : i \notin CutAt(memory, call) => memory'[i] = memory[i]
    BY <1>5 DEF SuspendForCut, TruncateToolCallsAfter
  <2>2. \A i, j \in CutAt(memory, call) : i = j
    BY <1>2, <1>3 DEF CallInv, CallsOnce, CutAt
  <2>3. CallsKept
    <3> SUFFICES ASSUME NEW c \in Call, NEW i \in DOMAIN memory', Holds(memory'[i], "assistant", c)
                 PROVE  CallKept(c, i)
      BY DEF CallsKept
    <3>1. CASE i \notin CutAt(memory, call)
      BY <2>1, <3>1 DEF CallKept
    <3>2. CASE i \in CutAt(memory, call)
      <4>1. memory[i] \in Message
        BY <2>1 DEF TypeInv, SessionType
      <4>2. memory'[i] = [memory[i] EXCEPT !.calls = Upto(memory[i].calls, call)]
        BY <1>5, <2>1, <3>2, <4>1 DEF SuspendForCut, TruncateToolCallsAfter, Message
      <4>3. memory'[i].role = memory[i].role /\ memory'[i].calls = Upto(memory[i].calls, call)
        BY <4>1, <4>2 DEF Message
      <4>4. \A k \in DOMAIN memory'[i].calls :
              k \in DOMAIN memory[i].calls /\ memory'[i].calls[k] = memory[i].calls[k]
        <5>1. memory[i].calls \in Seq(Call)
          BY <4>1 DEF Message
        <5>2. PICK n \in DOMAIN memory[i].calls : n = CHOOSE k \in DOMAIN memory[i].calls : memory[i].calls[k] = call
          BY <3>2 DEF CutAt, Holds
        <5>3. Upto(memory[i].calls, call) = SubSeq(memory[i].calls, 1, n)
          BY <5>2 DEF Upto
        <5> QED
          BY <4>3, <5>1, <5>2, <5>3
      <4> QED
        BY <2>1, <4>3, <4>4 DEF CallKept, Holds
    <3> QED
      BY <3>1, <3>2
  <2>4. CallInv'
    BY <1>1, <1>2, <2>3, KeptCalls, RunCalls
  <2>5. CASE CutAt(memory, call) = {}
    <3>1. Untouched /\ Goto("mark")
      BY <1>5, <2>1, <2>5 DEF SuspendForCut, Untouched
    <3>2. Steady
      BY <1>1, <1>2, <3>1, GotoSteady DEF Steady, Labels
    <3> QED
      BY <2>4, <3>2, SteadyStored
  <2>6. CASE CutAt(memory, call) # {}
    <3>1. PICK n \in CutAt(memory, call) :
            /\ op' = [kind |-> "replace", history |-> memory', n |-> n]
            /\ pc' = "io" /\ next' = "mark"
      BY <1>5, <2>6 DEF SuspendForCut
    <3>2. ASSUME NEW i \in Both' PROVE SameAt(i)' \/ i = op'.n
      <4>1. i \in DOMAIN db /\ i \in DOMAIN memory /\ db[i] = memory[i]
        BY <1>1, <1>2, <2>1, <3>2 DEF StoredInv, Both, SameAt
      <4>2. CASE i = n
        BY <3>1, <4>2
      <4>3. CASE i # n
        BY <1>1, <2>1, <2>2, <4>1, <4>3 DEF SameAt
      <4> QED
        BY <4>2, <4>3
    <3>3. pc' = "io" /\ op'.kind = "replace" /\ next' # "finish"
      BY <3>1
    <3> QED
      BY <2>4, <3>2, <3>3 DEF StoredInv
  <2> QED
    BY <2>5, <2>6
<1> QED
  BY <1>1, <1>4, <1>5

LEMMA RunStepStored ==
    SInv /\ TypeInv' /\ RunStep /\ "after" \notin Suspensions => CallInv' /\ StoredInv'
<1> SUFFICES ASSUME SInv, TypeInv', RunStep, "after" \notin Suspensions
             PROVE  CallInv' /\ StoredInv'
  OBVIOUS
<1> USE DEF SInv
<1>1. CASE Plain
  <2>1. Steady /\ CallsKept /\ made' >= made
    BY <1>1, PlainSteady DEF IInv
  <2> QED
    BY <2>1, KeptCalls, SteadyCalls, SteadyStored DEF IInv
<1> QED
  BY <1>1, ReplyStored, AnswerSteady, BatchSteady, SuspendStored DEF RunStep, Plain
-------------------------------------------------------------------------------
(* The product and the database                                            *)

\* A history whose messages are those of another at the same places.
LEMMA PartOf ==
    ASSUME NEW history, NEW other, NEW n,
           \A i \in DOMAIN other : i \in DOMAIN history /\ other[i] = history[i],
           CallsOnce(history), CallsMade(history, n)
    PROVE  CallsOnce(other) /\ CallsMade(other, n)
<1>1. CallsOnce(other)
  BY DEF CallsOnce
<1>2. CallsMade(other, n)
  BY DEF CallsMade
<1> QED
  BY <1>1, <1>2

LEMMA ProductStored == SInv /\ TypeInv' /\ Product => CallInv' /\ StoredInv'
<1> SUFFICES ASSUME SInv, TypeInv', Product PROVE CallInv' /\ StoredInv'
  OBVIOUS
<1> USE DEF SInv, IInv
<1>1. CASE Load
  <2>1. /\ memory' = db /\ pc' = "loaded" /\ UNCHANGED <<db, made, failures, cancels>>
    BY <1>1 DEF Load, Loaded, Goto, database, counters
  <2>2. CallInv'
    BY <2>1 DEF CallInv, NothingFailed
  <2>3. StoredInv'
    BY <2>1 DEF StoredInv, Both, SameAt
  <2> QED
    BY <2>2, <2>3
<1>2. CASE Edit
  <2>1. PICK i \in DOMAIN memory :
          LET dropped == {j \in i + 1..Len(memory) :
                             \E k \in i + 1..j : memory[k].role # "companion"}
              kept == SubSeq(memory, 1, Len(memory) - Cardinality(dropped))
          IN  memory' = kept /\ Persist(kept, "loaded")
    BY <1>2 DEF Edit
  <2> DEFINE dropped == {j \in i + 1..Len(memory) :
                            \E k \in i + 1..j : memory[k].role # "companion"}
  <2>2. memory \in Seq(Message) /\ Len(memory) \in Nat
    BY DEF TypeInv, SessionType
  <2>3. Cardinality(dropped) \in Nat
    <3>1. dropped \subseteq 1..Len(memory) /\ IsFiniteSet(1..Len(memory))
      BY <2>2, FS_Interval
    <3> HIDE DEF dropped
    <3> QED
      BY <3>1, FS_Subset, FS_CardinalityType
  <2>4. memory' = SubSeq(memory, 1, Len(memory) - Cardinality(dropped))
        /\ Persist(memory', "loaded")
    BY <2>1
  <2> HIDE DEF dropped
  <2>5. /\ pc = "loaded" /\ pc' = "io" /\ op'.kind = "count"
        /\ UNCHANGED <<db, made, failures, cancels>>
    BY <1>2, <2>4 DEF Edit, Persist, database, counters
  <2>6. \A k \in DOMAIN memory' : k \in DOMAIN memory /\ memory'[k] = memory[k]
    BY <2>2, <2>3, <2>4
  <2>7. CallsOnce(memory) /\ CallsMade(memory, made)
          => CallsOnce(memory') /\ CallsMade(memory', made)
    BY <2>6, PartOf
  <2>8. CallInv'
    BY <2>5, <2>7 DEF CallInv, NothingFailed
  <2>9. StoredInv'
    BY <2>5, <2>6 DEF StoredInv, Both, SameAt, NothingFailed
  <2> QED
    BY <2>8, <2>9
<1>3. CASE StartWithText \/ StartFromState \/ StartWithAnswer
  <2>1. /\ pc = "loaded" /\ UNCHANGED <<db, failures, cancels>> /\ pc' \in {"plan", "answer"}
    BY <1>3 DEF StartWithText, StartFromState, StartOver, StartWithAnswer, Begin, Goto, database
  <2>2. CallsKept /\ Untouched /\ made' >= made
    <3>1. CASE StartWithText
      <4>1. Grow(<<New(1, "user", <<>>)>>) /\ <<>> \in Seq(Call)
        BY <3>1 DEF StartWithText
      <4> QED
        BY <4>1, OneQuiet, Zenon
    <3>2. CASE StartFromState \/ StartWithAnswer
      BY <3>2, SameQuiet DEF StartFromState, StartWithAnswer
    <3> QED
      BY <1>3, <3>1, <3>2
  <2>3. Steady
    BY <2>1, <2>2 DEF Steady, NothingFailed
  <2> QED
    BY <2>2, <2>3, KeptCalls, SteadyCalls, SteadyStored
<1>4. CASE Deliver
  BY <1>4 DEF Deliver, database, session, io, CallInv, StoredInv, Both, SameAt, NothingFailed
<1> QED
  BY <1>1, <1>2, <1>3, <1>4 DEF Product

LEMMA SameSequence ==
    ASSUME NEW S, NEW s \in Seq(S), NEW t \in Seq(S), Len(s) = Len(t),
           \A i \in DOMAIN s : s[i] = t[i]
    PROVE  s = t
OBVIOUS

\* A write leaves the run's messages in the database, all of them if it is the
\* synchronisation of a whole history.
LEMMA Written ==
    ASSUME SInv, NothingFailed, StoreWrite
    PROVE  /\ \A i \in DOMAIN db' : i \in DOMAIN memory /\ db'[i] = memory[i]
           /\ next = "finish" => db' = memory
<1> USE DEF SInv, IInv
<1>1. /\ db \in Seq(Message) /\ memory \in Seq(Message) /\ Len(db) \in Nat
      /\ DOMAIN memory = 1..Len(memory) /\ DOMAIN db = 1..Len(db) /\ Len(memory) \in Nat
  BY DEF TypeInv, DatabaseType, SessionType
<1>2. pc = "io" /\ op \in Operation /\ op.kind \in {"write", "replace"} /\ Write(op)
      /\ cancels = 0
  BY DEF StoreWrite, TypeInv, IoType, NoOp, NothingFailed
<1>3. op.history = memory
  BY <1>2 DEF PositionsInv
<1>4. DOMAIN db' \subseteq DOMAIN memory
  BY <1>2, WrittenAlike
<1>5. CASE op.kind = "replace"
  <2>1. db' = Replaced(memory, op.n) /\ next # "finish"
        /\ \A i \in Both : db[i] = memory[i] \/ i = op.n
    BY <1>2, <1>3, <1>5 DEF Write, StoredInv, SameAt
  <2>2. DOMAIN db' = DOMAIN db
    BY <2>1 DEF Replaced
  <2>3. ASSUME NEW i \in DOMAIN db' PROVE db'[i] = memory[i]
    BY <1>4, <2>1, <2>2 DEF Replaced, Both
  <2> QED
    BY <1>4, <2>1, <2>3
<1>6. CASE op.kind = "write"
  <2>1. db' = Synced(memory, Len(db))
    BY <1>2, <1>3, <1>6 DEF Write, PositionsInv
  <2>2. \A i \in Both : db[i] = memory[i] \/ (i = Len(db) /\ i = Len(memory))
    BY <1>2, <1>6 DEF StoredInv, SameAt
  <2>3. Len(db') = Len(memory) /\ db' \in Seq(Message)
    <3>1. db' \in Seq(Message)
      BY StoreType DEF Store, TypeInv, DatabaseType
    <3>2. CASE Len(memory) > Len(db)
      <4> DEFINE tail == SubSeq(memory, Len(db) + 1, Len(memory))
      <4>1. tail \in Seq(Message) /\ Len(tail) = Len(memory) - Len(db)
        <5>1. Len(db) <= Len(memory)
          BY <1>1, <3>2
        <5> QED
          BY <1>1, <5>1, TailOf, Zenon
      <4>2. db' = db \o tail
        BY <1>1, <2>1, <3>2 DEF Synced
      <4> HIDE DEF tail
      <4>3. Len(db') = Len(db) + Len(tail)
        BY <1>1, <4>1, <4>2, ConcatType
      <4> QED
        BY <1>1, <3>1, <4>1, <4>3
    <3>3. CASE Len(memory) < Len(db)
      <4>1. db' = SubSeq(db, 1, Len(memory))
        BY <1>1, <2>1, <3>3 DEF Synced
      <4> QED
        BY <1>1, <3>1, <3>3, <4>1
    <3>4. CASE Len(memory) = Len(db)
      BY <1>1, <2>1, <3>1, <3>4 DEF Synced, Replaced
    <3> QED
      BY <1>1, <3>2, <3>3, <3>4, Trichotomy
  <2>4. ASSUME NEW i \in DOMAIN db' PROVE db'[i] = memory[i]
    <3>1. db'[i] = memory[i] \/ (i \in DOMAIN db /\ db'[i] = db[i])
      BY <1>2, WrittenAlike
    <3>2. CASE Len(db) = Len(memory) /\ i = Len(db)
      BY <1>1, <2>1, <3>2 DEF Synced, Replaced
    <3> QED
      BY <1>4, <2>2, <3>1, <3>2 DEF Both
  <2>5. db' = memory
    BY <1>1, <2>3, <2>4, SameSequence
  <2> QED
    BY <1>4, <2>4, <2>5
<1> QED
  BY <1>2, <1>5, <1>6

LEMMA StoreStored == SInv /\ TypeInv' /\ Store => CallInv' /\ StoredInv'
<1> SUFFICES ASSUME SInv, TypeInv', Store PROVE CallInv' /\ StoredInv'
  OBVIOUS
<1> USE DEF SInv, IInv
<1>1. op # NoOp <=> pc = "io"
  BY DEF TypeInv, IoType
<1>2. CASE StoreCount
  <2>1. /\ pc = "io" /\ op'.kind = "write" /\ op.kind # "replace"
        /\ UNCHANGED <<db, memory, pc, next, made, failures, cancels>>
    BY <1>1, <1>2 DEF StoreCount, Counted, NoOp, database, session, counters, TypeInv, IoType,
       Operation
  <2>2. CallInv'
    BY <2>1 DEF CallInv, NothingFailed
  <2>3. StoredInv'
    BY <2>1 DEF StoredInv, Both, SameAt, NothingFailed
  <2> QED
    BY <2>2, <2>3
<1>3. CASE StoreWrite
  <2>1. /\ pc = "io" /\ pc' = next /\ pc' # "io" /\ UNCHANGED <<memory, made, failures, cancels>>
    BY <1>1, <1>3 DEF StoreWrite, Return, session, counters, NoOp, TypeInv, IoType
  <2> SUFFICES ASSUME NothingFailed PROVE CallInv' /\ StoredInv'
    BY <2>1 DEF CallInv, StoredInv, NothingFailed
  <2>2. /\ \A i \in DOMAIN db' : i \in DOMAIN memory /\ db'[i] = memory[i]
        /\ next = "finish" => db' = memory
    BY <1>3, Written
  <2>3. CallsOnce(memory) /\ CallsMade(memory, made)
    BY DEF CallInv
  <2>4. CallsOnce(db') /\ CallsMade(db', made)
    BY <2>2, <2>3, PartOf
  <2>5. CallInv'
    BY <2>1, <2>3, <2>4 DEF CallInv
  <2>6. StoredInv'
    BY <2>1, <2>2 DEF StoredInv, Both, SameAt
  <2> QED
    BY <2>5, <2>6
<1>4. CASE StoreFails
  <2>1. failures' # 0
    BY <1>4 DEF StoreFails, Fail, TypeInv, CounterType
  <2> QED
    BY <2>1 DEF CallInv, StoredInv, NothingFailed
<1>5. CASE CancelWhileStoring
  <2>1. cancels' # 0
    BY <1>5 DEF CancelWhileStoring, TypeInv, CounterType
  <2> QED
    BY <2>1 DEF CallInv, StoredInv, NothingFailed
<1>6. CASE Adrift
  <2>1. adrift # <<>> /\ cancels' = cancels
    BY <1>6 DEF Adrift, counters
  <2> QED
    BY <2>1 DEF PositionsInv, CallInv, StoredInv, NothingFailed
<1> QED
  BY <1>2, <1>3, <1>4, <1>5, <1>6 DEF Store

LEMMA CrashStored == CallInv /\ Crash => CallInv' /\ StoredInv'
BY DEF Crash, database, CallInv, CallsOnce, CallsMade, StoredInv, NothingFailed

\* When a run has finished and no store operation failed or was cancelled, the database
\* has its whole history, whatever the product edited between the runs and wherever the
\* process died in the runs before; unless after_execute suspends calls.
THEOREM FinishedIsStored ==
    ASSUME "after" \notin Suspensions
    PROVE  Spec => []RunIsStored
<1>1. Init => CallInv /\ StoredInv
  BY DEF Init, CallInv, CallsOnce, CallsMade, StoredInv
<1>2. IInv /\ IInv' /\ ResultInv /\ CallInv /\ StoredInv /\ [Next]_vars => CallInv' /\ StoredInv'
  <2> SUFFICES ASSUME SInv, TypeInv', [Next]_vars PROVE CallInv' /\ StoredInv'
    BY DEF SInv, IInv
  <2>1. CASE UNCHANGED vars
    BY <2>1 DEF SInv, vars, database, session, io, counters, CallInv, StoredInv, Both, SameAt,
       NothingFailed
  <2> QED
    BY <2>1, ProductStored, RunStepStored, StoreStored, CrashStored DEF Next, SInv
<1>3. StoredInv => RunIsStored
  BY DEF StoredInv, RunIsStored, NothingFailed
<1> QED
  BY <1>1, <1>2, <1>3, Invariance, ResultInvariance, PTL DEF Spec
-------------------------------------------------------------------------------
(***************************************************************************)
(* Every result right behind its call                                      *)
(***************************************************************************)
Answers(message, call) == Holds(message, "tool", call)
Asks(message, call) == Holds(message, "assistant", call)

\* A result stands behind a message that asks for its call, and only results lie
\* between, but for a call that was passed over.
Paired(history, j, passed) ==
    /\ history[j].calls # <<>>
    /\ \E i \in 1..j - 1 : /\ Asks(history[i], history[j].calls[1])
                           /\ \/ history[j].calls[1] \in passed
                              \/ \A k \in i + 1..j - 1 : history[k].role = "tool"
Followed(history, passed) ==
    \A j \in DOMAIN history : history[j].role = "tool" => Paired(history, j, passed)

\* Nothing but results stands behind a call that waits for its answer.
Awaited(history, call) ==
    \A i, j \in DOMAIN history :
        (i < j /\ Asks(history[i], call) /\ history[j].role # "tool") =>
            \E k \in 1..j - 1 : Answers(history[k], call)
AllAwaited(history, question, passed) ==
    \A n \in DOMAIN question : question[n] \in passed \/ Awaited(history, question[n])
AllAnswered(history, question, passed) ==
    \A n \in DOMAIN question : question[n] \in passed \/ HasToolResult(history, question[n])

\* Of two histories: all calls of the second are in the first; of some calls those of
\* the first are in the second (the database has calls that memory has cut).
NoneMissing(a, b) ==
    \A i \in DOMAIN a \cap DOMAIN b : \A c \in Call : Asks(b[i], c) => Asks(a[i], c)
NoneCut(a, b, calls, passed) ==
    \A n \in DOMAIN calls : calls[n] \in passed \/
        \A i \in DOMAIN a \cap DOMAIN b : Asks(a[i], calls[n]) => Asks(b[i], calls[n])

Place == IF pc = "io" THEN next ELSE pc
Goes == Place \in {"plan", "tools", "next"}
Ends == Place \in {"mark", "finish"}

\* The batch at hand: whatever message asks for one of its calls asks for the batch, and
\* only results stand behind it.
Stands(history, theBatch) ==
    \A n \in DOMAIN theBatch :
        /\ HasToolCall(history, theBatch[n])
        /\ \A i \in DOMAIN history : Asks(history[i], theBatch[n]) =>
              /\ history[i].calls = theBatch
              /\ \A j \in i + 1..Len(history) : history[j].role = "tool"

\* The history of a run: a pending question is answered before anything is added that is
\* no result, a suspended call before the next run adds anything, unless a run is started
\* over the question.
RunFollow ==
    /\ Followed(memory, over) /\ AllAwaited(memory, ask, over) /\ CallsMade(memory, made)
    /\ NoneMissing(db, memory) /\ NoneCut(db, memory, ask, over)
    /\ Place \in {"loaded", "answer"} => pending = ask
    /\ Goes => AllAnswered(memory, ask, over)
    /\ Goes \/ Place = "answer" => suspended = <<>>
    /\ Place = "tools" => Stands(memory, batch) /\ NoneCut(db, memory, batch, over)
    /\ Ends => AllAwaited(memory, suspended, over) /\ NoneCut(db, memory, suspended, over)

FollowInv ==
    cancels = 0 =>
        /\ Followed(db, over) /\ AllAwaited(db, ask, over) /\ CallsMade(db, made)
        /\ pc # "idle" => RunFollow

\* One history goes on where another ends, up to texts.
Extends(b, a) ==
    /\ Len(a) <= Len(b)
    /\ \A i \in 1..Len(a) : b[i].role = a[i].role /\ b[i].calls = a[i].calls

LEMMA SameHolds ==
    ASSUME NEW a, NEW b, a.role = b.role, a.calls = b.calls, NEW role, NEW call
    PROVE  Holds(a, role, call) <=> Holds(b, role, call)
BY DEF Holds

LEMMA ExtendsHolds ==
    ASSUME NEW a \in Seq(Message), NEW b \in Seq(Message), Extends(b, a)
    PROVE  /\ Len(a) \in Nat /\ Len(b) \in Nat /\ DOMAIN a = 1..Len(a) /\ DOMAIN b = 1..Len(b)
           /\ DOMAIN a \subseteq DOMAIN b
           /\ \A i \in DOMAIN a : b[i].role = a[i].role /\ b[i].calls = a[i].calls
           /\ \A i \in DOMAIN a : \A c : Asks(b[i], c) <=> Asks(a[i], c)
           /\ \A i \in DOMAIN a : \A c : Answers(b[i], c) <=> Answers(a[i], c)
           /\ \A i \in DOMAIN b : i \notin DOMAIN a <=> i > Len(a)
<1>1. /\ Len(a) \in Nat /\ Len(b) \in Nat /\ DOMAIN a = 1..Len(a) /\ DOMAIN b = 1..Len(b)
  OBVIOUS
<1>2. \A i \in DOMAIN a : b[i].role = a[i].role /\ b[i].calls = a[i].calls
  BY <1>1 DEF Extends
<1>3. \A i \in DOMAIN a : \A c : Asks(b[i], c) <=> Asks(a[i], c)
  BY <1>2, SameHolds DEF Asks
<1>5. \A i \in DOMAIN a : \A c : Answers(b[i], c) <=> Answers(a[i], c)
  BY <1>2, SameHolds DEF Answers
<1>4. DOMAIN a \subseteq DOMAIN b /\ \A i \in DOMAIN b : i \notin DOMAIN a <=> i > Len(a)
  BY <1>1 DEF Extends
<1> QED
  BY <1>1, <1>2, <1>3, <1>4, <1>5

\* What is kept of a history that is cut off.
LEMMA Shorter ==
    ASSUME NEW a \in Seq(Message), NEW b \in Seq(Message), Extends(b, a)
    PROVE  /\ Followed(b, over) => Followed(a, over)
           /\ \A c : Awaited(b, c) => Awaited(a, c)
           /\ \A n : CallsMade(b, n) => CallsMade(a, n)
           /\ \A d : NoneMissing(d, b) => NoneMissing(d, a)
           /\ \A d, q : NoneCut(d, b, q, over) => NoneCut(d, a, q, over)
<1>1. DOMAIN a = 1..Len(a) /\ Len(a) \in Nat
  BY ExtendsHolds
<1>a. \A i \in DOMAIN a : i \in DOMAIN b /\ b[i].role = a[i].role /\ b[i].calls = a[i].calls
  BY ExtendsHolds
<1>b. \A i \in DOMAIN a : \A c : Asks(b[i], c) <=> Asks(a[i], c)
  BY ExtendsHolds
<1>c. \A i \in DOMAIN a : \A c : Answers(b[i], c) <=> Answers(a[i], c)
  BY ExtendsHolds
<1>d. \A j \in DOMAIN a : \A k \in 1..j - 1 : k \in DOMAIN a
  BY <1>1
<1>2. ASSUME Followed(b, over), NEW j \in DOMAIN a, a[j].role = "tool" PROVE Paired(a, j, over)
  <2>1. Paired(b, j, over) /\ a[j].calls = b[j].calls
    BY <1>a, <1>2 DEF Followed
  <2>2. PICK i \in 1..j - 1 : /\ Asks(b[i], b[j].calls[1])
                             /\ \/ b[j].calls[1] \in over
                                \/ \A k \in i + 1..j - 1 : b[k].role = "tool"
    BY <2>1 DEF Paired
  <2>3. i \in DOMAIN a /\ \A k \in i + 1..j - 1 : k \in DOMAIN a
    BY <1>1, <2>2
  <2>4. Asks(a[i], a[j].calls[1])
    BY <1>b, <2>1, <2>2, <2>3
  <2>5. a[j].calls[1] \in over \/ \A k \in i + 1..j - 1 : a[k].role = "tool"
    BY <1>a, <2>1, <2>2, <2>3
  <2> QED
    BY <2>1, <2>2, <2>4, <2>5 DEF Paired
<1>3. ASSUME NEW c, Awaited(b, c) PROVE Awaited(a, c)
  <2> SUFFICES ASSUME NEW i \in DOMAIN a, NEW j \in DOMAIN a, i < j, Asks(a[i], c),
                      a[j].role # "tool"
               PROVE  \E k \in 1..j - 1 : Answers(a[k], c)
    BY DEF Awaited
  <2>1. i \in DOMAIN b /\ j \in DOMAIN b /\ Asks(b[i], c) /\ b[j].role # "tool"
    BY <1>a, <1>b
  <2>2. PICK k \in 1..j - 1 : Answers(b[k], c)
    BY <1>3, <2>1 DEF Awaited
  <2>3. k \in DOMAIN a
    BY <1>d, <2>2
  <2> QED
    BY <1>c, <2>2, <2>3
<1>4. ASSUME NEW n, CallsMade(b, n) PROVE CallsMade(a, n)
  <2> SUFFICES ASSUME NEW c \in Call, NEW i \in DOMAIN a, Asks(a[i], c) PROVE c[1] <= n
    BY DEF CallsMade, Asks
  <2>1. i \in DOMAIN b /\ Asks(b[i], c)
    BY <1>a, <1>b
  <2> QED
    BY <1>4, <2>1 DEF CallsMade, Asks
<1>5. ASSUME NEW d, NoneMissing(d, b) PROVE NoneMissing(d, a)
  <2> SUFFICES ASSUME NEW i \in DOMAIN d \cap DOMAIN a, NEW c \in Call, Asks(a[i], c)
               PROVE  Asks(d[i], c)
    BY DEF NoneMissing
  <2>1. i \in DOMAIN d \cap DOMAIN b /\ Asks(b[i], c)
    BY <1>a, <1>b
  <2> QED
    BY <1>5, <2>1 DEF NoneMissing
<1>6. ASSUME NEW d, NEW q, NoneCut(d, b, q, over) PROVE NoneCut(d, a, q, over)
  <2> SUFFICES ASSUME NEW n \in DOMAIN q, q[n] \notin over,
                      NEW i \in DOMAIN d \cap DOMAIN a, Asks(d[i], q[n])
               PROVE  Asks(a[i], q[n])
    BY DEF NoneCut
  <2>1. i \in DOMAIN d \cap DOMAIN b /\ i \in DOMAIN a
    BY <1>a
  <2>2. Asks(b[i], q[n])
    BY <1>6, <2>1 DEF NoneCut
  <2> QED
    BY <1>b, <2>1, <2>2
<1> QED
  BY <1>2, <1>3, <1>4, <1>5, <1>6 DEF Followed

\* What is added to a history: results behind their calls; anything else where no call
\* waits; calls that were made.
LEMMA Longer ==
    ASSUME NEW a \in Seq(Message), NEW b \in Seq(Message), Extends(b, a)
    PROVE  /\ (/\ Followed(a, over)
               /\ \A j \in DOMAIN b : (j > Len(a) /\ b[j].role = "tool") => Paired(b, j, over)) => Followed(b, over)
           /\ \A c : (/\ Awaited(a, c)
                      /\ \/ HasToolResult(a, c)
                         \/ \A j \in DOMAIN b : j > Len(a) => b[j].role = "tool") => Awaited(b, c)
           /\ \A c : HasToolResult(a, c) => HasToolResult(b, c)
           /\ \A c : HasToolCall(a, c) => HasToolCall(b, c)
           /\ \A d : (DOMAIN d \subseteq DOMAIN a /\ NoneMissing(d, a)) => NoneMissing(d, b)
           /\ \A d, q : (DOMAIN d \subseteq DOMAIN a /\ NoneCut(d, a, q, over)) => NoneCut(d, b, q, over)
<1>1. DOMAIN a = 1..Len(a) /\ Len(a) \in Nat /\ DOMAIN b = 1..Len(b) /\ Len(b) \in Nat
  BY ExtendsHolds
<1>a. \A i \in DOMAIN a : i \in DOMAIN b /\ b[i].role = a[i].role /\ b[i].calls = a[i].calls
  BY ExtendsHolds
<1>b. \A i \in DOMAIN a : \A c : Asks(b[i], c) <=> Asks(a[i], c)
  BY ExtendsHolds
<1>c. \A i \in DOMAIN a : \A c : Answers(b[i], c) <=> Answers(a[i], c)
  BY ExtendsHolds
<1>d. \A j \in DOMAIN a : \A k \in 1..j - 1 : k \in DOMAIN a
  BY <1>1
<1>e. \A i \in DOMAIN b : i \notin DOMAIN a <=> i > Len(a)
  BY ExtendsHolds
<1>2. ASSUME Followed(a, over), \A j \in DOMAIN b : (j > Len(a) /\ b[j].role = "tool") => Paired(b, j, over),
             NEW j \in DOMAIN b, b[j].role = "tool"
      PROVE  Paired(b, j, over)
  <2> SUFFICES ASSUME j \in DOMAIN a PROVE Paired(b, j, over)
    BY <1>2, <1>e
  <2>1. Paired(a, j, over) /\ a[j].calls = b[j].calls
    BY <1>a, <1>2 DEF Followed
  <2>2. PICK i \in 1..j - 1 : /\ Asks(a[i], a[j].calls[1])
                             /\ \/ a[j].calls[1] \in over
                                \/ \A k \in i + 1..j - 1 : a[k].role = "tool"
    BY <2>1 DEF Paired
  <2>3. i \in DOMAIN a /\ \A k \in i + 1..j - 1 : k \in DOMAIN a
    BY <1>1, <2>2
  <2>4. Asks(b[i], b[j].calls[1])
    BY <1>b, <2>1, <2>2, <2>3
  <2>5. b[j].calls[1] \in over \/ \A k \in i + 1..j - 1 : b[k].role = "tool"
    BY <1>a, <2>1, <2>2, <2>3
  <2> QED
    BY <2>1, <2>2, <2>4, <2>5 DEF Paired
<1>3. ASSUME NEW c, Awaited(a, c),
             \/ HasToolResult(a, c)
             \/ \A j \in DOMAIN b : j > Len(a) => b[j].role = "tool"
      PROVE  Awaited(b, c)
  <2> SUFFICES ASSUME NEW i \in DOMAIN b, NEW j \in DOMAIN b, i < j, Asks(b[i], c),
                      b[j].role # "tool"
               PROVE  \E k \in 1..j - 1 : Answers(b[k], c)
    BY DEF Awaited
  <2>1. CASE j \in DOMAIN a
    <3>1. i \in DOMAIN a
      BY <1>1, <2>1
    <3>2. Asks(a[i], c) /\ a[j].role # "tool"
      BY <1>a, <1>b, <2>1, <3>1
    <3>3. PICK k \in 1..j - 1 : Answers(a[k], c)
      BY <1>3, <2>1, <3>1, <3>2 DEF Awaited
    <3>4. k \in DOMAIN a
      BY <1>d, <2>1, <3>3
    <3> QED
      BY <1>c, <3>3, <3>4
  <2>2. CASE j \notin DOMAIN a
    <3>1. j > Len(a) /\ HasToolResult(a, c)
      BY <1>e, <1>3, <2>2
    <3>2. PICK k \in DOMAIN a : Answers(a[k], c)
      BY <3>1 DEF HasToolResult, Answers
    <3>3. k \in 1..j - 1
      BY <1>1, <3>1, <3>2
    <3> QED
      BY <1>c, <3>2, <3>3
  <2> QED
    BY <2>1, <2>2
<1>4. ASSUME NEW c, HasToolResult(a, c) PROVE HasToolResult(b, c)
  <2>1. PICK i \in DOMAIN a : Answers(a[i], c)
    BY <1>4 DEF HasToolResult, Answers
  <2>2. i \in DOMAIN b /\ Answers(b[i], c)
    BY <1>a, <1>c, <2>1
  <2> QED
    BY <2>2 DEF HasToolResult, Answers
<1>5. ASSUME NEW c, HasToolCall(a, c) PROVE HasToolCall(b, c)
  <2>1. PICK i \in DOMAIN a : Asks(a[i], c)
    BY <1>5 DEF HasToolCall, Asks
  <2>2. i \in DOMAIN b /\ Asks(b[i], c)
    BY <1>a, <1>b, <2>1
  <2> QED
    BY <2>2 DEF HasToolCall, Asks
<1>6. ASSUME NEW d, DOMAIN d \subseteq DOMAIN a, NoneMissing(d, a) PROVE NoneMissing(d, b)
  <2> SUFFICES ASSUME NEW i \in DOMAIN d \cap DOMAIN b, NEW c \in Call, Asks(b[i], c)
               PROVE  Asks(d[i], c)
    BY DEF NoneMissing
  <2>1. i \in DOMAIN d \cap DOMAIN a
    BY <1>6
  <2>2. Asks(a[i], c)
    BY <1>b, <2>1
  <2> QED
    BY <1>6, <2>1, <2>2 DEF NoneMissing
<1>7. ASSUME NEW d, NEW q, DOMAIN d \subseteq DOMAIN a, NoneCut(d, a, q, over) PROVE NoneCut(d, b, q, over)
  <2> SUFFICES ASSUME NEW n \in DOMAIN q, q[n] \notin over,
                      NEW i \in DOMAIN d \cap DOMAIN b, Asks(d[i], q[n])
               PROVE  Asks(b[i], q[n])
    BY DEF NoneCut
  <2>1. i \in DOMAIN d \cap DOMAIN a
    BY <1>7
  <2>2. Asks(a[i], q[n])
    BY <1>7, <2>1 DEF NoneCut
  <2> QED
    BY <1>b, <2>1, <2>2
<1>f. ASSUME Followed(a, over), \A j \in DOMAIN b : (j > Len(a) /\ b[j].role = "tool") => Paired(b, j, over)
      PROVE  Followed(b, over)
  BY <1>2, <1>f DEF Followed
<1> QED
  BY <1>f, <1>3, <1>4, <1>5, <1>6, <1>7

\* What the database has of a history.
LEMMA Mirrored ==
    ASSUME NEW d \in Seq(Message), NEW m \in Seq(Message), DOMAIN d \subseteq DOMAIN m,
           \A i \in DOMAIN d : Alike(d[i], m[i]), NoneMissing(d, m)
    PROVE  /\ Followed(m, over) => Followed(d, over)
           /\ \A q : AllAwaited(m, q, over) /\ NoneCut(d, m, q, over) => AllAwaited(d, q, over)
<1>1. DOMAIN d = 1..Len(d) /\ Len(d) \in Nat
  OBVIOUS
<1>d. \A j \in DOMAIN d : \A k \in 1..j - 1 : k \in DOMAIN d
  BY <1>1
<1>a. \A i \in DOMAIN d : i \in DOMAIN m /\ d[i].role = m[i].role
  BY DEF Alike
<1>b. \A i \in DOMAIN d : d[i].role = "tool" => d[i].calls = m[i].calls
  BY DEF Alike
<1>3. ASSUME Followed(m, over), NEW j \in DOMAIN d, d[j].role = "tool" PROVE Paired(d, j, over)
  <2>1. j \in DOMAIN m /\ m[j].role = "tool" /\ d[j].calls = m[j].calls
    BY <1>a, <1>b, <1>3
  <2>2. Paired(m, j, over)
    BY <1>3, <2>1 DEF Followed
  <2>3. PICK i \in 1..j - 1 : /\ Asks(m[i], m[j].calls[1])
                             /\ \/ m[j].calls[1] \in over
                                \/ \A k \in i + 1..j - 1 : m[k].role = "tool"
    BY <2>2 DEF Paired
  <2>4. i \in DOMAIN d /\ \A k \in i + 1..j - 1 : k \in DOMAIN d
    BY <1>1, <2>3
  <2>5. d[j].calls # <<>> /\ d[j].calls[1] \in Call
    <3>1. d[j] \in Message
      BY Element
    <3>2. d[j].calls \in Seq(Call) /\ d[j].calls # <<>>
      BY <2>1, <2>2, <3>1 DEF Message, Paired
    <3> QED
      BY <3>2
  <2>6. Asks(d[i], d[j].calls[1])
    <3>1. i \in DOMAIN d \cap DOMAIN m
      BY <1>a, <2>4
    <3> QED
      BY <2>1, <2>3, <2>5, <3>1 DEF NoneMissing
  <2>7. d[j].calls[1] \in over \/ \A k \in i + 1..j - 1 : d[k].role = "tool"
    BY <1>a, <2>1, <2>3, <2>4
  <2> QED
    BY <2>3, <2>5, <2>6, <2>7 DEF Paired
<1>4. ASSUME NEW q, NEW n \in DOMAIN q, AllAwaited(m, q, over), NoneCut(d, m, q, over),
             q[n] \notin over
      PROVE  Awaited(d, q[n])
  <2> SUFFICES ASSUME NEW i \in DOMAIN d, NEW j \in DOMAIN d, i < j, Asks(d[i], q[n]),
                      d[j].role # "tool"
               PROVE  \E k \in 1..j - 1 : Answers(d[k], q[n])
    BY DEF Awaited
  <2>1. i \in DOMAIN d \cap DOMAIN m /\ j \in DOMAIN m /\ m[j].role # "tool"
    BY <1>a
  <2>2. Asks(m[i], q[n])
    BY <1>4, <2>1 DEF NoneCut
  <2>3. PICK k \in 1..j - 1 : Answers(m[k], q[n])
    BY <1>4, <2>1, <2>2 DEF AllAwaited, Awaited
  <2>4. k \in DOMAIN d
    BY <1>d, <2>3
  <2>5. Answers(d[k], q[n])
    <3>1. m[k].role = "tool" /\ d[k].role = "tool" /\ d[k].calls = m[k].calls
      BY <1>a, <1>b, <2>3, <2>4 DEF Answers, Holds
    <3> QED
      BY <2>3, <3>1, SameHolds DEF Answers
  <2> QED
    BY <2>3, <2>5
<1>5. Followed(m, over) => Followed(d, over)
  BY <1>3 DEF Followed
<1> QED
  BY <1>4, <1>5 DEF AllAwaited

\* A step of a run that lets the database be.
AtRun == IInv /\ ResultInv /\ FollowInv /\ TypeInv' /\ cancels = 0 /\ pc \notin {"idle", "io"}

LEMMA AtRunFacts ==
    ASSUME AtRun
    PROVE  /\ db \in Seq(Message) /\ memory \in Seq(Message) /\ memory' \in Seq(Message)
           /\ made \in Nat /\ made' \in Nat /\ DOMAIN db \subseteq DOMAIN memory
           /\ Followed(db, over) /\ AllAwaited(db, ask, over) /\ CallsMade(db, made) /\ RunFollow
           /\ \A i \in DOMAIN db : Alike(db[i], memory[i])
           /\ Place = pc
<1>1. /\ db \in Seq(Message) /\ memory \in Seq(Message) /\ memory' \in Seq(Message)
      /\ made \in Nat /\ made' \in Nat
  BY Bounds DEF AtRun, IInv, TypeInv, DatabaseType, SessionType, MadeType
<1>2. DOMAIN db \subseteq DOMAIN memory
  BY Within DEF AtRun
<1>3. /\ Followed(db, over) /\ AllAwaited(db, ask, over) /\ CallsMade(db, made) /\ RunFollow
      /\ Place = pc
  BY DEF AtRun, FollowInv, Place
<1>4. \A i \in DOMAIN db : Alike(db[i], memory[i])
  BY <1>2 DEF AtRun, ResultInv
<1> QED
  BY <1>1, <1>2, <1>3, <1>4

LEMMA RunAdds ==
    ASSUME AtRun, db' = db, made' >= made, Extends(memory', memory),
           \A j \in DOMAIN memory' : (j > Len(memory) /\ memory'[j].role = "tool") => Paired(memory', j, over),
           \A j \in DOMAIN memory' : \A c \in Call :
               (j > Len(memory) /\ Asks(memory'[j], c)) => c[1] <= made'
    PROVE  /\ Followed(memory', over) /\ Followed(db', over)
           /\ CallsMade(memory', made') /\ CallsMade(db', made')
           /\ NoneMissing(db', memory')
           /\ \A q : NoneCut(db, memory, q, over) => NoneCut(db', memory', q, over)
<1>1. /\ memory \in Seq(Message) /\ memory' \in Seq(Message) /\ db' = db
      /\ made \in Nat /\ made' \in Nat /\ made <= made' /\ DOMAIN db \subseteq DOMAIN memory
  BY AtRunFacts
<1>2. /\ Followed(db, over) /\ CallsMade(db, made) /\ Followed(memory, over) /\ CallsMade(memory, made)
      /\ NoneMissing(db, memory)
  BY AtRunFacts DEF RunFollow
<1>3. Followed(memory', over)
  BY <1>1, <1>2, Longer
<1>4. NoneMissing(db', memory')
  BY <1>1, <1>2, Longer
<1>5. ASSUME NEW q, NoneCut(db, memory, q, over) PROVE NoneCut(db', memory', q, over)
  BY <1>1, <1>5, Longer
<1>6. CallsMade(db', made')
  BY <1>1, <1>2, MadeMonotone
<1>7. CallsMade(memory', made')
  <2> SUFFICES ASSUME NEW c \in Call, NEW i \in DOMAIN memory', Asks(memory'[i], c)
               PROVE  c[1] <= made'
    BY DEF CallsMade, Asks
  <2>1. CASE i \in DOMAIN memory
    <3>1. Asks(memory[i], c)
      BY <1>1, <2>1, ExtendsHolds
    <3>2. CallsMade(memory, made')
      BY <1>1, <1>2, MadeMonotone
    <3> QED
      BY <2>1, <3>1, <3>2 DEF CallsMade, Asks
  <2>2. CASE i \notin DOMAIN memory
    <3>1. i > Len(memory)
      BY <1>1, <2>2, ExtendsHolds
    <3> QED
      BY <3>1
  <2> QED
    BY <2>1, <2>2
<1> QED
  BY <1>1, <1>2, <1>3, <1>4, <1>5, <1>6, <1>7

\* The question that is on record afterwards is awaited in the database.
LEMMA RecordAwaited ==
    ASSUME AtRun, db' = db, ask' \in {ask, <<>>} \/ (ask' = suspended /\ Ends)
    PROVE  AllAwaited(db', ask', over)
<1>1. CASE ask' \in {ask, <<>>}
  BY <1>1, AtRunFacts DEF AllAwaited
<1>2. CASE ask' = suspended /\ Ends
  <2>1. AllAwaited(memory, suspended, over) /\ NoneCut(db, memory, suspended, over) /\ NoneMissing(db, memory)
    BY <1>2, AtRunFacts DEF RunFollow
  <2>2. AllAwaited(db, suspended, over)
    BY <2>1, AtRunFacts, Mirrored
  <2> QED
    BY <1>2, <2>2
<1> QED
  BY <1>1, <1>2

\* Steps that add nothing, or messages that neither ask nor answer.
Calm ==
    /\ db' = db /\ made' >= made /\ UNCHANGED <<cancels, over>> /\ Extends(memory', memory)
    /\ \A j \in DOMAIN memory' : j > Len(memory) =>
          memory'[j].role # "tool" /\ (memory'[j].role = "assistant" => memory'[j].calls = <<>>)
    /\ pc # "loaded" /\ (Goes \/ Len(memory') = Len(memory))
    /\ \/ Place' \in {"plan", "next"} /\ Goes /\ UNCHANGED <<ask, suspended>>
       \/ /\ Place' = "finish" /\ (ask' = ask \/ (ask' = suspended /\ Ends))
          /\ UNCHANGED suspended
       \/ Place' = "idle" /\ (ask' \in {ask, <<>>} \/ (ask' = suspended /\ Ends))

LEMMA CalmFollow == AtRun /\ Calm => FollowInv'
<1> SUFFICES ASSUME AtRun, Calm PROVE FollowInv'
  OBVIOUS
<1>1. /\ memory \in Seq(Message) /\ memory' \in Seq(Message) /\ DOMAIN db \subseteq DOMAIN memory
      /\ RunFollow /\ Place = pc
  BY AtRunFacts
<1>2. /\ Followed(memory', over) /\ Followed(db', over)
      /\ CallsMade(memory', made') /\ CallsMade(db', made')
      /\ NoneMissing(db', memory')
      /\ \A q : NoneCut(db, memory, q, over) => NoneCut(db', memory', q, over)
  <2>1. \A j \in DOMAIN memory' : \A c \in Call : j > Len(memory) => ~Asks(memory'[j], c)
    BY DEF Calm, Asks, Holds
  <2> QED
    BY <2>1, RunAdds DEF Calm
<1>3. AllAwaited(db', ask', over)
  BY RecordAwaited DEF Calm
<1>4. ASSUME NEW c, Awaited(memory, c), Goes => HasToolResult(memory, c)
      PROVE  Awaited(memory', c)
  <2>1. HasToolResult(memory, c) \/ \A j \in DOMAIN memory' : j > Len(memory) => memory'[j].role = "tool"
    <3>1. CASE Len(memory') = Len(memory)
      <4>1. DOMAIN memory' = 1..Len(memory') /\ Len(memory') \in Nat
        BY <1>1
      <4>2. \A j \in DOMAIN memory' : ~(j > Len(memory))
        BY <3>1, <4>1
      <4> QED
        BY <4>2
    <3> QED
      BY <1>4, <3>1 DEF Calm
  <2> QED
    BY <1>1, <1>4, <2>1, Longer DEF Calm
<1>5. AllAwaited(memory', ask, over) /\ NoneCut(db', memory', ask, over)
  BY <1>1, <1>2, <1>4 DEF RunFollow, AllAwaited, AllAnswered
<1>6. suspended = <<>> \/ Ends => AllAwaited(memory', suspended, over) /\ NoneCut(db', memory', suspended, over)
  <2>1. CASE suspended = <<>>
    BY <2>1 DEF AllAwaited, NoneCut
  <2>2. CASE Ends
    <3>1. ~Goes
      BY <2>2 DEF Ends, Goes
    <3> QED
      BY <1>1, <1>2, <1>4, <2>2, <3>1 DEF RunFollow, AllAwaited
  <2> QED
    BY <2>1, <2>2
<1>7. AllAwaited(memory', ask', over) /\ NoneCut(db', memory', ask', over)
  <2>1. AllAwaited(memory', <<>>, over) /\ NoneCut(db', memory', <<>>, over)
    BY DEF AllAwaited, NoneCut
  <2> QED
    BY <1>5, <1>6, <2>1 DEF Calm
<1>8. suspended = <<>> \/ Ends
  <2>1. Goes \/ Ends \/ Place = "answer"
    <3>1. pc \in Labels
      BY DEF AtRun, IInv, TypeInv, IoType
    <3> QED
      BY <1>1, <3>1 DEF Labels, Calm, AtRun, Goes, Ends
  <2> QED
    BY <1>1, <2>1 DEF RunFollow
<1>9. /\ Place' \in {"plan", "next"} => AllAnswered(memory', ask', over) /\ suspended' = <<>>
      /\ Place' = "finish" => AllAwaited(memory', suspended', over) /\ NoneCut(db', memory', suspended', over)
  <2>1. ASSUME Goes PROVE AllAnswered(memory', ask, over) /\ suspended = <<>>
    <3>1. AllAnswered(memory, ask, over) /\ suspended = <<>>
      BY <1>1, <2>1 DEF RunFollow
    <3>2. \A c : HasToolResult(memory, c) => HasToolResult(memory', c)
      BY <1>1, Longer DEF Calm
    <3> QED
      BY <3>1, <3>2 DEF AllAnswered
  <2>2. Place' \in {"plan", "next"} => AllAnswered(memory', ask', over) /\ suspended' = <<>>
    BY <2>1 DEF Calm
  <2>3. Place' = "finish" => AllAwaited(memory', suspended', over) /\ NoneCut(db', memory', suspended', over)
    BY <1>6, <1>8 DEF Calm
  <2> QED
    BY <2>2, <2>3
<1>10. Place' \in {"plan", "next", "finish", "idle"}
  BY DEF Calm
<1> QED
  BY <1>2, <1>3, <1>7, <1>9, <1>10 DEF FollowInv, RunFollow, Goes, Ends, Calm

LEMMA PersistPlace ==
    ASSUME NEW history, NEW label, Persist(history, label)
    PROVE  Place' = label /\ pc' = "io"
BY DEF Persist, Place

LEMMA GotoPlace ==
    ASSUME NEW label, label # "io", Goto(label)
    PROVE  Place' = label /\ pc' = label
BY DEF Goto, Place

LEMMA GrowExtends ==
    ASSUME TypeInv, NEW messages \in Seq(Message), Grow(messages)
    PROVE  /\ Extends(memory', memory)
           /\ \A j \in DOMAIN memory' : j > Len(memory) =>
                 j - Len(memory) \in DOMAIN messages /\ memory'[j] = messages[j - Len(memory)]
<1>1. /\ memory \in Seq(Message) /\ memory' = memory \o messages
      /\ Len(memory) \in Nat /\ Len(messages) \in Nat
  BY DEF TypeInv, SessionType, Grow
<1>2. Len(memory) <= Len(memory') /\ \A i \in 1..Len(memory) : memory'[i] = memory[i]
  BY <1>1
<1>3. Extends(memory', memory)
  BY <1>2 DEF Extends
<1>4. ASSUME NEW j \in DOMAIN memory', j > Len(memory)
      PROVE  j - Len(memory) \in DOMAIN messages /\ memory'[j] = messages[j - Len(memory)]
  BY <1>1, <1>4
<1> QED
  BY <1>3, <1>4

LEMMA SameExtends ==
    ASSUME TypeInv, UNCHANGED <<memory, made>>
    PROVE  /\ Extends(memory', memory) /\ Len(memory') = Len(memory) /\ made' >= made
           /\ \A j \in DOMAIN memory' : ~(j > Len(memory))
BY Bounds DEF TypeInv, SessionType, MadeType, Extends

\* Messages of the inbox, and a reply that is continued or begun.
LEMMA QuietExtends ==
    ASSUME TypeInv, NEW messages \in Seq(Message), Grow(messages),
           \A i \in DOMAIN messages : messages[i].role # "tool" /\ messages[i].calls = <<>>
    PROVE  /\ Extends(memory', memory) /\ made' >= made
           /\ \A j \in DOMAIN memory' : j > Len(memory) =>
                 memory'[j].role # "tool" /\ (memory'[j].role = "assistant" => memory'[j].calls = <<>>)
<1>1. Extends(memory', memory) /\ made' >= made
  BY GrowExtends, GrowStays
<1>2. \A j \in DOMAIN memory' : j > Len(memory) =>
                 j - Len(memory) \in DOMAIN messages /\ memory'[j] = messages[j - Len(memory)]
  BY GrowExtends
<1> QED
  BY <1>1, <1>2

LEMMA ArrivalsExtend ==
    ASSUME TypeInv, NEW roles \in Seq(Arrivals),
           Grow([i \in DOMAIN roles |-> New(i, roles[i], <<>>)])
    PROVE  /\ Extends(memory', memory) /\ made' >= made
           /\ \A j \in DOMAIN memory' : j > Len(memory) =>
                 memory'[j].role # "tool" /\ (memory'[j].role = "assistant" => memory'[j].calls = <<>>)
<1> DEFINE messages == [i \in DOMAIN roles |-> New(i, roles[i], <<>>)]
<1>1. messages \in Seq(Message)
  BY ArrivalsMessages
<1>2. \A i \in DOMAIN messages : messages[i].role # "tool" /\ messages[i].calls = <<>>
  <2>1. DOMAIN roles = 1..Len(roles)
    OBVIOUS
  <2>2. \A i \in DOMAIN roles : roles[i] \in {"user", "companion"}
    BY <2>1, Element, ArrivalsAssumption
  <2> QED
    BY <2>2 DEF New
<1>3. Grow(messages)
  OBVIOUS
<1> HIDE DEF messages
<1> QED
  BY <1>1, <1>2, <1>3, QuietExtends

LEMMA ReplyExtends ==
    ASSUME TypeInv, Reply
    PROVE  /\ Extends(memory', memory) /\ made' >= made
           /\ \A j \in DOMAIN memory' : j > Len(memory) =>
                 memory'[j].role # "tool" /\ (memory'[j].role = "assistant" => memory'[j].calls = <<>>)
<1>1. memory \in Seq(Message) /\ DOMAIN memory = 1..Len(memory) /\ Len(memory) \in Nat
  BY DEF TypeInv, SessionType
<1>2. CASE ~EndsWithOpenReply(memory)
  <2> DEFINE messages == <<New(1, "assistant", <<>>)>>
  <2>1. Grow(messages) /\ <<>> \in Seq(Call)
    BY <1>2 DEF Reply
  <2>2. messages \in Seq(Message)
    BY <2>1, OneMessage
  <2>3. \A i \in DOMAIN messages : messages[i].role # "tool" /\ messages[i].calls = <<>>
    BY DEF New
  <2> HIDE DEF messages
  <2> QED
    BY <2>1, <2>2, <2>3, QuietExtends
<1>3. CASE EndsWithOpenReply(memory)
  <2>1. /\ memory' = [memory EXCEPT ![Len(memory)].text = @ + 1] /\ made' = made
        /\ Len(memory) \in DOMAIN memory
    BY <1>1, <1>3 DEF Reply, EndsWithOpenReply
  <2>2. /\ DOMAIN memory' = DOMAIN memory /\ Len(memory') = Len(memory)
        /\ \A i \in DOMAIN memory : i # Len(memory) => memory'[i] = memory[i]
    BY <1>1, <2>1
  <2>3. /\ memory'[Len(memory)].role = memory[Len(memory)].role
        /\ memory'[Len(memory)].calls = memory[Len(memory)].calls
    <3>1. memory[Len(memory)] \in Message
      BY <1>1, <2>1
    <3>2. memory'[Len(memory)] = [memory[Len(memory)] EXCEPT !.text = @ + 1]
      BY <1>1, <2>1, <3>1 DEF Message
    <3> QED
      BY <3>1, <3>2 DEF Message
  <2>4. Extends(memory', memory)
    BY <1>1, <2>2, <2>3 DEF Extends
  <2>5. \A j \in DOMAIN memory' : ~(j > Len(memory))
    BY <1>1, <2>2
  <2>6. made' >= made
    BY <2>1, Bounds DEF TypeInv, MadeType
  <2> QED
    BY <2>4, <2>5, <2>6
<1> QED
  BY <1>2, <1>3

LEMMA CalmSteps ==
    ASSUME AtRun, over' = over,
           \/ RefuseAnswer \/ Conclude \/ Interrupted \/ NextStep \/ MarkQuestion \/ Finish
           \/ Interval \/ GoOn \/ Reply
    PROVE  FollowInv'
<1> USE DEF IInv
<1>0. TypeInv /\ Place = pc
  BY AtRunFacts DEF AtRun
<1>1. CASE RefuseAnswer \/ Conclude \/ Interrupted
  <2>1. /\ UNCHANGED <<db, ask, suspended, memory, made, cancels>>
        /\ pc \in {"answer", "plan", "tools", "next"}
        /\ \E label \in {"finish", "idle"} : Persist(memory, label)
    BY <1>1 DEF RefuseAnswer, Conclude, Interrupted, database, session, step, counters
  <2>2. Place' \in {"finish", "idle"}
    BY <2>1, PersistPlace
  <2> QED
    BY <1>0, <2>1, <2>2, SameExtends, CalmFollow DEF Calm
<1>2. CASE NextStep
  <2>1. UNCHANGED <<db, ask, suspended, memory, made, cancels>> /\ pc = "next" /\ Goto("plan")
    BY <1>2 DEF NextStep, database, session, step, counters
  <2>2. Place' = "plan"
    BY <2>1, GotoPlace
  <2> QED
    BY <1>0, <2>1, <2>2, SameExtends, CalmFollow DEF Calm, Goes
<1>3. CASE MarkQuestion
  <2>1. /\ UNCHANGED <<db, suspended, memory, made, cancels>> /\ ask' \in {ask, suspended}
        /\ pc = "mark" /\ Persist(memory, "finish")
    BY <1>3, FailCancels DEF MarkQuestion, MarkSuspended, step, counters
  <2>2. Place' = "finish"
    BY <2>1, PersistPlace
  <2> QED
    BY <1>0, <2>1, <2>2, SameExtends, CalmFollow DEF Calm, Ends
<1>4. CASE Finish
  <2>1. /\ UNCHANGED <<db, suspended, memory, made, cancels>> /\ ask' \in {ask, <<>>, suspended}
        /\ pc = "finish" /\ Goto("idle")
    BY <1>4, FailCancels DEF Finish, MarkSuspended, ClearQuestion, LeaveQuestion, step, counters,
       database, session
  <2>2. Place' = "idle"
    BY <2>1, GotoPlace
  <2> QED
    BY <1>0, <2>1, <2>2, SameExtends, CalmFollow DEF Calm, Ends
<1>5. CASE Interval
  <2>1. /\ UNCHANGED <<db, ask, suspended, cancels>> /\ pc = "tools" /\ Persist(memory', "next")
        /\ Grow([i \in DOMAIN inbox.step |-> New(i, inbox.step[i], <<>>)])
    BY <1>5 DEF Interval, database, step, counters
  <2>2. inbox.step \in Seq(Arrivals)
    BY <1>0 DEF TypeInv, InboxType
  <2>3. Place' = "next"
    BY <2>1, PersistPlace
  <2>4. /\ Extends(memory', memory) /\ made' >= made
        /\ \A j \in DOMAIN memory' : j > Len(memory) =>
              memory'[j].role # "tool" /\ (memory'[j].role = "assistant" => memory'[j].calls = <<>>)
    BY <1>0, <2>1, <2>2, ArrivalsExtend
  <2> QED
    BY <1>0, <2>1, <2>3, <2>4, CalmFollow DEF Calm, Goes
<1>6. CASE GoOn
  <2>1. /\ UNCHANGED <<db, ask, suspended, cancels>> /\ pc = "next" /\ Persist(memory', "plan")
        /\ Grow([i \in DOMAIN Arrived |-> New(i, Arrived[i], <<>>)])
    BY <1>6 DEF GoOn, database, step, counters
  <2>2. Arrived \in Seq(Arrivals)
    <3>1. inbox.step \in Seq(Arrivals) /\ inbox.turn \in Seq(Arrivals)
      BY <1>0 DEF TypeInv, InboxType
    <3> QED
      BY <3>1 DEF Arrived
  <2>3. Place' = "plan"
    BY <2>1, PersistPlace
  <2>4. /\ Extends(memory', memory) /\ made' >= made
        /\ \A j \in DOMAIN memory' : j > Len(memory) =>
              memory'[j].role # "tool" /\ (memory'[j].role = "assistant" => memory'[j].calls = <<>>)
    BY <1>0, <2>1, <2>2, ArrivalsExtend
  <2> QED
    BY <1>0, <2>1, <2>3, <2>4, CalmFollow DEF Calm, Goes
<1>7. CASE Reply
  <2>1. /\ UNCHANGED <<db, ask, suspended, cancels>> /\ pc = "plan" /\ Persist(memory', "next")
    BY <1>7 DEF Reply, database, counters
  <2>3. Place' = "next"
    BY <2>1, PersistPlace
  <2>4. /\ Extends(memory', memory) /\ made' >= made
        /\ \A j \in DOMAIN memory' : j > Len(memory) =>
              memory'[j].role # "tool" /\ (memory'[j].role = "assistant" => memory'[j].calls = <<>>)
    BY <1>0, <1>7, ReplyExtends
  <2> QED
    BY <1>0, <2>1, <2>3, <2>4, CalmFollow DEF Calm, Goes
<1> QED
  BY <1>1, <1>2, <1>3, <1>4, <1>5, <1>6, <1>7

\* The model asks for tools: the calls are new.
LEMMA BatchFollow ==
    ASSUME AtRun, over' = over, AskForTools
    PROVE  FollowInv'
<1> USE DEF IInv
<1>0. TypeInv /\ Place = pc /\ RunFollow /\ memory \in Seq(Message) /\ memory' \in Seq(Message)
      /\ db \in Seq(Message) /\ made \in Nat /\ CallsMade(db, made) /\ CallsMade(memory, made)
      /\ DOMAIN db \subseteq DOMAIN memory
  BY AtRunFacts DEF AtRun, RunFollow
<1>1. /\ pc = "plan" /\ UNCHANGED <<db, ask, suspended, cancels>> /\ Persist(memory', "tools")
      /\ Grow(<<New(1, "assistant", batch')>>)
  BY DEF AskForTools, database, counters
<1>2. PICK size \in Nat \ {0} : batch' = [k \in 1..size |-> <<made + 1, k>>]
  BY BatchSizesAssumption DEF AskForTools, TakeUp
<1>3. /\ batch' \in Seq(Call) /\ DOMAIN batch' # {}
      /\ \A k \in DOMAIN batch' : batch'[k][1] = made + 1 /\ batch'[k] \in Call
  <2>1. batch' \in Seq(Call)
    BY DEF AtRun, TypeInv, StepType
  <2>2. \A k \in DOMAIN batch' : batch'[k] \in Call
    BY <2>1
  <2>3. DOMAIN batch' = 1..size
    BY <1>2
  <2>4. \A k \in DOMAIN batch' : batch'[k][1] = made + 1
    BY <1>2
  <2>5. 1 \in DOMAIN batch'
    BY <2>3
  <2> QED
    BY <2>1, <2>2, <2>4, <2>5
<1> DEFINE messages == <<New(1, "assistant", batch')>>
<1>4. messages \in Seq(Message)
  BY <1>0, <1>1, <1>3, OneMessage
<1>5. Grow(messages) /\ Len(messages) = 1 /\ DOMAIN messages = 1..1
      /\ messages[1].calls = batch' /\ messages[1].role = "assistant"
  BY <1>1 DEF New
<1> HIDE DEF messages
<1>6. Extends(memory', memory) /\ made' = made + 1 /\ made' >= made
      /\ Len(memory') = Len(memory) + 1 /\ DOMAIN memory' = 1..Len(memory')
  BY <1>0, <1>4, <1>5, GrowExtends, GrowStays
<1>7. ASSUME NEW j \in DOMAIN memory', j > Len(memory)
      PROVE  j = Len(memory) + 1 /\ memory'[j].role = "assistant" /\ memory'[j].calls = batch'
  <2>1. j - Len(memory) \in DOMAIN messages /\ memory'[j] = messages[j - Len(memory)]
    BY <1>0, <1>4, <1>5, <1>7, GrowExtends
  <2>2. j \in Nat /\ Len(memory) \in Nat
    BY <1>0
  <2> QED
    BY <1>5, <2>1, <2>2
<1>8. /\ Followed(memory', over) /\ Followed(db', over)
      /\ CallsMade(memory', made') /\ CallsMade(db', made')
      /\ NoneMissing(db', memory')
      /\ \A q : NoneCut(db, memory, q, over) => NoneCut(db', memory', q, over)
  <2>1. \A j \in DOMAIN memory' : j > Len(memory) => memory'[j].role # "tool"
    BY <1>7
  <2>2. ASSUME NEW j \in DOMAIN memory', NEW c \in Call, j > Len(memory), Asks(memory'[j], c)
        PROVE  c[1] <= made'
    <3>1. memory'[j].calls = batch'
      BY <1>7, <2>2
    <3>2. c[1] = made + 1
      BY <1>3, <2>2, <3>1 DEF Asks, Holds
    <3> QED
      BY <1>0, <1>6, <3>2
  <2> QED
    BY <1>1, <1>6, <2>1, <2>2, RunAdds
<1>9. AllAwaited(db', ask', over)
  BY <1>1, RecordAwaited
<1>10. AllAwaited(memory', ask', over) /\ AllAnswered(memory', ask', over) /\ NoneCut(db', memory', ask', over)
       /\ suspended' = <<>>
  <2>1. AllAwaited(memory, ask, over) /\ AllAnswered(memory, ask, over) /\ NoneCut(db, memory, ask, over)
        /\ suspended = <<>>
    BY <1>0, <1>1 DEF RunFollow, Goes
  <2>2. ASSUME NEW c, Awaited(memory, c), HasToolResult(memory, c)
        PROVE  Awaited(memory', c) /\ HasToolResult(memory', c)
    BY <1>0, <1>6, <2>2, Longer
  <2> QED
    BY <1>1, <1>8, <2>1, <2>2 DEF AllAwaited, AllAnswered
<1>11. ASSUME NEW n \in DOMAIN batch', NEW h \in Seq(Message), CallsMade(h, made), NEW i \in DOMAIN h
       PROVE  ~Asks(h[i], batch'[n])
  <2>1. batch'[n] \in Call /\ batch'[n][1] = made + 1
    BY <1>3
  <2> QED
    BY <1>0, <1>11, <2>1 DEF CallsMade, Asks
<1>12. Stands(memory', batch')
  <2> SUFFICES ASSUME NEW n \in DOMAIN batch'
               PROVE  /\ HasToolCall(memory', batch'[n])
                      /\ \A i \in DOMAIN memory' : Asks(memory'[i], batch'[n]) =>
                            /\ memory'[i].calls = batch'
                            /\ \A j \in i + 1..Len(memory') : memory'[j].role = "tool"
    BY DEF Stands
  <2>1. Len(memory') = Len(memory) + 1 /\ DOMAIN memory' = 1..Len(memory') /\ Len(memory) \in Nat
    BY <1>0, <1>6
  <2>2. Len(memory) + 1 \in DOMAIN memory' /\ Len(memory) + 1 > Len(memory)
    BY <2>1
  <2>3. HasToolCall(memory', batch'[n])
    BY <1>7, <2>2 DEF HasToolCall, Holds
  <2>4. ASSUME NEW i \in DOMAIN memory', Asks(memory'[i], batch'[n])
        PROVE  i > Len(memory)
    <3>1. CASE i \in DOMAIN memory
      <4>1. Asks(memory[i], batch'[n])
        BY <1>0, <1>6, <2>4, <3>1, ExtendsHolds
      <4> QED
        BY <1>0, <1>11, <3>1, <4>1
    <3>2. CASE i \notin DOMAIN memory
      BY <1>0, <1>6, <3>2, ExtendsHolds
    <3> QED
      BY <3>1, <3>2
  <2>5. ASSUME NEW i \in DOMAIN memory', Asks(memory'[i], batch'[n])
        PROVE  /\ memory'[i].calls = batch'
               /\ \A j \in i + 1..Len(memory') : memory'[j].role = "tool"
    <3>1. i = Len(memory) + 1 /\ memory'[i].calls = batch'
      BY <1>7, <2>4, <2>5
    <3>2. \A j \in i + 1..Len(memory') : FALSE
      BY <2>1, <3>1
    <3> QED
      BY <3>1, <3>2
  <2> QED
    BY <2>3, <2>5
<1>13. NoneCut(db', memory', batch', over)
  <2>1. \A n \in DOMAIN batch' : \A i \in DOMAIN db : ~Asks(db[i], batch'[n])
    BY <1>0, <1>11
  <2> QED
    BY <1>1, <2>1 DEF NoneCut
<1>14. Place' = "tools"
  BY <1>1, PersistPlace
<1> QED
  BY <1>8, <1>9, <1>10, <1>12, <1>13, <1>14 DEF FollowInv, RunFollow, Goes, Ends

\* A result is added to the batch it belongs to.
LEMMA ToolResultFollow ==
    ASSUME AtRun, over' = over, ToolResult
    PROVE  FollowInv'
<1> USE DEF IInv
<1>0. TypeInv /\ Place = pc /\ RunFollow /\ memory \in Seq(Message) /\ memory' \in Seq(Message)
      /\ DOMAIN memory = 1..Len(memory) /\ Len(memory) \in Nat
  BY AtRunFacts DEF AtRun
<1> DEFINE c == batch[at]
<1>1. /\ pc = "tools" /\ UNCHANGED <<db, ask, suspended, batch, cancels>> /\ Goto("tools")
      /\ Grow(<<New(1, "tool", <<c>>)>>)
  BY DEF ToolResult, database, counters
<1>2. at \in DOMAIN batch /\ c \in Call
  BY <1>0, Element DEF ToolResult, TypeInv, StepType
<1> DEFINE messages == <<New(1, "tool", <<c>>)>>
<1>4. messages \in Seq(Message)
  <2>1. <<c>> \in Seq(Call)
    BY <1>2
  <2> HIDE DEF c
  <2> QED
    BY <1>0, <1>1, <2>1, OneMessage
<1>5. Grow(messages) /\ Len(messages) = 1 /\ DOMAIN messages = 1..1
      /\ messages[1].calls = <<c>> /\ messages[1].role = "tool"
  BY <1>1 DEF New
<1> HIDE DEF messages
<1>6. Extends(memory', memory) /\ made' = made + 1 /\ made' >= made
      /\ Len(memory') = Len(memory) + 1 /\ DOMAIN memory' = 1..Len(memory')
  BY <1>0, <1>4, <1>5, GrowExtends, GrowStays
<1>7. ASSUME NEW j \in DOMAIN memory', j > Len(memory)
      PROVE  j = Len(memory) + 1 /\ memory'[j].role = "tool" /\ memory'[j].calls = <<c>>
  <2>1. j - Len(memory) \in DOMAIN messages /\ memory'[j] = messages[j - Len(memory)]
    BY <1>0, <1>4, <1>5, <1>7, GrowExtends
  <2>2. j \in Nat /\ Len(memory) \in Nat
    BY <1>0
  <2> QED
    BY <1>5, <2>1, <2>2
<1>s. Stands(memory, batch) /\ NoneCut(db, memory, batch, over)
  BY <1>0, <1>1 DEF RunFollow
<1>8. /\ Followed(memory', over) /\ Followed(db', over)
      /\ CallsMade(memory', made') /\ CallsMade(db', made')
      /\ NoneMissing(db', memory')
      /\ \A q : NoneCut(db, memory, q, over) => NoneCut(db', memory', q, over)
  <2>1. ASSUME NEW j \in DOMAIN memory', j > Len(memory)
        PROVE  Paired(memory', j, over)
    <3>1. j = Len(memory) + 1 /\ memory'[j].calls = <<c>> /\ memory'[j].calls # <<>>
          /\ memory'[j].calls[1] = c
      BY <1>7, <2>1
    <3>2. PICK i \in DOMAIN memory : Asks(memory[i], c)
      BY <1>2, <1>s DEF Stands, HasToolCall, Asks
    <3>3. \A k \in i + 1..Len(memory) : memory[k].role = "tool"
      BY <1>2, <1>s, <3>2 DEF Stands
    <3>4. i \in 1..j - 1 /\ \A k \in i + 1..j - 1 : k \in i + 1..Len(memory) /\ k \in DOMAIN memory
      BY <1>0, <3>1, <3>2
    <3>5. Asks(memory'[i], c)
      BY <1>0, <1>6, <3>2, ExtendsHolds
    <3>6. \A k \in DOMAIN memory : memory'[k].role = memory[k].role
      BY <1>0, <1>6, ExtendsHolds
    <3>7. \A k \in i + 1..j - 1 : memory'[k].role = "tool"
      BY <3>3, <3>4, <3>6
    <3> HIDE DEF c
    <3> QED
      BY <3>1, <3>4, <3>5, <3>7 DEF Paired
  <2>2. \A j \in DOMAIN memory' : \A d \in Call : j > Len(memory) => ~Asks(memory'[j], d)
    BY <1>7 DEF Asks, Holds
  <2> QED
    BY <1>1, <1>6, <2>1, <2>2, RunAdds
<1>9. AllAwaited(db', ask', over)
  BY <1>1, RecordAwaited
<1>10. AllAwaited(memory', ask', over) /\ AllAnswered(memory', ask', over) /\ NoneCut(db', memory', ask', over)
       /\ suspended' = <<>>
  <2>1. AllAwaited(memory, ask, over) /\ AllAnswered(memory, ask, over) /\ NoneCut(db, memory, ask, over)
        /\ suspended = <<>>
    BY <1>0, <1>1 DEF RunFollow, Goes
  <2>2. ASSUME NEW d, Awaited(memory, d), HasToolResult(memory, d)
        PROVE  Awaited(memory', d) /\ HasToolResult(memory', d)
    BY <1>0, <1>6, <2>2, Longer
  <2> QED
    BY <1>1, <1>8, <2>1, <2>2 DEF AllAwaited, AllAnswered
<1>12. Stands(memory', batch')
  <2> SUFFICES ASSUME NEW n \in DOMAIN batch
               PROVE  /\ HasToolCall(memory', batch[n])
                      /\ \A i \in DOMAIN memory' : Asks(memory'[i], batch[n]) =>
                            /\ memory'[i].calls = batch
                            /\ \A j \in i + 1..Len(memory') : memory'[j].role = "tool"
    BY <1>1 DEF Stands
  <2>1. HasToolCall(memory', batch[n])
    BY <1>0, <1>6, <1>s, Longer DEF Stands
  <2>2. ASSUME NEW i \in DOMAIN memory', Asks(memory'[i], batch[n])
        PROVE  /\ memory'[i].calls = batch
               /\ \A j \in i + 1..Len(memory') : memory'[j].role = "tool"
    <3>1. i \in DOMAIN memory
      <4>1. ~(i > Len(memory))
        BY <1>7, <2>2 DEF Asks, Holds
      <4> QED
        BY <1>0, <1>6, <4>1, ExtendsHolds
    <3>2. memory'[i].calls = memory[i].calls /\ Asks(memory[i], batch[n])
      BY <1>0, <1>6, <2>2, <3>1, ExtendsHolds
    <3>3. memory[i].calls = batch /\ \A j \in i + 1..Len(memory) : memory[j].role = "tool"
      BY <1>s, <3>1, <3>2 DEF Stands
    <3>4. ASSUME NEW j \in i + 1..Len(memory') PROVE memory'[j].role = "tool"
      <4>1. CASE j > Len(memory)
        BY <1>0, <1>6, <1>7, <3>1, <4>1
      <4>2. CASE ~(j > Len(memory))
        <5>1. j \in i + 1..Len(memory) /\ j \in DOMAIN memory
          BY <1>0, <1>6, <3>1, <4>2
        <5> QED
          BY <1>0, <1>6, <3>3, <5>1, ExtendsHolds
      <4> QED
        BY <4>1, <4>2
    <3> QED
      BY <3>2, <3>3, <3>4
  <2> QED
    BY <2>1, <2>2
<1>13. NoneCut(db', memory', batch', over)
  BY <1>1, <1>8, <1>s
<1>14. Place' = "tools"
  BY <1>1, GotoPlace
<1> QED
  BY <1>8, <1>9, <1>10, <1>12, <1>13, <1>14 DEF FollowInv, RunFollow, Goes, Ends

\* The answer goes behind its call, or behind a message that asks for it again.
LEMMA AnswerExtends ==
    ASSUME TypeInv, NEW c \in Call,
           \/ Grow(<<New(1, "tool", <<c>>)>>)
           \/ Grow(<<New(1, "assistant", <<c>>), New(2, "tool", <<c>>)>>)
    PROVE  LET L == Len(memory) IN
           /\ Extends(memory', memory) /\ made' >= made
           /\ \/ /\ Grow(<<New(1, "tool", <<c>>)>>)
                 /\ DOMAIN memory' = 1..L + 1
                 /\ memory'[L + 1].role = "tool" /\ memory'[L + 1].calls = <<c>>
              \/ /\ Grow(<<New(1, "assistant", <<c>>), New(2, "tool", <<c>>)>>)
                 /\ DOMAIN memory' = 1..L + 2
                 /\ memory'[L + 1].role = "assistant" /\ memory'[L + 1].calls = <<c>>
                 /\ memory'[L + 2].role = "tool" /\ memory'[L + 2].calls = <<c>>
<1>1. memory \in Seq(Message) /\ Len(memory) \in Nat /\ <<c>> \in Seq(Call)
  BY DEF TypeInv, SessionType
<1>2. CASE Grow(<<New(1, "tool", <<c>>)>>)
  <2> DEFINE messages == <<New(1, "tool", <<c>>)>>
  <2>1. messages \in Seq(Message)
    BY <1>1, <1>2, OneMessage
  <2>2. /\ Grow(messages) /\ Len(messages) = 1 /\ messages[1].role = "tool"
        /\ messages[1].calls = <<c>> /\ 1 \in 1..Len(messages)
    BY <1>2 DEF New
  <2> HIDE DEF messages
  <2>3. Extends(memory', memory) /\ made' >= made
    BY <2>1, <2>2, GrowExtends, GrowStays
  <2>4. /\ DOMAIN memory' = 1..Len(memory') /\ Len(memory') = Len(memory) + Len(messages)
        /\ memory'[Len(memory) + 1] = messages[1]
    BY <2>1, <2>2, GrowStays
  <2> QED
    BY <1>2, <2>2, <2>3, <2>4
<1>3. CASE Grow(<<New(1, "assistant", <<c>>), New(2, "tool", <<c>>)>>)
  <2> DEFINE messages == <<New(1, "assistant", <<c>>), New(2, "tool", <<c>>)>>
  <2>1. Grow(messages) /\ Len(messages) = 2
    BY <1>3
  <2>2. made + 1 <= MaxMessages /\ made + 2 <= MaxMessages
    BY <2>1, Bounds DEF Grow, TypeInv, MadeType
  <2>3. New(1, "assistant", <<c>>) \in Message /\ New(2, "tool", <<c>>) \in Message
    <3>1. 1 \in Nat \ {0} /\ 2 \in Nat \ {0}
      OBVIOUS
    <3> QED
      BY <1>1, <2>2, <3>1, NewType, Zenon DEF TypeInv
  <2>4. messages \in Seq(Message)
    BY <2>3
  <2>5. /\ messages[1].role = "assistant" /\ messages[2].role = "tool"
        /\ messages[1].calls = <<c>> /\ messages[2].calls = <<c>>
        /\ 1 \in 1..Len(messages) /\ 2 \in 1..Len(messages)
    BY <2>1 DEF New
  <2> HIDE DEF messages
  <2>6. Extends(memory', memory) /\ made' >= made
    BY <2>1, <2>4, GrowExtends, GrowStays
  <2>7. /\ DOMAIN memory' = 1..Len(memory') /\ Len(memory') = Len(memory) + Len(messages)
        /\ memory'[Len(memory) + 1] = messages[1] /\ memory'[Len(memory) + 2] = messages[2]
    BY <2>1, <2>4, <2>5, GrowStays
  <2> QED
    BY <1>3, <2>1, <2>5, <2>6, <2>7
<1> QED
  BY <1>2, <1>3

LEMMA AnswerFollow ==
    ASSUME AtRun, over' = over, ApplyAnswer
    PROVE  FollowInv'
<1> USE DEF IInv
<1>0. /\ TypeInv /\ Place = pc /\ RunFollow /\ memory \in Seq(Message) /\ memory' \in Seq(Message)
      /\ DOMAIN memory = 1..Len(memory) /\ Len(memory) \in Nat /\ made \in Nat /\ made' \in Nat
  BY AtRunFacts DEF AtRun
<1>1. /\ pc = "answer" /\ UNCHANGED <<db, suspended, cancels>> /\ Persist(memory', "plan")
      /\ ask' \in {ask, <<>>} /\ pending # <<>> /\ ~HasToolResult(memory, pending[1])
  BY FailCancels DEF ApplyAnswer, AnswerPossible, step, counters
<1>2. /\ pending[1] \in Call /\ pending = <<pending[1]>> /\ pending[1][1] <= made
      /\ 1 \in DOMAIN pending
  <2>1. pending \in Seq(Call) /\ Len(pending) <= 1 /\ Made(pending, made)
    BY DEF AtRun, TypeInv, SessionType, Question, ResultInv, Questions
  <2>2. Len(pending) = 1
    BY <1>1, <2>1, OneOrNone
  <2>3. pending[1] \in Call /\ pending = <<pending[1]>> /\ 1 \in DOMAIN pending
    BY <2>1, <2>2
  <2> QED
    BY <2>1, <2>3 DEF Made
<1>3. PICK c \in Call : c = pending[1]
  BY <1>2
<1>4. \/ HasToolCall(memory, c) /\ Grow(<<New(1, "tool", <<c>>)>>)
      \/ /\ ~HasToolCall(memory, c)
         /\ Grow(<<New(1, "assistant", <<c>>), New(2, "tool", <<c>>)>>)
  BY <1>2, <1>3, Zenon DEF ApplyAnswer, AnswerMessages
<1>5. PICK L \in Nat : L = Len(memory)
  BY <1>0
<1>a. Extends(memory', memory) /\ made' >= made
  BY <1>0, <1>4, AnswerExtends
<1>6. /\ ask = <<c>> /\ suspended = <<>> /\ c[1] <= made /\ NoneCut(db, memory, ask, over)
      /\ c \in over \/ Awaited(memory, c)
  <2>1. ask = pending /\ suspended = <<>> /\ AllAwaited(memory, ask, over) /\ NoneCut(db, memory, ask, over)
    BY <1>0, <1>1 DEF RunFollow
  <2> QED
    BY <1>2, <1>3, <2>1 DEF AllAwaited
<1>7. \/ /\ HasToolCall(memory, c) /\ DOMAIN memory' = 1..L + 1
         /\ memory'[L + 1].role = "tool" /\ memory'[L + 1].calls = <<c>>
      \/ /\ ~HasToolCall(memory, c) /\ DOMAIN memory' = 1..L + 2
         /\ memory'[L + 1].role = "assistant" /\ memory'[L + 1].calls = <<c>>
         /\ memory'[L + 2].role = "tool" /\ memory'[L + 2].calls = <<c>>
  <2>1. CASE HasToolCall(memory, c) /\ Grow(<<New(1, "tool", <<c>>)>>)
    <3>1. ~(/\ DOMAIN memory' = 1..L + 2
            /\ memory'[L + 1].role = "assistant" /\ memory'[L + 1].calls = <<c>>
            /\ Grow(<<New(1, "assistant", <<c>>), New(2, "tool", <<c>>)>>))
      <4>1. Grow(<<New(1, "tool", <<c>>)>>) => made' = made + 1
        BY DEF Grow
      <4>2. Grow(<<New(1, "assistant", <<c>>), New(2, "tool", <<c>>)>>) => made' = made + 2
        BY DEF Grow
      <4> QED
        BY <1>0, <2>1, <4>1, <4>2
    <3> QED
      BY <1>0, <1>5, <2>1, <3>1, AnswerExtends
  <2>2. CASE /\ ~HasToolCall(memory, c)
             /\ Grow(<<New(1, "assistant", <<c>>), New(2, "tool", <<c>>)>>)
    <3>1. ~Grow(<<New(1, "tool", <<c>>)>>)
      <4>1. Grow(<<New(1, "tool", <<c>>)>>) => made' = made + 1
        BY DEF Grow
      <4>2. Grow(<<New(1, "assistant", <<c>>), New(2, "tool", <<c>>)>>) => made' = made + 2
        BY DEF Grow
      <4> QED
        BY <1>0, <2>2, <4>1, <4>2
    <3> QED
      BY <1>0, <1>5, <2>2, <3>1, AnswerExtends
  <2> QED
    BY <1>4, <2>1, <2>2
<1>8. PICK n \in {L + 1, L + 2} :
        /\ n \in DOMAIN memory' /\ memory'[n].role = "tool" /\ memory'[n].calls = <<c>>
        /\ \A j \in DOMAIN memory' : (j > L /\ memory'[j].role = "tool") => j = n
        /\ \E i \in 1..n - 1 :
              /\ Asks(memory'[i], c)
              /\ c \in over \/ \A k \in i + 1..n - 1 : memory'[k].role = "tool"
  <2>1. CASE HasToolCall(memory, c)
    <3>1. DOMAIN memory' = 1..L + 1 /\ memory'[L + 1].role = "tool" /\ memory'[L + 1].calls = <<c>>
      BY <1>7, <2>1
    <3>2. PICK i \in DOMAIN memory : Asks(memory[i], c)
      BY <2>1 DEF HasToolCall, Asks
    <3>3. ASSUME NEW k \in i + 1..L, c \notin over PROVE memory'[k].role = "tool"
      <4>1. k \in DOMAIN memory /\ i < k
        BY <1>0, <1>5, <3>2
      <4>2. ASSUME memory[k].role # "tool" PROVE FALSE
        <5>1. PICK m \in 1..k - 1 : Answers(memory[m], c)
          BY <1>6, <3>2, <3>3, <4>1, <4>2 DEF Awaited
        <5>2. m \in DOMAIN memory
          BY <1>0, <4>1, <5>1
        <5> QED
          BY <1>1, <1>3, <5>1, <5>2 DEF HasToolResult, Answers
      <4>3. memory'[k].role = memory[k].role
        BY <1>0, <1>a, <4>1, ExtendsHolds
      <4> QED
        BY <4>2, <4>3
    <3>4. Asks(memory'[i], c)
      BY <1>0, <1>a, <3>2, ExtendsHolds
    <3>5. i \in 1..(L + 1) - 1 /\ (L + 1) - 1 = L
      BY <1>0, <1>5, <3>2
    <3>6. L + 1 \in DOMAIN memory' /\ \A j \in DOMAIN memory' : j > L => j = L + 1
      BY <3>1
    <3> QED
      BY <3>1, <3>3, <3>4, <3>5, <3>6
  <2>2. CASE ~HasToolCall(memory, c)
    <3>1. /\ DOMAIN memory' = 1..L + 2
          /\ memory'[L + 1].role = "assistant" /\ memory'[L + 1].calls = <<c>>
          /\ memory'[L + 2].role = "tool" /\ memory'[L + 2].calls = <<c>>
      BY <1>7, <2>2
    <3>2. Asks(memory'[L + 1], c)
      BY <3>1 DEF Asks, Holds
    <3>3. L + 1 \in 1..(L + 2) - 1 /\ \A k \in (L + 1) + 1..(L + 2) - 1 : FALSE
      OBVIOUS
    <3>4. L + 2 \in DOMAIN memory' /\ \A j \in DOMAIN memory' : j > L => j = L + 1 \/ j = L + 2
      BY <3>1
    <3> QED
      BY <3>1, <3>2, <3>3, <3>4
  <2> QED
    BY <2>1, <2>2
<1>9. ASSUME NEW j \in DOMAIN memory', NEW d \in Call, j > L, Asks(memory'[j], d)
      PROVE  d = c /\ j = L + 1 /\ ~HasToolCall(memory, c)
  <2>1. j # n
    BY <1>8, <1>9 DEF Asks, Holds
  <2>2. ~HasToolCall(memory, c)
    BY <1>7, <1>8, <1>9, <2>1
  <2>3. DOMAIN memory' = 1..L + 2 /\ memory'[L + 1].calls = <<c>> /\ memory'[L + 2].role = "tool"
    BY <1>7, <2>2
  <2>4. j = L + 1 \/ j = L + 2
    BY <1>9, <2>3
  <2>5. j = L + 1
    BY <1>9, <2>3, <2>4 DEF Asks, Holds
  <2> QED
    BY <1>9, <2>2, <2>3, <2>5 DEF Asks, Holds
<1>10. /\ Followed(memory', over) /\ Followed(db', over)
       /\ CallsMade(memory', made') /\ CallsMade(db', made')
       /\ NoneMissing(db', memory')
       /\ \A q : NoneCut(db, memory, q, over) => NoneCut(db', memory', q, over)
  <2>1. ASSUME NEW j \in DOMAIN memory', j > Len(memory), memory'[j].role = "tool"
        PROVE  Paired(memory', j, over)
    <3>1. j = n /\ memory'[j].calls = <<c>>
      BY <1>5, <1>8, <2>1
    <3>2. memory'[j].calls # <<>> /\ memory'[j].calls[1] = c
      BY <3>1
    <3> QED
      BY <1>8, <3>1, <3>2 DEF Paired
  <2>2. ASSUME NEW j \in DOMAIN memory', NEW d \in Call, j > Len(memory), Asks(memory'[j], d)
        PROVE  d[1] <= made'
    <3>1. d = c
      BY <1>5, <1>9, <2>2
    <3>2. c[1] \in Nat
      BY Bounds DEF Call
    <3> QED
      BY <1>0, <1>6, <1>a, <3>1, <3>2
  <2> QED
    BY <1>1, <1>a, <2>1, <2>2, RunAdds
<1>11. AllAwaited(db', ask', over)
  BY <1>1, RecordAwaited
<1>12. HasToolResult(memory', c)
  BY <1>8 DEF HasToolResult, Holds
<1>13. c \in over \/ Awaited(memory', c)
  <2>1. CASE HasToolCall(memory, c) /\ c \notin over
    <3>1. DOMAIN memory' = 1..L + 1 /\ memory'[L + 1].role = "tool"
      BY <1>7, <2>1
    <3>2. \A j \in DOMAIN memory' : j > Len(memory) => memory'[j].role = "tool"
      <4>1. \A j \in DOMAIN memory' : j > L => j = L + 1
        BY <3>1
      <4> QED
        BY <1>5, <3>1, <4>1
    <3> QED
      BY <1>0, <1>6, <1>a, <3>2, Longer
  <2>2. CASE ~HasToolCall(memory, c)
    <3> SUFFICES ASSUME NEW i \in DOMAIN memory', NEW j \in DOMAIN memory', i < j,
                        Asks(memory'[i], c), memory'[j].role # "tool"
                 PROVE  FALSE
      BY DEF Awaited
    <3>1. i > L
      <4>1. i \notin DOMAIN memory
        <5>1. CASE i \in DOMAIN memory
          <6>1. Asks(memory[i], c)
            BY <1>0, <1>a, <5>1, ExtendsHolds
          <6> QED
            BY <2>2, <5>1, <6>1 DEF HasToolCall, Asks
        <5> QED
          BY <5>1
      <4> QED
        BY <1>0, <1>5, <1>a, <4>1, ExtendsHolds
    <3>2. i = L + 1
      BY <1>9, <3>1
    <3>3. DOMAIN memory' = 1..L + 2 /\ memory'[L + 2].role = "tool"
      BY <1>7, <2>2
    <3>4. j = L + 2
      BY <3>2, <3>3
    <3> QED
      BY <3>3, <3>4
  <2> QED
    BY <2>1, <2>2
<1>14. /\ AllAwaited(memory', ask', over) /\ AllAnswered(memory', ask', over) /\ NoneCut(db', memory', ask', over)
       /\ suspended' = <<>>
  <2>1. NoneCut(db', memory', ask, over)
    BY <1>6, <1>10
  <2>2. ASSUME NEW k \in DOMAIN ask' PROVE ask' = <<c>> /\ ask'[k] = c
    <3>1. ask' = <<c>>
      BY <1>1, <1>6, <2>2
    <3> QED
      BY <2>2, <3>1
  <2>3. NoneCut(db', memory', ask', over)
    BY <1>6, <2>1, <2>2 DEF NoneCut
  <2> QED
    BY <1>1, <1>6, <1>12, <1>13, <2>2, <2>3 DEF AllAwaited, AllAnswered
<1>15. Place' = "plan"
  BY <1>1, PersistPlace
<1> QED
  BY <1>10, <1>11, <1>14, <1>15 DEF FollowInv, RunFollow, Goes, Ends

\* What is cut behind a suspended call are calls of the batch that have no result.
LEMMA CutLoses ==
    ASSUME AtRun, pc = "tools", at \in DOMAIN batch,
           memory' = TruncateToolCallsAfter(memory, batch[at])
    PROVE  /\ DOMAIN memory' = DOMAIN memory
           /\ \A i \in DOMAIN memory : Alike(memory[i], memory'[i])
           /\ \A i \in DOMAIN memory : \A d : Asks(memory'[i], d) => Asks(memory[i], d)
           /\ \A i \in DOMAIN memory : \A d :
                 (Asks(memory[i], d) /\ (d = batch[at] \/ HasToolResult(memory, d)))
                    => Asks(memory'[i], d)
<1> USE DEF IInv
<1> DEFINE call == batch[at]
<1>1. /\ memory \in Seq(Message) /\ RunFollow /\ Place = pc /\ TypeInv
      /\ batch \in Seq(Call) /\ at \in Nat /\ at <= Len(batch) /\ Len(batch) \in Nat
  BY AtRunFacts DEF AtRun, TypeInv, StepType
<1>2. Stands(memory, batch)
  BY <1>1 DEF RunFollow
<1>3. /\ \A j, k \in DOMAIN batch : batch[j] = batch[k] => j = k
      /\ \A k \in DOMAIN batch : k >= at => ~HasToolResult(memory, batch[k])
  BY DEF AtRun, ResultInv, Ahead, Working
<1>4. DOMAIN memory' = DOMAIN memory
      /\ \A i \in DOMAIN memory : i \notin CutAt(memory, call) => memory'[i] = memory[i]
  BY DEF TruncateToolCallsAfter
<1>5. ASSUME NEW i \in CutAt(memory, call)
      PROVE  /\ i \in DOMAIN memory /\ memory[i].role = "assistant" /\ memory'[i].role = "assistant"
             /\ memory[i].calls = batch /\ memory'[i].calls = SubSeq(batch, 1, at)
  <2>1. i \in DOMAIN memory /\ Holds(memory[i], "assistant", call) /\ memory[i] \in Message
    BY <1>1, Element DEF CutAt
  <2>2. memory[i].calls = batch /\ memory[i].role = "assistant"
    BY <1>2, <2>1 DEF Stands, Asks, Holds
  <2>3. memory'[i] = [memory[i] EXCEPT !.calls = Upto(memory[i].calls, call)]
    BY <2>1, <1>5 DEF TruncateToolCallsAfter, Message
  <2>4. memory'[i].role = memory[i].role /\ memory'[i].calls = Upto(batch, call)
    BY <2>1, <2>2, <2>3 DEF Message
  <2>5. (CHOOSE k \in DOMAIN batch : batch[k] = call) = at
    BY <1>3
  <2>6. Upto(batch, call) = SubSeq(batch, 1, at)
    BY <2>5 DEF Upto
  <2> QED
    BY <2>1, <2>2, <2>4, <2>6
<1>6. /\ DOMAIN SubSeq(batch, 1, at) = 1..at
      /\ \A k \in 1..at : SubSeq(batch, 1, at)[k] = batch[k] /\ k \in DOMAIN batch
  BY <1>1
<1>7. \A i \in DOMAIN memory : Alike(memory[i], memory'[i])
  <2> SUFFICES ASSUME NEW i \in DOMAIN memory PROVE Alike(memory[i], memory'[i])
    OBVIOUS
  <2>1. CASE i \in CutAt(memory, call)
    BY <1>5, <2>1 DEF Alike
  <2>2. CASE i \notin CutAt(memory, call)
    BY <1>4, <2>2 DEF Alike
  <2> QED
    BY <2>1, <2>2
<1>8. ASSUME NEW i \in DOMAIN memory, NEW d, Asks(memory'[i], d)
      PROVE  Asks(memory[i], d)
  <2>1. CASE i \in CutAt(memory, call)
    <3>1. PICK k \in 1..at : SubSeq(batch, 1, at)[k] = d
      BY <1>5, <1>6, <1>8, <2>1 DEF Asks, Holds
    <3>2. k \in DOMAIN batch /\ batch[k] = d
      BY <1>6, <3>1
    <3> QED
      BY <1>5, <2>1, <3>2 DEF Asks, Holds
  <2>2. CASE i \notin CutAt(memory, call)
    BY <1>4, <1>8, <2>2
  <2> QED
    BY <2>1, <2>2
<1>9. ASSUME NEW i \in DOMAIN memory, NEW d, Asks(memory[i], d), d = call \/ HasToolResult(memory, d)
      PROVE  Asks(memory'[i], d)
  <2>1. CASE i \in CutAt(memory, call)
    <3>1. PICK k \in DOMAIN batch : batch[k] = d
      BY <1>5, <1>9, <2>1 DEF Asks, Holds
    <3>2. k \in 1..at
      <4>1. CASE d = call
        BY <1>1, <1>3, <3>1, <4>1
      <4>2. CASE HasToolResult(memory, d)
        <5>1. ~(k >= at)
          BY <1>3, <3>1, <4>2
        <5> QED
          BY <1>1, <3>1, <5>1
      <4> QED
        BY <1>9, <4>1, <4>2
    <3>3. SubSeq(batch, 1, at)[k] = d /\ k \in DOMAIN SubSeq(batch, 1, at)
      BY <1>6, <3>1, <3>2
    <3> QED
      BY <1>5, <2>1, <3>3 DEF Asks, Holds
  <2>2. CASE i \notin CutAt(memory, call)
    BY <1>4, <1>9, <2>2
  <2> QED
    BY <2>1, <2>2
<1> QED
  BY <1>4, <1>7, <1>8, <1>9

LEMMA SameLoses ==
    ASSUME AtRun, memory' = memory
    PROVE  /\ DOMAIN memory' = DOMAIN memory
           /\ \A i \in DOMAIN memory : Alike(memory[i], memory'[i])
           /\ \A i \in DOMAIN memory : \A d : Asks(memory'[i], d) => Asks(memory[i], d)
           /\ \A i \in DOMAIN memory : \A d :
                 (Asks(memory[i], d) /\ (d = batch[at] \/ HasToolResult(memory, d)))
                    => Asks(memory'[i], d)
BY DEF Alike

LEMMA SuspendFollow ==
    ASSUME AtRun, over' = over, Suspend
    PROVE  FollowInv'
<1> USE DEF IInv
<1>0. /\ TypeInv /\ Place = pc /\ RunFollow /\ memory \in Seq(Message) /\ memory' \in Seq(Message)
      /\ DOMAIN memory = 1..Len(memory) /\ Len(memory) \in Nat /\ DOMAIN db \subseteq DOMAIN memory
      /\ CallsMade(memory, made) /\ NoneMissing(db, memory)
      /\ Followed(db, over) /\ CallsMade(db, made)
  BY AtRunFacts DEF AtRun, RunFollow
<1>1. /\ pc = "tools" /\ UNCHANGED <<db, ask, made, cancels>> /\ at \in DOMAIN batch
      /\ suspended' = <<batch[at]>>
      /\ \/ SuspendForCut(batch[at])
         \/ /\ memory' = TruncateToolCallsAfter(memory, batch[at])
            /\ Persist(memory', "finish")
         \/ UNCHANGED memory /\ Persist(memory, "finish")
  BY <1>0 DEF Suspend, database, counters, TypeInv, StepType
<1>2. PICK c : c = batch[at]
  OBVIOUS
<1>3. Place' \in {"mark", "finish"} /\ pc' # "idle"
  <2>1. CASE SuspendForCut(batch[at])
    BY <2>1 DEF SuspendForCut, Goto, Place
  <2>2. CASE ~SuspendForCut(batch[at])
    <3>1. \E history : Persist(history, "finish")
      BY <1>1, <2>2
    <3> QED
      BY <3>1, PersistPlace
  <2> QED
    BY <2>1, <2>2
<1>4. memory' = TruncateToolCallsAfter(memory, batch[at]) \/ memory' = memory
  BY <1>1 DEF SuspendForCut
<1>5. /\ DOMAIN memory' = DOMAIN memory
      /\ \A i \in DOMAIN memory : Alike(memory[i], memory'[i])
      /\ \A i \in DOMAIN memory : \A d : Asks(memory'[i], d) => Asks(memory[i], d)
      /\ \A i \in DOMAIN memory : \A d :
            (Asks(memory[i], d) /\ (d = batch[at] \/ HasToolResult(memory, d))) => Asks(memory'[i], d)
  <2>1. CASE memory' = TruncateToolCallsAfter(memory, batch[at])
    BY <1>1, <2>1, CutLoses
  <2>2. CASE memory' = memory
    BY <2>2, SameLoses
  <2> QED
    BY <1>4, <2>1, <2>2
<1>a. \A i \in DOMAIN memory : \A d : Asks(memory'[i], d) => Asks(memory[i], d)
  BY <1>5
<1>b. \A i \in DOMAIN memory : \A d :
         (Asks(memory[i], d) /\ (d = c \/ HasToolResult(memory, d))) => Asks(memory'[i], d)
  BY <1>2, <1>5
<1>c. \A i \in DOMAIN memory : /\ memory'[i].role = memory[i].role
                               /\ memory[i].role = "tool" => memory'[i].calls = memory[i].calls
  BY <1>5 DEF Alike
<1>d. \A i \in DOMAIN memory : \A d : Answers(memory[i], d) => Answers(memory'[i], d)
  BY <1>c DEF Answers, Holds
<1>6. Followed(memory', over)
  <2> SUFFICES ASSUME NEW j \in DOMAIN memory, memory'[j].role = "tool" PROVE Paired(memory', j, over)
    BY <1>5 DEF Followed
  <2>1. memory[j].role = "tool" /\ memory'[j].calls = memory[j].calls
    BY <1>c
  <2>2. Paired(memory, j, over)
    BY <1>0, <2>1 DEF RunFollow, Followed
  <2>3. PICK i \in 1..j - 1 : /\ Asks(memory[i], memory[j].calls[1])
                             /\ \/ memory[j].calls[1] \in over
                                \/ \A k \in i + 1..j - 1 : memory[k].role = "tool"
    BY <2>2 DEF Paired
  <2>4. i \in DOMAIN memory /\ \A k \in i + 1..j - 1 : k \in DOMAIN memory
    BY <1>0, <2>3
  <2>5. HasToolResult(memory, memory[j].calls[1])
    <3>0. memory[j] \in Message
      BY <1>0, Element
    <3>1. memory[j].calls # <<>> /\ memory[j].calls \in Seq(Call)
      BY <2>2, <3>0 DEF Paired, Message
    <3>2. 1 \in DOMAIN memory[j].calls
      BY <3>1
    <3> QED
      BY <2>1, <3>2 DEF HasToolResult, Holds
  <2>6. Asks(memory'[i], memory'[j].calls[1])
    BY <1>b, <2>1, <2>3, <2>4, <2>5
  <2>7. memory'[j].calls[1] \in over \/ \A k \in i + 1..j - 1 : memory'[k].role = "tool"
    BY <1>c, <2>1, <2>3, <2>4
  <2> QED
    BY <2>1, <2>2, <2>3, <2>6, <2>7 DEF Paired
<1>7. CallsMade(memory', made') /\ CallsMade(db', made')
  BY <1>0, <1>1, <1>5, <1>a DEF CallsMade, Asks
<1>8. NoneMissing(db', memory')
  BY <1>0, <1>1, <1>5, <1>a DEF NoneMissing
<1>9. ASSUME NEW d, NEW i \in DOMAIN db, Asks(db[i], d), d = c \/ HasToolResult(memory, d),
             Asks(memory[i], d)
      PROVE  Asks(memory'[i], d)
  BY <1>0, <1>b, <1>9
<1>10. ASSUME NEW d, Awaited(memory, d) PROVE Awaited(memory', d)
  <2> SUFFICES ASSUME NEW i \in DOMAIN memory, NEW j \in DOMAIN memory, i < j, Asks(memory'[i], d),
                      memory'[j].role # "tool"
               PROVE  \E k \in 1..j - 1 : Answers(memory'[k], d)
    BY <1>5 DEF Awaited
  <2>1. Asks(memory[i], d) /\ memory[j].role # "tool"
    BY <1>a, <1>c
  <2>2. PICK k \in 1..j - 1 : Answers(memory[k], d)
    BY <1>10, <2>1 DEF Awaited
  <2>3. k \in DOMAIN memory
    BY <1>0, <2>2
  <2> QED
    BY <1>d, <2>2, <2>3
<1>11. AllAwaited(memory', ask', over) /\ NoneCut(db', memory', ask', over)
  <2>1. AllAwaited(memory, ask, over) /\ AllAnswered(memory, ask, over) /\ NoneCut(db, memory, ask, over)
    BY <1>0, <1>1 DEF RunFollow, Goes
  <2>2. AllAwaited(memory', ask', over)
    BY <1>1, <1>10, <2>1 DEF AllAwaited
  <2>3. NoneCut(db', memory', ask', over)
    <3> SUFFICES ASSUME NEW n \in DOMAIN ask, ask[n] \notin over,
                        NEW i \in DOMAIN db, i \in DOMAIN memory, Asks(db[i], ask[n])
                 PROVE  Asks(memory'[i], ask[n])
      BY <1>1, <1>5 DEF NoneCut
    <3>1. Asks(memory[i], ask[n]) /\ HasToolResult(memory, ask[n])
      BY <2>1 DEF NoneCut, AllAnswered
    <3> QED
      BY <1>9, <3>1
  <2> QED
    BY <2>2, <2>3
<1>12. AllAwaited(memory', suspended', over) /\ NoneCut(db', memory', suspended', over)
  <2>1. Stands(memory, batch) /\ NoneCut(db, memory, batch, over)
    BY <1>0, <1>1 DEF RunFollow
  <2>2. Awaited(memory, c)
    <3> SUFFICES ASSUME NEW i \in DOMAIN memory, NEW j \in DOMAIN memory, i < j, Asks(memory[i], c),
                        memory[j].role # "tool"
                 PROVE  FALSE
      BY DEF Awaited
    <3>1. \A k \in i + 1..Len(memory) : memory[k].role = "tool"
      BY <1>1, <1>2, <2>1 DEF Stands
    <3>2. j \in i + 1..Len(memory)
      BY <1>0
    <3> QED
      BY <3>1, <3>2
  <2>3. \A n \in DOMAIN suspended' : suspended'[n] = c
    BY <1>1, <1>2
  <2>4. AllAwaited(memory', suspended', over)
    BY <1>10, <2>2, <2>3 DEF AllAwaited
  <2>5. NoneCut(db', memory', suspended', over)
    <3> SUFFICES ASSUME c \notin over, NEW i \in DOMAIN db, i \in DOMAIN memory, Asks(db[i], c)
                 PROVE  Asks(memory'[i], c)
      BY <1>1, <1>5, <2>3 DEF NoneCut
    <3>1. Asks(memory[i], c)
      BY <1>1, <1>2, <2>1 DEF NoneCut
    <3> QED
      BY <1>9, <3>1
  <2> QED
    BY <2>4, <2>5
<1>13. AllAwaited(db', ask', over)
  BY <1>1, RecordAwaited
<1>14. Followed(db', over)
  BY <1>0, <1>1
<1> QED
  BY <1>3, <1>6, <1>7, <1>8, <1>11, <1>12, <1>13, <1>14 DEF FollowInv, RunFollow, Goes, Ends

LEMMA RunStepFollow == AtRun /\ RunStep => FollowInv'
<1>1. RunStep => over' = over
  BY DEF RunStep, ApplyAnswer, RefuseAnswer, Reply, AskForTools, ToolResult, Suspend, MarkQuestion,
     MarkSuspended, Interval, NextStep, GoOn, Conclude, Interrupted, Finish, ClearQuestion,
     LeaveQuestion, Fail, counters
<1> QED
  BY <1>1, CalmSteps, BatchFollow, ToolResultFollow, AnswerFollow, SuspendFollow DEF RunStep

\* What holds but for some calls holds but for more of them.
LEMMA MorePassed ==
    ASSUME NEW h, NEW few, NEW many, few \subseteq many
    PROVE  /\ Followed(h, few) => Followed(h, many)
           /\ \A q : AllAwaited(h, q, few) => AllAwaited(h, q, many)
           /\ \A d, q : NoneCut(d, h, q, few) => NoneCut(d, h, q, many)
<1>1. ASSUME NEW j, Paired(h, j, few) PROVE Paired(h, j, many)
  BY <1>1 DEF Paired
<1>2. Followed(h, few) => Followed(h, many)
  BY <1>1 DEF Followed
<1> QED
  BY <1>2 DEF AllAwaited, NoneCut

\* A run begins: the question that is open then is passed over.
LEMMA StartFollow ==
    ASSUME AtRun, pc = "loaded", StartWithText \/ StartFromState \/ StartWithAnswer
    PROVE  FollowInv'
<1> USE DEF IInv
<1>0. /\ TypeInv /\ Place = pc /\ RunFollow /\ memory \in Seq(Message) /\ memory' \in Seq(Message)
  BY AtRunFacts DEF AtRun
<1>1. /\ UNCHANGED <<db, ask, pending, cancels>> /\ suspended' = <<>>
      /\ \/ Place' = "answer" /\ UNCHANGED <<memory, made, over>>
         \/ Place' = "plan" /\ over' = over \cup OpenCalls /\ UNCHANGED <<memory, made>>
         \/ Place' = "plan" /\ over' = over \cup OpenCalls /\ StartWithText
      /\ pc' # "idle"
  BY DEF StartWithText, StartFromState, StartOver, StartWithAnswer, Begin, Goto, Place, database
<1>2. /\ Extends(memory', memory) /\ made' >= made
      /\ \A j \in DOMAIN memory' : j > Len(memory) =>
            memory'[j].role # "tool" /\ (memory'[j].role = "assistant" => memory'[j].calls = <<>>)
  <2>1. CASE UNCHANGED <<memory, made>>
    BY <1>0, <2>1, SameExtends
  <2>2. CASE StartWithText
    <3> DEFINE messages == <<New(1, "user", <<>>)>>
    <3>1. Grow(messages) /\ <<>> \in Seq(Call)
      BY <2>2 DEF StartWithText
    <3>2. messages \in Seq(Message)
      BY <1>0, <3>1, OneMessage
    <3>3. \A i \in DOMAIN messages : messages[i].role # "tool" /\ messages[i].calls = <<>>
      BY DEF New
    <3> HIDE DEF messages
    <3> QED
      BY <1>0, <3>1, <3>2, <3>3, QuietExtends
  <2> QED
    BY <1>1, <2>1, <2>2
<1>3. /\ Followed(memory', over) /\ Followed(db', over)
      /\ CallsMade(memory', made') /\ CallsMade(db', made')
      /\ NoneMissing(db', memory')
      /\ \A q : NoneCut(db, memory, q, over) => NoneCut(db', memory', q, over)
  <2>1. \A j \in DOMAIN memory' : \A c \in Call : j > Len(memory) => ~Asks(memory'[j], c)
    BY <1>2 DEF Asks, Holds
  <2> QED
    BY <1>1, <1>2, <2>1, RunAdds
<1>4. AllAwaited(db', ask', over)
  BY <1>1, RecordAwaited
<1>5. pending = ask /\ AllAwaited(memory, ask, over) /\ NoneCut(db, memory, ask, over)
  BY <1>0 DEF RunFollow
<1>6. over \subseteq over'
  BY <1>1
<1>7. /\ Followed(memory', over') /\ Followed(db', over') /\ AllAwaited(db', ask', over')
      /\ AllAwaited(memory, ask, over') /\ NoneCut(db', memory', ask', over')
  <2>1. NoneCut(db', memory', ask', over)
    BY <1>1, <1>3, <1>5
  <2> QED
    BY <1>3, <1>4, <1>5, <1>6, <2>1, MorePassed
<1>8. CASE Place' = "plan"
  <2>1. \A n \in DOMAIN ask : ask[n] \in over' \/ HasToolResult(memory, ask[n])
    BY <1>1, <1>5, <1>8 DEF OpenCalls
  <2>2. ASSUME NEW c, Awaited(memory, c), HasToolResult(memory, c)
        PROVE  Awaited(memory', c) /\ HasToolResult(memory', c)
    BY <1>0, <1>2, <2>2, Longer
  <2>3. AllAwaited(memory', ask', over') /\ AllAnswered(memory', ask', over')
    BY <1>1, <1>7, <2>1, <2>2 DEF AllAwaited, AllAnswered
  <2> QED
    BY <1>1, <1>3, <1>7, <1>8, <2>3 DEF FollowInv, RunFollow, Goes, Ends
<1>9. CASE Place' = "answer"
  <2>1. AllAwaited(memory', ask', over') /\ pending' = ask'
    BY <1>1, <1>5, <1>7, <1>9
  <2> QED
    BY <1>1, <1>3, <1>7, <1>9, <2>1 DEF FollowInv, RunFollow, Goes, Ends
<1> QED
  BY <1>1, <1>8, <1>9

LEMMA EditExtends ==
    ASSUME TypeInv, TypeInv', Edit
    PROVE  Extends(memory, memory') /\ Persist(memory', "loaded")
<1>1. PICK i \in DOMAIN memory :
        LET dropped == {j \in i + 1..Len(memory) :
                           \E k \in i + 1..j : memory[k].role # "companion"}
            kept == SubSeq(memory, 1, Len(memory) - Cardinality(dropped))
        IN  memory' = kept /\ Persist(kept, "loaded")
  BY DEF Edit
<1> DEFINE dropped == {j \in i + 1..Len(memory) :
                          \E k \in i + 1..j : memory[k].role # "companion"}
<1>2. memory \in Seq(Message) /\ Len(memory) \in Nat
  BY DEF TypeInv, SessionType
<1>3. Cardinality(dropped) \in Nat
  <2>1. dropped \subseteq 1..Len(memory) /\ IsFiniteSet(1..Len(memory))
    BY <1>2, FS_Interval
  <2> HIDE DEF dropped
  <2> QED
    BY <2>1, FS_Subset, FS_CardinalityType
<1>4. memory' = SubSeq(memory, 1, Len(memory) - Cardinality(dropped))
      /\ Persist(memory', "loaded")
  BY <1>1
<1> HIDE DEF dropped
<1>5. Len(memory') <= Len(memory) /\ \A k \in 1..Len(memory') : memory'[k] = memory[k]
  BY <1>2, <1>3, <1>4
<1> QED
  BY <1>4, <1>5 DEF Extends

LEMMA ProductFollow ==
    ASSUME IInv, ResultInv, TypeInv', FollowInv, cancels = 0, Product
    PROVE  FollowInv'
<1> USE DEF IInv
<1>0. db \in Seq(Message) /\ memory \in Seq(Message) /\ memory' \in Seq(Message)
  BY DEF TypeInv, DatabaseType, SessionType
<1>1. CASE Load
  <2>1. /\ memory' = db /\ pending' = ask /\ Place' = "loaded" /\ pc' # "idle"
        /\ UNCHANGED <<db, ask, made, cancels, over>>
    BY <1>1 DEF Load, Loaded, Goto, Place, database, counters
  <2>2. NoneMissing(db', memory') /\ NoneCut(db', memory', ask', over)
    BY <2>1 DEF NoneMissing, NoneCut
  <2> QED
    BY <2>1, <2>2 DEF FollowInv, RunFollow, Goes, Ends
<1>2. CASE Edit
  <2>1. /\ UNCHANGED <<db, ask, pending, made, cancels, over>> /\ pc = "loaded"
    BY <1>2 DEF Edit, database, counters
  <2>2. Extends(memory, memory') /\ Place' = "loaded" /\ pc' # "idle"
    BY <1>2, EditExtends, PersistPlace
  <2>3. RunFollow /\ Place = "loaded"
    BY <2>1 DEF FollowInv, Place
  <2>4. /\ Followed(memory', over) /\ CallsMade(memory', made') /\ NoneMissing(db', memory')
        /\ NoneCut(db', memory', ask', over)
    BY <1>0, <2>1, <2>2, <2>3, Shorter DEF RunFollow
  <2>5. AllAwaited(memory', ask', over)
    <3>1. \A c : Awaited(memory, c) => Awaited(memory', c)
      BY <1>0, <2>2, Shorter
    <3> QED
      BY <2>1, <2>3, <3>1 DEF RunFollow, AllAwaited
  <2> QED
    BY <2>1, <2>2, <2>3, <2>4, <2>5 DEF FollowInv, RunFollow, Goes, Ends
<1>3. CASE StartWithText \/ StartFromState \/ StartWithAnswer
  <2>1. pc = "loaded"
    BY <1>3 DEF StartWithText, StartFromState, StartOver, StartWithAnswer, Begin
  <2> QED
    BY <1>3, <2>1, StartFollow DEF AtRun
<1>4. CASE Deliver
  <2>1. UNCHANGED <<db, ask, memory, pending, made, cancels, over, pc, next, suspended, batch>>
    BY <1>4 DEF Deliver, database, session, io, step
  <2> QED
    BY <2>1 DEF FollowInv, RunFollow, Place, Goes, Ends
<1> QED
  BY <1>1, <1>2, <1>3, <1>4 DEF Product

LEMMA WriteFollow ==
    ASSUME IInv, ResultInv, TypeInv', FollowInv, cancels = 0, StoreWrite
    PROVE  FollowInv'
<1> USE DEF IInv
<1>1. /\ pc = "io" /\ pc' = next /\ pc' # "io"
      /\ UNCHANGED <<ask, memory, pending, made, suspended, batch, cancels, over>>
  BY DEF StoreWrite, Return, NoOp, session, step, counters, TypeInv, IoType
<1>2. Place' = Place
  BY <1>1 DEF Place
<1>3. RunFollow /\ CallsMade(db, made) /\ db' \in Seq(Message) /\ memory \in Seq(Message)
  BY <1>1 DEF FollowInv, TypeInv, DatabaseType, SessionType
<1>4. \A i \in DOMAIN db' : /\ i \in DOMAIN memory
                            /\ db'[i] = memory[i] \/ (i \in DOMAIN db /\ db'[i] = db[i])
  BY WrittenAlike
<1>5. \A i \in DOMAIN db' : Alike(db'[i], memory[i])
  <2>1. \A i \in DOMAIN db \cap DOMAIN memory : Alike(db[i], memory[i])
    BY <1>1 DEF ResultInv
  <2> QED
    BY <1>4, <2>1 DEF Alike
<1>6. NoneMissing(db', memory)
  <2> SUFFICES ASSUME NEW i \in DOMAIN db', NEW c \in Call, Asks(memory[i], c)
               PROVE  Asks(db'[i], c)
    BY DEF NoneMissing
  <2>1. CASE db'[i] = memory[i]
    BY <2>1
  <2>2. CASE i \in DOMAIN db /\ db'[i] = db[i]
    <3>1. i \in DOMAIN db \cap DOMAIN memory
      BY <1>4, <2>2
    <3> QED
      BY <1>3, <2>2, <3>1 DEF RunFollow, NoneMissing
  <2> QED
    BY <1>4, <2>1, <2>2
<1>7. ASSUME NEW q, NoneCut(db, memory, q, over) PROVE NoneCut(db', memory, q, over)
  <2> SUFFICES ASSUME NEW n \in DOMAIN q, q[n] \notin over, NEW i \in DOMAIN db',
                      Asks(db'[i], q[n])
               PROVE  Asks(memory[i], q[n])
    BY DEF NoneCut
  <2>1. CASE db'[i] = memory[i]
    BY <2>1
  <2>2. CASE i \in DOMAIN db /\ db'[i] = db[i]
    <3>1. i \in DOMAIN db \cap DOMAIN memory
      BY <1>4, <2>2
    <3> QED
      BY <1>7, <2>2, <3>1 DEF NoneCut
  <2> QED
    BY <1>4, <2>1, <2>2
<1>8. CallsMade(db', made)
  <2> SUFFICES ASSUME NEW c \in Call, NEW i \in DOMAIN db', Asks(db'[i], c) PROVE c[1] <= made
    BY DEF CallsMade, Asks
  <2>1. CASE db'[i] = memory[i]
    BY <1>3, <1>4, <2>1 DEF RunFollow, CallsMade, Asks
  <2>2. CASE i \in DOMAIN db /\ db'[i] = db[i]
    BY <1>3, <2>2 DEF CallsMade, Asks
  <2> QED
    BY <1>4, <2>1, <2>2
<1>9. Followed(db', over) /\ AllAwaited(db', ask, over)
  <2>1. DOMAIN db' \subseteq DOMAIN memory
    BY <1>4
  <2>2. NoneCut(db', memory, ask, over) /\ AllAwaited(memory, ask, over) /\ Followed(memory, over)
    BY <1>3, <1>7 DEF RunFollow
  <2> QED
    BY <1>3, <1>5, <1>6, <2>1, <2>2, Mirrored
<1> QED
  BY <1>1, <1>2, <1>3, <1>6, <1>7, <1>8, <1>9 DEF FollowInv, RunFollow, Goes, Ends

LEMMA FollowStep == IInv /\ TypeInv' /\ ResultInv /\ FollowInv /\ [Next]_vars => FollowInv'
<1> SUFFICES ASSUME IInv, TypeInv', ResultInv, FollowInv, [Next]_vars PROVE FollowInv'
  OBVIOUS
<1> USE DEF IInv
<1>1. CASE cancels # 0
  <2>1. cancels' # 0
    BY <1>1, FailCancels DEF Next, Product, RunStep, Store, Load, Edit, StartWithText, StartFromState,
       StartOver, StartWithAnswer, Begin, Deliver, ApplyAnswer, RefuseAnswer, Reply, AskForTools, ToolResult,
       Suspend, MarkQuestion, MarkSuspended, Interval, NextStep, GoOn, Conclude, Interrupted, Finish,
       ClearQuestion, LeaveQuestion, StoreCount, StoreWrite, StoreFails, Fail, CancelWhileStoring,
       Adrift, Crash, counters, vars, TypeInv, CounterType
  <2> QED
    BY <2>1 DEF FollowInv
<1>2. CASE cancels = 0
  <2>1. CASE UNCHANGED vars
    BY <2>1 DEF vars, database, session, io, step, counters, FollowInv, RunFollow, Place, Goes, Ends
  <2>2. CASE Product
    BY <1>2, <2>2, ProductFollow
  <2>3. CASE RunStep
    <3>1. pc \notin {"idle", "io"}
      BY <2>3, RunStepAwaits DEF Awaits
    <3> QED
      BY <1>2, <2>3, <3>1, RunStepFollow DEF AtRun
  <2>4. CASE StoreCount
    <3>1. UNCHANGED <<db, ask, memory, pending, made, cancels, over, pc, next, suspended, batch>>
      BY <2>4 DEF StoreCount, database, session, step, counters
    <3> QED
      BY <3>1 DEF FollowInv, RunFollow, Place, Goes, Ends
  <2>5. CASE StoreWrite
    BY <1>2, <2>5, WriteFollow
  <2>6. CASE StoreFails
    <3>1. /\ UNCHANGED <<db, ask, memory, pending, made, suspended, batch, cancels, over>>
          /\ pc = "io" /\ pc' = IF next = "loaded" THEN "idle" ELSE next
          /\ pc' # "io"
      BY <2>6 DEF StoreFails, Return, Fail, database, session, step, TypeInv, IoType
    <3>2. pc' = "idle" \/ Place' = Place
      BY <3>1 DEF Place
    <3> QED
      BY <3>1, <3>2 DEF FollowInv, RunFollow, Goes, Ends
  <2>7. CASE CancelWhileStoring
    <3>1. cancels' # 0
      BY <2>7 DEF CancelWhileStoring, TypeInv, CounterType
    <3> QED
      BY <3>1 DEF FollowInv
  <2>8. CASE Adrift
    <3>1. adrift # <<>>
      BY <2>8 DEF Adrift
    <3> QED
      BY <1>2, <3>1 DEF PositionsInv
  <2>9. CASE Crash
    <3>1. UNCHANGED <<db, ask, made, cancels, over>> /\ pc' = "idle"
      BY <2>9 DEF Crash, database
    <3> QED
      BY <3>1 DEF FollowInv
  <2> QED
    BY <2>1, <2>2, <2>3, <2>4, <2>5, <2>6, <2>7, <2>8, <2>9 DEF Next, Store
<1> QED
  BY <1>1, <1>2

\* The model sees every result behind its call, and right behind it, with only results
\* in between, unless a run was started over the open question: for whatever batches are
\* suspended, cut, answered in a later run, edited away and asked for again, wherever the
\* process dies and whichever store operations fail; but for cancelled writes, which may
\* store a message twice.
THEOREM ResultsBehindCalls == Spec => []ResultsFollowCalls
<1>1. Init => FollowInv
  BY DEF Init, FollowInv, Followed, AllAwaited, CallsMade
<1>2. FollowInv => ResultsFollowCalls
  <2> SUFFICES ASSUME FollowInv, cancels = 0, pc = "plan", NEW j \in DOMAIN memory,
                      memory[j].role = "tool"
               PROVE  \E i \in 1..j - 1 :
                         /\ Holds(memory[i], "assistant", memory[j].calls[1])
                         /\ memory[j].calls[1] \notin over =>
                                \A k \in i + 1..j - 1 : memory[k].role = "tool"
    BY DEF ResultsFollowCalls
  <2> QED
    BY DEF FollowInv, RunFollow, Followed, Paired, Asks
<1> QED
  BY <1>1, <1>2, FollowStep, Invariance, ResultInvariance, PTL DEF Spec, IInv
===============================================================================
