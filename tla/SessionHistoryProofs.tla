------------------------- MODULE SessionHistoryProofs -------------------------
(***************************************************************************)
(* Proofs about SessionHistory, for any number of runs, messages, batches, *)
(* deliveries, deaths, failures and cancelled writes.                      *)
(***************************************************************************)
EXTENDS SessionHistory, FiniteSetTheorems, TLAPS

\* An operation, where there is one; a replacement is of a message that is there.
Apt(o) == o.kind # "none" /\ (o.kind = "replace" => o.n \in 1..Len(o.history))

\* The type invariant by parts.
DatabaseType == db \in Seq(Message) /\ Question(ask)
SessionType == memory \in Seq(Message) /\ Question(pending)
IoType ==
    /\ pc \in Labels /\ next \in Labels \ {"io"}
    /\ op \in Operation /\ (op = NoOp <=> pc # "io") /\ (op # NoOp => Apt(op))
    /\ adrift \in Seq(Operation) /\ \A i \in DOMAIN adrift : Apt(adrift[i])
StepType == batch \in Seq(Call) /\ at \in 1..Len(batch) + 1 /\ Question(suspended)
InboxType == inbox \in [{"step", "turn"} -> Seq(Arrivals)]
CounterType ==
    /\ runs \in 0..MaxRuns /\ arrived \in 0..MaxArrivals
    /\ crashes \in 0..MaxCrashes /\ failures \in 0..MaxFailures /\ cancels \in 0..MaxAdrift
    /\ over \subseteq Call
MadeType == made \in 0..MaxMessages

\* What the history in memory had at a position it still has there.
Kept ==
    /\ Len(memory') >= Len(memory)
    /\ \A i \in 1..Len(memory) : memory'[i].id = memory[i].id

TypeInv ==
    DatabaseType /\ SessionType /\ IoType /\ StepType /\ InboxType /\ CounterType /\ MadeType
-------------------------------------------------------------------------------
LEMMA Bounds ==
    /\ MaxRuns \in Nat /\ MaxMessages \in Nat /\ MaxArrivals \in Nat
    /\ MaxCrashes \in Nat /\ MaxFailures \in Nat /\ MaxAdrift \in Nat
BY BoundsAssumption

\* What is left alone keeps its type.
LEMMA Same ==
    /\ DatabaseType /\ UNCHANGED database => DatabaseType'
    /\ SessionType /\ UNCHANGED session => SessionType'
    /\ IoType /\ UNCHANGED <<pc, io>> => IoType'
    /\ StepType /\ UNCHANGED step => StepType'
    /\ InboxType /\ UNCHANGED inbox => InboxType'
    /\ CounterType /\ UNCHANGED counters => CounterType'
    /\ MadeType /\ UNCHANGED made => MadeType'
BY DEF DatabaseType, database, SessionType, session, IoType, io, StepType, step, InboxType,
       CounterType, counters, MadeType

LEMMA SameKept == SessionType /\ UNCHANGED memory => Kept
BY DEF SessionType, Kept

LEMMA Element ==
    ASSUME NEW S, NEW s \in Seq(S), NEW i \in 1..Len(s)
    PROVE  s[i] \in S
OBVIOUS

LEMMA QueuesType ==
    ASSUME NEW S, NEW first \in S, NEW second \in S
    PROVE  [step |-> first, turn |-> second] \in [{"step", "turn"} -> S]
OBVIOUS

LEMMA ExceptType ==
    ASSUME NEW S, NEW s \in Seq(S), NEW i \in 1..Len(s), NEW x \in S
    PROVE  [s EXCEPT ![i] = x] \in Seq(S) /\ Len([s EXCEPT ![i] = x]) = Len(s)
OBVIOUS

LEMMA TailOf ==
    ASSUME NEW S, NEW s \in Seq(S), NEW n \in Nat, n <= Len(s)
    PROVE  /\ SubSeq(s, n + 1, Len(s)) \in Seq(S)
           /\ Len(SubSeq(s, n + 1, Len(s))) = Len(s) - n
           /\ \A j \in 1..Len(s) - n : SubSeq(s, n + 1, Len(s))[j] = s[n + j]
<1>1. Len(s) \in Nat
  OBVIOUS
<1>2. ASSUME NEW j \in 1..Len(s) - n PROVE SubSeq(s, n + 1, Len(s))[j] = s[n + j]
  <2>1. SubSeq(s, n + 1, Len(s))[j] = s[n + 1 + j - 1]
    BY <1>1
  <2>2. n + 1 + j - 1 = n + j
    BY <1>1
  <2> QED
    BY <2>1, <2>2
<1> QED
  BY <1>1, <1>2

LEMMA ConcatType ==
    ASSUME NEW S, NEW s \in Seq(S), NEW t \in Seq(S)
    PROVE  s \o t \in Seq(S) /\ Len(s \o t) = Len(s) + Len(t)
OBVIOUS

LEMMA Trichotomy == \A m, n \in Nat : m < n \/ m = n \/ m > n
OBVIOUS

LEMMA NoQuestion == Question(<<>>)
BY DEF Question

LEMMA NewType ==
    ASSUME MadeType, NEW n \in Nat \ {0}, made + n <= MaxMessages,
           NEW role \in {"user", "companion", "assistant", "tool"}, NEW theCalls \in Seq(Call)
    PROVE  New(n, role, theCalls) \in Message
BY Bounds DEF MadeType, New, Message

LEMMA GrowType ==
    ASSUME SessionType, MadeType, NEW messages \in Seq(Message), Grow(messages)
    PROVE  memory' \in Seq(Message) /\ MadeType' /\ Kept
<1>1. memory \in Seq(Message) /\ Len(messages) \in Nat /\ made \in Nat
  BY Bounds DEF SessionType, MadeType
<1> QED
  BY <1>1, Bounds DEF Grow, MadeType, Kept

LEMMA GrowOne ==
    ASSUME SessionType, MadeType, NEW role \in {"user", "companion", "assistant", "tool"},
           NEW theCalls \in Seq(Call), Grow(<<New(1, role, theCalls)>>)
    PROVE  memory' \in Seq(Message) /\ MadeType' /\ Kept
<1>1. made + 1 <= MaxMessages
  <2>1. made + Len(<<New(1, role, theCalls)>>) <= MaxMessages
    BY DEF Grow
  <2> QED
    BY <2>1
<1>2. 1 \in Nat \ {0}
  OBVIOUS
<1>3. New(1, role, theCalls) \in Message
  BY <1>1, <1>2, NewType, Zenon
<1>4. <<New(1, role, theCalls)>> \in Seq(Message)
  BY <1>3
<1> QED
  BY <1>4, GrowType

LEMMA GrowArrivals ==
    ASSUME SessionType, MadeType, NEW roles \in Seq(Arrivals),
           Grow([i \in DOMAIN roles |-> New(i, roles[i], <<>>)])
    PROVE  memory' \in Seq(Message) /\ MadeType' /\ Kept
<1> DEFINE messages == [i \in DOMAIN roles |-> New(i, roles[i], <<>>)]
<1>1. Len(roles) \in Nat /\ DOMAIN roles = 1..Len(roles) /\ Len(messages) = Len(roles)
  OBVIOUS
<1>2. made + Len(roles) <= MaxMessages /\ made \in Nat
  BY <1>1, Bounds DEF Grow, MadeType
<1>3. ASSUME NEW i \in DOMAIN roles PROVE New(i, roles[i], <<>>) \in Message
  <2>1. i \in Nat \ {0} /\ made + i <= MaxMessages
    BY <1>1, <1>2, Bounds
  <2>2. roles[i] \in {"user", "companion", "assistant", "tool"}
    BY <1>1, Element, ArrivalsAssumption
  <2>3. <<>> \in Seq(Call)
    OBVIOUS
  <2> QED
    BY <2>1, <2>2, <2>3, NewType, Zenon
<1>4. messages \in Seq(Message)
  BY <1>1, <1>3
<1> QED
  BY <1>4, GrowType

LEMMA GotoType ==
    ASSUME IoType, pc # "io", NEW label \in Labels \ {"io"}, Goto(label)
    PROVE  IoType'
BY DEF IoType, Goto, io

LEMMA PersistType ==
    ASSUME IoType, NEW history \in Seq(Message), NEW label \in Labels \ {"io"},
           Persist(history, label)
    PROVE  IoType'
BY DEF IoType, Persist, Operation, NoOp, Apt, Labels

LEMMA FailType == CounterType /\ Fail => CounterType'
BY Bounds DEF CounterType, Fail

LEMMA InitType == Init => TypeInv
<1> SUFFICES ASSUME Init PROVE TypeInv
  OBVIOUS
<1>1. <<>> \in Seq(Message) /\ <<>> \in Seq(Call) /\ <<>> \in Seq(Operation)
      /\ <<>> \in Seq(Arrivals) /\ Len(<<>>) = 0
  OBVIOUS
<1>2. IoType
  BY <1>1 DEF Init, IoType, Operation, NoOp, Apt, Labels
<1>3. DatabaseType /\ SessionType /\ StepType /\ InboxType
  <2>1. DatabaseType /\ SessionType
    BY <1>1 DEF Init, DatabaseType, SessionType, Question
  <2>2. StepType
    BY <1>1 DEF Init, StepType, Question
  <2>3. InboxType
    BY <1>1, QueuesType DEF Init, InboxType
  <2> QED
    BY <2>1, <2>2, <2>3
<1>4. CounterType /\ MadeType
  BY Bounds DEF Init, CounterType, MadeType
<1> QED
  BY <1>2, <1>3, <1>4 DEF TypeInv
-------------------------------------------------------------------------------
(* The product                                                             *)

LEMMA ProductType == TypeInv /\ Product => TypeInv'
<1> SUFFICES ASSUME TypeInv, Product PROVE TypeInv'
  OBVIOUS
<1> USE DEF TypeInv
<1>1. CASE Load
  <2>1. SessionType'
    BY <1>1 DEF Load, Loaded, DatabaseType, SessionType
  <2>2. IoType'
    BY <1>1, GotoType DEF Load, Labels
  <2> QED
    BY <1>1, <2>1, <2>2, Same DEF Load
<1>2. CASE Edit
  <2>1. PICK i \in DOMAIN memory :
          LET dropped == {j \in i + 1..Len(memory) :
                             \E k \in i + 1..j : memory[k].role # "companion"}
              kept == SubSeq(memory, 1, Len(memory) - Cardinality(dropped))
          IN  memory' = kept /\ Persist(kept, "loaded")
    BY <1>2 DEF Edit
  <2> DEFINE dropped == {j \in i + 1..Len(memory) :
                            \E k \in i + 1..j : memory[k].role # "companion"}
             kept == SubSeq(memory, 1, Len(memory) - Cardinality(dropped))
  <2>2. memory \in Seq(Message) /\ Len(memory) \in Nat
    BY DEF SessionType
  <2>3. Cardinality(dropped) \in 0..Len(memory)
    <3>1. dropped \subseteq 1..Len(memory)
      BY <2>2
    <3>2. IsFiniteSet(1..Len(memory)) /\ Cardinality(1..Len(memory)) = Len(memory)
      <4> DEFINE n == Len(memory)
      <4>1. n \in Nat
        BY <2>2
      <4> HIDE DEF n
      <4>2. IsFiniteSet(1..n) /\ Cardinality(1..n) = IF 1 > n THEN 0 ELSE n - 1 + 1
        BY <4>1, FS_Interval
      <4> QED
        BY <4>1, <4>2 DEF n
    <3> HIDE DEF dropped
    <3>3. Cardinality(dropped) \in Nat /\ Cardinality(dropped) <= Len(memory)
      BY <3>1, <3>2, FS_Subset, FS_CardinalityType
    <3> QED
      BY <2>2, <3>3
  <2> HIDE DEF dropped
  <2>4. kept \in Seq(Message)
    BY <2>2, <2>3
  <2>5. memory' = kept /\ Persist(kept, "loaded")
    BY <2>1 DEF dropped
  <2> HIDE DEF kept
  <2>6. SessionType'
    BY <1>2, <2>4, <2>5 DEF Edit, SessionType
  <2>7. IoType'
    BY <2>4, <2>5, PersistType DEF Labels
  <2> QED
    BY <1>2, <2>6, <2>7, Same DEF Edit
<1>3. ASSUME NEW label \in {"plan", "answer"}, Begin(label), over' \subseteq Call
      PROVE  DatabaseType' /\ IoType' /\ StepType' /\ InboxType' /\ CounterType' /\ Question(pending')
  <2>1. CounterType'
    BY <1>3, Bounds DEF Begin, CounterType
  <2>2. StepType'
    BY <1>3 DEF Begin, TakeUp, StepType, Question
  <2>3. IoType'
    BY <1>3, GotoType DEF Begin, Labels
  <2> QED
    BY <1>3, <2>1, <2>2, <2>3, Same DEF Begin, SessionType
<1>a. StartOver => over' \subseteq Call
  <2>1. over \subseteq Call /\ pending \in Seq(Call)
    BY DEF CounterType, SessionType, Question
  <2>2. \A n \in DOMAIN pending : pending[n] \in Call
    BY <2>1
  <2> QED
    BY <2>1, <2>2 DEF StartOver, OpenCalls
<1>4. CASE StartWithText
  <2>2. memory' \in Seq(Message) /\ MadeType' /\ Kept
    <3>1. <<>> \in Seq(Call)
      OBVIOUS
    <3>2. Grow(<<New(1, "user", <<>>)>>)
      BY <1>4 DEF StartWithText
    <3> QED
      BY <3>1, <3>2, GrowOne, Zenon
  <2> QED
    BY <1>3, <1>4, <1>a, <2>2 DEF StartWithText, StartOver, SessionType
<1>5. CASE StartFromState
  BY <1>3, <1>5, <1>a, Same DEF StartFromState, StartOver, SessionType
<1>6. CASE StartWithAnswer
  BY <1>3, <1>6, Same DEF StartWithAnswer, SessionType, CounterType
<1>7. CASE Deliver
  <2>1. CounterType'
    BY <1>7, Bounds DEF Deliver, CounterType
  <2>2. InboxType'
    BY <1>7 DEF Deliver, InboxType
  <2> QED
    BY <1>7, <2>1, <2>2, Same DEF Deliver
<1> QED
  BY <1>1, <1>2, <1>4, <1>5, <1>6, <1>7 DEF Product
-------------------------------------------------------------------------------
(* The run                                                                 *)

LEMMA QuestionType ==
    ASSUME NEW q, Question(q), q # <<>>
    PROVE  q \in Seq(Call) /\ q[1] \in Call
BY DEF Question

LEMMA ApplyAnswerType == TypeInv /\ ApplyAnswer => TypeInv' /\ Kept
<1> SUFFICES ASSUME TypeInv, ApplyAnswer PROVE TypeInv' /\ Kept
  OBVIOUS
<1> USE DEF TypeInv
<1>1. pending \in Seq(Call)
  BY DEF SessionType, Question
<1>2. memory' \in Seq(Message) /\ MadeType' /\ Kept
  <2>1. CASE HasToolCall(memory, pending[1])
    <3>1. Grow(<<New(1, "tool", pending)>>)
      BY <2>1 DEF ApplyAnswer, AnswerMessages
    <3> QED
      BY <1>1, <3>1, GrowOne, Zenon
  <2>2. CASE ~HasToolCall(memory, pending[1])
    <3> DEFINE two == <<New(1, "assistant", pending), New(2, "tool", pending)>>
    <3>1. Grow(two)
      BY <2>2 DEF ApplyAnswer, AnswerMessages
    <3>2. made + 2 <= MaxMessages /\ made + 1 <= MaxMessages
      <4>1. made + Len(two) <= MaxMessages /\ made \in Nat
        BY <3>1, Bounds DEF Grow, MadeType
      <4> QED
        BY <4>1, Bounds
    <3>3. 1 \in Nat \ {0} /\ 2 \in Nat \ {0}
      OBVIOUS
    <3>4. New(1, "assistant", pending) \in Message /\ New(2, "tool", pending) \in Message
      BY <1>1, <3>2, <3>3, NewType, Zenon
    <3>5. two \in Seq(Message)
      BY <3>4
    <3> QED
      BY <3>1, <3>5, GrowType
  <2> QED
    BY <2>1, <2>2
<1>3. IoType'
  BY <1>2, PersistType DEF ApplyAnswer, Labels
<1>4. SessionType'
  BY <1>2 DEF ApplyAnswer, SessionType, Question
<1>5. DatabaseType'
  <2>1. ask' \in {<<>>, ask} /\ db' = db
    BY DEF ApplyAnswer
  <2> QED
    BY <2>1, NoQuestion DEF DatabaseType
<1>6. CounterType'
  <2>1. UNCHANGED counters \/ Fail
    BY DEF ApplyAnswer
  <2> QED
    BY <2>1, FailType, Same
<1> QED
  BY <1>2, <1>3, <1>4, <1>5, <1>6, Same DEF ApplyAnswer

LEMMA ReplyType == TypeInv /\ Reply => TypeInv' /\ Kept
<1> SUFFICES ASSUME TypeInv, Reply PROVE TypeInv' /\ Kept
  OBVIOUS
<1> USE DEF TypeInv
<1>1. memory' \in Seq(Message) /\ MadeType' /\ Kept
  <2>1. CASE EndsWithOpenReply(memory)
    <3>1. memory \in Seq(Message) /\ Len(memory) \in 1..Len(memory)
      BY <2>1 DEF EndsWithOpenReply, SessionType
    <3>2. memory[Len(memory)] \in Message
      BY <3>1, Element
    <3>3. [memory[Len(memory)] EXCEPT !.text = @ + 1] \in Message
      BY <3>2 DEF Message
    <3>4. memory' = [memory EXCEPT ![Len(memory)] =
                        [memory[Len(memory)] EXCEPT !.text = @ + 1]]
      BY <2>1, <3>2 DEF Reply, Message
    <3> QED
      BY <2>1, <3>1, <3>3, <3>4, Same DEF Reply, Kept, Message
  <2>2. CASE ~EndsWithOpenReply(memory)
    <3>1. <<>> \in Seq(Call)
      OBVIOUS
    <3>2. Grow(<<New(1, "assistant", <<>>)>>)
      BY <2>2 DEF Reply
    <3> QED
      BY <3>1, <3>2, GrowOne, Zenon
  <2> QED
    BY <2>1, <2>2
<1>2. IoType'
  BY <1>1, PersistType DEF Reply, Labels
<1>3. StepType'
  BY DEF Reply, TakeUp, StepType
<1> QED
  BY <1>1, <1>2, <1>3, Same DEF Reply, SessionType

LEMMA AskForToolsType == TypeInv /\ AskForTools => TypeInv' /\ Kept
<1> SUFFICES ASSUME TypeInv, AskForTools PROVE TypeInv' /\ Kept
  OBVIOUS
<1> USE DEF TypeInv
<1>1. PICK size \in BatchSizes : TakeUp([k \in 1..size |-> <<made + 1, k>>])
  BY DEF AskForTools
<1>2. made + 1 \in 1..MaxMessages
  <2>1. made + Len(<<New(1, "assistant", batch')>>) <= MaxMessages
    BY DEF AskForTools, Grow
  <2> QED
    BY <2>1, Bounds DEF MadeType
<1>3. batch' \in Seq(Call)
  <2>1. size \in Nat
    BY BatchSizesAssumption
  <2>2. \A k \in 1..size : <<made + 1, k>> \in Call
    BY <1>2, <2>1 DEF Call
  <2> QED
    BY <1>1, <2>1, <2>2 DEF TakeUp
<1>4. memory' \in Seq(Message) /\ MadeType' /\ Kept
  <2>1. Grow(<<New(1, "assistant", batch')>>)
    BY DEF AskForTools
  <2> QED
    BY <1>3, <2>1, GrowOne, Zenon
<1>5. IoType'
  BY <1>4, PersistType DEF AskForTools, Labels
<1>6. StepType'
  <2>1. Len(batch') \in Nat /\ at' = 1 /\ suspended' = suspended
    <3>1. at' = 1 /\ suspended' = suspended
      BY <1>1 DEF AskForTools, TakeUp
    <3>2. Len(batch') \in Nat
      BY <1>3
    <3> QED
      BY <3>1, <3>2
  <2> QED
    BY <1>3, <2>1 DEF StepType
<1> QED
  BY <1>4, <1>5, <1>6, Same DEF AskForTools, SessionType

LEMMA ToolResultType == TypeInv /\ ToolResult => TypeInv' /\ Kept
<1> SUFFICES ASSUME TypeInv, ToolResult PROVE TypeInv' /\ Kept
  OBVIOUS
<1> USE DEF TypeInv
<1>1. batch \in Seq(Call) /\ at \in 1..Len(batch)
  BY DEF ToolResult, StepType
<1>2. <<batch[at]>> \in Seq(Call)
  BY <1>1, Element
<1>3. memory' \in Seq(Message) /\ MadeType' /\ Kept
  <2>1. Grow(<<New(1, "tool", <<batch[at]>>)>>)
    BY DEF ToolResult
  <2> QED
    BY <1>2, <2>1, GrowOne, Zenon
<1>4. IoType'
  BY GotoType DEF ToolResult, Labels
<1>5. StepType'
  BY <1>1 DEF ToolResult, StepType
<1> QED
  BY <1>3, <1>4, <1>5, Same DEF ToolResult, SessionType

LEMMA TruncatedType ==
    ASSUME NEW history \in Seq(Message), NEW call
    PROVE  /\ TruncateToolCallsAfter(history, call) \in Seq(Message)
           /\ Len(TruncateToolCallsAfter(history, call)) = Len(history)
           /\ \A i \in 1..Len(history) : TruncateToolCallsAfter(history, call)[i].id = history[i].id
<1>1. ASSUME NEW i \in CutAt(history, call)
      PROVE  /\ [history[i] EXCEPT !.calls = Upto(@, call)] \in Message
             /\ [history[i] EXCEPT !.calls = Upto(@, call)].id = history[i].id
  <2>1. i \in 1..Len(history) /\ Holds(history[i], "assistant", call)
    BY <1>1 DEF CutAt
  <2>2. history[i] \in Message
    BY <2>1, Element
  <2>3. PICK j \in DOMAIN history[i].calls : history[i].calls[j] = call
    BY <2>1 DEF Holds
  <2>4. history[i].calls \in Seq(Call)
    BY <2>2 DEF Message
  <2>5. (CHOOSE k \in DOMAIN history[i].calls : history[i].calls[k] = call)
            \in 1..Len(history[i].calls)
    BY <2>3, <2>4
  <2>6. Upto(history[i].calls, call) \in Seq(Call)
    <3> DEFINE last == CHOOSE k \in DOMAIN history[i].calls : history[i].calls[k] = call
    <3>1. last \in 1..Len(history[i].calls)
      BY <2>5
    <3>2. Upto(history[i].calls, call) = SubSeq(history[i].calls, 1, last)
      BY DEF Upto
    <3> HIDE DEF last
    <3> QED
      BY <2>4, <3>1, <3>2
  <2> QED
    BY <2>2, <2>6 DEF Message
<1>2. \A i \in 1..Len(history) : history[i] \in Message
  BY Element
<1>3. DOMAIN history = 1..Len(history) /\ Len(history) \in Nat
  OBVIOUS
<1> QED
  BY <1>1, <1>2, <1>3 DEF TruncateToolCallsAfter

LEMMA SuspendType == TypeInv /\ Suspend => TypeInv' /\ Kept
<1> SUFFICES ASSUME TypeInv, Suspend PROVE TypeInv' /\ Kept
  OBVIOUS
<1> USE DEF TypeInv
<1>1. memory \in Seq(Message) /\ pc = "tools"
  BY DEF Suspend, SessionType
<1>2. /\ TruncateToolCallsAfter(memory, batch[at]) \in Seq(Message)
      /\ memory' = TruncateToolCallsAfter(memory, batch[at]) => Kept
  BY <1>1, TruncatedType DEF Kept
<1>3. memory' \in Seq(Message) /\ IoType' /\ Kept
  <2>1. CASE SuspendForCut(batch[at])
    <3>1. CASE CutAt(memory, batch[at]) = {}
      <4>1. Goto("mark")
        BY <2>1, <3>1 DEF SuspendForCut
      <4> QED
        BY <1>1, <1>2, <2>1, <4>1, GotoType DEF SuspendForCut, Labels
    <3>2. ASSUME NEW i \in CutAt(memory, batch[at]),
                 op' = [kind |-> "replace", history |-> memory', n |-> i],
                 pc' = "io", next' = "mark", UNCHANGED adrift
          PROVE  memory' \in Seq(Message) /\ IoType' /\ Kept
      <4>1. memory' \in Seq(Message) /\ Len(memory') = Len(memory) /\ Kept
        BY <1>1, <1>2, <2>1, TruncatedType DEF SuspendForCut
      <4>2. i \in 1..Len(memory)
        BY <1>1, <3>2 DEF CutAt
      <4>3. op' \in Operation /\ op' # NoOp /\ Apt(op)'
        BY <3>2, <4>1, <4>2 DEF Operation, NoOp, Apt
      <4> QED
        BY <3>2, <4>1, <4>3 DEF IoType, Labels
    <3> QED
      BY <2>1, <3>1, <3>2 DEF SuspendForCut
  <2>2. CASE /\ memory' = TruncateToolCallsAfter(memory, batch[at])
             /\ Persist(memory', "finish")
    BY <1>2, <2>2, PersistType DEF Labels
  <2>3. CASE UNCHANGED memory /\ Persist(memory, "finish")
    BY <1>1, <2>3, PersistType, SameKept DEF Labels
  <2> QED
    BY <2>1, <2>2, <2>3 DEF Suspend
<1>4. StepType'
  <2>1. batch \in Seq(Call) /\ at \in 1..Len(batch)
    BY DEF Suspend, StepType
  <2>2. <<batch[at]>> \in Seq(Call) /\ Len(<<batch[at]>>) <= 1
    BY <2>1, Element
  <2> QED
    BY <2>2 DEF Suspend, StepType, Question
<1> QED
  BY <1>3, <1>4, Same DEF Suspend, SessionType

LEMMA MarkSuspendedType ==
    ASSUME TypeInv, MarkSuspended
    PROVE  DatabaseType' /\ SessionType' /\ StepType' /\ InboxType' /\ CounterType' /\ MadeType'
<1> USE DEF TypeInv
<1>1. Question(suspended)
  BY DEF StepType
<1>2. ask' \in {suspended, ask} /\ db' = db /\ pending' = suspended /\ memory' = memory
  BY DEF MarkSuspended
<1>3. DatabaseType' /\ SessionType'
  BY <1>1, <1>2 DEF DatabaseType, SessionType, Question
<1>4. UNCHANGED counters \/ Fail
  BY DEF MarkSuspended
<1> QED
  BY <1>3, <1>4, FailType, Same DEF MarkSuspended

LEMMA FinishType == TypeInv /\ Finish => TypeInv' /\ Kept
<1> SUFFICES ASSUME TypeInv, Finish PROVE TypeInv' /\ Kept
  OBVIOUS
<1> USE DEF TypeInv
<1>1. IoType'
  BY GotoType DEF Finish, Labels
<1>2. CASE MarkSuspended
  BY <1>1, <1>2, MarkSuspendedType, SameKept DEF MarkSuspended
<1>3. CASE ClearQuestion
  <2>1. ask' \in {<<>>, ask} /\ db' = db /\ pending' = <<>> /\ memory' = memory
    BY <1>3 DEF ClearQuestion
  <2>2. DatabaseType' /\ SessionType'
    BY <2>1, NoQuestion DEF DatabaseType, SessionType
  <2>3. UNCHANGED counters \/ Fail
    BY <1>3 DEF ClearQuestion
  <2> QED
    BY <1>1, <1>3, <2>2, <2>3, FailType, Same, SameKept DEF ClearQuestion
<1>4. CASE LeaveQuestion
  BY <1>1, <1>4, Same, SameKept DEF LeaveQuestion, session
<1> QED
  BY <1>2, <1>3, <1>4 DEF Finish

LEMMA RunStepType == TypeInv /\ RunStep => TypeInv' /\ Kept
<1> SUFFICES ASSUME TypeInv, RunStep PROVE TypeInv' /\ Kept
  OBVIOUS
<1> USE DEF TypeInv
<1>1. memory \in Seq(Message)
  BY DEF SessionType
<1>2. CASE RefuseAnswer
  BY <1>1, <1>2, PersistType, Same, SameKept DEF RefuseAnswer, Labels, session
<1>3. CASE MarkQuestion
  <2>1. IoType'
    BY <1>1, <1>3, PersistType DEF MarkQuestion, Labels
  <2> QED
    BY <1>3, <2>1, MarkSuspendedType, SameKept DEF MarkQuestion, MarkSuspended
<1>4. CASE Interval
  <2>1. inbox.step \in Seq(Arrivals)
    BY DEF InboxType
  <2>2. memory' \in Seq(Message) /\ MadeType' /\ Kept
    BY <1>4, <2>1, GrowArrivals DEF Interval
  <2>3. IoType'
    BY <1>4, <2>2, PersistType DEF Interval, Labels
  <2>4. InboxType'
    <3>1. <<>> \in Seq(Arrivals)
      OBVIOUS
    <3> QED
      BY <1>4, <3>1 DEF Interval, InboxType
  <2> QED
    BY <1>4, <2>2, <2>3, <2>4, Same DEF Interval, SessionType
<1>5. CASE NextStep
  BY <1>5, GotoType, Same, SameKept DEF NextStep, Labels, session
<1>6. CASE GoOn
  <2>1. Arrived \in Seq(Arrivals)
    BY DEF Arrived, InboxType
  <2>2. memory' \in Seq(Message) /\ MadeType' /\ Kept
    BY <1>6, <2>1, GrowArrivals DEF GoOn
  <2>3. IoType'
    BY <1>6, <2>2, PersistType DEF GoOn, Labels
  <2>4. InboxType'
    <3>1. <<>> \in Seq(Arrivals)
      OBVIOUS
    <3> QED
      BY <1>6, <3>1, QueuesType DEF GoOn, InboxType
  <2> QED
    BY <1>6, <2>2, <2>3, <2>4, Same DEF GoOn, SessionType
<1>7. CASE Conclude
  BY <1>1, <1>7, PersistType, Same, SameKept DEF Conclude, Labels, session
<1>8. CASE Interrupted
  BY <1>1, <1>8, PersistType, Same, SameKept DEF Interrupted, Labels, session
<1> QED
  BY <1>2, <1>3, <1>4, <1>5, <1>6, <1>7, <1>8, ApplyAnswerType, ReplyType, AskForToolsType,
     ToolResultType, SuspendType, FinishType DEF RunStep
-------------------------------------------------------------------------------
(* The database                                                            *)

LEMMA WrittenType ==
    ASSUME DatabaseType, NEW o \in Operation, Apt(o), o.kind # "count", Write(o), UNCHANGED ask
    PROVE  DatabaseType'
<1>1. db \in Seq(Message) /\ o.history \in Seq(Message) /\ o.n \in Nat
  BY DEF DatabaseType, Operation
<1>2. ASSUME NEW i \in Nat, i \in DOMAIN db => i \in 1..Len(o.history)
      PROVE  Replaced(o.history, i) \in Seq(Message)
  <2>1. CASE i \in DOMAIN db
    <3>1. i \in 1..Len(o.history)
      BY <1>2, <2>1
    <3>2. o.history[i] \in Message
      BY <1>1, <3>1, Element
    <3>3. Replaced(o.history, i) = [db EXCEPT ![i] = o.history[i]]
      BY <2>1 DEF Replaced
    <3> QED
      BY <1>1, <2>1, <3>2, <3>3, ExceptType
  <2> QED
    BY <1>1, <2>1 DEF Replaced
<1>3. CASE o.kind = "write"
  <2>1. db' = Synced(o.history, o.n)
    BY <1>3 DEF Write
  <2>2. CASE Len(o.history) > o.n
    <3>1. SubSeq(o.history, o.n + 1, Len(o.history)) \in Seq(Message)
      BY <1>1, <2>2
    <3> QED
      BY <1>1, <2>1, <2>2, <3>1 DEF Synced, DatabaseType
  <2>3. CASE Len(o.history) < o.n
    <3> DEFINE n == IF Len(o.history) < Len(db) THEN Len(o.history) ELSE Len(db)
    <3>1. n \in 0..Len(db)
      BY <1>1
    <3>2. db' = SubSeq(db, 1, n)
      BY <1>1, <2>1, <2>3 DEF Synced
    <3> HIDE DEF n
    <3> QED
      BY <1>1, <3>1, <3>2 DEF DatabaseType
  <2>4. CASE Len(o.history) = o.n
    <3>1. Replaced(o.history, o.n) \in Seq(Message)
      <4>1. o.n \in DOMAIN db => o.n \in 1..Len(o.history)
        BY <1>1, <2>4
      <4> QED
        BY <1>1, <1>2, <4>1
    <3>2. db' = Replaced(o.history, o.n)
      BY <1>1, <2>1, <2>4 DEF Synced
    <3> QED
      BY <3>1, <3>2 DEF DatabaseType
  <2> QED
    BY <1>1, <2>2, <2>3, <2>4
<1>4. CASE o.kind = "replace"
  <2>1. db' = Replaced(o.history, o.n)
    BY <1>4 DEF Write
  <2>2. o.n \in 1..Len(o.history)
    BY <1>4 DEF Apt
  <2> QED
    BY <1>1, <1>2, <2>1, <2>2 DEF DatabaseType
<1> QED
  BY <1>3, <1>4 DEF Operation, Apt

LEMMA RestType ==
    ASSUME IoType, NEW i \in DOMAIN adrift
    PROVE  Rest(i) \in Seq(Operation) /\ \A k \in DOMAIN Rest(i) : Apt(Rest(i)[k])
<1>1. adrift \in Seq(Operation) /\ i \in 1..Len(adrift) /\ Len(adrift) \in Nat
  BY DEF IoType
<1>2. Rest(i) \in Seq(Operation) /\ Len(Rest(i)) = Len(adrift) - 1
  <2> DEFINE front == SubSeq(adrift, 1, i - 1)
             back == SubSeq(adrift, i + 1, Len(adrift))
  <2>1. front \in Seq(Operation) /\ Len(front) = i - 1
    BY <1>1
  <2>2. back \in Seq(Operation) /\ Len(back) = Len(adrift) - i
    BY <1>1
  <2>3. Rest(i) = front \o back
    BY DEF Rest
  <2> HIDE DEF front, back
  <2> QED
    BY <1>1, <2>1, <2>2, <2>3
<1>3. ASSUME NEW k \in DOMAIN Rest(i) PROVE \E j \in DOMAIN adrift : Rest(i)[k] = adrift[j]
  <2>1. k \in 1..Len(adrift) - 1
    BY <1>2, <1>3
  <2>2. Rest(i)[k] = IF k < i THEN adrift[k] ELSE adrift[k + 1]
    <3> DEFINE front == SubSeq(adrift, 1, i - 1)
               back == SubSeq(adrift, i + 1, Len(adrift))
    <3>1. /\ front \in Seq(Operation) /\ Len(front) = i - 1
          /\ \A j \in 1..i - 1 : front[j] = adrift[j]
      BY <1>1
    <3>2. /\ back \in Seq(Operation) /\ Len(back) = Len(adrift) - i
          /\ \A j \in 1..Len(adrift) - i : back[j] = adrift[i + j]
      BY <1>1
    <3>3. Rest(i) = front \o back
      BY DEF Rest
    <3> HIDE DEF front, back
    <3>4. CASE k < i
      BY <1>1, <2>1, <3>1, <3>2, <3>3, <3>4
    <3>5. CASE k >= i
      <4>1. Rest(i)[k] = back[k - (i - 1)]
        BY <1>1, <2>1, <3>1, <3>2, <3>3, <3>5
      <4>2. k - (i - 1) \in 1..Len(adrift) - i /\ i + (k - (i - 1)) = k + 1
        BY <1>1, <2>1, <3>5
      <4>3. back[k - (i - 1)] = adrift[k + 1]
        BY <3>2, <4>2
      <4> QED
        BY <1>1, <2>1, <3>5, <4>1, <4>3
    <3> QED
      BY <1>1, <2>1, <3>4, <3>5
  <2> QED
    BY <1>1, <2>1, <2>2
<1> QED
  BY <1>2, <1>3 DEF IoType

LEMMA CountedType ==
    ASSUME DatabaseType, NEW o \in Operation
    PROVE  Counted(o) \in Operation /\ Counted(o) # NoOp /\ Apt(Counted(o))
<1>1. Len(db) \in Nat
  BY DEF DatabaseType
<1>2. Counted(o) \in Operation /\ Counted(o).kind = "write"
  BY <1>1 DEF Counted, Operation
<1> QED
  BY <1>2 DEF NoOp, Apt

LEMMA StoreType == TypeInv /\ Store => TypeInv'
<1> SUFFICES ASSUME TypeInv, Store PROVE TypeInv'
  OBVIOUS
<1> USE DEF TypeInv
<1>1. ASSUME NEW label \in Labels \ {"io"}, Return(label) PROVE IoType'
  BY <1>1 DEF IoType, Return, Operation, NoOp, Apt, Labels
<1>2. CASE StoreCount
  <2>1. op \in Operation /\ op # NoOp /\ pc = "io"
    BY <1>2 DEF IoType, StoreCount, NoOp
  <2>2. IoType'
    BY <1>2, <2>1, CountedType DEF IoType, StoreCount
  <2> QED
    BY <1>2, <2>2, Same DEF StoreCount
<1>3. CASE StoreWrite
  <2>1. op \in Operation /\ Apt(op) /\ op.kind # "count" /\ next \in Labels \ {"io"}
    BY <1>3 DEF IoType, StoreWrite, NoOp
  <2>2. DatabaseType'
    BY <1>3, <2>1, WrittenType DEF StoreWrite
  <2> QED
    BY <1>1, <1>3, <2>1, <2>2, Same DEF StoreWrite
<1>4. CASE StoreFails
  <2>1. next \in Labels \ {"io"}
    BY DEF IoType
  <2>2. IoType'
    BY <1>1, <1>4, <2>1 DEF StoreFails, Labels
  <2> QED
    BY <1>4, <2>2, FailType, Same DEF StoreFails
<1>5. CASE CancelWhileStoring
  <2>1. CounterType'
    BY <1>5, Bounds DEF CancelWhileStoring, CounterType
  <2>2. adrift' \in Seq(Operation) /\ \A i \in DOMAIN adrift' : Apt(adrift'[i])
    BY <1>5 DEF CancelWhileStoring, IoType
  <2>3. /\ op' \in Operation /\ (op' # NoOp => Apt(op')) /\ (op' = NoOp <=> pc' # "io")
        /\ pc' \in Labels /\ next' = "idle"
    <3>1. CASE pc' = "idle" /\ next' = "idle" /\ op' = NoOp
      <4>1. NoOp \in Operation
        BY DEF NoOp, Operation
      <4> QED
        BY <3>1, <4>1 DEF Labels
    <3>2. CASE /\ pc' = "io" /\ next' = "idle"
               /\ op' = [kind |-> "count", history |-> memory, n |-> 0]
      <4>1. op' \in Operation /\ op' # NoOp /\ Apt(op')
        BY <3>2 DEF SessionType, Operation, NoOp, Apt
      <4> QED
        BY <3>2, <4>1 DEF Labels
    <3> QED
      BY <1>5, <3>1, <3>2 DEF CancelWhileStoring
  <2>4. IoType'
    BY <2>2, <2>3 DEF IoType, Labels
  <2> QED
    BY <1>5, <2>1, <2>4, Same DEF CancelWhileStoring
<1>6. CASE Adrift
  <2>1. PICK i \in DOMAIN adrift : AdriftCounts(i) \/ AdriftWrites(i) \/ AdriftEnds(i)
    BY <1>6 DEF Adrift
  <2>2. adrift[i] \in Operation /\ Apt(adrift[i]) /\ adrift \in Seq(Operation)
    BY <2>1, Element DEF IoType
  <2>3. DatabaseType'
    BY <1>6, <2>1, <2>2, WrittenType, Same
       DEF Adrift, AdriftCounts, AdriftWrites, AdriftEnds, database
  <2>4. adrift' \in Seq(Operation) /\ \A k \in DOMAIN adrift' : Apt(adrift'[k])
    <3>1. CASE adrift' = [adrift EXCEPT ![i] = Counted(adrift[i])]
      BY <2>2, <3>1, CountedType DEF IoType
    <3>2. CASE adrift' = Rest(i)
      BY <2>1, <3>2, RestType
    <3> QED
      BY <2>1, <3>1, <3>2 DEF AdriftCounts, AdriftWrites, AdriftEnds
  <2>5. IoType'
    BY <1>6, <2>4 DEF Adrift, IoType
  <2> QED
    BY <1>6, <2>3, <2>5, Same DEF Adrift
<1> QED
  BY <1>2, <1>3, <1>4, <1>5, <1>6 DEF Store

LEMMA CrashType == TypeInv /\ Crash => TypeInv'
<1> SUFFICES ASSUME TypeInv, Crash PROVE TypeInv'
  OBVIOUS
<1> USE DEF TypeInv
<1>1. CounterType'
  BY Bounds DEF Crash, CounterType
<1>2. IoType'
  BY DEF Crash, IoType, Operation, NoOp, Apt, Labels
<1>3. SessionType'
  BY NoQuestion DEF Crash, SessionType
<1>4. StepType'
  BY NoQuestion DEF Crash, StepType
<1>5. InboxType'
  <2>1. <<>> \in Seq(Arrivals)
    OBVIOUS
  <2> QED
    BY <2>1, QueuesType DEF Crash, InboxType
<1> QED
  BY <1>1, <1>2, <1>3, <1>4, <1>5, Same DEF Crash

LEMMA TypeInvariance == Spec => []TypeInv
<1>1. TypeInv /\ [Next]_vars => TypeInv'
  <2>1. TypeInv /\ UNCHANGED vars => TypeInv'
    BY Same DEF TypeInv, vars, io
  <2> QED
    BY <2>1, ProductType, RunStepType, StoreType, CrashType DEF Next
<1> QED
  BY <1>1, InitType, PTL DEF Spec

\* The type invariant, with it that a message is replaced only where there is one.
THEOREM TypeCorrect == Spec => []TypeOK
<1>1. TypeInv => TypeOK
  BY DEF TypeInv, TypeOK, DatabaseType, SessionType, IoType, StepType, InboxType, CounterType,
         MadeType
<1> QED
  BY <1>1, TypeInvariance, PTL
-------------------------------------------------------------------------------
(* The database and the memory                                             *)

Agree(a, b) == \A i \in DOMAIN a \cap DOMAIN b : a[i].id = b[i].id

Editing == pc = "io" /\ next = "loaded"

\* While no write was cancelled: what is awaited writes the history in memory, by the
\* length the database has; the two agree position by position; and but for an edit
\* that is being saved the database is not ahead.
PositionsInv ==
    cancels = 0 =>
        /\ adrift = <<>>
        /\ pc = "io" => op.history = memory
        /\ op.kind = "write" => op.n = Len(db)
        /\ op.kind = "replace" => next # "loaded"
        /\ pc # "idle" => Agree(db, memory)
        /\ pc # "idle" /\ ~Editing => Len(db) <= Len(memory)

IInv == TypeInv /\ PositionsInv

\* A step of a run leaves the database alone, and what it awaits writes what the
\* memory has become.
Awaits ==
    /\ UNCHANGED <<db, adrift>> /\ cancels' = cancels
    /\ pc \notin {"idle", "io"}
    /\ \/ pc' # "io" /\ op' = op
       \/ pc' = "io" /\ next' # "loaded" /\ op'.history = memory' /\ op'.kind # "write"

LEMMA AwaitsPositions == IInv /\ TypeInv' /\ Kept /\ Awaits => PositionsInv'
<1> SUFFICES ASSUME IInv, TypeInv', Kept, Awaits, cancels = 0 PROVE PositionsInv'
  BY DEF Awaits, PositionsInv
<1> USE DEF IInv
<1>1. /\ db \in Seq(Message) /\ memory \in Seq(Message) /\ memory' \in Seq(Message)
      /\ db' = db
  BY DEF TypeInv, DatabaseType, SessionType, Awaits
<1>2. Agree(db, memory) /\ Len(db) <= Len(memory)
  BY DEF PositionsInv, Awaits, Editing
<1>3. Agree(db', memory') /\ Len(db') <= Len(memory')
  <2>1. /\ DOMAIN db = 1..Len(db) /\ DOMAIN memory = 1..Len(memory)
        /\ DOMAIN memory' = 1..Len(memory') /\ Len(db) \in Nat /\ Len(memory) \in Nat
        /\ Len(memory') \in Nat
    BY <1>1
  <2> QED
    BY <1>1, <1>2, <2>1 DEF Agree, Kept
<1>4. pc # "io" /\ op = NoOp
  BY DEF Awaits, TypeInv, IoType
<1>5. adrift' = <<>>
  BY DEF Awaits, PositionsInv
<1>6. CASE pc' # "io" /\ op' = op
  BY <1>3, <1>4, <1>5, <1>6 DEF PositionsInv, Editing, NoOp
<1>7. CASE pc' = "io" /\ next' # "loaded" /\ op'.history = memory' /\ op'.kind # "write"
  BY <1>3, <1>5, <1>7 DEF PositionsInv, Editing
<1> QED
  BY <1>6, <1>7 DEF Awaits

LEMMA PersistAwaits ==
    ASSUME NEW label \in Labels \ {"io", "loaded"}, Persist(memory', label)
    PROVE  /\ adrift' = adrift /\ pc' = "io" /\ next' # "loaded"
           /\ op'.history = memory' /\ op'.kind # "write"
BY DEF Persist

LEMMA GotoAwaits ==
    ASSUME NEW label \in Labels \ {"io"}, Goto(label)
    PROVE  adrift' = adrift /\ pc' # "io" /\ op' = op
BY DEF Goto, io

LEMMA FailCancels == UNCHANGED counters \/ Fail => cancels' = cancels
BY DEF counters, Fail

LEMMA RunStepAwaits == RunStep => Awaits
<1> SUFFICES ASSUME RunStep PROVE Awaits
  OBVIOUS
<1> USE DEF Labels
<1>1. CASE ApplyAnswer
  BY <1>1, PersistAwaits, FailCancels DEF ApplyAnswer, Awaits
<1>2. CASE RefuseAnswer
  BY <1>2, PersistAwaits, FailCancels DEF RefuseAnswer, Awaits, session, database
<1>3. CASE Reply
  BY <1>3, PersistAwaits, FailCancels DEF Reply, Awaits, database
<1>4. CASE AskForTools
  BY <1>4, PersistAwaits, FailCancels DEF AskForTools, Awaits, database
<1>5. CASE ToolResult
  BY <1>5, GotoAwaits, FailCancels DEF ToolResult, Awaits, database
<1>6. CASE Suspend
  <2>1. UNCHANGED db /\ cancels' = cancels /\ pc = "tools"
    BY <1>6, FailCancels DEF Suspend, database
  <2>2. CASE SuspendForCut(batch[at])
    <3>1. CASE Goto("mark")
      BY <2>1, <3>1, GotoAwaits DEF Awaits
    <3>2. ASSUME NEW i, op' = [kind |-> "replace", history |-> memory', n |-> i],
                 pc' = "io", next' = "mark", UNCHANGED adrift
          PROVE  Awaits
      BY <2>1, <3>2 DEF Awaits
    <3> QED
      BY <2>2, <3>1, <3>2 DEF SuspendForCut
  <2>3. CASE Persist(memory', "finish")
    BY <2>1, <2>3, PersistAwaits DEF Awaits
  <2>4. CASE UNCHANGED memory /\ Persist(memory, "finish")
    BY <2>1, <2>4, PersistAwaits DEF Awaits
  <2> QED
    BY <1>6, <2>2, <2>3, <2>4 DEF Suspend
<1>7. CASE MarkQuestion
  BY <1>7, PersistAwaits, FailCancels DEF MarkQuestion, MarkSuspended, Awaits
<1>8. CASE Interval
  BY <1>8, PersistAwaits, FailCancels DEF Interval, Awaits, database
<1>9. CASE NextStep
  BY <1>9, GotoAwaits, FailCancels DEF NextStep, Awaits, database
<1>10. CASE GoOn
  BY <1>10, PersistAwaits, FailCancels DEF GoOn, Awaits, database
<1>11. CASE Conclude
  BY <1>11, PersistAwaits, FailCancels DEF Conclude, Awaits, session, database
<1>12. CASE Interrupted
  BY <1>12, PersistAwaits, FailCancels DEF Interrupted, Awaits, session, database
<1>13. CASE Finish
  <2>1. UNCHANGED db /\ (UNCHANGED counters \/ Fail)
    BY <1>13 DEF Finish, MarkSuspended, ClearQuestion, LeaveQuestion, database
  <2> QED
    BY <1>13, <2>1, GotoAwaits, FailCancels DEF Finish, Awaits
<1> QED
  BY <1>1, <1>2, <1>3, <1>4, <1>5, <1>6, <1>7, <1>8, <1>9, <1>10, <1>11, <1>12, <1>13 DEF RunStep

LEMMA StartAwaits ==
    ASSUME NEW label \in {"plan", "answer"}, Begin(label)
    PROVE  Awaits
BY GotoAwaits DEF Begin, Awaits, Labels, database

LEMMA ProductPositions == IInv /\ TypeInv' /\ Product => PositionsInv'
<1> SUFFICES ASSUME IInv, TypeInv', Product PROVE PositionsInv'
  OBVIOUS
<1> USE DEF IInv
<1>1. /\ db \in Seq(Message) /\ memory \in Seq(Message) /\ Len(db) \in Nat
      /\ DOMAIN memory = 1..Len(memory) /\ DOMAIN db = 1..Len(db) /\ Len(memory) \in Nat
  BY DEF TypeInv, DatabaseType, SessionType
<1>2. CASE Load
  <2>1. /\ memory' = db /\ db' = db /\ adrift' = adrift /\ op' = op /\ pc' # "io"
        /\ cancels' = cancels /\ pc # "io"
    BY <1>2 DEF Load, Loaded, Goto, io, database, counters
  <2>2. op = NoOp
    BY <2>1 DEF TypeInv, IoType
  <2> QED
    BY <1>1, <2>1, <2>2 DEF PositionsInv, Agree, Editing, NoOp
<1>3. CASE Edit
  <2>1. PICK i \in DOMAIN memory :
          LET dropped == {j \in i + 1..Len(memory) :
                             \E k \in i + 1..j : memory[k].role # "companion"}
              kept == SubSeq(memory, 1, Len(memory) - Cardinality(dropped))
          IN  memory' = kept /\ Persist(kept, "loaded")
    BY <1>3 DEF Edit
  <2> DEFINE dropped == {j \in i + 1..Len(memory) :
                            \E k \in i + 1..j : memory[k].role # "companion"}
  <2>2. Cardinality(dropped) \in Nat
    <3>1. dropped \subseteq 1..Len(memory)
      BY <1>1
    <3>2. IsFiniteSet(1..Len(memory))
      BY <1>1, FS_Interval
    <3> HIDE DEF dropped
    <3>3. IsFiniteSet(dropped)
      BY <3>1, <3>2, FS_Subset
    <3> QED
      BY <3>3, FS_CardinalityType
  <2>3. memory' = SubSeq(memory, 1, Len(memory) - Cardinality(dropped))
        /\ Persist(memory', "loaded")
    BY <2>1
  <2> HIDE DEF dropped
  <2>4. /\ db' = db /\ cancels' = cancels /\ adrift' = adrift /\ pc = "loaded"
        /\ pc' = "io" /\ next' = "loaded" /\ op'.history = memory' /\ op'.kind = "count"
    BY <1>3, <2>3 DEF Edit, Persist, database, counters
  <2>5. cancels = 0 => Agree(db', memory')
    <3>1. \A i_1 \in DOMAIN memory' : i_1 \in DOMAIN memory /\ memory'[i_1] = memory[i_1]
      BY <1>1, <2>2, <2>3
    <3>2. cancels = 0 => Agree(db, memory)
      BY <2>4 DEF PositionsInv
    <3> QED
      BY <2>4, <3>1, <3>2 DEF Agree
  <2> QED
    BY <2>4, <2>5 DEF PositionsInv, Editing
<1>4. CASE StartWithText
  <2>1. Kept
    <3>1. <<>> \in Seq(Call)
      OBVIOUS
    <3>2. Grow(<<New(1, "user", <<>>)>>)
      BY <1>4 DEF StartWithText
    <3> QED
      BY <3>1, <3>2, GrowOne, Zenon DEF TypeInv
  <2> QED
    BY <1>4, <2>1, StartAwaits, AwaitsPositions DEF StartWithText, StartOver
<1>5. CASE StartFromState
  BY <1>5, StartAwaits, AwaitsPositions, SameKept DEF StartFromState, StartOver, TypeInv
<1>6. CASE StartWithAnswer
  BY <1>6, StartAwaits, AwaitsPositions, SameKept DEF StartWithAnswer, TypeInv
<1>7. CASE Deliver
  BY <1>7 DEF Deliver, database, session, io, PositionsInv, Agree, Editing
<1> QED
  BY <1>2, <1>3, <1>4, <1>5, <1>6, <1>7 DEF Product

\* What a write leaves in the database, if it is the only one.
LEMMA WrittenPositions ==
    ASSUME IInv, StoreWrite, cancels = 0
    PROVE  /\ Agree(db', memory)
           /\ Len(db') <= Len(memory)
           /\ ~Editing => Len(db') >= Len(db)
<1> USE DEF IInv
<1>1. /\ db \in Seq(Message) /\ memory \in Seq(Message) /\ Len(db) \in Nat
      /\ DOMAIN memory = 1..Len(memory) /\ DOMAIN db = 1..Len(db) /\ Len(memory) \in Nat
  BY DEF TypeInv, DatabaseType, SessionType
<1>2. pc = "io" /\ op \in Operation /\ Apt(op) /\ op.kind \in {"write", "replace"} /\ Write(op)
  BY DEF StoreWrite, TypeInv, IoType, NoOp
<1>3. op.history = memory /\ Agree(db, memory)
  BY <1>2 DEF PositionsInv
<1>4. \A i \in DOMAIN db : i <= Len(memory) => db[i].id = memory[i].id
  BY <1>1, <1>3 DEF Agree
<1>5. ASSUME NEW n \in Nat, n \in DOMAIN db => n <= Len(memory), db' = Replaced(memory, n)
      PROVE  Agree(db', memory) /\ Len(db') = Len(db)
  <2>1. CASE n \in DOMAIN db
    <3>1. db' = [db EXCEPT ![n] = memory[n]]
      BY <1>5, <2>1 DEF Replaced
    <3>2. DOMAIN db' = DOMAIN db /\ Len(db') = Len(db)
      BY <1>1, <3>1
    <3> QED
      BY <1>1, <1>3, <2>1, <3>1, <3>2 DEF Agree
  <2>2. CASE n \notin DOMAIN db
    BY <1>3, <1>5, <2>2 DEF Replaced
  <2> QED
    BY <2>1, <2>2
<1>6. CASE op.kind = "write"
  <2>1. db' = Synced(memory, Len(db))
    BY <1>2, <1>3, <1>6 DEF Write, PositionsInv
  <2>2. CASE Len(memory) > Len(db)
    <3> DEFINE tail == SubSeq(memory, Len(db) + 1, Len(memory))
    <3>1. /\ Len(tail) = Len(memory) - Len(db) /\ tail \in Seq(Message)
          /\ \A j \in 1..Len(memory) - Len(db) : tail[j] = memory[Len(db) + j]
      <4>1. Len(db) <= Len(memory)
        BY <1>1, <2>2
      <4> QED
        BY <1>1, <4>1, TailOf, Zenon
    <3>2. db' = db \o tail
      BY <1>1, <2>1, <2>2 DEF Synced
    <3> HIDE DEF tail
    <3>3. Len(db') = Len(memory) /\ DOMAIN db' = 1..Len(memory)
      <4>1. db' \in Seq(Message) /\ Len(db') = Len(db) + Len(tail)
        BY <1>1, <3>1, <3>2, ConcatType, Zenon
      <4>2. Len(db') = Len(memory)
        BY <1>1, <2>2, <3>1, <4>1
      <4> QED
        BY <4>1, <4>2
    <3>4. ASSUME NEW i \in 1..Len(memory) PROVE db'[i].id = memory[i].id
      <4>1. CASE i <= Len(db)
        BY <1>1, <1>4, <3>1, <3>2, <4>1
      <4>2. CASE i > Len(db)
        <5>1. db'[i] = tail[i - Len(db)]
          BY <1>1, <3>1, <3>2, <4>2
        <5>2. i - Len(db) \in 1..Len(memory) - Len(db) /\ Len(db) + (i - Len(db)) = i
          BY <1>1, <4>2
        <5> QED
          BY <3>1, <5>1, <5>2
      <4> QED
        BY <1>1, <4>1, <4>2
    <3> QED
      BY <1>1, <2>2, <3>3, <3>4 DEF Agree
  <2>3. CASE Len(memory) < Len(db)
    <3>1. db' = SubSeq(db, 1, Len(memory))
      BY <1>1, <2>1, <2>3 DEF Synced
    <3>2. Len(db') = Len(memory) /\ \A i \in 1..Len(memory) : db'[i] = db[i]
      BY <1>1, <2>3, <3>1
    <3>3. Editing
      BY <1>1, <1>2, <2>3 DEF PositionsInv
    <3>4. Agree(db', memory)
      BY <1>1, <1>4, <2>3, <3>2 DEF Agree
    <3> QED
      BY <1>1, <3>2, <3>3, <3>4
  <2>4. CASE Len(memory) = Len(db)
    <3>1. db' = Replaced(memory, Len(db))
      BY <1>1, <2>1, <2>4 DEF Synced
    <3>2. Agree(db', memory) /\ Len(db') = Len(db)
      BY <1>1, <1>5, <2>4, <3>1
    <3> QED
      BY <1>1, <2>4, <3>2
  <2> QED
    <3>1. Len(memory) < Len(db) \/ Len(memory) = Len(db) \/ Len(memory) > Len(db)
      BY <1>1, Trichotomy, Zenon
    <3> QED
      BY <2>2, <2>3, <2>4, <3>1, Zenon
<1>7. CASE op.kind = "replace"
  <2>1. db' = Replaced(memory, op.n) /\ op.n \in 1..Len(memory)
    BY <1>2, <1>3, <1>7 DEF Write, Apt
  <2>2. Agree(db', memory) /\ Len(db') = Len(db)
    BY <1>1, <1>5, <2>1
  <2>3. ~Editing /\ Len(db) <= Len(memory)
    BY <1>2, <1>7 DEF PositionsInv, Editing
  <2> QED
    BY <1>1, <2>2, <2>3
<1> QED
  BY <1>2, <1>6, <1>7

LEMMA StorePositions == IInv /\ TypeInv' /\ Store => PositionsInv'
<1> SUFFICES ASSUME IInv, TypeInv', Store PROVE PositionsInv'
  OBVIOUS
<1> USE DEF IInv
<1>1. op # NoOp <=> pc = "io"
  BY DEF TypeInv, IoType
<1>2. CASE StoreCount
  <2>1. /\ pc = "io" /\ op'.kind = "write" /\ op'.n = Len(db) /\ op'.history = op.history
        /\ UNCHANGED <<db, memory, pc, next, adrift, cancels>>
    BY <1>1, <1>2 DEF StoreCount, Counted, NoOp, database, session, counters, TypeInv, IoType,
       Operation
  <2> QED
    BY <2>1 DEF PositionsInv, Agree, Editing
<1>3. CASE StoreWrite
  <2>1. /\ op' = NoOp /\ pc' = next /\ next' = "idle" /\ pc' # "io"
        /\ UNCHANGED <<memory, adrift, cancels>>
    BY <1>3 DEF StoreWrite, Return, session, counters, TypeInv, IoType
  <2>2. cancels = 0 => Agree(db', memory) /\ Len(db') <= Len(memory)
    BY <1>3, WrittenPositions
  <2> QED
    BY <2>1, <2>2 DEF PositionsInv, Agree, Editing, NoOp
<1>4. CASE StoreFails
  <2>1. /\ op' = NoOp /\ pc' = (IF next = "loaded" THEN "idle" ELSE next) /\ next' = "idle"
        /\ pc = "io" /\ pc' # "io" /\ UNCHANGED <<db, memory, adrift, cancels>>
    BY <1>1, <1>4 DEF StoreFails, Return, Fail, session, database, TypeInv, IoType
  <2> QED
    BY <2>1 DEF PositionsInv, Agree, Editing, NoOp
<1>5. CASE CancelWhileStoring
  <2>1. cancels' # 0
    BY <1>5 DEF CancelWhileStoring, TypeInv, CounterType
  <2> QED
    BY <2>1 DEF PositionsInv
<1>6. CASE Adrift
  <2>1. adrift # <<>> /\ cancels' = cancels
    BY <1>6 DEF Adrift, counters
  <2> QED
    BY <2>1 DEF PositionsInv
<1> QED
  BY <1>2, <1>3, <1>4, <1>5, <1>6 DEF Store

LEMMA Invariance == Spec => []IInv
<1>1. Init => IInv
  BY InitType DEF IInv, Init, PositionsInv, Agree, NoOp, Editing
<1>2. IInv /\ [Next]_vars => IInv'
  <2> SUFFICES ASSUME IInv, [Next]_vars PROVE IInv'
    OBVIOUS
  <2>1. CASE Product
    BY <2>1, ProductType, ProductPositions DEF IInv
  <2>2. CASE RunStep
    BY <2>2, RunStepType, RunStepAwaits, AwaitsPositions DEF IInv
  <2>3. CASE Store
    BY <2>3, StoreType, StorePositions DEF IInv
  <2>4. CASE Crash
    <3>1. PositionsInv'
      BY <2>4 DEF Crash, PositionsInv, Agree, NoOp, Editing
    <3> QED
      BY <2>4, <3>1, CrashType DEF IInv
  <2>5. CASE UNCHANGED vars
    <3>1. TypeInv'
      BY <2>5, Same DEF IInv, TypeInv, vars, io
    <3>2. PositionsInv'
      BY <2>5 DEF IInv, PositionsInv, Agree, Editing, vars, database, session, io, counters
    <3> QED
      BY <3>1, <3>2 DEF IInv
  <2> QED
    BY <2>1, <2>2, <2>3, <2>4, <2>5 DEF Next
<1> QED
  BY <1>1, <1>2, PTL DEF Spec

\* With any number of runs, edits, failures and deaths, but no write whose caller was
\* cancelled, the run and the database never have different messages at a position,
\* although sync_session compares lengths only.
THEOREM PositionsHold == Spec => []PositionsAgree
<1>1. IInv => PositionsAgree
  BY DEF IInv, PositionsInv, PositionsAgree, Agree
<1> QED
  BY <1>1, Invariance, PTL

\* Under the same conditions nothing but the product's edit makes the stored history
\* shorter.
THEOREM TruncationsAreEdits == Spec => OnlyEditsTruncate
<1>1. IInv /\ [Next]_vars => [cancels = 0 /\ next # "loaded" => Len(db') >= Len(db)]_vars
  <2> SUFFICES ASSUME IInv, Next, cancels = 0, next # "loaded" PROVE Len(db') >= Len(db)
    OBVIOUS
  <2>1. Len(db) \in Nat
    BY DEF IInv, TypeInv, DatabaseType
  <2>2. CASE db' = db
    BY <2>1, <2>2
  <2>3. CASE StoreWrite
    BY <2>3, WrittenPositions DEF Editing
  <2>4. CASE Adrift
    BY <2>4 DEF Adrift, IInv, PositionsInv
  <2>5. CASE Product
    BY <2>2, <2>5 DEF Product, Load, Edit, StartWithText, StartFromState, StartOver, StartWithAnswer,
       Begin, Deliver, database
  <2>6. CASE RunStep
    BY <2>2, <2>6, RunStepAwaits DEF Awaits
  <2> QED
    BY <2>2, <2>3, <2>4, <2>5, <2>6
       DEF Next, Store, StoreCount, StoreFails, CancelWhileStoring, Crash, database
<1> QED
  BY <1>1, Invariance, PTL DEF Spec, OnlyEditsTruncate
-------------------------------------------------------------------------------
(***************************************************************************)
(* One result per call                                                     *)
(***************************************************************************)
\* A message keeps its role, and a result its call, at the place it has.
Alike(a, b) == a.role = b.role /\ (a.role = "tool" => a.calls = b.calls)
OneResult(history) ==
    \A i, j \in DOMAIN history :
        (/\ history[i].role = "tool" /\ history[j].role = "tool"
         /\ history[i].calls = history[j].calls) => i = j

\* Calls of the first n messages that were made.
Made(calls, n) == \A k \in DOMAIN calls : calls[k][1] <= n
ResultsMade(history, n) ==
    \A i \in DOMAIN history : history[i].role = "tool" => Made(history[i].calls, n)

Working == pc = "tools" \/ (pc = "io" /\ next = "tools")
Ahead ==
    /\ \A j, k \in DOMAIN batch : batch[j] = batch[k] => j = k
    /\ Working => \A k \in DOMAIN batch : k >= at => ~HasToolResult(memory, batch[k])
Questions == Made(ask, made) /\ Made(pending, made) /\ Made(suspended, made) /\ Made(batch, made)

ResultInv ==
    cancels = 0 =>
        /\ OneResult(db) /\ OneResult(memory)
        /\ ResultsMade(db, made) /\ ResultsMade(memory, made)
        /\ Questions /\ Ahead
        /\ pc # "idle" => \A i \in DOMAIN db \cap DOMAIN memory : Alike(db[i], memory[i])

\* What is there stays like it was; of what is new at most one is a result, of a call
\* that has none.
Stays == Len(memory') >= Len(memory) /\ \A i \in 1..Len(memory) : Alike(memory[i], memory'[i])
Silent == Stays /\ \A i \in DOMAIN memory' : memory'[i].role = "tool" => i <= Len(memory)
Answering(c) ==
    /\ Stays /\ ~HasToolResult(memory, c) /\ c[1] <= made
    /\ \E n \in DOMAIN memory' :
         /\ n > Len(memory) /\ memory'[n].calls = <<c>>
         /\ \A i \in DOMAIN memory' : (memory'[i].role = "tool" /\ i > Len(memory)) => i = n

LEMMA MadeGrows ==
    ASSUME NEW calls \in Seq(Call), NEW m \in Nat, NEW n \in Nat, m <= n, Made(calls, m)
    PROVE  Made(calls, n)
<1> SUFFICES ASSUME NEW k \in DOMAIN calls PROVE calls[k][1] <= n
  BY DEF Made
<1>1. calls[k] \in Call
  BY Element
<1>2. calls[k][1] \in Nat /\ calls[k][1] <= m
  BY <1>1, Bounds DEF Call, Made
<1> QED
  BY <1>2

LEMMA ResultsMadeGrow ==
    ASSUME NEW history \in Seq(Message), NEW m \in Nat, NEW n \in Nat, m <= n,
           ResultsMade(history, m)
    PROVE  ResultsMade(history, n)
<1> SUFFICES ASSUME NEW i \in DOMAIN history, history[i].role = "tool"
             PROVE  Made(history[i].calls, n)
  BY DEF ResultsMade
<1>1. history[i] \in Message
  BY Element
<1>2. history[i].calls \in Seq(Call) /\ Made(history[i].calls, m)
  BY <1>1 DEF Message, ResultsMade
<1> QED
  BY <1>2, MadeGrows, Zenon

\* Of the histories: a step of a run that leaves the database alone.
LEMMA HistoriesNext ==
    ASSUME TypeInv, TypeInv', ResultInv, cancels = 0, pc # "idle", db' = db, made' >= made,
           Silent \/ \E c \in Call : Answering(c)
    PROVE  /\ OneResult(db') /\ OneResult(memory')
           /\ ResultsMade(db', made') /\ ResultsMade(memory', made')
           /\ Len(db) <= Len(memory) =>
                \A i \in DOMAIN db' \cap DOMAIN memory' : Alike(db'[i], memory'[i])
<1>1. /\ db \in Seq(Message) /\ memory \in Seq(Message) /\ memory' \in Seq(Message)
      /\ made \in Nat /\ made' \in Nat
      /\ Len(memory) \in Nat /\ Len(db) \in Nat /\ DOMAIN db = 1..Len(db)
      /\ DOMAIN memory = 1..Len(memory) /\ DOMAIN memory' = 1..Len(memory')
  BY Bounds DEF TypeInv, DatabaseType, SessionType, MadeType
<1>2. /\ OneResult(db) /\ OneResult(memory)
      /\ \A i \in DOMAIN db \cap DOMAIN memory : Alike(db[i], memory[i])
  BY DEF ResultInv
<1>r. ResultsMade(db, made') /\ ResultsMade(memory, made')
  <2>1. ResultsMade(db, made) /\ ResultsMade(memory, made)
    BY DEF ResultInv
  <2> QED
    BY <1>1, <2>1, ResultsMadeGrow
<1>3. Stays
  BY DEF Silent, Answering
<1>6. \A i \in 1..Len(memory) : i \in DOMAIN memory /\ i \in DOMAIN memory' /\ Alike(memory[i], memory'[i])
  BY <1>1, <1>3 DEF Stays
<1>7. ASSUME Silent
      PROVE  OneResult(memory') /\ ResultsMade(memory', made')
  <2>1. \A i \in DOMAIN memory' : memory'[i].role = "tool" =>
            /\ i \in DOMAIN memory /\ memory[i].role = "tool" /\ memory[i].calls = memory'[i].calls
    BY <1>1, <1>6, <1>7 DEF Silent, Alike
  <2>2. OneResult(memory')
    BY <1>2, <2>1 DEF OneResult
  <2>3. ResultsMade(memory', made')
    BY <1>r, <2>1 DEF ResultsMade
  <2> QED
    BY <2>2, <2>3
<1>8. ASSUME NEW c \in Call, Answering(c)
      PROVE  OneResult(memory') /\ ResultsMade(memory', made')
  <2>1. PICK n \in DOMAIN memory' :
          /\ n > Len(memory) /\ memory'[n].calls = <<c>>
          /\ \A i \in DOMAIN memory' : (memory'[i].role = "tool" /\ i > Len(memory)) => i = n
    BY <1>8 DEF Answering
  <2>2. \A i \in DOMAIN memory' : (memory'[i].role = "tool" /\ i # n) =>
            /\ i \in DOMAIN memory /\ memory[i].role = "tool" /\ memory[i].calls = memory'[i].calls
    BY <1>1, <1>6, <2>1 DEF Alike
  <2>3. \A i \in DOMAIN memory : memory[i].role = "tool" => memory[i].calls # <<c>>
    <3> SUFFICES ASSUME NEW i \in DOMAIN memory, memory[i].role = "tool", memory[i].calls = <<c>>
                 PROVE  FALSE
      OBVIOUS
    <3>1. 1 \in DOMAIN memory[i].calls /\ memory[i].calls[1] = c
      OBVIOUS
    <3> QED
      BY <1>8, <3>1 DEF Answering, HasToolResult, Holds
  <2>4. OneResult(memory')
    BY <1>2, <2>1, <2>2, <2>3 DEF OneResult
  <2>5. Made(<<c>>, made')
    <3>1. c[1] \in Nat /\ c[1] <= made
      BY <1>8, Bounds DEF Call, Answering
    <3> QED
      BY <1>1, <3>1 DEF Made
  <2>6. ResultsMade(memory', made')
    BY <1>r, <2>1, <2>2, <2>5 DEF ResultsMade
  <2> QED
    BY <2>4, <2>6
<1>9. Len(db) <= Len(memory) => \A i \in DOMAIN db' \cap DOMAIN memory' : Alike(db'[i], memory'[i])
  <2> SUFFICES ASSUME Len(db) <= Len(memory), NEW i \in DOMAIN db PROVE Alike(db[i], memory'[i])
    OBVIOUS
  <2>1. i \in DOMAIN memory /\ Alike(db[i], memory[i]) /\ Alike(memory[i], memory'[i])
    BY <1>1, <1>2, <1>6
  <2> QED
    BY <2>1 DEF Alike
<1> QED
  BY <1>2, <1>r, <1>7, <1>8, <1>9

\* A step that gives no answer, takes up no batch, and records no other question than
\* one there was.
Passive ==
    /\ Silent /\ made' >= made /\ db' = db /\ cancels' = cancels /\ ~Working'
    /\ ask' \in {ask, <<>>, suspended} /\ pending' \in {pending, <<>>, suspended}
    /\ suspended' \in {suspended, <<>>} \/ (suspended' = <<batch[at]>> /\ at <= Len(batch))
    /\ batch' \in {batch, <<>>}

LEMMA NothingMade == Made(<<>>, made) /\ Made(<<>>, made')
BY DEF Made

LEMMA QuestionsNext ==
    ASSUME TypeInv, TypeInv', Questions, made' >= made,
           ask' \in {ask, <<>>, suspended}, pending' \in {pending, <<>>, suspended},
           suspended' \in {suspended, <<>>} \/ (suspended' = <<batch[at]>> /\ at <= Len(batch)),
           batch' \in {batch, <<>>} \/ Made(batch', made')
    PROVE  Questions'
<1>1. /\ ask \in Seq(Call) /\ pending \in Seq(Call) /\ suspended \in Seq(Call)
      /\ batch \in Seq(Call) /\ at \in Nat \ {0} /\ made \in Nat /\ made' \in Nat
  BY Bounds DEF TypeInv, DatabaseType, SessionType, StepType, Question, MadeType
<1>2. /\ Made(ask, made') /\ Made(pending, made') /\ Made(suspended, made') /\ Made(batch, made')
  BY <1>1, MadeGrows DEF Questions
<1>3. Made(ask', made') /\ Made(pending', made')
  BY <1>2, NothingMade
<1>4. Made(batch', made')
  BY <1>2, NothingMade
<1>5. at <= Len(batch) => Made(<<batch[at]>>, made')
  BY <1>1, <1>2 DEF Made
<1>6. Made(suspended', made')
  BY <1>2, <1>5, NothingMade
<1> QED
  BY <1>3, <1>4, <1>6 DEF Questions

\* Where a run is at work the database is not ahead.
LEMMA NotAhead == IInv /\ cancels = 0 /\ pc \notin {"idle", "io"} => Len(db) <= Len(memory)
BY DEF IInv, PositionsInv, Editing

LEMMA PassiveResults ==
    ASSUME IInv, TypeInv', ResultInv, pc \notin {"idle", "io"}, Passive
    PROVE  ResultInv'
<1> SUFFICES ASSUME cancels = 0
             PROVE  /\ OneResult(db') /\ OneResult(memory')
                    /\ ResultsMade(db', made') /\ ResultsMade(memory', made')
                    /\ Questions' /\ Ahead'
                    /\ \A i \in DOMAIN db' \cap DOMAIN memory' : Alike(db'[i], memory'[i])
  BY DEF ResultInv, Passive, OneResult, ResultsMade, Made
<1>1. Len(db) <= Len(memory)
  BY NotAhead
<1>2. /\ OneResult(db') /\ OneResult(memory')
      /\ ResultsMade(db', made') /\ ResultsMade(memory', made')
      /\ \A i \in DOMAIN db' \cap DOMAIN memory' : Alike(db'[i], memory'[i])
  BY <1>1, HistoriesNext DEF IInv, Passive
<1>3. Questions'
  BY QuestionsNext DEF IInv, Passive, ResultInv
<1>4. Ahead'
  BY DEF Passive, ResultInv, Ahead
<1> QED
  BY <1>2, <1>3, <1>4

\* What is appended.
LEMMA GrowStays ==
    ASSUME TypeInv, NEW messages \in Seq(Message), Grow(messages)
    PROVE  /\ Stays /\ made' = made + Len(messages) /\ made' >= made
           /\ Len(memory') = Len(memory) + Len(messages) /\ DOMAIN memory' = 1..Len(memory')
           /\ \A i \in 1..Len(messages) : memory'[Len(memory) + i] = messages[i]
           /\ \A i \in DOMAIN memory' :
                i <= Len(memory) \/ (i - Len(memory) \in 1..Len(messages)
                                     /\ memory'[i] = messages[i - Len(memory)])
<1>1. /\ memory \in Seq(Message) /\ Len(messages) \in Nat /\ Len(memory) \in Nat /\ made \in Nat
      /\ memory' = memory \o messages /\ made' = made + Len(messages)
  BY Bounds DEF TypeInv, SessionType, MadeType, Grow
<1>2. /\ Len(memory') = Len(memory) + Len(messages) /\ DOMAIN memory' = 1..Len(memory')
      /\ \A i \in 1..Len(memory) : memory'[i] = memory[i]
      /\ \A i \in 1..Len(messages) : memory'[Len(memory) + i] = messages[i]
  BY <1>1
<1>3. \A i \in DOMAIN memory' :
        i <= Len(memory) \/ (i - Len(memory) \in 1..Len(messages)
                             /\ Len(memory) + (i - Len(memory)) = i)
  BY <1>1, <1>2
<1> QED
  BY <1>1, <1>2, <1>3 DEF Stays, Alike

LEMMA GrowSilent ==
    ASSUME TypeInv, NEW messages \in Seq(Message), Grow(messages),
           \A i \in 1..Len(messages) : messages[i].role # "tool"
    PROVE  Silent /\ made' >= made
BY GrowStays DEF Silent

LEMMA MadeOne ==
    ASSUME TypeInv, NEW messages \in Seq(Message), Grow(messages)
    PROVE  \A n \in 1..Len(messages) : made + n <= MaxMessages
<1>1. Len(messages) \in Nat /\ made \in Nat /\ made + Len(messages) <= MaxMessages
  BY Bounds DEF TypeInv, MadeType, Grow
<1> QED
  BY <1>1, Bounds

LEMMA OneMessage ==
    ASSUME TypeInv, NEW role \in {"user", "companion", "assistant", "tool"},
           NEW theCalls \in Seq(Call), Grow(<<New(1, role, theCalls)>>)
    PROVE  <<New(1, role, theCalls)>> \in Seq(Message)
<1>1. made + 1 <= MaxMessages /\ 1 \in Nat \ {0}
  BY Bounds DEF Grow, TypeInv, MadeType
<1>2. New(1, role, theCalls) \in Message
  BY <1>1, NewType, Zenon DEF TypeInv
<1> QED
  BY <1>2

LEMMA GrowOneSilent ==
    ASSUME TypeInv, NEW role \in {"user", "companion", "assistant"},
           NEW theCalls \in Seq(Call), Grow(<<New(1, role, theCalls)>>)
    PROVE  Silent /\ made' = made + 1
<1> DEFINE messages == <<New(1, role, theCalls)>>
<1>1. messages \in Seq(Message)
  BY OneMessage
<1>2. Len(messages) = 1 /\ \A i \in 1..Len(messages) : messages[i].role # "tool"
  BY DEF New
<1>3. Grow(messages)
  OBVIOUS
<1> HIDE DEF messages
<1> QED
  BY <1>1, <1>2, <1>3, GrowSilent, GrowStays

LEMMA ArrivalsMessages ==
    ASSUME TypeInv, NEW roles \in Seq(Arrivals),
           Grow([i \in DOMAIN roles |-> New(i, roles[i], <<>>)])
    PROVE  [i \in DOMAIN roles |-> New(i, roles[i], <<>>)] \in Seq(Message)
<1> DEFINE messages == [i \in DOMAIN roles |-> New(i, roles[i], <<>>)]
<1>1. Len(roles) \in Nat /\ DOMAIN roles = 1..Len(roles) /\ Len(messages) = Len(roles)
  OBVIOUS
<1>2. made + Len(roles) <= MaxMessages /\ made \in Nat
  BY <1>1, Bounds DEF Grow, TypeInv, MadeType
<1>3. ASSUME NEW i \in DOMAIN roles
      PROVE  New(i, roles[i], <<>>) \in Message
  <2>1. i \in Nat \ {0} /\ made + i <= MaxMessages
    BY <1>1, <1>2, Bounds
  <2>2. roles[i] \in {"user", "companion"}
    BY <1>1, Element, ArrivalsAssumption
  <2>3. <<>> \in Seq(Call)
    OBVIOUS
  <2> QED
    BY <2>1, <2>2, <2>3, NewType DEF TypeInv
<1> QED
  BY <1>1, <1>3

LEMMA GrowArrivalsSilent ==
    ASSUME TypeInv, NEW roles \in Seq(Arrivals),
           Grow([i \in DOMAIN roles |-> New(i, roles[i], <<>>)])
    PROVE  Silent /\ made' >= made
<1> DEFINE messages == [i \in DOMAIN roles |-> New(i, roles[i], <<>>)]
<1>1. messages \in Seq(Message)
  BY ArrivalsMessages
<1>2. \A i \in 1..Len(messages) : messages[i].role # "tool"
  <2>1. DOMAIN roles = 1..Len(roles) /\ Len(messages) = Len(roles)
    OBVIOUS
  <2>2. \A i \in DOMAIN roles : roles[i] \in {"user", "companion"}
    BY <2>1, Element, ArrivalsAssumption
  <2> QED
    BY <2>1, <2>2 DEF New
<1>3. Grow(messages)
  OBVIOUS
<1> HIDE DEF messages
<1> QED
  BY <1>1, <1>2, <1>3, GrowSilent

\* The answer to a call that has none, behind the call if the history has lost it.
LEMMA GrowAnswer ==
    ASSUME TypeInv, NEW c \in Call, ~HasToolResult(memory, c), c[1] <= made,
           \/ Grow(<<New(1, "tool", <<c>>)>>)
           \/ Grow(<<New(1, "assistant", <<c>>), New(2, "tool", <<c>>)>>)
    PROVE  Answering(c) /\ made' >= made
<1>1. memory \in Seq(Message) /\ Len(memory) \in Nat /\ <<c>> \in Seq(Call)
  BY DEF TypeInv, SessionType
<1>2. CASE Grow(<<New(1, "tool", <<c>>)>>)
  <2> DEFINE messages == <<New(1, "tool", <<c>>)>>
  <2>1. messages \in Seq(Message) /\ Len(messages) = 1 /\ messages[1].calls = <<c>>
    BY <1>1, <1>2, OneMessage DEF New
  <2>2. Grow(messages)
    BY <1>2
  <2> HIDE DEF messages
  <2>3. /\ Stays /\ made' >= made /\ Len(memory') = Len(memory) + 1
        /\ memory'[Len(memory) + 1].calls = <<c>> /\ DOMAIN memory' = 1..Len(memory) + 1
    <3>1. 1 \in 1..Len(messages)
      BY <2>1
    <3> QED
      BY <2>1, <2>2, <3>1, GrowStays
  <2>4. /\ Len(memory) + 1 \in DOMAIN memory'
        /\ \A i \in DOMAIN memory' : i > Len(memory) => i = Len(memory) + 1
    BY <1>1, <2>3
  <2> QED
    BY <1>1, <2>3, <2>4 DEF Answering
<1>3. CASE Grow(<<New(1, "assistant", <<c>>), New(2, "tool", <<c>>)>>)
  <2> DEFINE messages == <<New(1, "assistant", <<c>>), New(2, "tool", <<c>>)>>
  <2>1. Grow(messages) /\ Len(messages) = 2
    BY <1>3
  <2>2. made + 1 <= MaxMessages /\ made + 2 <= MaxMessages
    BY <2>1, Bounds DEF Grow, TypeInv, MadeType
  <2>3. New(1, "assistant", <<c>>) \in Message /\ New(2, "tool", <<c>>) \in Message
    <3>1. 1 \in Nat \ {0} /\ 2 \in Nat \ {0}
      OBVIOUS
    <3> QED
      BY <1>1, <2>2, <3>1, NewType, Zenon DEF TypeInv
  <2>4. /\ messages \in Seq(Message) /\ messages[1].role = "assistant"
        /\ messages[2].calls = <<c>>
    BY <2>3 DEF New
  <2> HIDE DEF messages
  <2>5. /\ Stays /\ made' >= made /\ Len(memory') = Len(memory) + 2
        /\ DOMAIN memory' = 1..Len(memory) + 2
        /\ memory'[Len(memory) + 1].role = "assistant"
        /\ memory'[Len(memory) + 2].calls = <<c>>
    <3>1. 1 \in 1..Len(messages) /\ 2 \in 1..Len(messages)
      BY <2>1
    <3> QED
      BY <2>1, <2>4, <3>1, GrowStays
  <2>6. \A i \in DOMAIN memory' : i > Len(memory) => i = Len(memory) + 1 \/ i = Len(memory) + 2
    BY <1>1, <2>5
  <2> QED
    BY <1>1, <2>5, <2>6 DEF Answering
<1> QED
  BY <1>2, <1>3

LEMMA SameSilent == TypeInv /\ UNCHANGED <<memory, made>> => Silent /\ made' >= made
BY Bounds DEF TypeInv, SessionType, MadeType, Silent, Stays, Alike

LEMMA CutSilent ==
    ASSUME TypeInv, NEW call, memory' = TruncateToolCallsAfter(memory, call)
    PROVE  Silent
<1>1. /\ memory \in Seq(Message) /\ DOMAIN memory = 1..Len(memory) /\ Len(memory) \in Nat
      /\ Len(memory') = Len(memory) /\ DOMAIN memory' = DOMAIN memory
  BY TruncatedType DEF TypeInv, SessionType, TruncateToolCallsAfter
<1>2. ASSUME NEW i \in DOMAIN memory
      PROVE  Alike(memory[i], memory'[i])
  <2>1. memory[i] \in Message
    BY <1>1
  <2>2. CASE i \in CutAt(memory, call)
    <3>1. memory'[i] = [memory[i] EXCEPT !.calls = Upto(memory[i].calls, call)]
      BY <2>1, <2>2 DEF TruncateToolCallsAfter, Message
    <3>2. memory[i].role = "assistant"
      BY <2>2 DEF CutAt, Holds
    <3> QED
      BY <2>1, <3>1, <3>2 DEF Alike, Message
  <2>3. CASE i \notin CutAt(memory, call)
    BY <2>3 DEF Alike, TruncateToolCallsAfter
  <2> QED
    BY <2>2, <2>3
<1> QED
  BY <1>1, <1>2 DEF Silent, Stays

LEMMA ReplySilent == TypeInv /\ Reply => Silent /\ made' >= made
<1> SUFFICES ASSUME TypeInv, Reply PROVE Silent /\ made' >= made
  OBVIOUS
<1>1. memory \in Seq(Message) /\ DOMAIN memory = 1..Len(memory) /\ Len(memory) \in Nat /\ made \in Nat
  BY Bounds DEF TypeInv, SessionType, MadeType
<1>2. CASE EndsWithOpenReply(memory)
  <2>1. /\ memory' = [memory EXCEPT ![Len(memory)].text = @ + 1] /\ made' = made
        /\ Len(memory) \in DOMAIN memory
    BY <1>1, <1>2 DEF Reply, EndsWithOpenReply
  <2>2. memory[Len(memory)] \in Message
    BY <1>1, <2>1
  <2>3. memory' = [memory EXCEPT ![Len(memory)] = [memory[Len(memory)] EXCEPT !.text = @ + 1]]
    BY <2>1, <2>2 DEF Message
  <2>4. Alike(memory[Len(memory)], [memory[Len(memory)] EXCEPT !.text = @ + 1])
    BY <2>2 DEF Alike, Message
  <2>5. DOMAIN memory' = DOMAIN memory /\ Len(memory') = Len(memory)
    BY <1>1, <2>3
  <2>6. \A i \in DOMAIN memory : Alike(memory[i], memory'[i])
    BY <1>1, <2>3, <2>4 DEF Alike
  <2> QED
    BY <1>1, <2>1, <2>5, <2>6 DEF Silent, Stays
<1>3. CASE ~EndsWithOpenReply(memory)
  <2>1. Grow(<<New(1, "assistant", <<>>)>>) /\ <<>> \in Seq(Call)
    BY <1>3 DEF Reply
  <2> QED
    <3>1. Silent /\ made' = made + 1
      BY <2>1, GrowOneSilent, Zenon
    <3> QED
      BY <1>1, <3>1
<1> QED
  BY <1>2, <1>3

LEMMA OneOrNone ==
    ASSUME NEW S, NEW s \in Seq(S), Len(s) <= 1, s # <<>>
    PROVE  Len(s) = 1
<1> DEFINE n == Len(s)
<1>1. n # 0
  OBVIOUS
<1>2. n \in Nat /\ n <= 1
  OBVIOUS
<1> HIDE DEF n
<1>3. n = 1
  BY <1>1, <1>2
<1> QED
  BY <1>3 DEF n

LEMMA ApplyAnswerResults ==
    ASSUME IInv, TypeInv', ResultInv, ApplyAnswer
    PROVE  ResultInv'
<1> SUFFICES ASSUME cancels = 0
             PROVE  /\ OneResult(db') /\ OneResult(memory')
                    /\ ResultsMade(db', made') /\ ResultsMade(memory', made')
                    /\ Questions' /\ Ahead'
                    /\ \A i \in DOMAIN db' \cap DOMAIN memory' : Alike(db'[i], memory'[i])
  BY FailCancels DEF ResultInv, OneResult, ResultsMade, Made, ApplyAnswer
<1> USE DEF IInv
<1>1. /\ pc = "answer" /\ pending # <<>> /\ ~HasToolResult(memory, pending[1])
      /\ db' = db /\ pending' = <<>> /\ ask' \in {ask, <<>>}
      /\ UNCHANGED <<batch, at, suspended>> /\ ~Working'
  BY DEF ApplyAnswer, AnswerPossible, step, Persist, Working
<1>2. pending \in Seq(Call) /\ pending[1] \in Call /\ pending = <<pending[1]>>
      /\ pending[1][1] <= made
  <2>1. pending \in Seq(Call) /\ Len(pending) <= 1 /\ Made(pending, made)
    BY DEF TypeInv, SessionType, Question, ResultInv, Questions
  <2>2. pending # <<>>
    BY <1>1
  <2>3. Len(pending) = 1
    BY <2>1, <2>2, OneOrNone
  <2>4. pending[1] \in Call /\ pending = <<pending[1]>> /\ 1 \in DOMAIN pending
    BY <2>1, <2>3
  <2> QED
    BY <2>1, <2>4 DEF Made
<1>3. \/ Grow(<<New(1, "tool", <<pending[1]>>)>>)
      \/ Grow(<<New(1, "assistant", <<pending[1]>>), New(2, "tool", <<pending[1]>>)>>)
  BY <1>2, Zenon DEF ApplyAnswer, AnswerMessages
<1>4. Answering(pending[1]) /\ made' >= made
  BY <1>1, <1>2, <1>3, GrowAnswer, Zenon
<1>5. Len(db) <= Len(memory)
  BY <1>1, NotAhead
<1>6. Questions'
  BY <1>1, <1>4, QuestionsNext DEF ResultInv
<1>7. Ahead'
  BY <1>1 DEF ResultInv, Ahead
<1> QED
  BY <1>1, <1>2, <1>4, <1>5, <1>6, <1>7, HistoriesNext

LEMMA AskForToolsResults ==
    ASSUME IInv, TypeInv', ResultInv, AskForTools
    PROVE  ResultInv'
<1> SUFFICES ASSUME cancels = 0
             PROVE  /\ OneResult(db') /\ OneResult(memory')
                    /\ ResultsMade(db', made') /\ ResultsMade(memory', made')
                    /\ Questions' /\ Ahead'
                    /\ \A i \in DOMAIN db' \cap DOMAIN memory' : Alike(db'[i], memory'[i])
  BY FailCancels DEF ResultInv, OneResult, ResultsMade, Made, AskForTools
<1> USE DEF IInv
<1>1. /\ pc = "plan" /\ db' = db /\ UNCHANGED <<ask, pending, suspended>>
      /\ Grow(<<New(1, "assistant", batch')>>)
  BY DEF AskForTools, database
<1>2. PICK size \in Nat : batch' = [k \in 1..size |-> <<made + 1, k>>]
  BY BatchSizesAssumption DEF AskForTools, TakeUp
<1>3. batch' \in Seq(Call)
  BY DEF TypeInv, StepType
<1>4. Silent /\ made' = made + 1 /\ made \in Nat
  <2>1. made \in Nat
    BY Bounds DEF TypeInv, MadeType
  <2> QED
    BY <1>1, <1>3, <2>1, GrowOneSilent, Zenon
<1>5. \A k \in DOMAIN batch' : batch'[k][1] = made + 1 /\ batch'[k][2] = k
  BY <1>2
<1>6. Questions'
  <2>1. Made(batch', made')
    BY <1>4, <1>5 DEF Made
  <2>2. made' >= made
    BY <1>4
  <2> QED
    BY <1>1, <2>1, <2>2, QuestionsNext DEF ResultInv
<1>7. Ahead'
  <2>1. \A j, k \in DOMAIN batch' : batch'[j] = batch'[k] => j = k
    BY <1>5
  <2>2. ASSUME NEW k \in DOMAIN batch', HasToolResult(memory', batch'[k])
        PROVE  FALSE
    <3>1. PICK i \in DOMAIN memory' :
            memory'[i].role = "tool" /\ \E l \in DOMAIN memory'[i].calls : memory'[i].calls[l] = batch'[k]
      BY <2>2 DEF HasToolResult, Holds
    <3>2. i \in DOMAIN memory /\ Alike(memory[i], memory'[i])
      BY <1>4, <3>1 DEF Silent, Stays, TypeInv, SessionType
    <3>3. Made(memory[i].calls, made) /\ memory[i].calls = memory'[i].calls
      BY <3>1, <3>2 DEF ResultInv, ResultsMade, Alike
    <3> QED
      BY <1>4, <1>5, <3>1, <3>3 DEF Made
  <2> QED
    BY <2>1, <2>2 DEF Ahead
<1>8. Len(db) <= Len(memory)
  BY <1>1, NotAhead
<1>9. made' >= made
  BY <1>4
<1> QED
  BY <1>1, <1>4, <1>6, <1>7, <1>8, <1>9, HistoriesNext

LEMMA ToolResultResults ==
    ASSUME IInv, TypeInv', ResultInv, ToolResult
    PROVE  ResultInv'
<1> SUFFICES ASSUME cancels = 0
             PROVE  /\ OneResult(db') /\ OneResult(memory')
                    /\ ResultsMade(db', made') /\ ResultsMade(memory', made')
                    /\ Questions' /\ Ahead'
                    /\ \A i \in DOMAIN db' \cap DOMAIN memory' : Alike(db'[i], memory'[i])
  BY FailCancels DEF ResultInv, OneResult, ResultsMade, Made, ToolResult
<1> USE DEF IInv
<1> DEFINE c == batch[at]
<1>1. /\ pc = "tools" /\ db' = db /\ UNCHANGED <<ask, pending, suspended, batch>>
      /\ at' = at + 1 /\ Grow(<<New(1, "tool", <<c>>)>>)
  BY DEF ToolResult, database
<1>2. batch \in Seq(Call) /\ at \in DOMAIN batch /\ at \in Nat /\ c \in Call
  BY Element DEF ToolResult, TypeInv, StepType
<1>3. c[1] <= made /\ ~HasToolResult(memory, c)
  BY <1>1, <1>2 DEF ResultInv, Questions, Made, Ahead, Working
<1>4. Answering(c) /\ made' >= made
  BY <1>1, <1>2, <1>3, GrowAnswer, Zenon
<1>5. Len(db) <= Len(memory)
  BY <1>1, NotAhead
<1>6. Questions'
  BY <1>1, <1>4, QuestionsNext DEF ResultInv
<1>7. Ahead'
  <2>1. \A j, k \in DOMAIN batch' : batch'[j] = batch'[k] => j = k
    BY <1>1 DEF ResultInv, Ahead
  <2>2. PICK n \in DOMAIN memory' :
          /\ n > Len(memory) /\ memory'[n].calls = <<c>>
          /\ \A i \in DOMAIN memory' : (memory'[i].role = "tool" /\ i > Len(memory)) => i = n
    BY <1>4 DEF Answering
  <2>3. ASSUME NEW k \in DOMAIN batch, k >= at + 1, HasToolResult(memory', batch[k])
        PROVE  FALSE
    <3>1. PICK i \in DOMAIN memory' :
            memory'[i].role = "tool" /\ \E l \in DOMAIN memory'[i].calls : memory'[i].calls[l] = batch[k]
      BY <2>3 DEF HasToolResult, Holds
    <3>2. CASE i > Len(memory)
      <4>1. batch[k] = c
        BY <2>2, <3>1, <3>2
      <4> QED
        BY <1>2, <2>1, <2>3, <1>1, <4>1
    <3>3. CASE i <= Len(memory)
      <4>1. i \in DOMAIN memory /\ Alike(memory[i], memory'[i])
        BY <1>4, <3>3 DEF Answering, Stays, TypeInv, SessionType
      <4>2. HasToolResult(memory, batch[k])
        BY <3>1, <4>1 DEF HasToolResult, Holds, Alike
      <4> QED
        BY <1>1, <1>2, <2>3, <4>2 DEF ResultInv, Ahead, Working
    <3>4. i \in Nat /\ Len(memory) \in Nat
      BY DEF TypeInv, SessionType
    <3> QED
      BY <3>2, <3>3, <3>4
  <2> QED
    BY <1>1, <2>1, <2>3 DEF Ahead
<1> QED
  BY <1>1, <1>2, <1>4, <1>5, <1>6, <1>7, HistoriesNext

LEMMA RunStepPassive ==
    ASSUME TypeInv, RunStep, ~ApplyAnswer, ~AskForTools, ~ToolResult
    PROVE  Passive
<1>1. CASE RefuseAnswer \/ Conclude \/ Interrupted \/ NextStep
  <2>1. /\ UNCHANGED <<db, ask, memory, pending, made, suspended, batch>> /\ cancels' = cancels /\ ~Working'
    BY <1>1 DEF RefuseAnswer, Conclude, Interrupted, NextStep, database, session, step, counters,
       Persist, Goto, Working
  <2> QED
    BY <2>1, SameSilent DEF Passive
<1>2. CASE MarkQuestion
  <2>1. /\ UNCHANGED <<db, memory, made, suspended, batch>> /\ cancels' = cancels /\ ~Working'
        /\ ask' \in {ask, suspended} /\ pending' = suspended
    BY <1>2, FailCancels DEF MarkQuestion, MarkSuspended, step, Persist, Working
  <2> QED
    BY <2>1, SameSilent DEF Passive
<1>3. CASE Finish
  <2>1. /\ UNCHANGED <<db, memory, made, suspended, batch>> /\ cancels' = cancels
        /\ ask' \in {ask, suspended, <<>>} /\ pending' \in {pending, suspended, <<>>}
    BY <1>3, FailCancels
    DEF Finish, MarkSuspended, ClearQuestion, LeaveQuestion, database, session, step
  <2>2. ~Working'
    BY <1>3 DEF Finish, Goto, Working
  <2> QED
    BY <2>1, <2>2, SameSilent DEF Passive
<1>4. CASE Reply
  <2>1. /\ UNCHANGED <<db, ask, pending, suspended>> /\ cancels' = cancels /\ ~Working'
        /\ batch' = <<>>
    BY <1>4 DEF Reply, TakeUp, database, counters, Persist, Working
  <2> QED
    BY <1>4, <2>1, ReplySilent DEF Passive
<1>5. CASE Suspend
  <2>1. /\ UNCHANGED <<db, ask, pending, batch, made>> /\ cancels' = cancels
        /\ suspended' = <<batch[at]>> /\ at <= Len(batch)
    BY <1>5 DEF Suspend, database, counters
  <2>2. memory' = TruncateToolCallsAfter(memory, batch[at]) \/ UNCHANGED memory
    BY <1>5 DEF Suspend, SuspendForCut
  <2>3. Silent /\ made' >= made
    <3>1. made' >= made
      BY <2>1, Bounds DEF TypeInv, MadeType
    <3> QED
      BY <2>1, <2>2, <3>1, CutSilent, SameSilent
  <2>4. ~Working'
    BY <1>5 DEF Suspend, SuspendForCut, Persist, Goto, Working
  <2> QED
    BY <2>1, <2>3, <2>4 DEF Passive
<1>6. CASE Interval
  <2>1. /\ UNCHANGED <<db, ask, pending, suspended, batch>> /\ cancels' = cancels /\ ~Working'
    BY <1>6 DEF Interval, database, counters, step, Persist, Working
  <2>2. inbox.step \in Seq(Arrivals)
    BY DEF TypeInv, InboxType
  <2> QED
    BY <1>6, <2>1, <2>2, GrowArrivalsSilent DEF Interval, Passive
<1>7. CASE GoOn
  <2>1. /\ UNCHANGED <<db, ask, pending, suspended, batch>> /\ cancels' = cancels /\ ~Working'
    BY <1>7 DEF GoOn, database, counters, step, Persist, Working
  <2>2. Arrived \in Seq(Arrivals)
    <3>1. inbox.step \in Seq(Arrivals) /\ inbox.turn \in Seq(Arrivals)
      BY DEF TypeInv, InboxType
    <3> QED
      BY <3>1 DEF Arrived
  <2>3. Grow([i \in DOMAIN Arrived |-> New(i, Arrived[i], <<>>)])
    BY <1>7 DEF GoOn
  <2>4. Silent /\ made' >= made
    BY <2>2, <2>3, GrowArrivalsSilent, Zenon
  <2> QED
    BY <2>1, <2>4 DEF Passive
<1> QED
  BY <1>1, <1>2, <1>3, <1>4, <1>5, <1>6, <1>7 DEF RunStep

LEMMA RunStepResults == IInv /\ TypeInv' /\ ResultInv /\ RunStep => ResultInv'
<1>1. RunStep => pc \notin {"idle", "io"}
  BY RunStepAwaits DEF Awaits
<1> QED
  BY <1>1, ApplyAnswerResults, AskForToolsResults, ToolResultResults, RunStepPassive,
     PassiveResults DEF IInv

\* What the product does to the history in memory leaves its results as they were, or
\* drops them.
LEMMA PrefixOneResult ==
    ASSUME NEW history, NEW other, NEW n,
           DOMAIN other \subseteq DOMAIN history,
           \A i \in DOMAIN other : other[i] = history[i],
           OneResult(history), ResultsMade(history, n)
    PROVE  OneResult(other) /\ ResultsMade(other, n)
<1>1. OneResult(other)
  BY DEF OneResult
<1>2. ResultsMade(other, n)
  BY DEF ResultsMade
<1> QED
  BY <1>1, <1>2

LEMMA ProductResults == IInv /\ TypeInv' /\ ResultInv /\ Product => ResultInv'
<1> SUFFICES ASSUME IInv, TypeInv', ResultInv, Product PROVE ResultInv'
  OBVIOUS
<1> USE DEF IInv
<1>1. CASE Load
  <2>1. /\ memory' = db /\ pending' = ask /\ pc' = "loaded"
        /\ UNCHANGED <<db, ask, batch, at, suspended, made, cancels>>
    BY <1>1 DEF Load, Loaded, Goto, database, step, counters
  <2>2. Questions => Questions'
    BY <2>1 DEF Questions
  <2>3. Ahead => Ahead'
    BY <2>1 DEF Ahead, Working
  <2> QED
    BY <2>1, <2>2, <2>3 DEF ResultInv, Alike
<1>2. CASE Edit
  <2>1. PICK i \in DOMAIN memory :
          LET dropped == {j \in i + 1..Len(memory) :
                             \E k \in i + 1..j : memory[k].role # "companion"}
              kept == SubSeq(memory, 1, Len(memory) - Cardinality(dropped))
          IN  memory' = kept /\ Persist(kept, "loaded")
    BY <1>2 DEF Edit
  <2> DEFINE dropped == {j \in i + 1..Len(memory) :
                            \E k \in i + 1..j : memory[k].role # "companion"}
  <2>2. memory \in Seq(Message) /\ Len(memory) \in Nat
    BY DEF TypeInv, SessionType
  <2>3. Cardinality(dropped) \in Nat
    <3>1. dropped \subseteq 1..Len(memory)
      BY <2>2
    <3>2. IsFiniteSet(1..Len(memory))
      BY <2>2, FS_Interval
    <3> HIDE DEF dropped
    <3>3. IsFiniteSet(dropped)
      BY <3>1, <3>2, FS_Subset
    <3> QED
      BY <3>3, FS_CardinalityType
  <2>4. memory' = SubSeq(memory, 1, Len(memory) - Cardinality(dropped))
        /\ Persist(memory', "loaded")
    BY <2>1
  <2> HIDE DEF dropped
  <2>5. /\ pc = "loaded" /\ pc' = "io" /\ next' = "loaded"
        /\ UNCHANGED <<db, ask, pending, batch, at, suspended, made, cancels>>
    BY <1>2, <2>4 DEF Edit, Persist, database, step, counters
  <2>6. DOMAIN memory' \subseteq DOMAIN memory /\ \A k \in DOMAIN memory' : memory'[k] = memory[k]
    BY <2>2, <2>3, <2>4
  <2>7. Questions => Questions'
    BY <2>5 DEF Questions
  <2>8. Ahead => Ahead'
    BY <2>5 DEF Ahead, Working
  <2>9. OneResult(memory) /\ ResultsMade(memory, made)
          => OneResult(memory') /\ ResultsMade(memory', made)
    BY <2>6, PrefixOneResult
  <2> QED
    BY <2>5, <2>6, <2>7, <2>8, <2>9 DEF ResultInv
<1>3. CASE StartWithText \/ StartFromState \/ StartWithAnswer
  <2>1. /\ pc = "loaded" /\ UNCHANGED <<db, ask, pending>> /\ cancels' = cancels
        /\ suspended' = <<>> /\ batch' = <<>> /\ pc' \in {"plan", "answer"}
    BY <1>3 DEF StartWithText, StartFromState, StartOver, StartWithAnswer, Begin, TakeUp, Goto, database
  <2>2. Silent /\ made' >= made
    <3>1. CASE StartWithText
      <4>1. Grow(<<New(1, "user", <<>>)>>) /\ <<>> \in Seq(Call)
        BY <3>1 DEF StartWithText
      <4>2. Silent /\ made' = made + 1
        BY <4>1, GrowOneSilent, Zenon
      <4>3. made \in Nat
        BY Bounds DEF TypeInv, MadeType
      <4> QED
        BY <4>2, <4>3
    <3>2. CASE StartFromState \/ StartWithAnswer
      BY <3>2, SameSilent DEF StartFromState, StartWithAnswer
    <3> QED
      BY <1>3, <3>1, <3>2
  <2>3. ~Working'
    BY <2>1 DEF Working
  <2> QED
    BY <2>1, <2>2, <2>3, PassiveResults DEF Passive
<1>4. CASE Deliver
  BY <1>4 DEF Deliver, database, session, step, io, ResultInv, Questions, Ahead, Working
<1> QED
  BY <1>1, <1>2, <1>3, <1>4 DEF Product

\* What a write leaves in the database is a message it had, or one of the run's, and
\* no more messages than the run has.
LEMMA WrittenAlike ==
    ASSUME IInv, StoreWrite, cancels = 0
    PROVE  /\ DOMAIN db' \subseteq DOMAIN memory
           /\ \A i \in DOMAIN db' : db'[i] = memory[i] \/ (i \in DOMAIN db /\ db'[i] = db[i])
<1> USE DEF IInv
<1>1. /\ db \in Seq(Message) /\ memory \in Seq(Message) /\ Len(db) \in Nat
      /\ DOMAIN memory = 1..Len(memory) /\ DOMAIN db = 1..Len(db) /\ Len(memory) \in Nat
  BY DEF TypeInv, DatabaseType, SessionType
<1>2. pc = "io" /\ op \in Operation /\ Apt(op) /\ op.kind \in {"write", "replace"} /\ Write(op)
  BY DEF StoreWrite, TypeInv, IoType, NoOp
<1>3. op.history = memory
  BY <1>2 DEF PositionsInv
<1>4. ASSUME NEW n \in Nat, db' = Replaced(memory, n)
      PROVE  \A i \in DOMAIN db' : db'[i] = memory[i] \/ (i \in DOMAIN db /\ db'[i] = db[i])
  BY <1>1, <1>4 DEF Replaced
<1>5. \A i \in DOMAIN db' : db'[i] = memory[i] \/ (i \in DOMAIN db /\ db'[i] = db[i])
  <2>1. CASE op.kind = "replace"
    BY <1>2, <1>3, <1>4, <2>1 DEF Write, Operation
  <2>2. CASE op.kind = "write"
    <3>1. db' = Synced(memory, Len(db))
      BY <1>2, <1>3, <2>2 DEF Write, PositionsInv
    <3>2. CASE Len(memory) > Len(db)
      <4> DEFINE tail == SubSeq(memory, Len(db) + 1, Len(memory))
      <4>1. /\ Len(tail) = Len(memory) - Len(db) /\ tail \in Seq(Message)
            /\ \A j \in 1..Len(memory) - Len(db) : tail[j] = memory[Len(db) + j]
        <5>1. Len(db) <= Len(memory)
          BY <1>1, <3>2
        <5> QED
          BY <1>1, <5>1, TailOf, Zenon
      <4>2. db' = db \o tail
        BY <1>1, <3>1, <3>2 DEF Synced
      <4> HIDE DEF tail
      <4>3. ASSUME NEW i \in DOMAIN db', i > Len(db)
            PROVE  db'[i] = memory[i]
        <5>1. /\ i - Len(db) \in 1..Len(memory) - Len(db) /\ Len(db) + (i - Len(db)) = i
              /\ db'[i] = tail[i - Len(db)]
          BY <1>1, <4>1, <4>2, <4>3
        <5> QED
          BY <4>1, <5>1
      <4>4. ASSUME NEW i \in DOMAIN db', i <= Len(db)
            PROVE  i \in DOMAIN db /\ db'[i] = db[i]
        BY <1>1, <4>1, <4>2, <4>4
      <4>5. \A i \in DOMAIN db' : i <= Len(db) \/ i > Len(db)
        BY <1>1, <4>1, <4>2
      <4> QED
        BY <4>3, <4>4, <4>5
    <3>3. CASE Len(memory) < Len(db)
      <4>1. db' = SubSeq(db, 1, Len(memory))
        BY <1>1, <3>1, <3>3 DEF Synced
      <4> QED
        BY <1>1, <3>3, <4>1
    <3>4. CASE Len(memory) = Len(db)
      BY <1>1, <1>4, <3>1, <3>4 DEF Synced
    <3> QED
      BY <1>1, <3>2, <3>3, <3>4, Trichotomy
  <2> QED
    BY <1>2, <2>1, <2>2
<1>6. DOMAIN db' \subseteq DOMAIN memory
  <2>1. Len(db') <= Len(memory)
    BY WrittenPositions
  <2>2. db' \in Seq(Message)
    BY StoreType DEF Store, TypeInv, DatabaseType
  <2> QED
    BY <1>1, <2>1, <2>2
<1> QED
  BY <1>5, <1>6

LEMMA StoreResults == IInv /\ TypeInv' /\ ResultInv /\ Store => ResultInv'
<1> SUFFICES ASSUME IInv, TypeInv', ResultInv, Store PROVE ResultInv'
  OBVIOUS
<1> USE DEF IInv
<1>1. op # NoOp <=> pc = "io"
  BY DEF TypeInv, IoType
<1>2. CASE StoreCount
  BY <1>2 DEF StoreCount, database, session, step, counters, ResultInv, Questions, Ahead, Working
<1>3. CASE StoreWrite
  <2>1. /\ pc = "io" /\ pc' = next /\ next' = "idle"
        /\ UNCHANGED <<ask, memory, pending, batch, at, suspended, made, cancels>>
    BY <1>1, <1>3 DEF StoreWrite, Return, session, step, counters, NoOp
  <2> SUFFICES ASSUME cancels = 0
               PROVE  /\ OneResult(db') /\ ResultsMade(db', made) /\ Ahead'
                      /\ \A i \in DOMAIN db' \cap DOMAIN memory : Alike(db'[i], memory[i])
    BY <2>1 DEF ResultInv, Questions
  <2>2. /\ OneResult(memory) /\ ResultsMade(memory, made) /\ Ahead
        /\ \A i \in DOMAIN db \cap DOMAIN memory : Alike(db[i], memory[i])
    BY <2>1 DEF ResultInv
  <2>3. /\ DOMAIN db' \subseteq DOMAIN memory
        /\ \A i \in DOMAIN db' : db'[i] = memory[i] \/ (i \in DOMAIN db /\ db'[i] = db[i])
    BY <1>3, WrittenAlike
  <2>4. \A i \in DOMAIN db' : i \in DOMAIN memory /\ Alike(db'[i], memory[i])
    BY <2>2, <2>3 DEF Alike
  <2>5. OneResult(db')
    BY <2>2, <2>4 DEF OneResult, Alike
  <2>6. ResultsMade(db', made)
    BY <2>2, <2>4 DEF ResultsMade, Alike
  <2>7. Ahead'
    BY <2>1, <2>2 DEF Ahead, Working
  <2> QED
    BY <2>4, <2>5, <2>6, <2>7
<1>4. CASE StoreFails
  <2>1. /\ pc = "io" /\ pc' \in {next, "idle"} /\ next' = "idle" /\ cancels' = cancels
        /\ UNCHANGED <<db, ask, memory, pending, batch, at, suspended, made>>
    BY <1>1, <1>4 DEF StoreFails, Return, Fail, database, session, step
  <2>2. Questions => Questions'
    BY <2>1 DEF Questions
  <2>3. Ahead => Ahead'
    BY <2>1 DEF Ahead, Working
  <2> QED
    BY <2>1, <2>2, <2>3 DEF ResultInv
<1>5. CASE CancelWhileStoring
  <2>1. cancels' # 0
    BY <1>5 DEF CancelWhileStoring, TypeInv, CounterType
  <2> QED
    BY <2>1 DEF ResultInv
<1>6. CASE Adrift
  <2>1. adrift # <<>> /\ cancels' = cancels
    BY <1>6 DEF Adrift, counters
  <2> QED
    BY <2>1 DEF PositionsInv, ResultInv
<1> QED
  BY <1>2, <1>3, <1>4, <1>5, <1>6 DEF Store

LEMMA CrashResults == ResultInv /\ Crash => ResultInv'
BY DEF Crash, database, ResultInv, OneResult, ResultsMade, Questions, Made, Ahead, Working

LEMMA ResultInvariance == Spec => []ResultInv
<1>1. Init => ResultInv
  BY DEF Init, ResultInv, OneResult, ResultsMade, Questions, Made, Ahead, Working
<1>2. IInv /\ IInv' /\ ResultInv /\ [Next]_vars => ResultInv'
  <2> SUFFICES ASSUME IInv, TypeInv', ResultInv, [Next]_vars PROVE ResultInv'
    BY DEF IInv
  <2>1. CASE UNCHANGED vars
    BY <2>1 DEF vars, database, session, step, io, counters, ResultInv, Questions, Ahead, Working
  <2> QED
    BY <2>1, ProductResults, RunStepResults, StoreResults, CrashResults DEF Next
<1> QED
  BY <1>1, <1>2, Invariance, PTL DEF Spec

\* With any number of answers, failures and deaths, but no write whose caller was
\* cancelled, no call gets a second result in the history.
THEOREM NoSecondResult == Spec => []OneResultPerCall
<1>1. ResultInv => OneResultPerCall
  BY DEF ResultInv, OneResult, OneResultPerCall
<1> QED
  BY <1>1, ResultInvariance, PTL
===============================================================================
