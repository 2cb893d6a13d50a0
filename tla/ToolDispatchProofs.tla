-------------------------- MODULE ToolDispatchProofs --------------------------
(***************************************************************************)
(* What holds of ToolDispatch for any batches and any number of deaths and *)
(* failures; for ExecutedOnce and EvidenceIsFirst but for those of the two *)
(* records a resume rests on.                                              *)
(***************************************************************************)
EXTENDS ToolDispatch, TLAPS

\* The records a resume rests on: the history and the router's task id.
ReliableRecords == "persist" \notin Failing /\ "note" \notin Failing

Asked(batch) == batch = <<>> \/ \E b \in 1..asked : batch = Batches[b]
Fresh(c) == issued[c] = 0
OnRecord(c) == Fresh(c) \/ taskId[c] = issued[c]

\* The batches of the histories, and the calls with a task, were asked for.
HistoryAsked(history) ==
    \A i \in DOMAIN history : history[i].role = "assistant" => Asked(history[i].calls)
AskedInv ==
    /\ HistoryAsked(db) /\ HistoryAsked(memory) /\ Asked(calls)
    /\ \A c \in Calls :
         Fresh(c) \/ \E b \in 1..asked : \E k \in DOMAIN Batches[b] : Batches[b][k] = c

\* The tasks of a batch that a run started again may find are on record.
TailOnRecord(history) ==
    (history # <<>> /\ history[Len(history)].role = "assistant") =>
        \A k \in DOMAIN history[Len(history)].calls :
            OnRecord(history[Len(history)].calls[k])
TailInv == TailOnRecord(db) /\ TailOnRecord(memory)

\* The calls of the batch from the n-th on have no task, or one to resume.
Ahead(n) ==
    \A k \in n..Len(calls) :
        IF resuming THEN OnRecord(calls[k]) ELSE Fresh(calls[k])
AnsweredTail == calls # <<>> => memory # <<>> /\ memory[Len(memory)].role = "tool"

StepInv ==
    /\ pc = "plan" => ~resuming
    /\ pc = "none" => ~resuming \/ draining \/ status = "ended"
    /\ pc \in {"before", "record"} => ~resuming /\ Ahead(1)
    /\ pc = "call" => Ahead(index)
    /\ pc \in {"send", "wait"} => Ahead(index + 1)
    /\ pc \in {"end", "settle"} => AnsweredTail
    /\ pc = "settle" => db = memory

\* A call gets at most one task, which is sent once and run once.
TaskInv ==
    /\ \A c \in Calls : issued[c] <= 1 /\ executions[c] <= issued[c]
    /\ \A t \in sent : t[2] = 1 /\ issued[t[1]] = 1 /\ executions[t[1]] = 0
    /\ pc = "send" => /\ task[2] = 1 /\ task \notin sent
                      /\ issued[task[1]] = 1 /\ executions[task[1]] = 0

-------------------------------------------------------------------------------
(***************************************************************************)
(* Types                                                                   *)
(***************************************************************************)
\* A call is at hand while the batch is handled, and it is the task's.
IndexInv ==
    /\ pc \in {"before", "record", "call", "send", "wait"} => index <= Len(calls)
    /\ pc \in {"send", "wait"} => task \in Task /\ task[1] = calls[index]
TypeInv == TypeOK /\ IndexInv

LEMMA BatchType ==
    ASSUME NEW b \in DOMAIN Batches
    PROVE  Batches[b] \in Seq(Calls) /\ Batches[b] # <<>> /\ Len(Batches[b]) >= 1
<1>1. Batches \in Seq(Seq(Calls)) /\ Batches[b] # <<>>
  BY BatchesAssumption
<1>2. Batches[b] \in Seq(Calls)
  BY <1>1
<1> QED
  BY <1>1, <1>2

LEMMA CallsType ==
    ASSUME TypeOK
    PROVE  /\ calls \in Seq(Calls) /\ Len(calls) \in Nat /\ index \in Nat \ {0}
           /\ index <= Len(calls) => Current \in Calls
<1>1. calls \in {<<>>} \cup {Batches[b] : b \in DOMAIN Batches}
  BY DEF TypeOK
<1>2. CASE calls = <<>>
  BY <1>2 DEF TypeOK, Current
<1>3. CASE calls # <<>>
  <2>1. calls \in Seq(Calls)
    BY <1>1, <1>3, BatchType
  <2> QED
    BY <2>1 DEF TypeOK, Current
<1> QED
  BY <1>2, <1>3

\* While a call is at hand, the index is inside the batch.
LEMMA AtCall ==
    ASSUME TypeInv, pc \in {"call", "send", "wait"}
    PROVE  /\ calls \in Seq(Calls) /\ Len(calls) \in Nat /\ index \in DOMAIN calls
           /\ index \in Nat \ {0} /\ index <= Len(calls) /\ Current \in Calls
<1>1. TypeOK /\ index <= Len(calls)
  BY DEF TypeInv, IndexInv
<1>2. /\ calls \in Seq(Calls) /\ Len(calls) \in Nat /\ index \in Nat \ {0}
      /\ Current \in Calls
  BY <1>1, CallsType
<1>3. index \in DOMAIN calls
  BY <1>1, <1>2
<1> QED
  BY <1>1, <1>2, <1>3

LEMMA HistoryType ==
    ASSUME TypeInv
    PROVE  memory \in Seq(Message) /\ db \in Seq(Message)
  BY DEF TypeInv, TypeOK

LEMMA MessageType ==
    /\ \A c \in Calls, kind \in {"outcome", "error"} :
         Answer(c, kind) \in Message /\ Answer(c, kind).role = "tool"
    /\ \A batch \in {<<>>} \cup {Batches[b] : b \in DOMAIN Batches} :
         /\ Ask(batch) \in Message
         /\ Ask(batch).role = "assistant" /\ Ask(batch).calls = batch
    /\ \A m \in Message :
         m.role = "assistant" => m.calls \in {<<>>} \cup {Batches[b] : b \in DOMAIN Batches}
<1>1. \A c \in Calls, kind \in {"outcome", "error"} :
        Answer(c, kind) \in Message /\ Answer(c, kind).role = "tool"
  BY DEF Message, Answer
<1>2. \A batch \in {<<>>} \cup {Batches[b] : b \in DOMAIN Batches} :
        /\ Ask(batch) \in Message
        /\ Ask(batch).role = "assistant" /\ Ask(batch).calls = batch
  BY DEF Message, Ask, Reply
<1>3. ASSUME NEW m \in Message, m.role = "assistant"
      PROVE  m.calls \in {<<>>} \cup {Batches[b] : b \in DOMAIN Batches}
  <2>1. CASE m = Reply
    BY <2>1 DEF Reply, Ask
  <2>2. CASE \E b \in DOMAIN Batches : m = Ask(Batches[b])
    BY <2>2 DEF Ask
  <2>3. CASE \E c \in Calls, kind \in {"outcome", "error"} : m = Answer(c, kind)
    BY <1>3, <2>3 DEF Answer
  <2> QED
    BY <2>1, <2>2, <2>3 DEF Message
<1> QED
  BY <1>1, <1>2, <1>3

LEMMA TailType ==
    ASSUME TypeOK
    PROVE  TailBatch \in {<<>>} \cup {Batches[b] : b \in DOMAIN Batches}
<1>1. CASE memory = <<>>
  BY <1>1 DEF TailBatch
<1>2. CASE memory # <<>>
  <2>1. memory[Len(memory)] \in Message
    BY <1>2 DEF TypeOK
  <2> QED
    BY <1>2, <2>1, MessageType DEF TailBatch
<1> QED
  BY <1>1, <1>2

LEMMA InitType == Init => TypeInv
<1> SUFFICES ASSUME Init PROVE TypeInv
  OBVIOUS
<1> USE DEF Init
<1>1. db \in Seq(Message) /\ memory \in Seq(Message)
  OBVIOUS
<1>2. /\ calls \in {<<>>} \cup {Batches[b] : b \in DOMAIN Batches}
      /\ index \in 1..Len(calls) + 1
      /\ asked \in 0..Len(Batches)
  BY BatchesAssumption
<1>3. recorded \subseteq Calls /\ taskId \in [Calls -> Nat]
      /\ issued \in [Calls -> Nat] /\ executions \in [Calls -> Nat]
  OBVIOUS
<1>4. /\ pc \in Labels /\ status \in {"running", "interrupted", "ended"}
      /\ up \in BOOLEAN /\ first \in BOOLEAN /\ resuming \in BOOLEAN
      /\ stop \in BOOLEAN /\ draining \in BOOLEAN
  BY DEF Labels
<1>5. crashes \in 0..MaxCrashes /\ failures \in 0..MaxFailures
  BY BoundsAssumption
<1>6. TypeOK
  BY <1>1, <1>2, <1>3, <1>4, <1>5 DEF TypeOK
<1> QED
  BY <1>6 DEF TypeInv, IndexInv

LEMMA FailType ==
    ASSUME TypeOK, NEW operation, Fail(operation)
    PROVE  /\ failures' \in 0..MaxFailures
           /\ UNCHANGED <<asked, issued, crashes>>
  BY BoundsAssumption DEF Fail, TypeOK

LEMMA PersistType ==
    ASSUME TypeOK, Persist
    PROVE  /\ db' \in Seq(Message) /\ UNCHANGED <<recorded, taskId, status>>
           /\ failures' \in 0..MaxFailures /\ UNCHANGED <<asked, issued, crashes>>
  BY FailType DEF Persist, TypeOK, world

LEMMA LandType ==
    ASSUME TypeInv, pc \in {"call", "send", "wait"},
           NEW kind \in {"outcome", "error"}, Land(kind)
    PROVE  /\ memory' \in Seq(Message) /\ index' \in 1..Len(calls') + 1
           /\ pc' \in Labels /\ IndexInv' /\ task' = <<>>
           /\ UNCHANGED <<calls, first, resuming, stop, draining, up>>
<1>1. index <= Len(calls) /\ calls' = calls /\ index' = index + 1
  BY DEF TypeInv, IndexInv, Land
<1>2. Answer(Current, kind) \in Message
  BY <1>1, CallsType, MessageType DEF TypeInv
<1>3. memory' \in Seq(Message)
  BY <1>2 DEF Land, TypeInv, TypeOK
<1>4. index' \in 1..Len(calls') + 1 /\ (pc' = "call" => index' <= Len(calls'))
  BY <1>1, CallsType DEF TypeInv, Land
<1> QED
  BY <1>3, <1>4 DEF Land, IndexInv, Labels

LEMMA TypeNext == TypeInv /\ [Next]_vars => TypeInv'
<1> SUFFICES ASSUME TypeInv, [Next]_vars PROVE TypeInv'
  OBVIOUS
<1> USE DEF TypeInv, At, Goto, store, ledger, step, control, link, remote, world
<1>1. CASE UNCHANGED vars
  BY <1>1 DEF vars, TypeOK, IndexInv
<1>2. CASE Redispatch
  <2>1. /\ calls' \in {<<>>} \cup {Batches[b] : b \in DOMAIN Batches}
        /\ calls' # <<>>
    BY <1>2, TailType DEF Redispatch, Resumable
  <2>2. calls' \in Seq(Calls) /\ Len(calls') >= 1 /\ Len(calls') \in Nat
    BY <2>1, BatchType
  <2>3. index' = 1 /\ pc' = "call"
    BY <1>2 DEF Redispatch
  <2>4. TypeOK'
    <3>1. index' \in 1..Len(calls') + 1 /\ pc' \in Labels
      BY <2>2, <2>3 DEF Labels
    <3>2. /\ resuming' = TRUE
          /\ UNCHANGED <<db, memory, recorded, taskId, status, first, task, stop,
                         draining, up, ledger, link, remote, world>>
      BY <1>2 DEF Redispatch
    <3> QED
      BY <2>1, <3>1, <3>2 DEF TypeOK
  <2> QED
    BY <2>2, <2>3, <2>4 DEF IndexInv
<1>3. CASE AskModel
  <2>0. failures' \in 0..MaxFailures
    BY <1>3, BoundsAssumption DEF AskModel, Request, TypeOK
  <2>1. asked + 1 \in DOMAIN Batches /\ asked' = asked + 1 /\ asked' \in 0..Len(Batches)
    <3>1. asked < Len(Batches) /\ asked' = asked + 1 /\ asked \in 0..Len(Batches)
      BY <1>3 DEF AskModel, TypeOK
    <3>2. Batches \in Seq(Seq(Calls)) /\ Len(Batches) \in Nat
      BY BatchesAssumption
    <3> QED
      BY <3>1, <3>2
  <2>2. /\ calls' = Batches[asked + 1] /\ index' = 1 /\ pc' = "before"
        /\ memory' = Append(memory, Ask(Batches[asked + 1]))
    BY <1>3 DEF AskModel, Request
  <2>3. calls' \in Seq(Calls) /\ Len(calls') >= 1 /\ Len(calls') \in Nat
    BY <2>1, <2>2, BatchType
  <2>4. memory' \in Seq(Message)
    BY <2>1, <2>2, MessageType DEF TypeOK
  <2>5. calls' \in {<<>>} \cup {Batches[b] : b \in DOMAIN Batches}
        /\ index' \in 1..Len(calls') + 1
    BY <2>1, <2>2, <2>3
  <2>6. /\ UNCHANGED <<db, recorded, taskId, status, ledger, first, resuming, link,
                      remote, task, stop, draining, up, issued, crashes>>
    BY <1>3 DEF AskModel, Request
  <2>7. pc' \in Labels
    BY <2>2 DEF Labels
  <2>8. TypeOK'
    BY <2>0, <2>1, <2>4, <2>5, <2>6, <2>7 DEF TypeOK
  <2> QED
    BY <2>2, <2>3, <2>8 DEF IndexInv
<1>4. CASE Conclude
  <2>1. memory' = Append(memory, Ask(<<>>)) /\ calls' = <<>> /\ index' = 1 /\ pc' = "end"
    BY <1>4 DEF Conclude, Request
  <2>2. memory' \in Seq(Message) /\ 1 \in 1..Len(calls') + 1
        /\ failures' \in 0..MaxFailures
    BY <1>4, <2>1, MessageType, BoundsAssumption DEF Conclude, Request, TypeOK
  <2>3. TypeOK'
    BY <1>4, <2>1, <2>2 DEF Conclude, Request, TypeOK, Labels
  <2> QED
    BY <2>1, <2>3 DEF IndexInv
<1>5. CASE BeforeDispatch
  <2>1. pc = "before" /\ pc' = "record" /\ UNCHANGED <<calls, index>>
    BY <1>5 DEF BeforeDispatch
  <2>2. TypeOK'
    BY <1>5, <2>1, PersistType DEF BeforeDispatch, TypeOK, Labels
  <2> QED
    BY <2>1, <2>2 DEF IndexInv
<1>6. CASE RecordDispatch
  <2>1. index <= Len(calls) /\ calls' = calls /\ Current \in Calls
    BY <1>6, CallsType DEF RecordDispatch, IndexInv
  <2>2. recorded' \subseteq Calls /\ failures' \in 0..MaxFailures
        /\ UNCHANGED <<asked, issued, crashes>>
    BY <1>6, <2>1, FailType DEF RecordDispatch, TypeOK
  <2>3. \/ index < Len(calls) /\ index' = index + 1 /\ pc' = "record"
        \/ index' = 1 /\ pc' = "call"
    BY <1>6 DEF RecordDispatch
  <2>4. index' \in 1..Len(calls') + 1 /\ index' <= Len(calls')
    BY <2>1, <2>3, CallsType
  <2>5. pc' \in Labels /\ UNCHANGED <<task, stop, draining, up>>
    BY <1>6 DEF RecordDispatch, Labels
  <2>6. TypeOK'
    BY <1>6, <2>1, <2>2, <2>4, <2>5 DEF RecordDispatch, TypeOK
  <2> QED
    BY <2>3, <2>4, <2>6 DEF IndexInv
<1>7. CASE EndStep
  BY <1>7, PersistType DEF EndStep, TypeOK, IndexInv, Labels
<1>8. CASE SettleDispatches
  <2>1. recorded' \subseteq Calls /\ taskId' \in [Calls -> Nat]
        /\ failures' \in 0..MaxFailures /\ UNCHANGED <<asked, issued, crashes>>
    <3>1. CASE ClearDispatches
      <4>1. CASE recorded' = {} /\ taskId' = [c \in Calls |-> 0] /\ UNCHANGED world
        BY <4>1 DEF TypeOK
      <4>2. CASE Fail("clear") /\ UNCHANGED <<recorded, taskId>>
        BY <4>2, FailType DEF TypeOK
      <4> QED
        BY <3>1, <4>1, <4>2 DEF ClearDispatches
    <3>2. CASE UNCHANGED <<recorded, taskId, world>>
      BY <3>2 DEF TypeOK
    <3> QED
      BY <1>8, <3>1, <3>2 DEF SettleDispatches
  <2>2. pc' \in {"plan", "final"} /\ UNCHANGED <<task, stop, draining, up>>
    BY <1>8 DEF SettleDispatches
  <2> QED
    BY <1>8, <2>1, <2>2 DEF SettleDispatches, TypeOK, IndexInv, Labels
<1>9. CASE SeeStop
  BY <1>9 DEF SeeStop, TypeOK, IndexInv, Labels
<1>10. CASE Cancelled
  BY <1>10 DEF Cancelled, TypeOK, IndexInv, Labels
<1>11. CASE Finalize
  BY <1>11, PersistType DEF Finalize, TypeOK, IndexInv, Labels
<1>12. CASE Finish
  BY <1>12 DEF Finish, TypeOK, IndexInv, Labels
<1>13. CASE IssueTask
  <2>1. pc = "call" /\ index <= Len(calls) /\ Current \in Calls
    BY <1>13, CallsType DEF IssueTask, Dispatching, IndexInv
  <2>2. issued[Current] + 1 \in Nat \ {0}
    BY <2>1 DEF TypeOK
  <2>3. task' = <<Current, issued[Current] + 1>> /\ pc' = "send"
        /\ issued' = [issued EXCEPT ![Current] = issued[Current] + 1]
    BY <1>13 DEF IssueTask
  <2>4. task' \in Task /\ task'[1] = Current
    BY <2>1, <2>2, <2>3 DEF Task
  <2>5. issued' \in [Calls -> Nat] /\ issued'[Current] \in Nat
    BY <2>1, <2>2, <2>3 DEF TypeOK
  <2>6. recorded' \subseteq Calls /\ taskId' \in [Calls -> Nat]
        /\ failures' \in 0..MaxFailures
    <3>1. CASE /\ recorded' = recorded \cup {Current}
               /\ taskId' = [taskId EXCEPT ![Current] = issued'[Current]]
               /\ UNCHANGED failures
      BY <2>1, <2>5, <3>1 DEF TypeOK
    <3>2. CASE /\ failures < MaxFailures /\ failures' = failures + 1
               /\ UNCHANGED <<recorded, taskId>>
      BY <3>2, BoundsAssumption DEF TypeOK
    <3> QED
      BY <1>13, <3>1, <3>2 DEF IssueTask
  <2>7. TypeOK'
    BY <1>13, <2>3, <2>4, <2>5, <2>6 DEF IssueTask, TypeOK, Labels
  <2> QED
    BY <1>13, <2>1, <2>3, <2>4, <2>7 DEF IndexInv, IssueTask, Current
<1>14. CASE Send
  <2>1. task \in Task /\ pc = "send" /\ pc' = "wait" /\ UNCHANGED <<task, calls, index>>
    BY <1>14 DEF Send, IndexInv
  <2>2. TypeOK'
    BY <1>14, <2>1 DEF Send, TypeOK, Labels
  <2> QED
    BY <2>1, <2>2 DEF IndexInv
<1>15. CASE SendFails
  BY <1>15, LandType, FailType DEF SendFails, TypeOK
<1>16. CASE TakeParked
  BY <1>16, LandType DEF TakeParked, Dispatching, TypeOK
<1>17. CASE AwaitReplay
  <2>1. pc = "call" /\ index <= Len(calls) /\ Current \in Calls
    BY <1>17, CallsType DEF AwaitReplay, Dispatching, IndexInv
  <2>2. KnownTask \in Task /\ KnownTask[1] = Current
    BY <1>17, <2>1 DEF AwaitReplay, Known, KnownTask, Task, TypeOK
  <2>3. failures' \in 0..MaxFailures /\ UNCHANGED <<asked, issued, crashes>>
    BY <1>17, FailType DEF AwaitReplay, TypeOK
  <2>4. task' = KnownTask /\ pc' = "wait" /\ waiting' \subseteq Task
    BY <1>17, <2>2 DEF AwaitReplay, TypeOK
  <2>5. TypeOK'
    BY <1>17, <2>2, <2>3, <2>4 DEF AwaitReplay, TypeOK, Labels
  <2> QED
    BY <1>17, <2>1, <2>2, <2>4, <2>5 DEF IndexInv, AwaitReplay, Current
<1>18. CASE Collect \/ TimeOut
  <2>1. PICK kind \in {"outcome", "error"} : pc = "wait" /\ Return(kind)
    BY <1>18 DEF Collect, TimeOut
  <2> QED
    BY <2>1, LandType DEF Return, TypeOK
<1>19. CASE Recover
  BY <1>19 DEF Recover, TypeOK, IndexInv, Labels
<1>20. ASSUME NEW t \in Tasks, LinkStep(t)
       PROVE  TypeInv'
  <2>1. t \in Task
    BY DEF Tasks, TypeOK
  <2>2. failures' \in 0..MaxFailures /\ UNCHANGED <<asked, issued, crashes>>
    BY <1>20, FailType DEF LinkStep, ReceiveNew, Route, ReceiveAgain, TypeOK
  <2>3. CASE ReceiveNew(t)
    BY <2>1, <2>2, <2>3 DEF ReceiveNew, TypeOK, IndexInv
  <2>4. CASE Route(t)
    BY <2>1, <2>2, <2>4 DEF Route, TypeOK, IndexInv
  <2>5. CASE ReceiveAgain(t)
    BY <2>1, <2>5 DEF ReceiveAgain, TypeOK, IndexInv
  <2> QED
    BY <1>20, <2>3, <2>4, <2>5 DEF LinkStep
<1>21. ASSUME NEW t \in Tasks,
              \/ Acknowledged(t) \/ LoseAck(t) \/ LoseTask(t) \/ Orphan(t)
       PROVE  TypeInv'
  <2>1. CASE Acknowledged(t)
    BY <2>1 DEF Acknowledged, TypeOK, IndexInv
  <2>2. CASE LoseAck(t)
    <3>1. /\ failures' \in 0..MaxFailures /\ acks' \subseteq acks
          /\ UNCHANGED <<asked, issued, crashes>>
      BY <2>2, FailType DEF LoseAck
    <3>2. UNCHANGED <<store, ledger, step, control, link, sent, executions, outbox>>
      BY <2>2 DEF LoseAck
    <3>3. acks' \subseteq Task
      BY <3>1 DEF TypeOK
    <3>4. TypeOK'
      BY <3>1, <3>2, <3>3 DEF TypeOK
    <3> QED
      BY <3>2, <3>4 DEF IndexInv
  <2>3. CASE LoseTask(t)
    BY <2>3 DEF LoseTask, TypeOK, IndexInv
  <2>4. CASE Orphan(t)
    BY <2>4 DEF Orphan, TypeOK, IndexInv
  <2> QED
    BY <1>21, <2>1, <2>2, <2>3, <2>4
<1>22. ASSUME NEW t \in Tasks, Execute(t)
       PROVE  TypeInv'
  <2>1. t \in Task /\ t[1] \in Calls
    BY DEF Tasks, TypeOK, Task
  <2>2. executions' \in [Calls -> Nat]
    BY <1>22, <2>1 DEF Execute, TypeOK
  <2>3. /\ sent' \subseteq sent /\ outbox' = outbox \cup {t}
        /\ UNCHANGED <<store, ledger, step, control, link, acks, world>>
    BY <1>22 DEF Execute
  <2>4. sent' \subseteq Task /\ outbox' \subseteq Task
    BY <2>1, <2>3 DEF TypeOK
  <2>5. TypeOK'
    BY <2>2, <2>3, <2>4 DEF TypeOK
  <2> QED
    BY <2>3, <2>5 DEF IndexInv
<1>23. CASE RequestStop \/ Shutdown \/ Restart
  <2>1. /\ status' \in {"running", "interrupted", "ended"}
        /\ stop' \in BOOLEAN /\ draining' \in BOOLEAN /\ up' \in BOOLEAN
        /\ UNCHANGED <<db, recorded, taskId, ledger, step, pc, task, link, remote, world>>
    BY <1>23 DEF RequestStop, Shutdown, Restart, TypeOK
  <2>2. TypeOK'
    BY <2>1 DEF TypeOK
  <2> QED
    BY <2>1, <2>2 DEF IndexInv
<1>24. CASE Crash
  <2>1. crashes' \in 0..MaxCrashes
    BY <1>24, BoundsAssumption DEF Crash, TypeOK
  <2>2. calls' = <<>> /\ index' = 1 /\ 1 \in 1..Len(calls') + 1 /\ memory' = <<>>
    BY <1>24 DEF Crash, Forget
  <2>3. memory' \in Seq(Message)
    BY <2>2
  <2>4. pc' = "none" /\ pc' \in Labels
    BY <1>24 DEF Crash, Labels
  <2>5. TypeOK'
    BY <1>24, <2>1, <2>2, <2>3, <2>4 DEF Crash, Forget, TypeOK
  <2> QED
    BY <2>4, <2>5 DEF IndexInv
<1> QED
  BY <1>1, <1>2, <1>3, <1>4, <1>5, <1>6, <1>7, <1>8, <1>9, <1>10, <1>11, <1>12,
     <1>13, <1>14, <1>15, <1>16, <1>17, <1>18, <1>19, <1>20, <1>21, <1>22, <1>23,
     <1>24
  DEF Next, RunStep

\* The type invariant, for any batches, deaths and failures; with it, that a
\* task is always dispatched for the call at hand (Runner.run_step).
THEOREM TypeCorrect == Spec => [](TypeOK /\ IndexInv)
<1>1. TypeInv <=> TypeOK /\ IndexInv
  BY DEF TypeInv
<1> QED
  BY InitType, TypeNext, <1>1, PTL DEF Spec
-------------------------------------------------------------------------------
(***************************************************************************)
(* At most one execution per call                                          *)
(***************************************************************************)
OnceInv == TypeInv /\ AskedInv /\ TailInv /\ StepInv /\ TaskInv

LEMMA InitOnce == Init => OnceInv
<1> SUFFICES ASSUME Init PROVE OnceInv
  OBVIOUS
<1>1. AskedInv
  BY DEF Init, AskedInv, HistoryAsked, Asked, Fresh
<1>2. TailInv
  BY DEF Init, TailInv, TailOnRecord
<1>3. StepInv
  BY DEF Init, StepInv
<1>4. TaskInv
  BY DEF Init, TaskInv
<1> QED
  BY <1>1, <1>2, <1>3, <1>4, InitType DEF OnceInv

\* A message at the end: the histories stay asked for, the tail is the message.
LEMMA AppendOnce ==
    ASSUME TypeOK, NEW h \in Seq(Message), HistoryAsked(h), NEW m \in Message,
           m.role = "assistant" => Asked(m.calls)
    PROVE  /\ HistoryAsked(Append(h, m))
           /\ Append(h, m) # <<>> /\ Append(h, m)[Len(Append(h, m))] = m
<1>1. /\ Len(Append(h, m)) = Len(h) + 1 /\ Append(h, m) # <<>>
      /\ Append(h, m)[Len(h) + 1] = m
      /\ \A i \in 1..Len(h) : Append(h, m)[i] = h[i]
  OBVIOUS
<1>2. ASSUME NEW i \in DOMAIN Append(h, m), Append(h, m)[i].role = "assistant"
      PROVE  Asked(Append(h, m)[i].calls)
  <2>1. i \in DOMAIN h \/ i = Len(h) + 1
    BY <1>1
  <2> QED
    BY <1>1, <1>2, <2>1 DEF HistoryAsked
<1> QED
  BY <1>1, <1>2 DEF HistoryAsked

LEMMA AskedFrame ==
    ASSUME AskedInv, UNCHANGED <<db, memory, calls, asked, issued>>
    PROVE  AskedInv'
  BY DEF AskedInv, HistoryAsked, Asked, Fresh

LEMMA TailFrame ==
    ASSUME TailInv, UNCHANGED <<db, memory, taskId, issued>>
    PROVE  TailInv'
  BY DEF TailInv, TailOnRecord, OnRecord, Fresh

LEMMA AheadFrame ==
    ASSUME NEW n, Ahead(n), UNCHANGED <<calls, resuming, taskId, issued>>
    PROVE  Ahead(n)'
  BY DEF Ahead, OnRecord, Fresh

LEMMA StepFrame ==
    ASSUME StepInv,
           UNCHANGED <<pc, db, memory, calls, index, resuming, taskId, issued,
                       draining, status>>
    PROVE  StepInv'
  BY AheadFrame DEF StepInv, AnsweredTail

LEMMA TaskFrame ==
    ASSUME TaskInv, UNCHANGED <<issued, executions>>, sent' \subseteq sent,
           pc' # "send" \/ UNCHANGED <<pc, task>>
    PROVE  TaskInv'
  BY DEF TaskInv

\* With a reliable database, what persist returns from is written.
LEMMA PersistReliable == ReliableRecords /\ Persist => db' = memory
  BY DEF ReliableRecords, Persist, Fail

\* The call gets its answer, and the rest of the batch is still ahead.
LEMMA LandOnce ==
    ASSUME OnceInv, pc \in {"call", "send", "wait"}, Ahead(index + 1),
           NEW kind \in {"outcome", "error"}, Land(kind),
           UNCHANGED <<db, taskId, asked, issued, sent, executions>>
    PROVE  AskedInv' /\ TailInv' /\ StepInv' /\ TaskInv'
<1> USE DEF OnceInv, TypeInv
<1>1. /\ memory' = Append(memory, Answer(Current, kind)) /\ Current \in Calls
      /\ index' = index + 1 /\ index \in Nat /\ Len(calls) \in Nat
      /\ pc' = IF index < Len(calls) THEN "call" ELSE "end"
      /\ UNCHANGED <<calls, resuming>>
  BY CallsType DEF Land, IndexInv
<1>2. Answer(Current, kind) \in Message /\ Answer(Current, kind).role = "tool"
  BY <1>1, MessageType
<1>3. HistoryAsked(memory') /\ memory' # <<>> /\ memory'[Len(memory')].role = "tool"
  BY <1>1, <1>2, AppendOnce DEF AskedInv, TypeOK
<1>4. AskedInv'
  BY <1>1, <1>3 DEF AskedInv, HistoryAsked, Asked, Fresh
<1>5. TailInv'
  BY <1>3 DEF TailInv, TailOnRecord, OnRecord, Fresh
<1>6. \A k \in index + 1..Len(calls) :
        IF resuming THEN OnRecord(calls[k])' ELSE Fresh(calls[k])'
  BY <1>1 DEF Ahead, OnRecord, Fresh
<1>7. pc' = "call" => Ahead(index)'
  BY <1>1, <1>6 DEF Ahead, OnRecord, Fresh
<1>8. StepInv'
  BY <1>1, <1>3, <1>7 DEF StepInv, AnsweredTail
<1> QED
  BY <1>1, <1>4, <1>5, <1>8, TaskFrame

LEMMA DistinctCalls ==
    ASSUME TypeOK, NEW i \in 1..Len(calls), NEW k \in 1..Len(calls), calls[i] = calls[k]
    PROVE  i = k
<1>1. PICK b \in DOMAIN Batches : calls = Batches[b]
  BY DEF TypeOK
<1>2. calls \in Seq(Calls)
  BY CallsType
<1>3. i \in DOMAIN Batches[b] /\ k \in DOMAIN Batches[b]
  BY <1>1, <1>2
<1> QED
  BY <1>1, <1>3, BatchesAssumption

\* The model's next batch: its calls are no calls of an earlier batch.
LEMMA AskOnce == OnceInv /\ AskModel => OnceInv'
<1> SUFFICES ASSUME OnceInv, AskModel PROVE OnceInv'
  OBVIOUS
<1> USE DEF OnceInv, TypeInv
<1> DEFINE batch == Batches[asked + 1]
<1>1. /\ pc = "plan" /\ pc' = "before" /\ calls' = batch /\ memory' = Append(memory, Ask(batch))
      /\ asked' = asked + 1 /\ asked \in Nat /\ asked + 1 \in DOMAIN Batches
      /\ UNCHANGED <<db, recorded, taskId, resuming, issued, executions, sent>>
  BY BatchesAssumption
  DEF AskModel, Request, At, Goto, store, link, remote, TypeOK
<1>2. /\ ~resuming /\ ~resuming'
      /\ batch \in Seq(Calls) /\ Len(batch) \in Nat /\ DOMAIN batch = 1..Len(batch)
  BY <1>1, BatchType DEF StepInv
<1>3. \A k \in DOMAIN batch : Fresh(batch[k])
  <2> SUFFICES ASSUME NEW k \in DOMAIN batch, ~Fresh(batch[k]) PROVE FALSE
    OBVIOUS
  <2>1. batch[k] \in Calls
    BY <1>2
  <2>2. PICK b \in 1..asked : \E l \in DOMAIN Batches[b] : Batches[b][l] = batch[k]
    BY <2>1 DEF AskedInv
  <2>3. b \in DOMAIN Batches /\ b # asked + 1
    BY <1>1, <2>2, BatchesAssumption
  <2> QED
    BY <1>1, <2>2, <2>3, BatchesAssumption
<1>4. /\ \A h : Asked(h) => Asked(h)'
      /\ Asked(calls)'
  <2>1. asked + 1 \in 1..asked' /\ \A b \in 1..asked : b \in 1..asked'
    BY <1>1
  <2> QED
    BY <1>1, <2>1 DEF Asked
<1>5. /\ Ask(batch) \in Message /\ Ask(batch).role = "assistant" /\ Ask(batch).calls = batch
  BY <1>1, MessageType
<1>6. /\ \A i \in DOMAIN memory : memory'[i] = memory[i]
      /\ \A i \in DOMAIN memory' : i \in DOMAIN memory \/ i = Len(memory')
      /\ memory' # <<>> /\ memory'[Len(memory')] = Ask(batch)
  BY <1>1, <1>5 DEF TypeOK
<1>7. HistoryAsked(memory)' /\ HistoryAsked(db)'
  BY <1>1, <1>4, <1>5, <1>6 DEF AskedInv, HistoryAsked
<1>8. AskedInv'
  BY <1>1, <1>4, <1>7 DEF AskedInv, Fresh
<1>9. TailInv'
  BY <1>1, <1>3, <1>5, <1>6 DEF TailInv, TailOnRecord, OnRecord, Fresh
<1>10. Ahead(1)'
  BY <1>1, <1>2, <1>3 DEF Ahead, Fresh
<1>11. StepInv'
  BY <1>1, <1>2, <1>10 DEF StepInv
<1>12. TaskInv'
  BY <1>1, TaskFrame
<1>13. TypeInv'
  BY TypeNext DEF Next, RunStep
<1> QED
  BY <1>8, <1>9, <1>11, <1>12, <1>13

\* The batch a run started again finds: its calls are fresh or on record.
LEMMA RedispatchOnce == OnceInv /\ Redispatch => OnceInv'
<1> SUFFICES ASSUME OnceInv, Redispatch PROVE OnceInv'
  OBVIOUS
<1> USE DEF OnceInv, TypeInv
<1>1. /\ pc' = "call" /\ calls' = TailBatch /\ TailBatch # <<>> /\ index' = 1 /\ resuming'
      /\ UNCHANGED <<db, memory, taskId, asked, issued, executions, sent>>
  BY DEF Redispatch, Resumable, Goto, store, link, remote, world
<1>2. /\ memory # <<>> /\ memory[Len(memory)].role = "assistant"
      /\ TailBatch = memory[Len(memory)].calls
  BY <1>1 DEF TailBatch
<1>3. TailBatch \in Seq(Calls) /\ DOMAIN TailBatch = 1..Len(TailBatch)
  BY <1>1, TailType, BatchType
<1>4. Asked(calls)'
  BY <1>1, <1>2 DEF AskedInv, HistoryAsked, Asked, TypeOK
<1>5. AskedInv'
  BY <1>1, <1>4 DEF AskedInv, HistoryAsked, Asked, Fresh
<1>6. TailInv'
  BY <1>1, TailFrame
<1>7. \A k \in 1..Len(TailBatch) : OnRecord(TailBatch[k])
  BY <1>2, <1>3 DEF TailInv, TailOnRecord
<1>8. Ahead(index)'
  BY <1>1, <1>7 DEF Ahead, OnRecord, Fresh
<1>9. StepInv'
  BY <1>1, <1>8 DEF StepInv
<1>10. TaskInv'
  BY <1>1, TaskFrame
<1>11. TypeInv'
  BY TypeNext DEF Next, RunStep
<1> QED
  BY <1>5, <1>6, <1>9, <1>10, <1>11

LEMMA SentType ==
    ASSUME TypeInv
    PROVE  /\ \A c \in Calls : executions[c] \in Nat /\ issued[c] \in Nat
           /\ \A t \in sent : t \in Task /\ t[1] \in Calls
<1>1. executions \in [Calls -> Nat] /\ issued \in [Calls -> Nat] /\ sent \subseteq Task
  BY DEF TypeInv, TypeOK
<1> QED
  BY <1>1 DEF Task

\* A first dispatch: the call had no task, and now has one, on record.
LEMMA IssueOnce == ReliableRecords /\ OnceInv /\ IssueTask => OnceInv'
<1> SUFFICES ASSUME ReliableRecords, OnceInv, IssueTask PROVE OnceInv'
  OBVIOUS
<1> USE DEF OnceInv, TypeInv
<1>1. /\ pc = "call" /\ pc' = "send" /\ task' = <<Current, issued[Current] + 1>>
      /\ issued' = [issued EXCEPT ![Current] = issued[Current] + 1]
      /\ taskId' = [taskId EXCEPT ![Current] = issued'[Current]]
      /\ UNCHANGED <<db, memory, calls, index, resuming, asked, executions, sent>>
  BY DEF ReliableRecords, IssueTask, Dispatching, At, store, step, link, remote
<1>2. /\ Current \in Calls /\ index \in 1..Len(calls) /\ Len(calls) \in Nat
      /\ calls \in Seq(Calls)
  BY <1>1, CallsType DEF IndexInv
<1>3. Fresh(Current)
  <2>1. CASE resuming
    <3>1. taskId[Current] = 0 /\ OnRecord(Current)
      BY <1>1, <1>2, <2>1 DEF IssueTask, Known, StepInv, Ahead, Current
    <3> QED
      BY <3>1 DEF OnRecord, Fresh
  <2>2. CASE ~resuming
    BY <1>1, <1>2, <2>2 DEF StepInv, Ahead, Current
  <2> QED
    BY <2>1, <2>2
<1>4. /\ issued'[Current] = 1 /\ taskId'[Current] = 1
      /\ \A c \in Calls : c # Current => issued'[c] = issued[c] /\ taskId'[c] = taskId[c]
  BY <1>1, <1>2, <1>3 DEF Fresh, TypeOK
<1>5. \A c \in Calls : OnRecord(c) => OnRecord(c)'
  BY <1>4 DEF OnRecord, Fresh
<1>6. \A c \in Calls : c # Current /\ Fresh(c) => Fresh(c)'
  BY <1>4 DEF Fresh
<1>7. \E b \in 1..asked : \E k \in DOMAIN Batches[b] : Batches[b][k] = Current
  <2>1. PICK b \in 1..asked : calls = Batches[b]
    BY <1>2 DEF AskedInv, Asked
  <2> QED
    BY <1>2, <2>1 DEF Current
<1>8. AskedInv'
  BY <1>1, <1>4, <1>7 DEF AskedInv, HistoryAsked, Asked, Fresh
<1>9. ASSUME NEW h \in Seq(Message), TailOnRecord(h), h # <<>>, h[Len(h)].role = "assistant"
      PROVE  \A k \in DOMAIN h[Len(h)].calls : OnRecord(h[Len(h)].calls[k])'
  <2>1. h[Len(h)] \in Message
    BY <1>9
  <2>2. h[Len(h)].calls \in {<<>>} \cup {Batches[b] : b \in DOMAIN Batches}
    BY <1>9, <2>1, MessageType
  <2>3. <<>> \in Seq(Calls) /\ \A b \in DOMAIN Batches : Batches[b] \in Seq(Calls)
    BY BatchType
  <2>4. h[Len(h)].calls \in Seq(Calls)
    BY <2>2, <2>3
  <2> QED
    BY <1>5, <1>9, <2>4 DEF TailOnRecord
<1>10. TailInv'
  BY <1>1, <1>9 DEF TailInv, TailOnRecord, TypeOK
<1>11. \A k \in index + 1..Len(calls) : calls[k] # Current /\ calls[k] \in Calls
  BY <1>2, DistinctCalls DEF Current
<1>12. \A k \in index + 1..Len(calls) :
         IF resuming THEN OnRecord(calls[k]) ELSE Fresh(calls[k])
  BY <1>1, <1>2 DEF StepInv, Ahead
<1>13. Ahead(index + 1)'
  BY <1>1, <1>5, <1>6, <1>11, <1>12 DEF Ahead, OnRecord, Fresh
<1>14. StepInv'
  BY <1>1, <1>13 DEF StepInv
<1>15. executions[Current] = 0 /\ \A t \in sent : t[1] # Current /\ t[1] \in Calls
  <2>1. /\ \A c \in Calls : executions[c] \in Nat /\ issued[c] \in Nat
        /\ \A t \in sent : t[1] \in Calls
    BY SentType
  <2>2. executions[Current] <= issued[Current] /\ \A t \in sent : issued[t[1]] = 1
    BY <1>2 DEF TaskInv
  <2>3. issued[Current] = 0
    BY <1>3 DEF Fresh
  <2>4. executions[Current] = 0
    BY <1>2, <2>1, <2>2, <2>3
  <2> QED
    BY <2>1, <2>2, <2>3, <2>4
<1>16. task' = <<Current, 1>>
  BY <1>1, <1>3 DEF Fresh
<1>17. TaskInv'
  <2>1. /\ \A c \in Calls : issued[c] <= 1 /\ executions[c] <= issued[c]
        /\ \A t \in sent : t[2] = 1 /\ issued[t[1]] = 1 /\ executions[t[1]] = 0
    BY DEF TaskInv
  <2>2. executions' = executions /\ sent' = sent /\ pc' = "send"
    BY <1>1
  <2>3. \A c \in Calls : issued'[c] <= 1 /\ executions'[c] <= issued'[c]
    <3> SUFFICES ASSUME NEW c \in Calls
                 PROVE  issued'[c] <= 1 /\ executions'[c] <= issued'[c]
      OBVIOUS
    <3>1. CASE c = Current
      BY <1>4, <1>15, <2>2, <3>1
    <3>2. CASE c # Current
      BY <1>4, <2>1, <2>2, <3>2
    <3> QED
      BY <3>1, <3>2
  <2>4. \A t \in sent' : t[2] = 1 /\ issued'[t[1]] = 1 /\ executions'[t[1]] = 0
    BY <1>4, <1>15, <2>1, <2>2
  <2>5. /\ task'[1] = Current /\ task'[2] = 1
        /\ \A t \in sent : t # task'
    BY <1>15, <1>16
  <2>6. pc' = "send" => /\ task'[2] = 1 /\ task' \notin sent'
                        /\ issued'[task'[1]] = 1 /\ executions'[task'[1]] = 0
    BY <1>4, <1>15, <2>2, <2>5
  <2> QED
    BY <2>3, <2>4, <2>6 DEF TaskInv
<1>18. TypeInv'
  BY TypeNext DEF Next, RunStep
<1> QED
  BY <1>8, <1>10, <1>14, <1>17, <1>18

\* The records are cleared only once the answers are in the database.
LEMMA SettleOnce == OnceInv /\ SettleDispatches => OnceInv'
<1> SUFFICES ASSUME OnceInv, SettleDispatches PROVE OnceInv'
  OBVIOUS
<1> USE DEF OnceInv, TypeInv
<1>1. /\ pc = "settle" /\ pc' \in {"plan", "final"} /\ ~resuming'
      /\ UNCHANGED <<db, memory, calls, asked, issued, executions, sent>>
  BY DEF SettleDispatches, ClearDispatches, Fail, At, Goto, link, remote, world
<1>2. AskedInv'
  BY <1>1, AskedFrame
<1>3. TailInv'
  <2>1. CASE calls # <<>>
    BY <1>1, <2>1 DEF StepInv, AnsweredTail, TailInv, TailOnRecord
  <2>2. CASE calls = <<>>
    BY <1>1, <2>2, TailFrame DEF SettleDispatches
  <2> QED
    BY <2>1, <2>2
<1>4. StepInv'
  BY <1>1 DEF StepInv
<1>5. TaskInv'
  BY <1>1, TaskFrame
<1>6. TypeInv'
  BY TypeNext DEF Next, RunStep
<1> QED
  BY <1>2, <1>3, <1>4, <1>5, <1>6

\* The executor runs a task it was sent, and there is no other of that call.
LEMMA ExecuteOnce == ASSUME OnceInv, NEW t \in Tasks, Execute(t) PROVE TaskInv'
<1> USE DEF OnceInv, TypeInv
<1>1. /\ t \in sent /\ t \in Task /\ t[1] \in Calls /\ sent' = sent \ {t}
      /\ executions' = [executions EXCEPT ![t[1]] = executions[t[1]] + 1]
      /\ UNCHANGED <<pc, task, issued>>
  BY DEF Execute, Tasks, TypeOK, Task, control, world
<1>2. t[2] = 1 /\ issued[t[1]] = 1 /\ executions[t[1]] = 0
  BY <1>1 DEF TaskInv
<1>3. /\ executions'[t[1]] = 1
      /\ \A c \in Calls : c # t[1] => executions'[c] = executions[c]
  BY <1>1, <1>2 DEF TypeOK
<1>4. \A u \in Task : u[1] \in Calls /\ (u[1] = t[1] /\ u[2] = t[2] => u = t)
  BY <1>1 DEF Task
<1>5. \A c \in Calls : issued'[c] <= 1 /\ executions'[c] <= issued'[c]
  BY <1>1, <1>2, <1>3 DEF TaskInv
<1>6. \A u \in sent' : u[2] = 1 /\ issued'[u[1]] = 1 /\ executions'[u[1]] = 0
  BY <1>1, <1>2, <1>3, <1>4 DEF TaskInv, TypeOK
<1>7. ASSUME pc' = "send"
      PROVE  task[2] = 1 /\ task \notin sent' /\ issued[task[1]] = 1 /\ executions'[task[1]] = 0
  <2>1. task \in Task /\ task[2] = 1 /\ task \notin sent /\ issued[task[1]] = 1
        /\ executions[task[1]] = 0
    BY <1>1, <1>7 DEF TaskInv, IndexInv
  <2>2. task[1] # t[1] /\ task[1] \in Calls
    BY <1>1, <1>2, <1>4, <2>1
  <2> QED
    BY <1>1, <1>3, <2>1, <2>2
<1> QED
  BY <1>1, <1>5, <1>6, <1>7 DEF TaskInv

\* Every step: what the type invariant says is kept by TypeNext.
LEMMA OnceNext == ReliableRecords /\ OnceInv /\ [Next]_vars => OnceInv'
<1> SUFFICES ASSUME ReliableRecords, OnceInv, [Next]_vars
             PROVE  AskedInv' /\ TailInv' /\ StepInv' /\ TaskInv'
  BY TypeNext DEF OnceInv
<1> USE DEF At, Goto, store, ledger, step, control, link, remote, world
<1>0. AskedInv /\ TailInv /\ StepInv /\ TaskInv /\ TypeOK /\ IndexInv
  BY DEF OnceInv, TypeInv
<1>1. CASE UNCHANGED vars
  BY <1>0, <1>1, AskedFrame, TailFrame, StepFrame, TaskFrame DEF vars
<1>2. CASE Redispatch
  BY <1>2, RedispatchOnce DEF OnceInv
<1>3. CASE AskModel
  BY <1>3, AskOnce DEF OnceInv
<1>4. CASE Conclude
  <2>1. /\ memory' = Append(memory, Ask(<<>>)) /\ calls' = <<>> /\ pc' = "end"
        /\ UNCHANGED <<db, taskId, asked, issued, executions, sent>>
    BY <1>4 DEF Conclude, Request
  <2>2. Ask(<<>>) \in Message /\ Ask(<<>>).calls = <<>>
    BY MessageType
  <2>3. /\ HistoryAsked(memory') /\ memory' # <<>>
        /\ memory'[Len(memory')] = Ask(<<>>)
    BY <1>0, <2>1, <2>2, AppendOnce DEF AskedInv, TypeOK, Asked
  <2>4. AskedInv'
    BY <1>0, <2>1, <2>3 DEF AskedInv, HistoryAsked, Asked, Fresh
  <2>5. TailInv'
    BY <1>0, <2>1, <2>2, <2>3 DEF TailInv, TailOnRecord, OnRecord, Fresh
  <2>6. StepInv'
    BY <2>1 DEF StepInv, AnsweredTail
  <2> QED
    BY <1>0, <2>1, <2>4, <2>5, <2>6, TaskFrame
<1>5. CASE BeforeDispatch \/ EndStep \/ Finalize
  <2>1. /\ db' = memory
        /\ UNCHANGED <<taskId, memory, calls, index, resuming, asked, issued,
                       executions, sent>>
    BY <1>5, PersistReliable
    DEF BeforeDispatch, EndStep, Finalize, Persist, Fail, ReliableRecords
  <2>2. \/ pc = "before" /\ pc' = "record"
        \/ pc = "end" /\ pc' = "settle"
        \/ pc' = "finish"
    BY <1>5 DEF BeforeDispatch, EndStep, Finalize
  <2>3. AskedInv' /\ TailInv'
    BY <1>0, <2>1 DEF AskedInv, HistoryAsked, Asked, Fresh, TailInv, TailOnRecord, OnRecord
  <2>4. pc' = "record" => Ahead(1)'
    BY <1>0, <2>1, <2>2, AheadFrame DEF StepInv
  <2>5. StepInv'
    BY <1>0, <2>1, <2>2, <2>4 DEF StepInv, AnsweredTail
  <2> QED
    BY <1>0, <2>1, <2>2, <2>3, <2>5, TaskFrame
<1>6. CASE RecordDispatch
  <2>1. /\ pc = "record" /\ pc' \in {"record", "call"} /\ (pc' = "call" => index' = 1)
        /\ UNCHANGED <<db, taskId, memory, calls, resuming, asked, issued, executions, sent>>
    BY <1>6 DEF RecordDispatch, Fail
  <2>2. ~resuming /\ Ahead(1)'
    BY <1>0, <2>1, AheadFrame DEF StepInv
  <2>3. pc' = "call" => Ahead(index)'
    BY <2>1, <2>2 DEF Ahead, OnRecord, Fresh
  <2>4. StepInv'
    BY <2>1, <2>2, <2>3 DEF StepInv
  <2> QED
    BY <1>0, <2>1, <2>4, AskedFrame, TailFrame, TaskFrame
<1>7. CASE SettleDispatches
  BY <1>7, SettleOnce DEF OnceInv
<1>8. CASE SeeStop \/ Cancelled
  <2>1. /\ pc' = "final"
        /\ UNCHANGED <<db, taskId, memory, calls, asked, issued, executions, sent>>
    BY <1>8 DEF SeeStop, Cancelled
  <2> QED
    BY <1>0, <2>1, AskedFrame, TailFrame, TaskFrame DEF StepInv
<1>9. CASE Finish
  <2>1. /\ pc' = "none" /\ (draining' \/ status' = "ended")
        /\ UNCHANGED <<db, taskId, memory, calls, asked, issued, executions, sent>>
    BY <1>9 DEF Finish
  <2> QED
    BY <1>0, <2>1, AskedFrame, TailFrame, TaskFrame DEF StepInv
<1>10. CASE IssueTask
  BY <1>10, IssueOnce DEF OnceInv
<1>11. CASE Send
  <2>1. /\ pc = "send" /\ pc' = "wait" /\ sent' = sent \cup {task}
        /\ UNCHANGED <<db, taskId, memory, calls, index, resuming, asked, issued, executions>>
    BY <1>11 DEF Send
  <2>2. Ahead(index + 1)'
    BY <1>0, <2>1 DEF StepInv, Ahead, OnRecord, Fresh
  <2>3. StepInv'
    BY <2>1, <2>2 DEF StepInv
  <2>4. TaskInv'
    BY <1>0, <2>1 DEF TaskInv
  <2> QED
    BY <1>0, <2>1, <2>3, <2>4, AskedFrame, TailFrame
<1>12. CASE SendFails \/ TakeParked \/ Collect \/ TimeOut
  <2>1. PICK kind \in {"outcome", "error"} : Land(kind)
    BY <1>12 DEF SendFails, TakeParked, Collect, TimeOut, Return
  <2>2. /\ pc \in {"call", "send", "wait"}
        /\ UNCHANGED <<db, taskId, asked, issued, executions, sent>>
    BY <1>12
    DEF SendFails, TakeParked, Dispatching, Collect, TimeOut, Return, Fail
  <2>3. Ahead(index + 1)
    BY <1>0, <2>2 DEF StepInv, Ahead, TypeOK
  <2> QED
    BY <2>1, <2>2, <2>3, LandOnce
<1>13. CASE AwaitReplay
  <2>1. /\ pc = "call" /\ pc' = "wait"
        /\ UNCHANGED <<db, taskId, memory, calls, index, resuming, asked, issued,
                       executions, sent>>
    BY <1>13 DEF AwaitReplay, Dispatching, Fail
  <2>2. Ahead(index + 1)'
    BY <1>0, <2>1 DEF StepInv, Ahead, OnRecord, Fresh, TypeOK
  <2>3. StepInv'
    BY <2>1, <2>2 DEF StepInv
  <2> QED
    BY <1>0, <2>1, <2>3, AskedFrame, TailFrame, TaskFrame
<1>14. CASE Recover
  <2>1. /\ pc = "none" /\ pc' = "plan" /\ ~draining /\ status # "ended" /\ memory' = db
        /\ UNCHANGED <<db, taskId, calls, resuming, asked, issued, executions, sent>>
    BY <1>14 DEF Recover
  <2>2. AskedInv' /\ TailInv'
    BY <1>0, <2>1 DEF AskedInv, HistoryAsked, Asked, Fresh, TailInv, TailOnRecord, OnRecord
  <2>3. StepInv'
    BY <1>0, <2>1 DEF StepInv
  <2> QED
    BY <1>0, <2>1, <2>2, <2>3, TaskFrame
<1>15. CASE Crash
  <2>1. /\ pc' = "none" /\ ~resuming' /\ memory' = <<>> /\ calls' = <<>>
        /\ UNCHANGED <<db, taskId, asked, issued, executions, sent>>
    BY <1>15 DEF Crash, Forget
  <2>2. AskedInv' /\ TailInv'
    BY <1>0, <2>1 DEF AskedInv, HistoryAsked, Asked, Fresh, TailInv, TailOnRecord, OnRecord
  <2>3. StepInv'
    BY <2>1 DEF StepInv
  <2> QED
    BY <1>0, <2>1, <2>2, <2>3, TaskFrame
<1>16. CASE RequestStop \/ Restart
  BY <1>0, <1>16, AskedFrame, TailFrame, StepFrame, TaskFrame DEF RequestStop, Restart
<1>17. CASE Shutdown
  <2>1. /\ pc # "none"
        /\ UNCHANGED <<pc, task, db, taskId, memory, calls, index, resuming, asked,
                       issued, executions, sent>>
    BY <1>17 DEF Shutdown, Driving
  <2>2. StepInv'
    BY <1>0, <2>1, AheadFrame DEF StepInv, AnsweredTail
  <2> QED
    BY <1>0, <2>1, <2>2, AskedFrame, TailFrame, TaskFrame
<1>18. ASSUME NEW t \in Tasks,
              \/ LinkStep(t) \/ Acknowledged(t) \/ LoseAck(t) \/ LoseTask(t)
              \/ Orphan(t) \/ Execute(t)
       PROVE  AskedInv' /\ TailInv' /\ StepInv' /\ TaskInv'
  <2>1. UNCHANGED <<pc, task, draining, status, db, taskId, memory, calls, index,
                    resuming, asked, issued>>
    BY <1>18
    DEF LinkStep, ReceiveNew, Route, ReceiveAgain, Acknowledged, LoseAck, LoseTask,
        Orphan, Execute, Fail
  <2>2. Execute(t) \/ (executions' = executions /\ sent' \subseteq sent)
    BY <1>18
    DEF LinkStep, ReceiveNew, Route, ReceiveAgain, Acknowledged, LoseAck, LoseTask,
        Orphan
  <2>3. TaskInv'
    BY <1>0, <2>1, <2>2, ExecuteOnce, TaskFrame DEF OnceInv
  <2> QED
    BY <1>0, <2>1, <2>3, AskedFrame, TailFrame, StepFrame
<1> QED
  BY <1>1, <1>2, <1>3, <1>4, <1>5, <1>6, <1>7, <1>8, <1>9, <1>10, <1>11, <1>12,
     <1>13, <1>14, <1>15, <1>16, <1>17, <1>18
  DEF Next, RunStep

\* No call is run twice, however often the process dies and the run is
\* dispatched again, as long as the history and the task ids are written when
\* the Runner and the router say they are (ExecutorLink.dispatch).
THEOREM ExecutedOnce == ASSUME ReliableRecords PROVE Spec => []AtMostOnce
<1>1. OnceInv => AtMostOnce
  <2> SUFFICES ASSUME OnceInv, NEW c \in Calls PROVE executions[c] <= 1
    BY DEF AtMostOnce
  <2>1. /\ issued[c] \in Nat /\ executions[c] \in Nat
        /\ issued[c] <= 1 /\ executions[c] <= issued[c]
    BY DEF OnceInv, TypeInv, TypeOK, TaskInv
  <2> QED
    BY <2>1
<1>2. OnceInv /\ [Next]_vars => OnceInv'
  BY OnceNext
<1> QED
  BY InitOnce, <1>1, <1>2, PTL DEF Spec
-------------------------------------------------------------------------------
(***************************************************************************)
(* One answer per call                                                     *)
(***************************************************************************)
\* A history has each batch once, and behind it at most one answer to each call.
AskedOnce(history) ==
    \A i, j \in DOMAIN history :
        (/\ history[i].role = "assistant" /\ history[j].role = "assistant"
         /\ history[i].calls = history[j].calls /\ history[i].calls # <<>>) => i = j
AnsweredOnce(history) ==
    \A i, j \in DOMAIN history :
        (/\ history[i].role = "tool" /\ history[j].role = "tool"
         /\ history[i].call = history[j].call) => i = j
AskedFor(history, c, n) ==
    \E j \in DOMAIN history :
        /\ j < n /\ history[j].role = "assistant"
        /\ \E k \in DOMAIN history[j].calls : history[j].calls[k] = c
Orderly(history) ==
    /\ AskedOnce(history) /\ AnsweredOnce(history)
    /\ \A i \in DOMAIN history :
         history[i].role = "tool" => AskedFor(history, history[i].call, i)

\* No answer yet to the calls of the batch from the n-th on.
Open(n) ==
    \A i \in DOMAIN memory, k \in DOMAIN calls :
        (k >= n /\ memory[i].role = "tool") => memory[i].call # calls[k]
Placed ==
    \E p \in DOMAIN memory : memory[p].role = "assistant" /\ memory[p].calls = calls

AnswersInv ==
    /\ HistoryAsked(db) /\ HistoryAsked(memory)
    /\ Orderly(db) /\ Orderly(memory)
    /\ pc \in {"before", "record"} => Placed /\ Open(1)
    /\ pc \in {"call", "send", "wait"} => Placed /\ Open(index)

LEMMA AnswersFrame ==
    ASSUME AnswersInv, UNCHANGED <<memory, calls, index, asked>>, db' \in {db, memory},
           pc' \notin {"before", "record", "call", "send", "wait"} \/ pc' = pc
           \/ (pc' = "record" /\ pc = "before")
           \/ (pc' \in {"send", "wait"} /\ pc \in {"call", "send", "wait"})
    PROVE  AnswersInv'
<1>1. HistoryAsked(db)' /\ HistoryAsked(memory)' /\ Orderly(db)' /\ Orderly(memory)'
  BY DEF AnswersInv, HistoryAsked, Asked, Orderly, AskedOnce, AnsweredOnce, AskedFor
<1>2. Placed => Placed'
  BY DEF Placed
<1>3. /\ Open(1) => Open(1)'
      /\ Open(index) => Open(index)'
  BY DEF Open
<1> QED
  BY <1>1, <1>2, <1>3 DEF AnswersInv

\* An answer to a call that was asked for and has none.
LEMMA AppendAnswer ==
    ASSUME NEW h \in Seq(Message), Orderly(h), NEW c \in Calls,
           NEW kind \in {"outcome", "error"}, AskedFor(h, c, Len(h) + 1),
           \A i \in DOMAIN h : h[i].role = "tool" => h[i].call # c
    PROVE  Orderly(Append(h, Answer(c, kind)))
<1> DEFINE m == Answer(c, kind)
           g == Append(h, m)
<1>1. m \in Message /\ m.role = "tool" /\ m.call = c
  BY MessageType DEF Answer
<1>2. /\ DOMAIN h = 1..Len(h) /\ Len(h) \in Nat /\ DOMAIN g = 1..Len(h) + 1
      /\ g[Len(h) + 1] = m /\ \A i \in DOMAIN h : g[i] = h[i]
  BY <1>1
<1>3. AskedOnce(g)
  BY <1>1, <1>2 DEF Orderly, AskedOnce
<1>4. AnsweredOnce(g)
  BY <1>1, <1>2 DEF Orderly, AnsweredOnce
<1>5. ASSUME NEW i \in DOMAIN g, g[i].role = "tool"
      PROVE  AskedFor(g, g[i].call, i)
  <2>1. CASE i \in DOMAIN h
    BY <1>2, <1>5, <2>1 DEF Orderly, AskedFor
  <2>2. CASE i = Len(h) + 1
    BY <1>1, <1>2, <2>2 DEF AskedFor
  <2> QED
    BY <1>2, <2>1, <2>2
<1> QED
  BY <1>3, <1>4, <1>5 DEF Orderly

\* A batch that is not there yet, or a reply.
LEMMA AppendBatch ==
    ASSUME NEW h \in Seq(Message), Orderly(h),
           NEW batch \in {<<>>} \cup {Batches[b] : b \in DOMAIN Batches},
           batch = <<>> \/ \A i \in DOMAIN h : h[i].role = "assistant" => h[i].calls # batch
    PROVE  Orderly(Append(h, Ask(batch)))
<1> DEFINE m == Ask(batch)
           g == Append(h, m)
<1>1. m \in Message /\ m.role = "assistant" /\ m.calls = batch
  BY MessageType
<1>2. /\ DOMAIN h = 1..Len(h) /\ Len(h) \in Nat /\ DOMAIN g = 1..Len(h) + 1
      /\ g[Len(h) + 1] = m /\ \A i \in DOMAIN h : g[i] = h[i]
  BY <1>1
<1>3. AskedOnce(g)
  BY <1>1, <1>2 DEF Orderly, AskedOnce
<1>4. AnsweredOnce(g)
  BY <1>1, <1>2 DEF Orderly, AnsweredOnce
<1>5. ASSUME NEW i \in DOMAIN g, g[i].role = "tool"
      PROVE  AskedFor(g, g[i].call, i)
  <2>1. i \in DOMAIN h /\ h[i].role = "tool"
    BY <1>1, <1>2, <1>5
  <2> QED
    BY <1>2, <2>1 DEF Orderly, AskedFor
<1> QED
  BY <1>3, <1>4, <1>5 DEF Orderly

LEMMA LandAnswers ==
    ASSUME TypeInv, AnswersInv, pc \in {"call", "send", "wait"},
           NEW kind \in {"outcome", "error"}, Land(kind), UNCHANGED <<db, asked>>
    PROVE  AnswersInv'
<1> DEFINE m == Answer(Current, kind)
<1>1. /\ memory' = Append(memory, m) /\ memory \in Seq(Message) /\ calls \in Seq(Calls)
      /\ index' = index + 1 /\ index \in DOMAIN calls /\ Current \in Calls
      /\ calls' = calls /\ pc' \in {"call", "end"}
  BY AtCall, HistoryType DEF Land
<1>2. m \in Message /\ m.role = "tool" /\ m.call = Current
  BY <1>1, MessageType DEF Answer
<1>3. /\ DOMAIN memory = 1..Len(memory) /\ Len(memory) \in Nat
      /\ DOMAIN memory' = 1..Len(memory) + 1
      /\ memory'[Len(memory) + 1] = m /\ \A i \in DOMAIN memory : memory'[i] = memory[i]
  BY <1>1, <1>2
<1>4. Placed /\ Open(index)
  BY DEF AnswersInv
<1>5. AskedFor(memory, Current, Len(memory) + 1)
  BY <1>1, <1>3, <1>4 DEF Placed, AskedFor, Current
<1>6. \A i \in DOMAIN memory : memory[i].role = "tool" => memory[i].call # Current
  BY <1>1, <1>4 DEF Open, Current
<1>7. Orderly(memory) /\ Orderly(db)
  BY DEF AnswersInv
<1>8. Orderly(memory')
  <2>1. Orderly(Append(memory, m))
    BY <1>1, <1>5, <1>6, <1>7, AppendAnswer
  <2> QED
    BY <1>1, <2>1
<1>9. Orderly(memory)' /\ Orderly(db)'
  BY <1>7, <1>8 DEF Orderly, AskedOnce, AnsweredOnce, AskedFor
<1>10. HistoryAsked(memory)' /\ HistoryAsked(db)'
  BY <1>2, <1>3 DEF AnswersInv, HistoryAsked, Asked
<1>11. Placed'
  BY <1>1, <1>3, <1>4 DEF Placed
<1>12. Open(index)'
  <2> SUFFICES ASSUME NEW i \in DOMAIN memory', NEW k \in DOMAIN calls,
                      k >= index + 1, memory'[i].role = "tool"
               PROVE  memory'[i].call # calls[k]
    BY <1>1 DEF Open
  <2>1. CASE i \in DOMAIN memory
    BY <1>1, <1>3, <1>4, <2>1 DEF Open
  <2>2. CASE i = Len(memory) + 1
    <3>1. calls[index] # calls[k]
      BY <1>1, DistinctCalls DEF TypeInv
    <3> QED
      BY <1>2, <1>3, <2>2, <3>1 DEF Current
  <2> QED
    BY <1>3, <2>1, <2>2
<1> QED
  BY <1>1, <1>9, <1>10, <1>11, <1>12 DEF AnswersInv

\* A batch the histories do not have yet is in no answer's way.
LEMMA AskAnswers == TypeInv /\ AnswersInv /\ AskModel => AnswersInv'
<1> SUFFICES ASSUME TypeInv, AnswersInv, AskModel PROVE AnswersInv'
  OBVIOUS
<1> USE DEF TypeInv
<1> DEFINE batch == Batches[asked + 1]
<1>1. /\ pc' = "before" /\ calls' = batch /\ memory' = Append(memory, Ask(batch))
      /\ asked' = asked + 1 /\ asked \in Nat /\ asked + 1 \in DOMAIN Batches /\ db' = db
      /\ memory \in Seq(Message)
  BY BatchesAssumption DEF AskModel, Request, At, Goto, store, TypeOK
<1>2. /\ batch \in Seq(Calls) /\ Ask(batch) \in Message
      /\ Ask(batch).role = "assistant" /\ Ask(batch).calls = batch
      /\ batch # <<>> /\ batch \in {Batches[b] : b \in DOMAIN Batches}
  BY <1>1, BatchType, MessageType
<1>3. /\ DOMAIN memory = 1..Len(memory) /\ Len(memory) \in Nat
      /\ DOMAIN memory' = 1..Len(memory) + 1 /\ memory'[Len(memory) + 1] = Ask(batch)
      /\ \A i \in DOMAIN memory : memory'[i] = memory[i]
  BY <1>1, <1>2
\* No earlier batch has a call of this one.
<1>4. ASSUME NEW b \in 1..asked, NEW k \in DOMAIN Batches[b], NEW l \in DOMAIN batch
      PROVE  Batches[b][k] # batch[l]
  <2>1. b \in DOMAIN Batches /\ b # asked + 1
    BY <1>1, BatchesAssumption
  <2> QED
    BY <1>1, <2>1, BatchesAssumption
<1>5. ASSUME NEW i \in DOMAIN memory, memory[i].role = "assistant",
             NEW k \in DOMAIN memory[i].calls, NEW l \in DOMAIN batch
      PROVE  memory[i].calls[k] # batch[l]
  <2>1. Asked(memory[i].calls)
    BY <1>5 DEF AnswersInv, HistoryAsked
  <2>2. memory[i].calls # <<>>
    BY <1>5
  <2> QED
    BY <1>4, <1>5, <2>1, <2>2 DEF Asked
<1>6. ASSUME NEW i \in DOMAIN memory, memory[i].role = "assistant"
      PROVE  memory[i].calls # batch
  <2>1. 1 \in DOMAIN batch
    BY <1>2
  <2> QED
    BY <1>5, <1>6, <2>1
<1>7. Orderly(memory) /\ Orderly(db)
  BY DEF AnswersInv
<1>8. Orderly(Append(memory, Ask(batch)))
  BY <1>1, <1>2, <1>6, <1>7, AppendBatch
<1>9. Orderly(memory)' /\ Orderly(db)'
  BY <1>1, <1>7, <1>8 DEF Orderly, AskedOnce, AnsweredOnce, AskedFor
<1>10. HistoryAsked(memory)' /\ HistoryAsked(db)'
  <2>1. asked + 1 \in 1..asked' /\ \A b \in 1..asked : b \in 1..asked'
    BY <1>1
  <2>2. \A h : Asked(h) => Asked(h)'
    BY <2>1 DEF Asked
  <2>3. Asked(calls)'
    BY <1>1, <2>1 DEF Asked
  <2> QED
    BY <1>1, <1>2, <1>3, <2>2, <2>3 DEF AnswersInv, HistoryAsked
<1>11. Placed'
  BY <1>1, <1>2, <1>3 DEF Placed
<1>12. Open(1)'
  <2> SUFFICES ASSUME NEW i \in DOMAIN memory', NEW k \in DOMAIN batch,
                      memory'[i].role = "tool"
               PROVE  memory'[i].call # batch[k]
    BY <1>1 DEF Open
  <2>1. i \in DOMAIN memory /\ memory[i].role = "tool"
    BY <1>2, <1>3
  <2>2. AskedFor(memory, memory[i].call, i)
    BY <1>7, <2>1 DEF Orderly
  <2> QED
    BY <1>3, <1>5, <2>1, <2>2 DEF AskedFor
<1> QED
  BY <1>1, <1>9, <1>10, <1>11, <1>12 DEF AnswersInv

\* An answer to a call of the batch at the end would be behind another batch
\* that has the call.
LEMMA RedispatchAnswers == TypeInv /\ AnswersInv /\ Redispatch => AnswersInv'
<1> SUFFICES ASSUME TypeInv, AnswersInv, Redispatch PROVE AnswersInv'
  OBVIOUS
<1> DEFINE n == Len(memory)
<1>1. /\ pc' = "call" /\ calls' = TailBatch /\ TailBatch # <<>> /\ index' = 1
      /\ UNCHANGED <<db, memory, asked>>
  BY DEF Redispatch, Resumable, Goto, store, world
<1>2. /\ memory \in Seq(Message) /\ memory # <<>> /\ memory[n].role = "assistant"
      /\ TailBatch = memory[n].calls
  BY <1>1 DEF TailBatch, TypeInv, TypeOK
<1>3. n \in DOMAIN memory /\ \A i \in DOMAIN memory : i <= n
  BY <1>2
<1>4. Placed'
  BY <1>1, <1>2, <1>3 DEF Placed
<1>5. Open(1)'
  <2> SUFFICES ASSUME NEW i \in DOMAIN memory, NEW k \in DOMAIN TailBatch,
                      memory[i].role = "tool", memory[i].call = TailBatch[k]
               PROVE  FALSE
    BY <1>1 DEF Open
  <2>1. PICK j \in DOMAIN memory :
          /\ j < i /\ memory[j].role = "assistant"
          /\ \E l \in DOMAIN memory[j].calls : memory[j].calls[l] = TailBatch[k]
    BY DEF AnswersInv, Orderly, AskedFor
  <2>2. Asked(memory[j].calls) /\ Asked(TailBatch) /\ memory[j].calls # <<>>
    BY <1>2, <1>3, <2>1 DEF AnswersInv, HistoryAsked
  <2>3. memory[j].calls = TailBatch
    <3>1. /\ \E b \in 1..asked : memory[j].calls = Batches[b]
          /\ \E b \in 1..asked : TailBatch = Batches[b]
      BY <1>1, <2>2 DEF Asked
    <3>2. \A b \in 1..asked : b \in DOMAIN Batches
      BY BatchesAssumption DEF TypeInv, TypeOK
    <3> QED
      BY <2>1, <3>1, <3>2, BatchesAssumption
  <2>4. j = n
    BY <1>1, <1>2, <1>3, <2>1, <2>3 DEF AnswersInv, Orderly, AskedOnce
  <2> QED
    BY <1>2, <1>3, <2>1, <2>4
<1>6. HistoryAsked(memory)' /\ HistoryAsked(db)' /\ Orderly(memory)' /\ Orderly(db)'
  BY <1>1 DEF AnswersInv, HistoryAsked, Asked, Orderly, AskedOnce, AnsweredOnce, AskedFor
<1> QED
  BY <1>1, <1>4, <1>5, <1>6 DEF AnswersInv, Open

LEMMA AnswersNext == TypeInv /\ AnswersInv /\ [Next]_vars => AnswersInv'
<1> SUFFICES ASSUME TypeInv, AnswersInv, [Next]_vars PROVE AnswersInv'
  OBVIOUS
<1> USE DEF At, Goto, store, ledger, step, control, link, remote, world
<1>1. CASE UNCHANGED vars
  BY <1>1, AnswersFrame DEF vars
<1>2. CASE Redispatch
  BY <1>2, RedispatchAnswers
<1>3. CASE AskModel
  BY <1>3, AskAnswers
<1>4. CASE Conclude
  <2>1. /\ memory' = Append(memory, Ask(<<>>)) /\ pc' = "end" /\ UNCHANGED <<db, asked>>
        /\ memory \in Seq(Message)
    BY <1>4 DEF Conclude, Request, TypeInv, TypeOK
  <2>2. Ask(<<>>) \in Message /\ Ask(<<>>).calls = <<>>
    BY MessageType
  <2>3. Orderly(memory') /\ HistoryAsked(memory')
    BY <2>1, <2>2, AppendBatch, AppendOnce DEF AnswersInv, Asked, TypeInv
  <2> QED
    BY <2>1, <2>3
    DEF AnswersInv, HistoryAsked, Asked, Orderly, AskedOnce, AnsweredOnce, AskedFor
<1>5. CASE BeforeDispatch \/ EndStep \/ Finalize
  <2>1. /\ db' \in {db, memory} /\ UNCHANGED <<memory, calls, index, asked>>
        /\ (pc' = "record" /\ pc = "before") \/ pc' \in {"settle", "finish"}
    BY <1>5 DEF BeforeDispatch, EndStep, Finalize, Persist, Fail
  <2> QED
    BY <2>1, AnswersFrame
<1>6. CASE RecordDispatch
  <2>1. /\ pc = "record" /\ pc' \in {"record", "call"} /\ (pc' = "call" => index' = 1)
        /\ UNCHANGED <<db, memory, calls, asked>>
    BY <1>6 DEF RecordDispatch, Fail
  <2>2. HistoryAsked(memory)' /\ HistoryAsked(db)' /\ Orderly(memory)' /\ Orderly(db)'
    BY <2>1 DEF AnswersInv, HistoryAsked, Asked, Orderly, AskedOnce, AnsweredOnce, AskedFor
  <2>3. Placed' /\ Open(1)'
    BY <2>1 DEF AnswersInv, Placed, Open
  <2> QED
    BY <2>1, <2>2, <2>3 DEF AnswersInv, Open
<1>7. CASE SettleDispatches \/ SeeStop \/ Cancelled \/ Finish
  <2>1. /\ pc' \in {"plan", "final", "none"} /\ UNCHANGED <<db, memory, calls, index, asked>>
    BY <1>7 DEF SettleDispatches, ClearDispatches, Fail, SeeStop, Cancelled, Finish
  <2> QED
    BY <2>1, AnswersFrame
<1>8. CASE IssueTask \/ Send \/ AwaitReplay
  <2>1. /\ pc' \in {"send", "wait"} /\ pc \in {"call", "send"}
        /\ UNCHANGED <<db, memory, calls, index, asked>>
    BY <1>8 DEF IssueTask, Send, AwaitReplay, Dispatching, Fail
  <2> QED
    BY <2>1, AnswersFrame
<1>9. CASE SendFails \/ TakeParked \/ Collect \/ TimeOut
  <2>1. PICK kind \in {"outcome", "error"} : Land(kind)
    BY <1>9 DEF SendFails, TakeParked, Collect, TimeOut, Return
  <2>2. pc \in {"call", "send", "wait"} /\ UNCHANGED <<db, asked>>
    BY <1>9 DEF SendFails, TakeParked, Dispatching, Collect, TimeOut, Return, Fail
  <2> QED
    BY <2>1, <2>2, LandAnswers
<1>10. CASE Recover \/ Crash
  <2>1. /\ memory' \in {db, <<>>} /\ pc' \in {"plan", "none"} /\ UNCHANGED <<db, asked>>
    BY <1>10 DEF Recover, Crash, Forget
  <2>2. Orderly(<<>>) /\ HistoryAsked(<<>>)
    BY DEF Orderly, AskedOnce, AnsweredOnce, HistoryAsked
  <2> QED
    BY <2>1, <2>2
    DEF AnswersInv, HistoryAsked, Asked, Orderly, AskedOnce, AnsweredOnce, AskedFor
<1>11. CASE RequestStop \/ Restart \/ Shutdown
  BY <1>11, AnswersFrame DEF RequestStop, Restart, Shutdown
<1>12. ASSUME NEW t \in Tasks,
              \/ LinkStep(t) \/ Acknowledged(t) \/ LoseAck(t) \/ LoseTask(t)
              \/ Orphan(t) \/ Execute(t)
       PROVE  AnswersInv'
  <2>1. UNCHANGED <<pc, db, memory, calls, index, asked>>
    BY <1>12
    DEF LinkStep, ReceiveNew, Route, ReceiveAgain, Acknowledged, LoseAck, LoseTask,
        Orphan, Execute, Fail
  <2> QED
    BY <2>1, AnswersFrame
<1> QED
  BY <1>1, <1>2, <1>3, <1>4, <1>5, <1>6, <1>7, <1>8, <1>9, <1>10, <1>11, <1>12
  DEF Next, RunStep

\* The history never has two answers to a call, for any batches, deaths, failures of
\* any operation and interruptions: a run started again dispatches only a batch that
\* ends the history, and answers its calls in order (Runner.plan_step).
THEOREM AnsweredOnceEach == Spec => []OneAnswer
<1>1. Init => AnswersInv
  BY DEF Init, AnswersInv, HistoryAsked, Orderly, AskedOnce, AnsweredOnce
<1>2. AnswersInv => OneAnswer
  BY DEF AnswersInv, Orderly, AnsweredOnce, OneAnswer
<1> QED
  BY <1>1, <1>2, InitType, TypeNext, AnswersNext, PTL DEF Spec
-------------------------------------------------------------------------------
(***************************************************************************)
(* Nobody waits behind a parked outcome                                    *)
(***************************************************************************)
\* A task that is anywhere has been issued; one that is still to be sent is nowhere.
Underway == sent \cup outbox \cup receiving \cup parked
IssuedInv ==
    /\ \A c \in Calls : taskId[c] <= issued[c]
    /\ \A t \in Underway \cup waiting : t[2] <= issued[t[1]]
    /\ pc = "send" => task \notin Underway /\ task[2] <= issued[task[1]]
ParkedInv == IssuedInv /\ NeverBehindParked

LEMMA ParkedFrame ==
    ASSUME IssuedInv, NeverBehindParked, UNCHANGED <<taskId, issued>>, failures' >= failures,
           failures \in Nat, failures' \in Nat, Underway' \subseteq Underway,
           waiting' \subseteq waiting, parked' \subseteq parked,
           pc' # "send" \/ UNCHANGED <<pc, task>>
    PROVE  ParkedInv'
<1>1. IssuedInv'
  BY DEF IssuedInv
<1>2. failures' = 0 => failures = 0
  OBVIOUS
<1>3. NeverBehindParked'
  BY <1>2 DEF NeverBehindParked
<1> QED
  BY <1>1, <1>3 DEF ParkedInv

LEMMA ParkedNext == TypeInv /\ TypeInv' /\ ParkedInv /\ [Next]_vars => ParkedInv'
<1> SUFFICES ASSUME TypeInv, TypeInv', ParkedInv, [Next]_vars PROVE ParkedInv'
  OBVIOUS
<1> USE DEF At, Goto, store, ledger, step, control, link, remote, world
<1>0. /\ IssuedInv /\ NeverBehindParked /\ failures \in Nat /\ failures' \in Nat
      /\ taskId \in [Calls -> Nat] /\ issued \in [Calls -> Nat]
      /\ Underway \subseteq Task /\ waiting \subseteq Task
  BY BoundsAssumption DEF ParkedInv, TypeInv, TypeOK, Underway
<1>1. CASE UNCHANGED vars
  BY <1>0, <1>1, ParkedFrame DEF vars, Underway
<1>2. CASE \/ Redispatch \/ AskModel \/ Conclude \/ BeforeDispatch \/ RecordDispatch \/ EndStep
           \/ SeeStop \/ Finalize \/ Finish \/ Recover \/ Cancelled \/ RequestStop \/ Shutdown
           \/ Restart
  <2>1. /\ UNCHANGED <<taskId, issued, sent, outbox, receiving, parked, waiting>>
        /\ failures' >= failures /\ (pc' # "send" \/ UNCHANGED <<pc, task>>)
    BY <1>0, <1>2
    DEF Redispatch, AskModel, Conclude, Request, BeforeDispatch, EndStep, Persist, Fail,
        RecordDispatch, SeeStop, Finalize, Finish, Recover, Cancelled, RequestStop,
        Shutdown, Restart
  <2> QED
    BY <1>0, <2>1, ParkedFrame DEF Underway
<1>3. CASE SettleDispatches
  <2>1. /\ UNCHANGED <<issued, sent, outbox, receiving, parked, waiting>>
        /\ failures' >= failures /\ pc' # "send"
        /\ taskId' = taskId \/ taskId' = [c \in Calls |-> 0]
    <3>1. /\ UNCHANGED <<issued, sent, outbox, receiving, parked, waiting>> /\ pc' # "send"
          /\ ClearDispatches \/ UNCHANGED <<taskId, failures>>
      BY <1>3 DEF SettleDispatches, ClearDispatches, Fail
    <3> QED
      BY <1>0, <3>1 DEF ClearDispatches, Fail
  <2>2. IssuedInv'
    BY <1>0, <2>1 DEF IssuedInv, Underway
  <2>3. NeverBehindParked'
    BY <1>0, <2>1 DEF NeverBehindParked
  <2> QED
    BY <2>2, <2>3 DEF ParkedInv
<1>4. CASE IssueTask
  <2>1. /\ pc = "call" /\ pc' = "send" /\ Current \in Calls
        /\ task' = <<Current, issued[Current] + 1>>
        /\ issued' = [issued EXCEPT ![Current] = @ + 1]
        /\ taskId' = taskId \/ taskId' = [taskId EXCEPT ![Current] = issued'[Current]]
        /\ UNCHANGED <<sent, outbox, receiving, parked, waiting>> /\ failures' >= failures
    BY <1>0, <1>4, CallsType DEF IssueTask, Dispatching, TypeInv, IndexInv
  <2>2. issued'[Current] = issued[Current] + 1 /\ \A c \in Calls : issued'[c] >= issued[c]
    BY <1>0, <2>1
  <2>3. \A c \in Calls : taskId'[c] <= issued'[c]
    BY <1>0, <2>1, <2>2 DEF IssuedInv
  <2>4. \A t \in Underway \cup waiting : t[2] <= issued'[t[1]]
    <3> SUFFICES ASSUME NEW t \in Underway \cup waiting PROVE t[2] <= issued'[t[1]]
      OBVIOUS
    <3>1. t[1] \in Calls /\ t[2] \in Nat /\ t[2] <= issued[t[1]]
      BY <1>0 DEF IssuedInv, Task
    <3>2. issued[t[1]] \in Nat /\ issued'[t[1]] \in Nat /\ issued[t[1]] <= issued'[t[1]]
      BY <1>0, <2>1, <2>2, <3>1
    <3> QED
      BY <3>1, <3>2
  <2>5. task' \notin Underway
    <3>1. task'[1] = Current /\ task'[2] = issued[Current] + 1 /\ issued[Current] \in Nat
      BY <1>0, <2>1
    <3> QED
      BY <1>0, <3>1 DEF IssuedInv
  <2>6. IssuedInv'
    BY <1>0, <2>1, <2>2, <2>3, <2>4, <2>5 DEF IssuedInv, Underway
  <2>7. NeverBehindParked'
    BY <1>0, <2>1 DEF NeverBehindParked
  <2> QED
    BY <2>6, <2>7 DEF ParkedInv
<1>5. CASE Send
  <2>1. /\ pc = "send" /\ pc' = "wait" /\ waiting' = waiting \cup {task} /\ sent' = sent \cup {task}
        /\ UNCHANGED <<taskId, issued, outbox, receiving, parked, failures>>
    BY <1>5 DEF Send
  <2>2. task \notin parked /\ task[2] <= issued[task[1]]
    BY <1>0, <2>1 DEF IssuedInv, Underway
  <2>3. IssuedInv'
    BY <1>0, <2>1, <2>2 DEF IssuedInv, Underway
  <2>4. NeverBehindParked'
    BY <1>0, <2>1, <2>2 DEF NeverBehindParked
  <2> QED
    BY <2>3, <2>4 DEF ParkedInv
<1>6. CASE SendFails \/ TakeParked \/ Collect \/ TimeOut \/ Crash
  <2>1. /\ UNCHANGED <<taskId, issued, sent, outbox>> /\ receiving' \subseteq receiving
        /\ parked' \subseteq parked /\ waiting' \subseteq waiting
        /\ failures' >= failures /\ pc' # "send"
    BY <1>0, <1>6
    DEF SendFails, TakeParked, Collect, TimeOut, Return, Land, Fail, Crash, Forget
  <2> QED
    BY <1>0, <2>1, ParkedFrame DEF Underway
<1>7. CASE AwaitReplay
  <2>1. /\ pc = "call" /\ pc' = "wait" /\ waiting' = waiting \cup {KnownTask}
        /\ KnownTask \notin parked \/ failures' > failures
        /\ UNCHANGED <<taskId, issued, sent, outbox, receiving, parked>>
        /\ failures' >= failures /\ Current \in Calls
    BY <1>0, <1>7, CallsType DEF AwaitReplay, Dispatching, Fail, TypeInv, IndexInv
  <2>2. KnownTask[2] <= issued[KnownTask[1]]
    BY <1>0, <2>1 DEF IssuedInv, KnownTask
  <2>3. IssuedInv'
    BY <1>0, <2>1, <2>2 DEF IssuedInv, Underway
  <2>4. failures' = 0 => failures = 0 /\ KnownTask \notin parked
    BY <1>0, <2>1
  <2>5. NeverBehindParked'
    BY <1>0, <2>1, <2>4 DEF NeverBehindParked
  <2> QED
    BY <2>3, <2>5 DEF ParkedInv
<1>8. ASSUME NEW t \in Tasks,
             \/ LinkStep(t) \/ Acknowledged(t) \/ LoseAck(t) \/ LoseTask(t)
             \/ Orphan(t) \/ Execute(t)
      PROVE  ParkedInv'
  <2>1. UNCHANGED <<pc, task, taskId, issued>> /\ failures' >= failures
    BY <1>0, <1>8
    DEF LinkStep, ReceiveNew, Route, ReceiveAgain, Acknowledged, LoseAck, LoseTask,
        Orphan, Execute, Fail
  <2>2. Underway' \subseteq Underway /\ waiting' \subseteq waiting
    BY <1>8
    DEF LinkStep, ReceiveNew, Route, ReceiveAgain, Acknowledged, LoseAck, LoseTask,
        Orphan, Execute, Fail, Underway
  <2>3. parked' \subseteq parked \/ (parked' = parked \cup {t} /\ t \notin waiting')
    BY <1>8
    DEF LinkStep, ReceiveNew, Route, ReceiveAgain, Acknowledged, LoseAck, LoseTask,
        Orphan, Execute, Fail
  <2>4. IssuedInv'
    BY <1>0, <2>1, <2>2 DEF IssuedInv
  <2>5. failures' = 0 => failures = 0
    BY <1>0, <2>1
  <2>6. NeverBehindParked'
    BY <1>0, <2>2, <2>3, <2>5 DEF NeverBehindParked
  <2> QED
    BY <2>4, <2>6 DEF ParkedInv
<1> QED
  BY <1>1, <1>2, <1>3, <1>4, <1>5, <1>6, <1>7, <1>8 DEF Next, RunStep

\* Nobody waits for an outcome that is already parked, when no operation failed: a task
\* is sent before it can have an outcome, a resumed dispatch looks before it waits, and
\* an outcome is parked only if nobody waits (ExecutorLink.dispatch, receive).
THEOREM ParkedIsCollected == Spec => []NeverBehindParked
<1>1. Init => ParkedInv
  BY DEF Init, ParkedInv, IssuedInv, Underway, NeverBehindParked
<1>2. ParkedInv => NeverBehindParked
  BY DEF ParkedInv
<1> QED
  BY <1>1, <1>2, InitType, TypeNext, ParkedNext, PTL DEF Spec
-------------------------------------------------------------------------------
(***************************************************************************)
(* The evidence a successor resumes from                                   *)
(***************************************************************************)
Extends(longer, history) ==
    Len(history) <= Len(longer) /\ \A i \in DOMAIN history : longer[i] = history[i]
HasBatch(history) == \E p \in DOMAIN history : history[p] = Ask(calls)

\* What is in the database for a task; it stays when the history grows.
Evidence(t) ==
    \E i \in DOMAIN db :
        /\ \E b \in DOMAIN Batches :
             db[i] = Ask(Batches[b]) /\ \E k \in DOMAIN Batches[b] : Batches[b][k] = t[1]
        /\ \/ taskId[t[1]] = t[2]
           \/ Answered(db, t[1])
           \/ \E j \in DOMAIN db : j > i /\ db[j].role = "assistant"
AllEvidence == \A t \in sent \cup outbox \cup waiting : Evidence(t)

\* The batch of the step is the last one, with the answers that were collected.
LastBatch ==
    \E p \in DOMAIN memory :
        memory[p] = Ask(calls) /\ \A j \in DOMAIN memory : j > p => memory[j].role = "tool"
Collected(n) == \A k \in DOMAIN calls : k < n => Answered(memory, calls[k])

WrittenInv ==
    /\ pc # "none" => Extends(memory, db)
    /\ pc \in {"plan", "settle"} => db = memory
    /\ pc \in {"before", "record", "call", "send", "wait", "end", "settle"} => LastBatch
    /\ pc \in {"record", "call", "send", "wait"} => HasBatch(db)
    /\ pc \in {"call", "send", "wait"} => Collected(index)
    /\ pc \in {"end", "settle"} => Collected(Len(calls) + 1)
    /\ pc = "send" => taskId[task[1]] = task[2]
EvidenceInv == failures = 0 => AllEvidence /\ WrittenInv

LEMMA EvidenceGrows ==
    ASSUME AllEvidence, db \in Seq(Message), db' \in Seq(Message), Extends(db', db),
           taskId' = taskId, (sent \cup outbox \cup waiting)' \subseteq sent \cup outbox \cup waiting
    PROVE  AllEvidence'
<1> SUFFICES ASSUME NEW t \in sent \cup outbox \cup waiting PROVE Evidence(t)'
  BY DEF AllEvidence
<1>1. \A i \in DOMAIN db : i \in DOMAIN db' /\ db'[i] = db[i]
  BY DEF Extends
<1>2. Answered(db, t[1]) => Answered(db', t[1])
  BY <1>1 DEF Answered, Answers
<1>3. Evidence(t)
  BY DEF AllEvidence
<1>4. PICK i \in DOMAIN db :
        /\ \E b \in DOMAIN Batches :
             db[i] = Ask(Batches[b]) /\ \E k \in DOMAIN Batches[b] : Batches[b][k] = t[1]
        /\ \/ taskId[t[1]] = t[2]
           \/ Answered(db, t[1])
           \/ \E j \in DOMAIN db : j > i /\ db[j].role = "assistant"
  BY <1>3 DEF Evidence
<1>5. i \in DOMAIN db' /\ db'[i] = db[i]
  BY <1>1
<1>6. \/ taskId'[t[1]] = t[2]
      \/ Answered(db', t[1])
      \/ \E j \in DOMAIN db' : j > i /\ db'[j].role = "assistant"
  BY <1>1, <1>2, <1>4
<1> QED
  BY <1>4, <1>5, <1>6 DEF Evidence, Answered, Answers

\* The call at hand is in the batch, and the batch in the database.
LEMMA EvidenceAtHand ==
    ASSUME TypeInv, WrittenInv, pc \in {"call", "send", "wait"},
           NEW n, taskId[Current] = n
    PROVE  Evidence(<<Current, n>>)
<1>1. PICK p \in DOMAIN db : db[p] = Ask(calls)
  BY DEF WrittenInv, HasBatch
<1>2. calls \in Seq(Calls) /\ index \in DOMAIN calls
  BY AtCall
<1>3. PICK b \in DOMAIN Batches : calls = Batches[b]
  <2>1. calls \in {<<>>} \cup {Batches[b] : b \in DOMAIN Batches}
    BY DEF TypeInv, TypeOK
  <2> QED
    BY <1>2, <2>1
<1>4. \E k \in DOMAIN Batches[b] : Batches[b][k] = Current
  BY <1>2, <1>3 DEF Current
<1> QED
  BY <1>1, <1>3, <1>4 DEF Evidence

LEMMA BatchMessage == \A m \in Message : m.role = "assistant" => m = Ask(m.calls)
<1> SUFFICES ASSUME NEW m \in Message, m.role = "assistant" PROVE m = Ask(m.calls)
  OBVIOUS
<1>1. CASE m = Reply
  BY <1>1 DEF Reply, Ask
<1>2. CASE \E b \in DOMAIN Batches : m = Ask(Batches[b])
  BY <1>2 DEF Ask
<1>3. CASE \E c \in Calls, kind \in {"outcome", "error"} : m = Answer(c, kind)
  BY <1>3 DEF Answer
<1> QED
  BY <1>1, <1>2, <1>3 DEF Message

LEMMA LandEvidence ==
    ASSUME TypeInv, WrittenInv, pc \in {"call", "send", "wait"},
           NEW kind \in {"outcome", "error"}, Land(kind), UNCHANGED <<db, taskId>>
    PROVE  WrittenInv'
<1> DEFINE m == Answer(Current, kind)
<1>1. /\ memory' = Append(memory, m) /\ memory \in Seq(Message) /\ calls \in Seq(Calls)
      /\ index' = index + 1 /\ index \in DOMAIN calls /\ Current \in Calls
      /\ calls' = calls /\ pc' = IF index < Len(calls) THEN "call" ELSE "end"
  BY AtCall, HistoryType DEF Land
<1>2. m \in Message /\ m.role = "tool"
  BY <1>1, MessageType
<1>3. /\ DOMAIN memory = 1..Len(memory) /\ Len(memory) \in Nat /\ Len(memory') = Len(memory) + 1
      /\ DOMAIN memory' = 1..Len(memory) + 1
      /\ memory'[Len(memory) + 1] = m /\ \A i \in DOMAIN memory : memory'[i] = memory[i]
  BY <1>1, <1>2
<1>4. db \in Seq(Message) /\ Extends(memory, db)
  BY DEF WrittenInv, TypeInv, TypeOK
<1>5. Extends(memory, db)'
  BY <1>3, <1>4 DEF Extends
<1>6. LastBatch'
  <2>1. PICK p \in DOMAIN memory :
          memory[p] = Ask(calls) /\ \A j \in DOMAIN memory : j > p => memory[j].role = "tool"
    BY DEF WrittenInv, LastBatch
  <2>2. p \in DOMAIN memory' /\ memory'[p] = Ask(calls)
    BY <1>3, <2>1
  <2>3. \A j \in DOMAIN memory' : j > p => memory'[j].role = "tool"
    BY <1>2, <1>3, <2>1
  <2> QED
    BY <1>1, <2>2, <2>3 DEF LastBatch, Ask
<1>7. HasBatch(db)'
  BY <1>1 DEF WrittenInv, HasBatch, Ask
<1>8. Collected(index)'
  <2> SUFFICES ASSUME NEW k \in DOMAIN calls, k < index + 1 PROVE Answered(memory', calls[k])
    BY <1>1 DEF Collected, Answered, Answers
  <2>1. CASE k < index
    <3>1. Answered(memory, calls[k])
      BY <2>1 DEF WrittenInv, Collected
    <3> QED
      BY <1>3, <3>1 DEF Answered, Answers
  <2>2. CASE k = index
    BY <1>3, <2>2 DEF Answered, Answers, Current
  <2> QED
    BY <1>1, <2>1, <2>2
<1>9. pc' = "end" => Collected(Len(calls) + 1)'
  <2>1. pc' = "end" => index + 1 = Len(calls) + 1
    BY <1>1
  <2> QED
    BY <1>1, <1>8, <2>1 DEF Collected
<1> QED
  BY <1>1, <1>5, <1>6, <1>7, <1>8, <1>9 DEF WrittenInv

\* The records are cleared when the answers are in the database.
LEMMA SettleEvidence ==
    ASSUME TypeInv, AllEvidence, WrittenInv, SettleDispatches
    PROVE  AllEvidence' /\ WrittenInv'
<1> USE DEF At, Goto, store, ledger, link, remote, world
<1>1. /\ pc = "settle" /\ pc' \in {"plan", "final"} /\ db = memory
      /\ UNCHANGED <<db, memory, calls, index, sent, outbox, waiting>>
      /\ calls = <<>> => taskId' = taskId
      /\ db \in Seq(Message)
  BY DEF SettleDispatches, WrittenInv, TypeInv, TypeOK
<1>2. WrittenInv'
  BY <1>1 DEF WrittenInv, Extends
<1>3. ASSUME NEW t \in sent \cup outbox \cup waiting
      PROVE  Evidence(t)'
  <2>1. PICK i \in DOMAIN db, b \in DOMAIN Batches :
          /\ db[i] = Ask(Batches[b]) /\ \E k \in DOMAIN Batches[b] : Batches[b][k] = t[1]
          /\ \/ taskId[t[1]] = t[2]
             \/ Answered(db, t[1])
             \/ \E j \in DOMAIN db : j > i /\ db[j].role = "assistant"
    BY DEF AllEvidence, Evidence
  <2>2. PICK p \in DOMAIN memory :
          memory[p] = Ask(calls) /\ \A j \in DOMAIN memory : j > p => memory[j].role = "tool"
    BY <1>1 DEF WrittenInv, LastBatch
  <2>3. CASE i < p
    <3>1. p \in DOMAIN db /\ p > i /\ db[p].role = "assistant"
      BY <1>1, <2>2, <2>3 DEF Ask
    <3> QED
      BY <1>1, <2>1, <3>1 DEF Evidence, Answered, Answers
  <2>4. CASE i = p
    <3>1. calls = Batches[b]
      BY <1>1, <2>1, <2>2, <2>4 DEF Ask
    <3>2. calls \in Seq(Calls) /\ \A k \in DOMAIN calls : k < Len(calls) + 1
      BY CallsType DEF TypeInv
    <3>3. Answered(db, t[1])
      BY <1>1, <2>1, <3>1, <3>2 DEF WrittenInv, Collected
    <3> QED
      BY <1>1, <2>1, <3>3 DEF Evidence, Answered, Answers
  <2>5. ~(i > p)
    BY <1>1, <2>1, <2>2 DEF Ask
  <2> QED
    BY <1>1, <2>2, <2>3, <2>4, <2>5
<1> QED
  BY <1>1, <1>2, <1>3 DEF AllEvidence

\* A call that gets its first task has no other anywhere.
LEMMA IssueEvidence ==
    ASSUME OnceInv, IssuedInv, AllEvidence, WrittenInv, IssueTask, failures' = failures
    PROVE  AllEvidence' /\ WrittenInv'
<1> USE DEF OnceInv, TypeInv
<1>1. /\ pc = "call" /\ pc' = "send" /\ Current \in Calls /\ ~Known
      /\ task' = <<Current, issued[Current] + 1>>
      /\ taskId' = [taskId EXCEPT ![Current] = issued[Current] + 1]
      /\ UNCHANGED <<db, memory, calls, index, sent, outbox, waiting>>
      /\ taskId \in [Calls -> Nat] /\ issued \in [Calls -> Nat] /\ index \in DOMAIN calls
  <2>1. pc = "call" /\ Current \in Calls /\ index \in DOMAIN calls
    BY AtCall DEF IssueTask, Dispatching, At
  <2>2. issued \in [Calls -> Nat] /\ taskId \in [Calls -> Nat] /\ failures \in Nat
    BY BoundsAssumption DEF TypeOK
  <2>3. issued' = [issued EXCEPT ![Current] = @ + 1]
    BY DEF IssueTask
  <2>4. taskId' = [taskId EXCEPT ![Current] = issued'[Current]]
    BY <2>2 DEF IssueTask
  <2>5. issued'[Current] = issued[Current] + 1
    BY <2>1, <2>2, <2>3
  <2> QED
    BY <2>1, <2>2, <2>4, <2>5 DEF IssueTask, step, link, remote
<1>2. Fresh(Current)
  <2>1. IF resuming THEN OnRecord(Current) ELSE Fresh(Current)
    <3>1. Ahead(index) /\ index \in index..Len(calls)
      BY <1>1, CallsType DEF StepInv
    <3> QED
      BY <3>1 DEF Ahead, Current
  <2> QED
    BY <1>1, <2>1 DEF Known, OnRecord, Fresh
<1>3. ASSUME NEW t \in sent \cup outbox \cup waiting
      PROVE  Evidence(t)'
  <2>1. t \in Task /\ t[2] <= issued[t[1]]
    BY DEF IssuedInv, Underway, TypeOK
  <2>2. t[1] \in Calls /\ t[1] # Current
    BY <1>2, <2>1 DEF Task, Fresh
  <2>3. taskId'[t[1]] = taskId[t[1]]
    BY <1>1, <2>2
  <2>4. Evidence(t)
    BY DEF AllEvidence
  <2> QED
    BY <1>1, <2>3, <2>4 DEF Evidence, Answered, Answers
<1>4. taskId'[task'[1]] = task'[2]
  BY <1>1
<1>5. WrittenInv'
  BY <1>1, <1>4 DEF WrittenInv, LastBatch, HasBatch, Collected, Answered, Answers
<1> QED
  BY <1>1, <1>3, <1>5 DEF AllEvidence

LEMMA WrittenFrame ==
    ASSUME WrittenInv, UNCHANGED <<db, taskId, memory, calls, index>>,
           \/ UNCHANGED <<pc, task>>
           \/ pc # "none" /\ pc' = "final"
           \/ pc' = "none"
           \/ pc \in {"call", "send"} /\ pc' = "wait"
    PROVE  WrittenInv'
  BY DEF WrittenInv, LastBatch, HasBatch, Collected, Answered, Answers

\* A batch at the end of what is being handled.
LEMMA BatchAtEnd ==
    ASSUME memory' \in Seq(Message), memory' # <<>>, memory'[Len(memory')] = Ask(calls')
    PROVE  LastBatch'
<1>1. Len(memory') \in DOMAIN memory' /\ \A j \in DOMAIN memory' : j <= Len(memory')
  OBVIOUS
<1> QED
  BY <1>1 DEF LastBatch, Ask

LEMMA EvidenceNext ==
    ReliableRecords /\ OnceInv /\ OnceInv' /\ IssuedInv /\ EvidenceInv /\ [Next]_vars
        => EvidenceInv'
<1> SUFFICES ASSUME ReliableRecords, OnceInv, OnceInv', IssuedInv, EvidenceInv, [Next]_vars,
                    failures' = 0
             PROVE  AllEvidence' /\ WrittenInv'
  BY DEF EvidenceInv
<1> USE DEF At, Goto, store, ledger, step, control, link, remote, world
<1>0. /\ TypeInv /\ TypeInv' /\ failures \in Nat
      /\ db \in Seq(Message) /\ db' \in Seq(Message)
      /\ memory \in Seq(Message) /\ memory' \in Seq(Message) /\ calls \in Seq(Calls)
  <2>1. TypeInv /\ TypeInv' /\ TypeOK /\ TypeOK'
    BY DEF OnceInv, TypeInv
  <2>2. calls \in Seq(Calls)
    BY <2>1, CallsType
  <2>3. failures \in Nat
    BY <2>1, BoundsAssumption DEF TypeOK
  <2>4. db' \in Seq(Message) /\ memory' \in Seq(Message)
    BY <2>1 DEF TypeOK
  <2> QED
    BY <2>1, <2>2, <2>3, <2>4 DEF TypeOK
<1>f. failures = 0
  <2>1. failures' >= failures
    <3>1. CASE RunStep
      BY <1>0, <3>1
      DEF RunStep, Redispatch, AskModel, Conclude, Request, BeforeDispatch, EndStep, Persist,
          Fail, RecordDispatch, SettleDispatches, ClearDispatches, SeeStop, Finalize, Finish,
          Recover, IssueTask, Send, TakeParked, AwaitReplay, Collect, TimeOut, Return
    <3>2. CASE Cancelled \/ SendFails \/ RequestStop \/ Shutdown \/ Crash \/ Restart
               \/ UNCHANGED vars
      BY <1>0, <3>2 DEF Cancelled, SendFails, RequestStop, Shutdown, Crash, Restart, Fail, vars
    <3>3. ASSUME NEW t \in Tasks,
                 \/ LinkStep(t) \/ Acknowledged(t) \/ LoseAck(t) \/ LoseTask(t)
                 \/ Orphan(t) \/ Execute(t)
          PROVE  failures' >= failures
      BY <1>0, <3>3
      DEF LinkStep, ReceiveNew, Route, ReceiveAgain, Acknowledged, LoseAck, LoseTask,
          Orphan, Execute, Fail
    <3> QED
      BY <3>1, <3>2, <3>3 DEF Next
  <2> QED
    BY <1>0, <2>1
<1>a. AllEvidence /\ WrittenInv /\ Extends(db, db)
  BY <1>0, <1>f DEF EvidenceInv, Extends
<1>1. CASE UNCHANGED vars
  BY <1>0, <1>1, <1>a, EvidenceGrows, WrittenFrame DEF vars
<1>2. CASE Redispatch
  <2>1. /\ pc = "plan" /\ pc' = "call" /\ calls' = TailBatch /\ TailBatch # <<>> /\ index' = 1
        /\ UNCHANGED <<db, memory, taskId, sent, outbox, waiting>>
    BY <1>2 DEF Redispatch, Resumable
  <2>2. /\ memory # <<>> /\ memory[Len(memory)] \in Message
        /\ memory[Len(memory)].role = "assistant" /\ calls' = memory[Len(memory)].calls
    BY <1>0, <2>1 DEF TailBatch
  <2>3. memory' # <<>> /\ memory'[Len(memory')] = Ask(calls')
    BY <2>1, <2>2, BatchMessage
  <2>4. LastBatch'
    BY <1>0, <2>3, BatchAtEnd
  <2>5. db = memory /\ HasBatch(db)'
    BY <1>0, <1>a, <2>1, <2>3 DEF WrittenInv, HasBatch, Ask
  <2>6. \A k \in DOMAIN calls' : ~(k < 1)
    BY CallsType DEF OnceInv, TypeInv
  <2>7. Collected(index)'
    BY <2>1, <2>6 DEF Collected
  <2>8. WrittenInv'
    BY <1>0, <1>a, <2>1, <2>4, <2>5, <2>7 DEF WrittenInv, Extends
  <2> QED
    BY <1>0, <1>a, <2>1, <2>8, EvidenceGrows
<1>3. CASE AskModel \/ Conclude
  <2>1. /\ pc = "plan" /\ memory' = Append(memory, Ask(calls'))
        /\ pc' = "before" \/ (pc' = "end" /\ calls' = <<>>)
        /\ UNCHANGED <<db, taskId, sent, outbox, waiting>>
    BY <1>3 DEF AskModel, Conclude, Request
  <2>2. Ask(calls') \in Message
    BY MessageType DEF OnceInv, TypeInv, TypeOK
  <2>3. /\ memory' # <<>> /\ memory'[Len(memory')] = Ask(calls')
        /\ Len(memory') = Len(memory) + 1 /\ \A i \in DOMAIN memory : memory'[i] = memory[i]
    BY <1>0, <2>1, <2>2
  <2>4. LastBatch'
    BY <1>0, <2>3, BatchAtEnd
  <2>5. db = memory /\ Extends(memory, db)'
    BY <1>0, <1>a, <2>1, <2>3 DEF WrittenInv, Extends
  <2>6. pc' = "end" => Collected(Len(calls) + 1)'
    BY <2>1 DEF Collected
  <2>7. WrittenInv'
    BY <2>1, <2>4, <2>5, <2>6 DEF WrittenInv
  <2> QED
    BY <1>0, <1>a, <2>1, <2>7, EvidenceGrows
<1>4. CASE BeforeDispatch \/ EndStep \/ Finalize
  <2>1. /\ db' = memory /\ pc # "none"
        /\ UNCHANGED <<taskId, memory, calls, index, sent, outbox, waiting>>
        /\ \/ pc = "before" /\ pc' = "record"
           \/ pc = "end" /\ pc' = "settle"
           \/ pc' = "finish"
    BY <1>4, PersistReliable DEF BeforeDispatch, EndStep, Finalize, Persist, Fail
  <2>2. Extends(db', db) /\ Extends(memory, db)'
    BY <1>0, <1>a, <2>1 DEF WrittenInv, Extends
  <2>3. pc' = "record" => HasBatch(db)'
    BY <1>a, <2>1 DEF WrittenInv, LastBatch, HasBatch, Ask
  <2>4. LastBatch => LastBatch'
    BY <2>1 DEF LastBatch, Ask
  <2>5. pc' = "settle" => Collected(Len(calls) + 1)'
    BY <1>a, <2>1 DEF WrittenInv, Collected, Answered, Answers
  <2>6. WrittenInv'
    BY <1>a, <2>1, <2>2, <2>3, <2>4, <2>5 DEF WrittenInv
  <2> QED
    BY <1>0, <1>a, <2>1, <2>2, <2>6, EvidenceGrows
<1>5. CASE RecordDispatch
  <2>1. /\ pc = "record" /\ pc' \in {"record", "call"} /\ (pc' = "call" => index' = 1)
        /\ UNCHANGED <<db, taskId, memory, calls, sent, outbox, waiting>>
    BY <1>5 DEF RecordDispatch, Fail
  <2>2. Extends(memory, db)' /\ LastBatch' /\ HasBatch(db)'
    BY <1>a, <2>1 DEF WrittenInv, Extends, LastBatch, HasBatch, Ask
  <2>3. \A k \in DOMAIN calls : ~(k < 1)
    BY <1>0
  <2>4. pc' = "call" => Collected(index)'
    BY <2>1, <2>3 DEF Collected
  <2>5. WrittenInv'
    BY <2>1, <2>2, <2>4 DEF WrittenInv
  <2> QED
    BY <1>0, <1>a, <2>1, <2>5, EvidenceGrows
<1>6. CASE SettleDispatches
  BY <1>0, <1>a, <1>6, SettleEvidence
<1>7. CASE SeeStop \/ Cancelled \/ Finish \/ RequestStop \/ Restart \/ Shutdown
  <2>1. /\ UNCHANGED <<db, taskId, memory, calls, index, sent, outbox, waiting>>
        /\ \/ UNCHANGED <<pc, task>>
           \/ pc # "none" /\ pc' = "final"
           \/ pc' = "none"
    BY <1>7 DEF SeeStop, Cancelled, Finish, RequestStop, Restart, Shutdown
  <2> QED
    BY <1>0, <1>a, <2>1, EvidenceGrows, WrittenFrame
<1>8. CASE IssueTask
  BY <1>8, <1>a, <1>f, IssueEvidence
<1>9. CASE Send
  <2>1. /\ pc = "send" /\ pc' = "wait" /\ sent' = sent \cup {task} /\ waiting' = waiting \cup {task}
        /\ UNCHANGED <<db, taskId, memory, calls, index, outbox>>
    BY <1>9 DEF Send
  <2>2. task = <<Current, task[2]>> /\ taskId[Current] = task[2]
    BY <1>0, <1>a, <2>1 DEF TypeInv, IndexInv, Task, WrittenInv, Current
  <2>3. Evidence(task)
    BY <1>0, <1>a, <2>1, <2>2, EvidenceAtHand
  <2>4. AllEvidence'
    BY <1>a, <2>1, <2>3 DEF AllEvidence, Evidence, Answered, Answers
  <2> QED
    BY <1>a, <2>1, <2>4, WrittenFrame
<1>10. CASE TakeParked \/ Collect \/ TimeOut
  <2>1. PICK kind \in {"outcome", "error"} : Land(kind)
    BY <1>10 DEF TakeParked, Collect, TimeOut, Return
  <2>2. /\ pc \in {"call", "wait"} /\ UNCHANGED <<db, taskId, sent, outbox>>
        /\ waiting' \subseteq waiting
    BY <1>10 DEF TakeParked, Dispatching, Collect, TimeOut, Return
  <2> QED
    BY <1>0, <1>a, <2>1, <2>2, LandEvidence, EvidenceGrows
<1>11. CASE SendFails
  <2>1. failures' = failures + 1
    BY <1>11 DEF SendFails, Fail
  <2> QED
    BY <1>0, <1>f, <2>1
<1>12. CASE AwaitReplay
  <2>1. /\ pc = "call" /\ pc' = "wait" /\ waiting' = waiting \cup {KnownTask}
        /\ UNCHANGED <<db, taskId, memory, calls, index, sent, outbox>>
    BY <1>12 DEF AwaitReplay, Dispatching, Fail
  <2>2. Evidence(KnownTask)
    BY <1>0, <1>a, <2>1, EvidenceAtHand DEF KnownTask
  <2>3. AllEvidence'
    BY <1>a, <2>1, <2>2 DEF AllEvidence, Evidence, Answered, Answers
  <2> QED
    BY <1>a, <2>1, <2>3, WrittenFrame
<1>13. CASE Recover
  <2>1. /\ pc' = "plan" /\ memory' = db /\ UNCHANGED <<db, taskId, sent, outbox, waiting>>
    BY <1>13 DEF Recover
  <2>2. WrittenInv'
    BY <1>a, <2>1 DEF WrittenInv, Extends
  <2> QED
    BY <1>0, <1>a, <2>1, <2>2, EvidenceGrows
<1>14. CASE Crash
  <2>1. /\ pc' = "none" /\ UNCHANGED <<db, taskId, sent, outbox>> /\ waiting' = {}
    BY <1>14 DEF Crash, Forget
  <2> QED
    BY <1>0, <1>a, <2>1, EvidenceGrows DEF WrittenInv
<1>15. ASSUME NEW t \in Tasks,
              \/ LinkStep(t) \/ Acknowledged(t) \/ LoseAck(t) \/ LoseTask(t)
              \/ Orphan(t) \/ Execute(t)
       PROVE  AllEvidence' /\ WrittenInv'
  <2>1. /\ UNCHANGED <<pc, task, db, taskId, memory, calls, index>>
        /\ (sent \cup outbox \cup waiting)' \subseteq sent \cup outbox \cup waiting
    BY <1>15
    DEF LinkStep, ReceiveNew, Route, ReceiveAgain, Acknowledged, LoseAck, LoseTask,
        Orphan, Execute, Fail
  <2> QED
    BY <1>0, <1>a, <2>1, EvidenceGrows, WrittenFrame
<1> QED
  BY <1>1, <1>2, <1>3, <1>4, <1>5, <1>6, <1>7, <1>8, <1>9, <1>10, <1>11, <1>12, <1>13, <1>14,
     <1>15
  DEF Next, RunStep

\* Of every task that was sent, that has an outcome or that is waited for, the database
\* has the batch, with the task's id on record until its answer or a later turn is there
\* too, when no operation failed (before_dispatch, settle_dispatches).  That the id on
\* record is not another task's is ExecutedOnce's invariant, and so its condition.
THEOREM EvidenceIsFirst == ASSUME ReliableRecords PROVE Spec => []EvidenceFirst
<1>1. Init => ParkedInv /\ EvidenceInv
  BY DEF Init, ParkedInv, IssuedInv, Underway, NeverBehindParked, EvidenceInv, AllEvidence,
         WrittenInv, Extends
<1>2. EvidenceInv => EvidenceFirst
  BY DEF EvidenceInv, AllEvidence, Evidence, EvidenceFirst
<1>3. OnceInv => TypeInv
  BY DEF OnceInv
<1>4. ParkedInv => IssuedInv
  BY DEF ParkedInv
<1> QED
  BY <1>1, <1>2, <1>3, <1>4, InitOnce, OnceNext, ParkedNext, EvidenceNext, PTL DEF Spec
===============================================================================
