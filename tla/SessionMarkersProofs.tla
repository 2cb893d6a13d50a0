------------------------- MODULE SessionMarkersProofs -------------------------
(***************************************************************************)
(* What SessionMarkers guarantees for every number of runs, crashes and    *)
(* failures.                                                               *)
(***************************************************************************)
EXTENDS SessionMarkers, FiniteSetTheorems, TLAPS

USE NoneAssumption, DisturbancesAssumption, SuspensionsAssumption,
    CrashAssumption

(***************************************************************************)
(* Types                                                                   *)
(***************************************************************************)
\* Queueing for the lane, releasing it and queueing again keep it a queue.
LEMMA LaneType ==
    ASSUME lane \in [Lanes -> Seq(Runs)], laneOf \in [Runs -> Lanes],
           NEW r \in Runs
    PROVE  /\ Queue(r) => lane' \in [Lanes -> Seq(Runs)]
           /\ (Holds(r) /\ Release(r)) => lane' \in [Lanes -> Seq(Runs)]
           /\ (Holds(r) /\ Requeue(r)) => lane' \in [Lanes -> Seq(Runs)]
<1> DEFINE q == lane[laneOf[r]]
<1>1. q \in Seq(Runs) /\ Append(q, r) \in Seq(Runs)
  OBVIOUS
<1>2. Holds(r) => q # <<>>
  BY DEF Holds
<1>3. Holds(r) => Tail(q) \in Seq(Runs) /\ Append(Tail(q), r) \in Seq(Runs)
  BY <1>1, <1>2
<1>4. ASSUME NEW s \in Seq(Runs), lane' = [lane EXCEPT ![laneOf[r]] = s]
      PROVE  lane' \in [Lanes -> Seq(Runs)]
  BY <1>4
<1>5. Queue(r) => lane' = [lane EXCEPT ![laneOf[r]] = Append(q, r)]
  BY DEF Queue
<1>6. Release(r) => lane' = [lane EXCEPT ![laneOf[r]] = Tail(q)]
  BY DEF Release
<1>7. Requeue(r) => lane' = [lane EXCEPT ![laneOf[r]] = Append(Tail(q), r)]
  BY DEF Requeue
<1> QED
  BY <1>1, <1>3, <1>4, <1>5, <1>6, <1>7

\* Setting or deleting a marker of a Session object keeps its type.
LEMMA CopyType ==
    ASSUME copy \in [Runs -> Markers], NEW r \in Runs, NEW v \in MaybeRun
    PROVE  /\ [copy EXCEPT ![r].active = v] \in [Runs -> Markers]
           /\ [copy EXCEPT ![r].ask = v] \in [Runs -> Markers]
<1>1. copy[r] \in Markers
  OBVIOUS
<1>2. /\ [copy[r] EXCEPT !.active = v] \in Markers
      /\ [copy[r] EXCEPT !.ask = v] \in Markers
  BY <1>1 DEF Markers
<1>3. /\ [copy EXCEPT ![r].active = v]
          = [copy EXCEPT ![r] = [copy[r] EXCEPT !.active = v]]
      /\ [copy EXCEPT ![r].ask = v]
          = [copy EXCEPT ![r] = [copy[r] EXCEPT !.ask = v]]
  OBVIOUS
<1> HIDE DEF Markers
<1> QED
  BY <1>2, <1>3

\* The initial state is well typed.
LEMMA InitType == Init => TypeOK
BY DEF Init, TypeOK, MaybeRun, Markers, Blank, Terminal, Stages

\* Every step keeps the types.
LEMMA NextType == TypeOK /\ [Next]_vars => TypeOK'
<1> SUFFICES ASSUME TypeOK, [Next]_vars PROVE TypeOK'
  OBVIOUS
<1> USE DEF MaybeRun, Terminal, Laned, Stages, database, process
<1>1. ASSUME NEW r \in Runs, Request(r) PROVE TypeOK'
  BY <1>1, LaneType DEF TypeOK, Request, Goto
<1>2. ASSUME NEW r \in Runs, Load(r) PROVE TypeOK'
  BY <1>2, LaneType DEF TypeOK, Load, Goto, Markers
<1>3. ASSUME NEW r \in Runs, Refuse(r) PROVE TypeOK'
  BY <1>3 DEF TypeOK, Refuse, Goto, Blank, Markers
<1>4. ASSUME NEW r \in Runs, Start(r) PROVE TypeOK'
  <2>1. marker' \in MaybeRun
    BY <1>4 DEF Start, PatchMarker, TypeOK
  <2>2. pc' \in [Runs -> Stages]
    <3>1. Goto(r, "opening") \/ Goto(r, "spawned")
      BY <1>4 DEF Start
    <3> QED
      BY <3>1 DEF Goto, TypeOK
  <2>3. copy' \in [Runs -> Markers]
    BY <1>4, CopyType DEF Start, TypeOK
  <2> QED
    BY <1>4, <2>1, <2>2, <2>3 DEF TypeOK, Start
<1>5. ASSUME NEW r \in Runs, QueueMark(r) PROVE TypeOK'
  BY <1>5, LaneType DEF TypeOK, QueueMark, Goto
<1>6. ASSUME NEW r \in Runs, PersistMark(r) PROVE TypeOK'
  BY <1>6, LaneType DEF TypeOK, PersistMark, Goto, PatchMarker
<1>7. ASSUME NEW r \in Runs, Open(r) PROVE TypeOK'
  BY <1>7 DEF TypeOK, Open, Goto, RecordStatus
<1>8. ASSUME NEW r \in Runs, Answer(r) PROVE TypeOK'
  <2>1. copy' \in [Runs -> Markers]
    BY <1>8, CopyType DEF Answer, TypeOK
  <2>2. ask' \in MaybeRun
    BY <1>8 DEF Answer, TypeOK, PatchAsk
  <2> QED
    BY <1>8, <2>1, <2>2 DEF TypeOK, Answer
<1>9. ASSUME NEW r \in Runs, Ask(r) PROVE TypeOK'
  <2>1. copy' \in [Runs -> Markers]
    BY <1>9, CopyType DEF Ask, TypeOK
  <2>2. asks' \in [Runs -> {"no", "asked", "gated"}]
    BY <1>9 DEF Ask, TypeOK
  <2>3. lane' \in [Lanes -> Seq(Runs)]
    BY <1>9, LaneType DEF Ask, TypeOK
  <2> QED
    BY <1>9, <2>1, <2>2, <2>3 DEF TypeOK, Ask, Goto
<1>10. ASSUME NEW r \in Runs, PostAsk(r) PROVE TypeOK'
  BY <1>10, LaneType DEF TypeOK, PostAsk, Goto, PatchAsk
<1>11. ASSUME NEW r \in Runs, Gate(r) PROVE TypeOK'
  BY <1>11 DEF TypeOK, Gate
<1>12. ASSUME NEW r \in Runs, Finish(r) PROVE TypeOK'
  <2>1. \E t \in Terminal \cup {"suspended"} : result' = [result EXCEPT ![r] = t]
    BY <1>12 DEF Finish, Endings
  <2>2. cut' \in [Runs -> BOOLEAN]
    BY <1>12 DEF Finish, TypeOK
  <2>3. pc' \in [Runs -> Stages]
    BY <1>12 DEF Finish, Goto, TypeOK
  <2>4. result' \in [Runs -> Terminal \cup {"running", "suspended"}]
    BY <2>1 DEF TypeOK
  <2> QED
    BY <1>12, <2>2, <2>3, <2>4 DEF TypeOK, Finish
<1>13. ASSUME NEW r \in Runs, Record(r) PROVE TypeOK'
  <2>1. storeStatus' \in [Runs -> Terminal \cup
                            {"none", "running", "suspended", "interrupted"}]
    BY <1>13 DEF Record, RecordStatus, FinalStatus, TypeOK
  <2>2. lane' \in [Lanes -> Seq(Runs)]
    BY <1>13, LaneType DEF Record, TypeOK
  <2>3. pc' \in [Runs -> Stages]
    <3>1. Goto(r, "clearing") \/ Goto(r, "ending")
      BY <1>13 DEF Record
    <3> QED
      BY <3>1 DEF Goto, TypeOK
  <2> QED
    BY <1>13, <2>1, <2>2, <2>3 DEF TypeOK, Record
<1>14. ASSUME NEW r \in Runs, Holds(r), SettleAsk(r)
       PROVE  /\ lane' \in [Lanes -> Seq(Runs)]
              /\ pc' \in [Runs -> Stages]
  <2>1. AskStage(r) \in {"probing", "posting", "ending"}
    BY DEF AskStage
  <2>2. Release(r) \/ Requeue(r)
    BY <1>14 DEF SettleAsk
  <2> QED
    BY <1>14, <2>1, <2>2, LaneType DEF SettleAsk, Goto, TypeOK
<1>15. ASSUME NEW r \in Runs, ReadMarker(r) PROVE TypeOK'
  <2>1. CASE MayClear(marker, r)
    <3>1. copy' \in [Runs -> Markers]
      <4>1. copy' = [copy EXCEPT ![r].active = None] /\ None \in MaybeRun
        BY <1>15, <2>1 DEF ReadMarker
      <4> QED
        BY <4>1, CopyType DEF TypeOK
    <3>2. pc' \in [Runs -> Stages]
      <4>1. Goto(r, "unmarking")
        BY <1>15, <2>1 DEF ReadMarker
      <4> QED
        BY <4>1 DEF Goto, TypeOK
    <3> QED
      BY <1>15, <2>1, <3>1, <3>2 DEF ReadMarker, TypeOK
  <2>2. CASE ~MayClear(marker, r)
    BY <1>14, <1>15, <2>2 DEF ReadMarker, TypeOK
  <2> QED
    BY <2>1, <2>2
<1>16. ASSUME NEW r \in Runs, Unmark(r) PROVE TypeOK'
  <2>1. cut' \in [Runs -> BOOLEAN]
    BY <1>16 DEF Unmark, TypeOK
  <2> QED
    BY <1>14, <1>16, <2>1 DEF Unmark, TypeOK, PatchMarker
<1>17. ASSUME NEW r \in Runs, ReadAsk(r) PROVE TypeOK'
  <2>1. copy' \in [Runs -> Markers]
    <3>1. /\ copy' = copy \/ copy' = [copy EXCEPT ![r].ask = None]
          /\ None \in MaybeRun
      BY <1>17 DEF ReadAsk
    <3>2. copy \in [Runs -> Markers]
      BY DEF TypeOK
    <3>3. [copy EXCEPT ![r].ask = None] \in [Runs -> Markers]
      BY <3>1, <3>2, CopyType
    <3> QED
      BY <3>1, <3>2, <3>3
  <2>2. Goto(r, "unasking") \/ Goto(r, "ending")
    BY <1>17 DEF ReadAsk
  <2>3. pc' \in [Runs -> Stages]
    BY <2>2 DEF Goto, TypeOK
  <2>4. lane' \in [Lanes -> Seq(Runs)]
    BY <1>17, LaneType DEF ReadAsk, TypeOK
  <2> QED
    BY <1>17, <2>1, <2>3, <2>4 DEF ReadAsk, TypeOK
<1>18. ASSUME NEW r \in Runs, Unask(r) PROVE TypeOK'
  BY <1>18, LaneType DEF Unask, TypeOK, Goto, PatchAsk
<1>19. ASSUME NEW r \in Runs, Discard(r) PROVE TypeOK'
  BY <1>19 DEF Discard, TypeOK, Goto, CurrentAfter, Blank, Markers
<1>20. ASSUME NEW r \in Runs, Interrupt(r) PROVE TypeOK'
  BY <1>20 DEF Interrupt, TypeOK, RecordStatus
<1>21. ASSUME Crash PROVE TypeOK'
  <2>1. /\ cut' \in [Runs -> BOOLEAN]
        /\ pc' \in [Runs -> Stages]
    BY <1>21 DEF Crash, TypeOK
  <2>2. lane' \in [Lanes -> Seq(Runs)] /\ crashes' \in 0 .. MaxCrashes
    BY <1>21 DEF Crash, TypeOK
  <2>3. /\ copy' \in [Runs -> Markers]
        /\ listed' \in SUBSET Runs
    BY <1>21 DEF Crash, Blank, Markers
  <2> QED
    BY <1>21, <2>1, <2>2, <2>3 DEF Crash, TypeOK
<1>22. ASSUME NEW r \in Runs, Resume(r) PROVE TypeOK'
  BY <1>22, LaneType DEF Resume, TypeOK, Goto
<1>23. ASSUME NEW r \in Runs, GiveUp(r) PROVE TypeOK'
  BY <1>23 DEF GiveUp, TypeOK, PatchMarker
<1>24. ASSUME Sweep PROVE TypeOK'
  BY <1>24 DEF Sweep, TypeOK, PatchMarker
<1>25. ASSUME Dismiss PROVE TypeOK'
  BY <1>25 DEF Dismiss, TypeOK, PatchAsk
<1>26. CASE UNCHANGED vars
  BY <1>26 DEF vars, TypeOK
<1> QED
  BY <1>1, <1>2, <1>3, <1>4, <1>5, <1>6, <1>7, <1>8, <1>9, <1>10, <1>11,
     <1>12, <1>13, <1>15, <1>16, <1>17, <1>18, <1>19, <1>20, <1>21, <1>22,
     <1>23, <1>24, <1>25, <1>26 DEF Next, TaskStep

\* Every reachable state is well typed.
THEOREM TypeCorrect == Spec => []TypeOK
<1>1. Init => TypeOK
  BY InitType
<1>2. TypeOK /\ [Next]_vars => TypeOK'
  BY NextType
<1> QED
  BY <1>1, <1>2, PTL DEF Spec

(***************************************************************************)
(* One running turn                                                        *)
(***************************************************************************)
\* Whatever runs is the run RunPool._by_session names.
CurrentRunning == \A r \in Runs : Running(r) => current = r

\* Every step keeps it: start refuses while the named run is not done, and
\* discard clears only the entry of the run that leaves.
LEMMA NextCurrent ==
    TypeOK /\ CurrentRunning /\ [Next]_vars => CurrentRunning'
<1> SUFFICES ASSUME TypeOK, CurrentRunning, [Next]_vars PROVE CurrentRunning'
  OBVIOUS
<1> USE DEF CurrentRunning, Running, Done
<1>1. ASSUME UNCHANGED <<pool, current, result>> PROVE CurrentRunning'
  BY <1>1
<1>2. ASSUME NEW r \in Runs, Start(r) PROVE CurrentRunning'
  BY <1>2 DEF Start, Busy, TypeOK, MaybeRun
<1>3. ASSUME NEW r \in Runs, Finish(r) PROVE CurrentRunning'
  <2>1. /\ \A x \in Runs : result'[x] = "running" => result[x] = "running"
        /\ UNCHANGED <<pool, current>>
    BY <1>3 DEF Finish, TypeOK, Terminal, Endings
  <2> QED
    BY <2>1
<1>4. ASSUME NEW r \in Runs, Discard(r) PROVE CurrentRunning'
  BY <1>4 DEF Discard, CurrentAfter, TypeOK
<1>5. ASSUME Crash PROVE CurrentRunning'
  BY <1>5 DEF Crash
<1>6. ASSUME NEW r \in Runs,
             \/ Load(r) \/ Refuse(r) \/ QueueMark(r) \/ PersistMark(r)
             \/ Open(r) \/ PostAsk(r) \/ Record(r) \/ ReadMarker(r)
             \/ Unmark(r) \/ ReadAsk(r) \/ Unask(r)
      PROVE  UNCHANGED <<pool, current, result>>
  BY <1>6 DEF Load, Refuse, QueueMark, PersistMark, Open, PostAsk, Record,
              ReadMarker, Unmark, ReadAsk, Unask, process
<1>7. ASSUME NEW r \in Runs,
             \/ Request(r) \/ Answer(r) \/ Ask(r) \/ Gate(r) \/ Interrupt(r)
             \/ Resume(r) \/ GiveUp(r)
      PROVE  UNCHANGED <<pool, current, result>>
  BY <1>7 DEF Request, Answer, Ask, Gate, Interrupt, Resume, GiveUp, process
<1>8. ASSUME Sweep \/ Dismiss \/ UNCHANGED vars
      PROVE  UNCHANGED <<pool, current, result>>
  BY <1>8 DEF Sweep, Dismiss, process, vars
<1> QED
  BY <1>1, <1>2, <1>3, <1>4, <1>5, <1>6, <1>7, <1>8 DEF Next, TaskStep

\* A conversation has at most one running turn, whatever overlaps.
THEOREM OneTurn == Spec => []OneRunningTurn
<1>1. Init => CurrentRunning
  BY DEF Init, CurrentRunning, Running
<1>2. TypeOK /\ CurrentRunning /\ [Next]_vars => CurrentRunning'
  BY NextCurrent
<1>3. CurrentRunning => OneRunningTurn
  <2> SUFFICES ASSUME CurrentRunning PROVE OneRunningTurn
    OBVIOUS
  <2> DEFINE S == {r \in Runs : Running(r)}
  <2>1. S \subseteq {current}
    BY DEF CurrentRunning
  <2>2. IsFiniteSet({current}) /\ Cardinality({current}) = 1
    BY FS_Singleton
  <2>3. Cardinality(S) <= Cardinality({current})
    BY <2>1, <2>2, FS_Subset
  <2> QED
    BY <2>2, <2>3 DEF OneRunningTurn
<1> QED
  BY <1>1, <1>2, <1>3, TypeCorrect, PTL DEF Spec

(***************************************************************************)
(* A live marker is never taken away                                       *)
(***************************************************************************)
Before == {"idle", "loading", "loaded"}
Active == {"spawned", "marking", "opening", "driving", "asking"}
Ended == {"recording", "clearing", "unmarking", "posting", "probing",
          "unasking", "ending"}

\* Where the task is tells whether the run is in the pool, and done.
StageInv ==
    \A r \in Runs :
        /\ r \in pool <=> pc[r] \in Active \cup Ended
        /\ Done(r) <=> pc[r] \in Ended

\* A run that may still start is not recorded as ended.
RecordInv ==
    \A r \in Runs :
        /\ pc[r] = "idle" => storeStatus[r] = "none"
        /\ pc[r] \in Before => storeStatus[r] \notin Terminal
        /\ r \in listed => storeStatus[r] \notin Terminal
                           /\ pc[r] = "over"

\* Who is about to delete the marker holds the lane.
HoldsInv == \A r \in Runs : pc[r] = "unmarking" => Holds(r)

\* Neither running nor ever to start.
Gone(m) == pc[m] \in Ended \cup {"over"} /\ m \notin listed

\* What is about to be deleted is the marker of no run that may be alive.
UnmarkInv ==
    \A r \in Runs : pc[r] = "unmarking" /\ marker # None => Gone(marker)

MarkInv == TypeOK /\ CurrentRunning /\ StageInv /\ RecordInv /\ HoldsInv
           /\ UnmarkInv

OneLane == \A l, m \in Lanes : l = m

\* Every step keeps the correspondence of stage, pool and handle.
LEMMA NextStage ==
    TypeOK /\ StageInv /\ RecordInv /\ [Next]_vars => StageInv'
<1> SUFFICES ASSUME TypeOK, StageInv, RecordInv, [Next]_vars PROVE StageInv'
  OBVIOUS
<1> USE DEF StageInv, Done, Active, Ended, Goto
<1>1. ASSUME NEW r \in Runs,
             NEW a \in Stages, NEW b \in Stages, pc[r] = a, Goto(r, b),
             (a \in Active \cup Ended) <=> (b \in Active \cup Ended),
             a \in Ended <=> b \in Ended, UNCHANGED <<pool, result>>
      PROVE  StageInv'
  BY <1>1 DEF TypeOK
<1>2. ASSUME UNCHANGED <<pool, result, pc>> PROVE StageInv'
  BY <1>2
<1>3. ASSUME NEW r \in Runs, Start(r) PROVE StageInv'
  <2>1. pool' = pool \cup {r} /\ pc[r] = "loaded" /\ UNCHANGED result
    BY <1>3 DEF Start
  <2>2. Goto(r, "opening") \/ Goto(r, "spawned")
    BY <1>3 DEF Start
  <2> QED
    BY <2>1, <2>2 DEF TypeOK
<1>4. ASSUME NEW r \in Runs, Finish(r) PROVE StageInv'
  <2>1. \E t \in Terminal \cup {"suspended"} :
            result' = [result EXCEPT ![r] = t]
    BY <1>4 DEF Finish, Endings, Terminal
  <2>2. pc[r] = "driving" /\ Goto(r, "recording") /\ UNCHANGED pool
    BY <1>4 DEF Finish
  <2> QED
    BY <2>1, <2>2 DEF TypeOK, Terminal
<1>5. ASSUME NEW r \in Runs, Discard(r) PROVE StageInv'
  BY <1>5 DEF Discard, TypeOK
<1>6. ASSUME Crash PROVE StageInv'
  BY <1>6 DEF Crash
<1>7. ASSUME NEW r \in Runs, \/ Request(r) \/ Load(r) \/ Refuse(r) \/ QueueMark(r)
                             \/ PersistMark(r) \/ Open(r) \/ Ask(r) \/ Resume(r)
      PROVE  StageInv'
  <2> USE DEF Stages, Laned
  <2>1. CASE Request(r)
    BY <2>1, <1>1 DEF Request
  <2>2. CASE Load(r)
    BY <2>2, <1>1 DEF Load
  <2>3. CASE Refuse(r)
    BY <2>3, <1>1 DEF Refuse
  <2>4. CASE QueueMark(r)
    BY <2>4, <1>1 DEF QueueMark
  <2>5. CASE PersistMark(r)
    BY <2>5, <1>1 DEF PersistMark
  <2>6. CASE Open(r)
    BY <2>6, <1>1 DEF Open, process
  <2>7. CASE Ask(r)
    BY <2>7, <1>1 DEF Ask
  <2>8. CASE Resume(r)
    BY <2>8, <1>1 DEF Resume, RecordInv
  <2> QED
    BY <1>7, <2>1, <2>2, <2>3, <2>4, <2>5, <2>6, <2>7, <2>8
<1>8. ASSUME NEW r \in Runs, \/ PostAsk(r) \/ Record(r) \/ ReadMarker(r)
                             \/ Unmark(r) \/ ReadAsk(r) \/ Unask(r)
      PROVE  StageInv'
  <2> USE DEF Stages, Laned
  <2>1. CASE PostAsk(r)
    <3>1. CASE pc[r] = "asking"
      BY <2>1, <3>1, <1>1 DEF PostAsk
    <3>2. CASE pc[r] = "posting"
      BY <2>1, <3>2, <1>1 DEF PostAsk
    <3> QED
      BY <2>1, <3>1, <3>2 DEF PostAsk
  <2>2. CASE Record(r)
    <3>1. Goto(r, "clearing") \/ Goto(r, "ending")
      BY <2>2 DEF Record
    <3> QED
      BY <2>2, <3>1, <1>1 DEF Record
  <2>3. CASE ReadMarker(r)
    <3>1. \/ Goto(r, "unmarking") \/ Goto(r, "probing") \/ Goto(r, "posting")
          \/ Goto(r, "ending")
      BY <2>3 DEF ReadMarker, SettleAsk, AskStage
    <3> QED
      BY <2>3, <3>1, <1>1 DEF ReadMarker
  <2>4. CASE Unmark(r)
    <3>1. Goto(r, "probing") \/ Goto(r, "posting") \/ Goto(r, "ending")
      BY <2>4 DEF Unmark, SettleAsk, AskStage
    <3> QED
      BY <2>4, <3>1, <1>1 DEF Unmark
  <2>5. CASE ReadAsk(r)
    <3>1. Goto(r, "unasking") \/ Goto(r, "ending")
      BY <2>5 DEF ReadAsk
    <3> QED
      BY <2>5, <3>1, <1>1 DEF ReadAsk
  <2>6. CASE Unask(r)
    BY <2>6, <1>1 DEF Unask
  <2> QED
    BY <1>8, <2>1, <2>2, <2>3, <2>4, <2>5, <2>6
<1>9. ASSUME NEW r \in Runs,
             Answer(r) \/ Gate(r) \/ Interrupt(r) \/ GiveUp(r)
      PROVE  UNCHANGED <<pool, result, pc>>
  BY <1>9 DEF Answer, Gate, Interrupt, GiveUp, process
<1>10. ASSUME Sweep \/ Dismiss \/ UNCHANGED vars
       PROVE  UNCHANGED <<pool, result, pc>>
  BY <1>10 DEF Sweep, Dismiss, process, vars
<1> QED
  BY <1>2, <1>3, <1>4, <1>5, <1>6, <1>7, <1>8, <1>9, <1>10
     DEF Next, TaskStep

\* Only a run that leaves the stages before Start for good ends its record.
LEMMA NextRecord ==
    TypeOK /\ StageInv /\ RecordInv /\ [Next]_vars => RecordInv'
<1> SUFFICES ASSUME TypeOK, StageInv, RecordInv, [Next]_vars PROVE RecordInv'
  OBVIOUS
<1> USE DEF RecordInv, Before, Goto
<1>1. ASSUME NEW r \in Runs, NEW b \in Stages, b # "idle",
             Goto(r, b), pc[r] # "over", b \in Before => pc[r] \in Before,
             UNCHANGED <<storeStatus, listed>>
      PROVE  RecordInv'
  BY <1>1 DEF TypeOK
<1>2. ASSUME UNCHANGED <<pc, storeStatus, listed>> PROVE RecordInv'
  BY <1>2
<1>3. ASSUME NEW r \in Runs, Open(r) PROVE RecordInv'
  BY <1>3 DEF Open, RecordStatus, TypeOK
<1>4. ASSUME NEW r \in Runs, Record(r) PROVE RecordInv'
  <2>1. pc[r] = "recording" /\ UNCHANGED listed
    BY <1>4 DEF Record, process
  <2>2. Goto(r, "clearing") \/ Goto(r, "ending")
    BY <1>4 DEF Record
  <2>3. \A x \in Runs : x # r => storeStatus'[x] = storeStatus[x]
    BY <1>4 DEF Record, RecordStatus, TypeOK
  <2> QED
    BY <2>1, <2>2, <2>3 DEF TypeOK
<1>5. ASSUME NEW r \in Runs, Interrupt(r) PROVE RecordInv'
  <2>1. pc[r] \in Active \cup Ended /\ UNCHANGED <<pc, listed>>
    BY <1>5 DEF Interrupt, Running, StageInv
  <2>2. \A x \in Runs : \/ storeStatus'[x] = storeStatus[x]
                        \/ x = r /\ storeStatus'[x] = "interrupted"
    BY <1>5 DEF Interrupt, RecordStatus, TypeOK
  <2> QED
    BY <2>1, <2>2 DEF Terminal, Active, Ended
<1>6. ASSUME Crash PROVE RecordInv'
  BY <1>6 DEF Crash, Terminal
<1>7. ASSUME NEW r \in Runs, Resume(r) PROVE RecordInv'
  BY <1>7 DEF Resume, TypeOK, Terminal
<1>8. ASSUME NEW r \in Runs, GiveUp(r) PROVE RecordInv'
  BY <1>8 DEF GiveUp
<1>9. ASSUME NEW r \in Runs, Start(r) PROVE RecordInv'
  <2>1. Goto(r, "opening") \/ Goto(r, "spawned")
    BY <1>9 DEF Start
  <2> QED
    BY <1>9, <2>1, <1>1 DEF Start, Stages, Laned
<1>10. ASSUME NEW r \in Runs,
              \/ Request(r) \/ Load(r) \/ Refuse(r) \/ QueueMark(r)
              \/ PersistMark(r) \/ Ask(r) \/ PostAsk(r) \/ Finish(r)
       PROVE  RecordInv'
  <2>1. /\ pc[r] # "over"
        /\ UNCHANGED <<storeStatus, listed>>
    BY <1>10 DEF Request, Load, Refuse, QueueMark, PersistMark, Ask, PostAsk,
                 Finish
  <2>2. \E b \in Stages \ {"idle"} :
            Goto(r, b) /\ (b \in Before => pc[r] \in Before)
    BY <1>10 DEF Request, Load, Refuse, QueueMark, PersistMark, Ask, PostAsk,
                 Finish, Stages, Laned
  <2> QED
    BY <2>1, <2>2, <1>1
<1>11. ASSUME NEW r \in Runs,
              ReadMarker(r) \/ Unmark(r) \/ ReadAsk(r) \/ Unask(r) \/ Discard(r)
       PROVE  RecordInv'
  <2>1. /\ pc[r] # "over"
        /\ UNCHANGED <<storeStatus, listed>>
    BY <1>11 DEF ReadMarker, Unmark, ReadAsk, Unask, Discard
  <2>2. \E b \in Stages \ {"idle"} : Goto(r, b) /\ b \notin Before
    BY <1>11 DEF ReadMarker, Unmark, ReadAsk, Unask, Discard, SettleAsk,
                 AskStage, Stages, Laned
  <2> QED
    BY <2>1, <2>2, <1>1
<1>12. ASSUME NEW r \in Runs, Answer(r) \/ Gate(r)
       PROVE  UNCHANGED <<pc, storeStatus, listed>>
  BY <1>12 DEF Answer, Gate
<1>13. ASSUME Sweep \/ Dismiss \/ UNCHANGED vars
       PROVE  UNCHANGED <<pc, storeStatus, listed>>
  BY <1>13 DEF Sweep, Dismiss, vars
<1> QED
  BY <1>2, <1>3, <1>4, <1>5, <1>6, <1>7, <1>8, <1>9, <1>10, <1>11, <1>12,
     <1>13 DEF Next, TaskStep

\* Whoever holds the lane keeps it until it lets go.
LEMMA LaneKept ==
    ASSUME lane \in [Lanes -> Seq(Runs)], laneOf \in [Runs -> Lanes],
           NEW r \in Runs, NEW x \in Runs, Holds(x), UNCHANGED laneOf,
           \/ Queue(r)
           \/ Holds(r) /\ r # x /\ (Release(r) \/ Requeue(r))
           \/ UNCHANGED lane
    PROVE  Holds(x)'
<1> DEFINE q == lane[laneOf[x]]
<1>1. q \in Seq(Runs) /\ q # <<>> /\ Head(q) = x
  BY DEF Holds
<1>2. CASE Queue(r)
  <2>1. lane'[laneOf[x]] = q \/ lane'[laneOf[x]] = Append(q, r)
    BY <1>2 DEF Queue
  <2>2. Append(q, r) # <<>> /\ Head(Append(q, r)) = x
    BY <1>1
  <2> QED
    BY <1>1, <2>1, <2>2 DEF Holds
<1>3. CASE Holds(r) /\ r # x /\ (Release(r) \/ Requeue(r))
  <2>1. laneOf[r] # laneOf[x]
    BY <1>1, <1>3 DEF Holds
  <2>2. lane'[laneOf[x]] = q
    BY <1>3, <2>1 DEF Release, Requeue
  <2> QED
    BY <1>1, <2>2 DEF Holds
<1>4. CASE UNCHANGED lane
  BY <1>4 DEF Holds
<1> QED
  BY <1>2, <1>3, <1>4

\* Every step keeps the lane with the run that is deleting the marker.
LEMMA NextHolds ==
    TypeOK /\ HoldsInv /\ [Next]_vars => HoldsInv'
<1> SUFFICES ASSUME TypeOK, HoldsInv, [Next]_vars PROVE HoldsInv'
  OBVIOUS
<1>1. ASSUME NEW r \in Runs, UNCHANGED laneOf,
             \A x \in Runs : pc'[x] = "unmarking" => x # r /\ pc[x] = "unmarking",
             \/ Queue(r)
             \/ Holds(r) /\ (Release(r) \/ Requeue(r))
             \/ UNCHANGED lane
      PROVE  HoldsInv'
  BY <1>1, LaneKept DEF HoldsInv, TypeOK
<1>2. ASSUME UNCHANGED <<pc, lane, laneOf>> PROVE HoldsInv'
  BY <1>2 DEF HoldsInv, Holds
<1>3. ASSUME NEW r \in Runs, NEW b \in Stages \ {"unmarking"}, Goto(r, b)
      PROVE  \A x \in Runs :
                 pc'[x] = "unmarking" => x # r /\ pc[x] = "unmarking"
  BY <1>3 DEF Goto, TypeOK
<1>4. ASSUME NEW r \in Runs,
             \/ Request(r) \/ Load(r) \/ Refuse(r) \/ QueueMark(r)
             \/ PersistMark(r) \/ Open(r) \/ Ask(r) \/ PostAsk(r) \/ Finish(r)
      PROVE  HoldsInv'
  <2>1. \E b \in Stages \ {"unmarking"} : Goto(r, b)
    BY <1>4 DEF Request, Load, Refuse, QueueMark, PersistMark, Open, Ask,
                PostAsk, Finish, Stages, Laned
  <2>2. /\ UNCHANGED laneOf
        /\ \/ Queue(r)
           \/ Holds(r) /\ (Release(r) \/ Requeue(r))
           \/ UNCHANGED lane
    BY <1>4 DEF Request, Load, Refuse, QueueMark, PersistMark, Open, Ask,
                PostAsk, Finish, process
  <2> QED
    BY <1>1, <1>3, <2>1, <2>2
<1>5. ASSUME NEW r \in Runs,
             \/ Start(r) \/ Record(r) \/ Unmark(r) \/ ReadAsk(r)
             \/ Unask(r) \/ Discard(r) \/ Resume(r)
      PROVE  HoldsInv'
  <2>1. \E b \in Stages \ {"unmarking"} : Goto(r, b)
    BY <1>5 DEF Start, Record, Unmark, ReadAsk, Unask, Discard, Resume,
                SettleAsk, AskStage, Stages, Laned
  <2>2. /\ UNCHANGED laneOf
        /\ \/ Queue(r)
           \/ Holds(r) /\ (Release(r) \/ Requeue(r))
           \/ UNCHANGED lane
    BY <1>5 DEF Start, Record, Unmark, ReadAsk, Unask, Discard, Resume,
                SettleAsk
  <2> QED
    BY <1>1, <1>3, <2>1, <2>2
<1>6. ASSUME NEW r \in Runs, ReadMarker(r) PROVE HoldsInv'
  <2>1. CASE MayClear(marker, r)
    <3>1. Holds(r) /\ UNCHANGED <<lane, laneOf>> /\ Goto(r, "unmarking")
      BY <1>6, <2>1 DEF ReadMarker
    <3> QED
      BY <3>1 DEF HoldsInv, Holds, Goto, TypeOK
  <2>2. CASE ~MayClear(marker, r)
    <3>1. \E b \in Stages \ {"unmarking"} : Goto(r, b)
      BY <1>6, <2>2 DEF ReadMarker, SettleAsk, AskStage, Stages, Laned
    <3>2. UNCHANGED laneOf /\ Holds(r) /\ (Release(r) \/ Requeue(r))
      BY <1>6, <2>2 DEF ReadMarker, SettleAsk
    <3> QED
      BY <1>1, <1>3, <3>1, <3>2
  <2> QED
    BY <2>1, <2>2
<1>7. ASSUME Crash PROVE HoldsInv'
  BY <1>7 DEF Crash, HoldsInv
<1>8. ASSUME NEW r \in Runs,
             Answer(r) \/ Gate(r) \/ Interrupt(r) \/ GiveUp(r)
      PROVE  UNCHANGED <<pc, lane, laneOf>>
  BY <1>8 DEF Answer, Gate, Interrupt, GiveUp, process
<1>9. ASSUME Sweep \/ Dismiss \/ UNCHANGED vars
      PROVE  UNCHANGED <<pc, lane, laneOf>>
  BY <1>9 DEF Sweep, Dismiss, vars, process
<1> QED
  BY <1>2, <1>4, <1>5, <1>6, <1>7, <1>8, <1>9 DEF Next, TaskStep

\* What the guard of the clear lets through is gone.
LEMMA MayClearGone ==
    ASSUME TypeOK, StageInv, RecordInv, NEW m \in Runs, NEW r \in Runs,
           pc[r] = "clearing", MayClear(m, r)
    PROVE  Gone(m)
<1>1. CASE m = r
  BY <1>1 DEF RecordInv, Gone, Ended
<1>2. CASE m \in pool /\ Done(m)
  <2>1. pc[m] \in Ended
    BY <1>2 DEF StageInv
  <2> QED
    BY <2>1 DEF RecordInv, Gone, Ended
<1>3. CASE m \notin pool /\ storeStatus[m] \in Terminal
  <2>1. pc[m] \notin Active \cup Ended /\ pc[m] \notin Before /\ m \notin listed
    BY <1>3 DEF StageInv, RecordInv
  <2>2. pc[m] \in Stages
    BY DEF TypeOK
  <2> QED
    BY <2>1, <2>2 DEF Gone, Before, Active, Ended, Stages, Laned
<1> QED
  BY <1>1, <1>2, <1>3 DEF MayClear, SeemsLive

\* A run that is gone stays so as long as the process lives.
LEMMA GoneStays ==
    ASSUME TypeOK, RecordInv, Next, ~Crash, NEW m \in Runs, Gone(m)
    PROVE  Gone(m)'
<1> USE DEF Gone, Ended, Goto
<1>1. ASSUME UNCHANGED <<pc, listed>> PROVE Gone(m)'
  BY <1>1
<1>2. ASSUME NEW r \in Runs,
             \/ Request(r) \/ Load(r) \/ Refuse(r) \/ Start(r) \/ QueueMark(r)
             \/ PersistMark(r) \/ Open(r) \/ Ask(r) \/ Finish(r)
      PROVE  Gone(m)'
  <2>1. /\ pc[r] \notin Ended \cup {"over"}
        /\ UNCHANGED listed
        /\ \E b \in Stages : Goto(r, b)
    BY <1>2 DEF Request, Load, Refuse, Start, QueueMark, PersistMark, Open,
                Ask, Finish, Stages, Laned
  <2> QED
    BY <2>1 DEF TypeOK
<1>3. ASSUME NEW r \in Runs,
             \/ PostAsk(r) \/ Record(r) \/ ReadMarker(r) \/ Unmark(r)
             \/ ReadAsk(r) \/ Unask(r) \/ Discard(r)
      PROVE  Gone(m)'
  <2>1. CASE PostAsk(r)
    BY <2>1 DEF PostAsk, TypeOK
  <2>2. CASE ~PostAsk(r)
    <3>1. /\ UNCHANGED listed
          /\ \E b \in Ended \cup {"over"} : Goto(r, b)
      BY <1>3, <2>2 DEF Record, ReadMarker, Unmark, ReadAsk, Unask, Discard,
                        SettleAsk, AskStage
    <3> QED
      BY <3>1 DEF TypeOK
  <2> QED
    BY <2>1, <2>2
<1>4. ASSUME NEW r \in Runs, Resume(r) PROVE Gone(m)'
  BY <1>4 DEF Resume, TypeOK
<1>5. ASSUME NEW r \in Runs, GiveUp(r) PROVE Gone(m)'
  BY <1>5 DEF GiveUp
<1>6. ASSUME NEW r \in Runs, Answer(r) \/ Gate(r) \/ Interrupt(r)
      PROVE  UNCHANGED <<pc, listed>>
  BY <1>6 DEF Answer, Gate, Interrupt
<1>7. ASSUME Sweep \/ Dismiss PROVE UNCHANGED <<pc, listed>>
  BY <1>7 DEF Sweep, Dismiss
<1> QED
  BY <1>1, <1>2, <1>3, <1>4, <1>5, <1>6, <1>7 DEF Next, TaskStep

\* Without the synchronous mark, few steps touch the marker at all.
LEMMA MarkerUntouched ==
    ASSUME ~SyncMark, Next
    PROVE  \/ marker' = marker
           \/ \E r \in Runs : PersistMark(r) \/ Unmark(r) \/ GiveUp(r)
           \/ Sweep
<1>1. ASSUME NEW r \in Runs,
             \/ Request(r) \/ Load(r) \/ Refuse(r) \/ Start(r) \/ QueueMark(r)
             \/ Open(r) \/ Answer(r) \/ Ask(r) \/ PostAsk(r) \/ Gate(r)
             \/ Finish(r)
      PROVE  marker' = marker
  BY <1>1 DEF Request, Load, Refuse, Start, QueueMark, Open, Answer, Ask,
              PostAsk, Gate, Finish, database
<1>2. ASSUME NEW r \in Runs,
             \/ Record(r) \/ ReadMarker(r) \/ ReadAsk(r) \/ Unask(r)
             \/ Discard(r) \/ Interrupt(r) \/ Resume(r)
      PROVE  marker' = marker
  BY <1>2 DEF Record, ReadMarker, ReadAsk, Unask, Discard, Interrupt, Resume,
              database
<1>3. ASSUME Dismiss \/ Crash PROVE marker' = marker
  BY <1>3 DEF Dismiss, Crash, database
<1> QED
  BY <1>1, <1>2, <1>3 DEF Next, TaskStep

\* ... and those that do delete it, unless they hold the lane to write it.
LEMMA MarkerStep ==
    ASSUME ~SyncMark, Next
    PROVE  marker' \in {marker, None} \/ \E r \in Runs : PersistMark(r)
<1>1. ASSUME NEW r \in Runs, Unmark(r) \/ GiveUp(r)
      PROVE  marker' \in {marker, None}
  BY <1>1 DEF Unmark, GiveUp, PatchMarker
<1>2. ASSUME Sweep PROVE marker' \in {marker, None}
  BY <1>2 DEF Sweep, PatchMarker
<1> QED
  BY <1>1, <1>2, MarkerUntouched

\* A run gets to the point of deleting the marker by the guard of ReadMarker.
LEMMA UnmarkingBegins ==
    ASSUME TypeOK, Next, NEW x \in Runs, pc'[x] = "unmarking"
    PROVE  \/ pc[x] = "unmarking"
           \/ ReadMarker(x) /\ MayClear(marker, x)
<1>1. ASSUME NEW r \in Runs, NEW b \in Stages \ {"unmarking"}, Goto(r, b)
      PROVE  pc[x] = "unmarking"
  BY <1>1 DEF Goto, TypeOK
<1>2. ASSUME NEW r \in Runs,
             \/ Request(r) \/ Load(r) \/ Refuse(r) \/ Start(r) \/ QueueMark(r)
             \/ PersistMark(r) \/ Open(r) \/ Ask(r) \/ PostAsk(r) \/ Finish(r)
             \/ Resume(r)
      PROVE  \E b \in Stages \ {"unmarking"} : Goto(r, b)
  BY <1>2 DEF Request, Load, Refuse, Start, QueueMark, PersistMark, Open, Ask,
              PostAsk, Finish, Resume, Stages, Laned
<1>3. ASSUME NEW r \in Runs,
             Record(r) \/ Unmark(r) \/ ReadAsk(r) \/ Unask(r) \/ Discard(r)
      PROVE  \E b \in Stages \ {"unmarking"} : Goto(r, b)
  BY <1>3 DEF Record, Unmark, ReadAsk, Unask, Discard, SettleAsk, AskStage,
              Stages, Laned
<1>4. ASSUME NEW r \in Runs, ReadMarker(r)
      PROVE  \/ \E b \in Stages \ {"unmarking"} : Goto(r, b)
             \/ Goto(r, "unmarking") /\ MayClear(marker, r)
  BY <1>4 DEF ReadMarker, SettleAsk, AskStage, Stages, Laned
<1>5. ASSUME NEW r \in Runs, ReadMarker(r), Goto(r, "unmarking"),
             MayClear(marker, r)
      PROVE  x = r \/ pc[x] = "unmarking"
  BY <1>5 DEF Goto, TypeOK
<1>6. ASSUME NEW r \in Runs,
             Answer(r) \/ Gate(r) \/ Interrupt(r) \/ GiveUp(r)
      PROVE  UNCHANGED pc
  BY <1>6 DEF Answer, Gate, Interrupt, GiveUp
<1>7. ASSUME Sweep \/ Dismiss PROVE UNCHANGED pc
  BY <1>7 DEF Sweep, Dismiss
<1>8. ~Crash
  BY DEF Crash, TypeOK
<1> QED
  BY <1>1, <1>2, <1>3, <1>4, <1>5, <1>6, <1>7, <1>8 DEF Next, TaskStep

\* With one lane, the marker stays with a run that is gone for as long as
\* another is about to delete it: whoever could write it waits for the lane.
LEMMA NextUnmark ==
    ASSUME ~SyncMark, OneLane
    PROVE  MarkInv /\ [Next]_vars => UnmarkInv'
<1> SUFFICES ASSUME MarkInv, [Next]_vars, NEW r \in Runs,
                    pc'[r] = "unmarking", marker' # None
             PROVE  Gone(marker)'
  BY DEF UnmarkInv
<1> USE DEF MarkInv
<1>1. CASE UNCHANGED vars
  BY <1>1 DEF UnmarkInv, Gone, vars
<1>2. CASE Next
  <2>1. ~Crash
    BY DEF Crash, TypeOK
  <2>2. CASE ReadMarker(r) /\ MayClear(marker, r)
    <3>1. pc[r] = "clearing" /\ marker' = marker /\ marker \in Runs
      BY <2>2 DEF ReadMarker, MayClear, database, TypeOK, MaybeRun
    <3>2. Gone(marker)
      BY <2>2, <3>1, MayClearGone
    <3> QED
      BY <1>2, <2>1, <3>1, <3>2, GoneStays DEF Gone
  <2>3. CASE pc[r] = "unmarking"
    <3>1. Holds(r)
      BY <2>3 DEF HoldsInv
    <3>2. ASSUME NEW x \in Runs, PersistMark(x) PROVE FALSE
      <4>1. Holds(x) /\ pc[x] = "marking"
        BY <3>2 DEF PersistMark
      <4>2. laneOf[x] = laneOf[r]
        BY DEF OneLane, TypeOK
      <4>3. x = r
        BY <3>1, <4>1, <4>2 DEF Holds
      <4> QED
        BY <2>3, <4>1, <4>3
    <3>3. marker' = marker
      BY <1>2, <3>2, MarkerStep
    <3>4. Gone(marker) /\ marker \in Runs
      BY <2>3, <3>3 DEF UnmarkInv, TypeOK, MaybeRun
    <3> QED
      BY <1>2, <2>1, <3>3, <3>4, GoneStays DEF Gone
  <2> QED
    BY <1>2, <2>2, <2>3, UnmarkingBegins
<1> QED
  BY <1>1, <1>2

\* A step that changes the marker of a run that is running would have to come
\* from a second running run, or from a guard that found the run gone.
LEMMA StepKeepsLive ==
    ASSUME ~SyncMark, OneLane, MarkInv, [Next]_vars,
           NEW m \in Runs, marker = m, Running(m)
    PROVE  marker' = m
<1> USE DEF MarkInv
<1>1. ~Gone(m)
  BY DEF Running, StageInv, Gone, Ended, Active
<1>2. m \in pool /\ ~Done(m) /\ pc[m] \in Active
  BY DEF Running, StageInv
<1>3. CASE UNCHANGED vars
  BY <1>3 DEF vars
<1>4. CASE Next
  <2>1. ASSUME NEW r \in Runs, PersistMark(r) PROVE marker' = m
    <3>1. pc[r] = "marking"
      BY <2>1 DEF PersistMark
    <3>2. Running(r)
      BY <3>1 DEF Running, StageInv, Active, Ended
    <3>3. r = m
      BY <3>2 DEF CurrentRunning
    <3> QED
      BY <2>1, <3>3 DEF PersistMark, PatchMarker
  <2>2. ASSUME NEW r \in Runs, Unmark(r) PROVE marker' = m
    BY <2>2, <1>1 DEF Unmark, UnmarkInv, TypeOK
  <2>3. ASSUME NEW r \in Runs, GiveUp(r) PROVE marker' = m
    <3>1. r # m
      BY <2>3, <1>2 DEF GiveUp, RecordInv, Active
    <3>2. ~MayClear(marker, r)
      BY <1>2, <3>1 DEF MayClear, SeemsLive
    <3> QED
      BY <2>3, <3>2 DEF GiveUp
  <2>4. ASSUME Sweep PROVE marker' = m
    BY <2>4, <1>2 DEF Sweep, MayClear, SeemsLive
  <2> QED
    BY <1>4, <2>1, <2>2, <2>3, <2>4, MarkerUntouched
<1> QED
  BY <1>3, <1>4

\* With one Runtime and a database off the event loop, the marker of a run
\* that is running is never deleted nor given to another run.
THEOREM LiveMarkerSafe ==
    ASSUME ~SyncMark, OneLane
    PROVE  Spec => NeverClearsLive
<1>1. Init => MarkInv
  BY InitType DEF Init, MarkInv, CurrentRunning, StageInv, RecordInv, HoldsInv,
                  UnmarkInv, Running, Done, Active, Ended, Before, Terminal
<1>2. MarkInv /\ [Next]_vars => MarkInv'
  BY NextType, NextCurrent, NextStage, NextRecord, NextHolds, NextUnmark
     DEF MarkInv
<1>3. MarkInv /\ [Next]_vars =>
        [\A r \in Runs : (marker = r /\ Running(r)) => marker' = r]_vars
  BY StepKeepsLive
<1> QED
  BY <1>1, <1>2, <1>3, PTL DEF Spec, NeverClearsLive

(***************************************************************************)
(* Nor is its question                                                     *)
(***************************************************************************)
\* Who is about to delete the question holds the lane, and what it is about to
\* delete is the question of a run that is gone.
AskHoldsInv == \A r \in Runs : pc[r] = "unasking" => Holds(r)
UnaskInv == \A r \in Runs : pc[r] = "unasking" /\ ask # None => Gone(ask)

AskInv == TypeOK /\ StageInv /\ RecordInv /\ AskHoldsInv /\ UnaskInv

\* A run gets to that point by the guard of ReadAsk, and leaves it by Unask.
LEMMA UnaskingBegins ==
    ASSUME TypeOK, Next, NEW x \in Runs, pc'[x] = "unasking"
    PROVE  \/ pc[x] = "unasking" /\ ~Unask(x)
           \/ ReadAsk(x) /\ MayClear(ask, x)
<1>0. ASSUME Unask(x) PROVE FALSE
  BY <1>0 DEF Unask, Goto, TypeOK
<1>1. ASSUME NEW r \in Runs, NEW b \in Stages \ {"unasking"}, Goto(r, b)
      PROVE  pc[x] = "unasking"
  BY <1>1 DEF Goto, TypeOK
<1>2. ASSUME NEW r \in Runs,
             \/ Request(r) \/ Load(r) \/ Refuse(r) \/ Start(r) \/ QueueMark(r)
             \/ PersistMark(r) \/ Open(r) \/ Ask(r) \/ PostAsk(r) \/ Finish(r)
             \/ Resume(r)
      PROVE  \E b \in Stages \ {"unasking"} : Goto(r, b)
  BY <1>2 DEF Request, Load, Refuse, Start, QueueMark, PersistMark, Open, Ask,
              PostAsk, Finish, Resume, Stages, Laned
<1>3. ASSUME NEW r \in Runs,
             Record(r) \/ ReadMarker(r) \/ Unmark(r) \/ Unask(r) \/ Discard(r)
      PROVE  \E b \in Stages \ {"unasking"} : Goto(r, b)
  BY <1>3 DEF Record, ReadMarker, Unmark, Unask, Discard, SettleAsk, AskStage,
              Stages, Laned
<1>4. ASSUME NEW r \in Runs, ReadAsk(r)
      PROVE  \/ \E b \in Stages \ {"unasking"} : Goto(r, b)
             \/ Goto(r, "unasking") /\ MayClear(ask, r)
  BY <1>4 DEF ReadAsk, Stages, Laned
<1>5. ASSUME NEW r \in Runs, ReadAsk(r), Goto(r, "unasking"), MayClear(ask, r)
      PROVE  x = r \/ pc[x] = "unasking"
  BY <1>5 DEF Goto, TypeOK
<1>6. ASSUME NEW r \in Runs,
             Answer(r) \/ Gate(r) \/ Interrupt(r) \/ GiveUp(r)
      PROVE  UNCHANGED pc
  BY <1>6 DEF Answer, Gate, Interrupt, GiveUp
<1>7. ASSUME Sweep \/ Dismiss PROVE UNCHANGED pc
  BY <1>7 DEF Sweep, Dismiss
<1>8. ~Crash
  BY DEF Crash, TypeOK
<1> QED
  BY <1>0, <1>1, <1>2, <1>3, <1>4, <1>5, <1>6, <1>7, <1>8 DEF Next, TaskStep

\* A step queues for the lane, or lets go of the one it holds.
LaneStep(r) ==
    \/ Queue(r)
    \/ Holds(r) /\ (Release(r) \/ Requeue(r))
    \/ UNCHANGED lane

\* Whoever stays at that point keeps the lane.
LEMMA UnaskingHolds ==
    ASSUME TypeOK, Next, NEW x \in Runs,
           pc[x] = "unasking", pc'[x] = "unasking", Holds(x)
    PROVE  Holds(x)'
<1>1. ASSUME NEW r \in Runs, NEW b \in Stages \ {"unasking"}, Goto(r, b)
      PROVE  r # x
  BY <1>1 DEF Goto, TypeOK
<1>2. ASSUME NEW r \in Runs, NEW b \in Stages \ {"unasking"}, Goto(r, b),
             LaneStep(r), UNCHANGED laneOf
      PROVE  Holds(x)'
  BY <1>1, <1>2, LaneKept DEF LaneStep, TypeOK
<1>3. ASSUME NEW r \in Runs,
             \/ Request(r) \/ Load(r) \/ Refuse(r) \/ Start(r) \/ QueueMark(r)
             \/ PersistMark(r) \/ Open(r) \/ Ask(r) \/ PostAsk(r) \/ Finish(r)
             \/ Resume(r)
      PROVE  Holds(x)'
  <2>1. \E b \in Stages \ {"unasking"} : Goto(r, b)
    BY <1>3 DEF Request, Load, Refuse, Start, QueueMark, PersistMark, Open, Ask,
                PostAsk, Finish, Resume, Stages, Laned
  <2>2. UNCHANGED laneOf /\ LaneStep(r)
    BY <1>3 DEF Request, Load, Refuse, Start, QueueMark, PersistMark, Open, Ask,
                PostAsk, Finish, Resume, process, LaneStep
  <2> QED
    BY <1>2, <2>1, <2>2
<1>4. ASSUME NEW r \in Runs, Record(r) \/ Unmark(r) \/ Unask(r) \/ Discard(r)
      PROVE  Holds(x)'
  <2>1. \E b \in Stages \ {"unasking"} : Goto(r, b)
    BY <1>4 DEF Record, Unmark, Unask, Discard, SettleAsk, AskStage, Stages, Laned
  <2>2. UNCHANGED laneOf /\ LaneStep(r)
    BY <1>4 DEF Record, Unmark, Unask, Discard, SettleAsk, LaneStep
  <2> QED
    BY <1>2, <2>1, <2>2
<1>5. ASSUME NEW r \in Runs, ReadMarker(r)
      PROVE  Holds(x)'
  <2>1. \E b \in Stages \ {"unasking"} : Goto(r, b)
    BY <1>5 DEF ReadMarker, SettleAsk, AskStage, Stages, Laned
  <2>2. UNCHANGED laneOf /\ LaneStep(r)
    BY <1>5 DEF ReadMarker, SettleAsk, LaneStep
  <2> QED
    BY <1>2, <2>1, <2>2
<1>6. ASSUME NEW r \in Runs, ReadAsk(r)
      PROVE  Holds(x)'
  <2>1. r # x /\ UNCHANGED laneOf /\ LaneStep(r)
    BY <1>6 DEF ReadAsk, LaneStep
  <2> QED
    BY <2>1, LaneKept DEF LaneStep, TypeOK
<1>7. ASSUME NEW r \in Runs,
             Answer(r) \/ Gate(r) \/ Interrupt(r) \/ GiveUp(r)
      PROVE  UNCHANGED <<lane, laneOf>>
  BY <1>7 DEF Answer, Gate, Interrupt, GiveUp, process
<1>8. ASSUME Sweep \/ Dismiss PROVE UNCHANGED <<lane, laneOf>>
  BY <1>8 DEF Sweep, Dismiss, process
<1>9. ~Crash
  BY DEF Crash, TypeOK
<1> QED
  BY <1>3, <1>4, <1>5, <1>6, <1>7, <1>8, <1>9 DEF Next, TaskStep, Holds

LEMMA NextAskHolds == TypeOK /\ AskHoldsInv /\ [Next]_vars => AskHoldsInv'
<1> SUFFICES ASSUME TypeOK, AskHoldsInv, [Next]_vars, NEW x \in Runs, pc'[x] = "unasking"
             PROVE  Holds(x)'
  BY DEF AskHoldsInv
<1>1. CASE UNCHANGED vars
  BY <1>1 DEF AskHoldsInv, Holds, vars
<1>2. CASE Next
  <2>1. CASE pc[x] = "unasking"
    BY <1>2, <2>1, UnaskingHolds DEF AskHoldsInv
  <2>2. CASE ReadAsk(x) /\ MayClear(ask, x)
    BY <2>2 DEF ReadAsk, Holds
  <2> QED
    BY <1>2, <2>1, <2>2, UnaskingBegins
<1> QED
  BY <1>1, <1>2

\* Few steps touch the question at all.
LEMMA AskUntouched ==
    ASSUME Next
    PROVE  \/ ask' = ask
           \/ \E r \in Runs : PostAsk(r) \/ Unask(r) \/ Answer(r)
           \/ Dismiss
<1>1. ASSUME NEW r \in Runs,
             \/ Request(r) \/ Load(r) \/ Refuse(r) \/ Start(r) \/ QueueMark(r)
             \/ PersistMark(r) \/ Open(r) \/ Ask(r) \/ Gate(r) \/ Finish(r)
      PROVE  ask' = ask
  BY <1>1 DEF Request, Load, Refuse, Start, QueueMark, PersistMark, Open, Ask,
              Gate, Finish, database
<1>2. ASSUME NEW r \in Runs,
             \/ Record(r) \/ ReadMarker(r) \/ Unmark(r) \/ ReadAsk(r)
             \/ Discard(r) \/ Interrupt(r) \/ Resume(r) \/ GiveUp(r)
      PROVE  ask' = ask
  BY <1>2 DEF Record, ReadMarker, Unmark, ReadAsk, Discard, Interrupt, Resume,
              GiveUp, database
<1>3. ASSUME Crash \/ Sweep PROVE ask' = ask
  BY <1>3 DEF Crash, Sweep, database
<1> QED
  BY <1>1, <1>2, <1>3 DEF Next, TaskStep

\* What the guard lets through is gone.
LEMMA MayClearAskGone ==
    ASSUME TypeOK, StageInv, RecordInv, NEW m \in Runs, NEW r \in Runs,
           pc[r] = "probing", MayClear(m, r)
    PROVE  Gone(m)
<1>1. CASE m = r
  BY <1>1 DEF RecordInv, Gone, Ended
<1>2. CASE m \in pool /\ Done(m)
  <2>1. pc[m] \in Ended
    BY <1>2 DEF StageInv
  <2> QED
    BY <2>1 DEF RecordInv, Gone, Ended
<1>3. CASE m \notin pool /\ storeStatus[m] \in Terminal
  <2>1. pc[m] \notin Active \cup Ended /\ pc[m] \notin Before /\ m \notin listed
    BY <1>3 DEF StageInv, RecordInv
  <2>2. pc[m] \in Stages
    BY DEF TypeOK
  <2> QED
    BY <2>1, <2>2 DEF Gone, Before, Active, Ended, Stages, Laned
<1> QED
  BY <1>1, <1>2, <1>3 DEF MayClear, SeemsLive

\* With one lane nobody asks while another is about to delete a question.
LEMMA NextUnask ==
    ASSUME OneLane, AskInv, [Next]_vars
    PROVE  UnaskInv'
<1> SUFFICES ASSUME NEW r \in Runs, pc'[r] = "unasking", ask' # None
             PROVE  Gone(ask)'
  BY DEF UnaskInv
<1> USE DEF AskInv
<1>1. CASE UNCHANGED vars
  BY <1>1 DEF UnaskInv, Gone, vars
<1>2. CASE Next
  <2>1. ~Crash
    BY DEF Crash, TypeOK
  <2>2. CASE ReadAsk(r) /\ MayClear(ask, r)
    <3>1. pc[r] = "probing" /\ ask' = ask /\ ask \in Runs
      BY <2>2 DEF ReadAsk, MayClear, database, TypeOK, MaybeRun
    <3>2. Gone(ask)
      BY <2>2, <3>1, MayClearAskGone
    <3> QED
      BY <1>2, <2>1, <3>1, <3>2, GoneStays DEF Gone
  <2>3. CASE pc[r] = "unasking"
    <3>1. Holds(r)
      BY <2>3 DEF AskHoldsInv
    <3>2. ASSUME NEW x \in Runs, PostAsk(x) PROVE FALSE
      <4>1. Holds(x) /\ pc[x] \in {"asking", "posting"}
        BY <3>2 DEF PostAsk
      <4>2. laneOf[x] = laneOf[r]
        BY DEF OneLane, TypeOK
      <4>3. x = r
        BY <3>1, <4>1, <4>2 DEF Holds
      <4> QED
        BY <2>3, <4>1, <4>3
    <3>3. ask' = ask
      <4>1. ASSUME NEW x \in Runs, Unask(x) \/ Answer(x) PROVE ask' \in {ask, None}
        BY <4>1 DEF Unask, Answer, PatchAsk
      <4>2. ASSUME Dismiss PROVE ask' \in {ask, None}
        BY <4>2 DEF Dismiss, PatchAsk
      <4> QED
        BY <1>2, <3>2, <4>1, <4>2, AskUntouched
    <3>4. Gone(ask) /\ ask \in Runs
      BY <2>3, <3>3 DEF UnaskInv, TypeOK, MaybeRun
    <3> QED
      BY <1>2, <2>1, <3>3, <3>4, GoneStays DEF Gone
  <2> QED
    BY <1>2, <2>2, <2>3, UnaskingBegins
<1> QED
  BY <1>1, <1>2

\* With one Runtime the question of a run that drives is deleted only when it is
\* answered or dismissed, with the database on the event loop or off it.
THEOREM LiveAskSafe ==
    ASSUME OneLane
    PROVE  Spec => LiveAskKept
<1>1. Init => AskInv
  BY InitType DEF Init, AskInv, StageInv, RecordInv, AskHoldsInv, UnaskInv, Done, Active,
                  Ended, Before, Terminal
<1>2. AskInv /\ [Next]_vars => AskInv'
  BY NextType, NextStage, NextRecord, NextAskHolds, NextUnask DEF AskInv
<1>3. ASSUME AskInv, [Next]_vars, NEW m \in Runs, ask = m, Running(m), ask' = None,
             ask' # ask
      PROVE  Dismiss \/ \E x \in Runs : Answer(x)
  <2>1. ~Gone(m)
    BY <1>3 DEF AskInv, Running, StageInv, Gone, Ended, Active
  <2>2. ASSUME NEW r \in Runs, Unask(r) PROVE FALSE
    BY <1>3, <2>1, <2>2 DEF AskInv, Unask, UnaskInv
  <2>3. ASSUME NEW r \in Runs, PostAsk(r) PROVE FALSE
    BY <1>3, <2>3 DEF PostAsk, PatchAsk, AskInv, TypeOK
  <2>4. Next
    BY <1>3 DEF vars
  <2> QED
    BY <1>3, <2>2, <2>3, <2>4, AskUntouched
<1>4. AskInv /\ [Next]_vars =>
        [\A r \in Runs : (ask = r /\ Running(r) /\ ask' = None)
                            => Dismiss \/ \E x \in Runs : Answer(x)]_vars
  <2>1. ASSUME NEW m \in Runs, ask = m, ask' = None PROVE ask' # ask
    BY <2>1, NoneAssumption
  <2> QED
    BY <1>3, <2>1
<1> QED
  BY <1>1, <1>2, <1>4, PTL DEF Spec, LiveAskKept

(***************************************************************************)
(* A marker at rest is explained                                           *)
(***************************************************************************)
Recoverable(m) == storeStatus[m] \in {"none", "running", "interrupted"}
Explained(m) == Recoverable(m) \/ cut[m]

\* The stages behind the one that deletes a run's own marker.
Settled == {"posting", "probing", "unasking", "ending"}

\* A run whose marker is there and that does not run will be recovered or was cut
\* short; one that is past the deletion of its marker failed to delete it.
ExplainedInv ==
    \A m \in Runs : marker = m =>
        /\ pc[m] \in Before \cup {"over"} => Explained(m)
        /\ pc[m] \in Settled => cut[m]

\* Steps of the task that leave marker, record and cut alone.
LEMMA MoveExplained ==
    ASSUME TypeOK, ExplainedInv, NEW r \in Runs,
           Request(r) \/ Load(r) \/ Refuse(r) \/ QueueMark(r) \/ Ask(r) \/ PostAsk(r)
           \/ ReadMarker(r) \/ ReadAsk(r) \/ Unask(r) \/ Discard(r)
    PROVE  ExplainedInv'
<1> USE DEF Goto, Before, Settled
<1>1. UNCHANGED <<marker, storeStatus, cut>>
  BY DEF Request, Load, Refuse, QueueMark, Ask, PostAsk, ReadMarker, ReadAsk, Unask, Discard,
         database
<1>2. \A m \in Runs : Explained(m)' <=> Explained(m)
  BY <1>1 DEF Explained, Recoverable
<1>3. ASSUME NEW b \in Stages, pc' = [pc EXCEPT ![r] = b],
             b \in Before \cup {"over"} => pc[r] \in Before \cup Settled \cup {"over"},
             (b \in Settled /\ marker = r) => pc[r] \in Settled
      PROVE  ExplainedInv'
  <2> SUFFICES ASSUME NEW m \in Runs, marker = m
               PROVE  /\ pc'[m] \in Before \cup {"over"} => Explained(m)'
                      /\ pc'[m] \in Settled => cut[m]
    BY <1>1 DEF ExplainedInv
  <2>1. CASE m = r
    BY <1>1, <1>2, <1>3, <2>1 DEF ExplainedInv, TypeOK, Explained
  <2>2. CASE m # r
    BY <1>1, <1>2, <1>3, <2>2 DEF ExplainedInv, TypeOK
  <2> QED
    BY <2>1, <2>2
<1> USE DEF Stages, Laned
<1>4. CASE Request(r) \/ Load(r) \/ Refuse(r) \/ QueueMark(r) \/ Ask(r)
  BY <1>4, <1>3 DEF Request, Load, Refuse, QueueMark, Ask
<1>5. CASE PostAsk(r)
  BY <1>5, <1>3 DEF PostAsk
<1>6. CASE ReadMarker(r)
  <2>1. CASE MayClear(marker, r)
    BY <1>6, <2>1, <1>3 DEF ReadMarker
  <2>2. CASE ~MayClear(marker, r)
    <3>1. marker # r
      BY <2>2 DEF MayClear
    <3>2. pc' = [pc EXCEPT ![r] = AskStage(r)] /\ AskStage(r) \in Settled
      BY <1>6, <2>2 DEF ReadMarker, SettleAsk, AskStage
    <3> QED
      BY <3>1, <3>2, <1>3
  <2> QED
    BY <2>1, <2>2
<1>7. CASE ReadAsk(r) \/ Unask(r)
  BY <1>7, <1>3 DEF ReadAsk, Unask
<1>8. CASE Discard(r)
  BY <1>8, <1>3 DEF Discard
<1> QED
  BY <1>4, <1>5, <1>6, <1>7, <1>8

\* The steps that write the marker, the record or what was cut.
LEMMA WriteExplained ==
    ASSUME TypeOK, ExplainedInv, StageInv, NEW r \in Runs,
           Start(r) \/ PersistMark(r) \/ Open(r) \/ Finish(r) \/ Record(r) \/ Unmark(r)
           \/ Interrupt(r) \/ Resume(r)
    PROVE  ExplainedInv'
<1> USE DEF Goto, Before, Settled
<1>1. ASSUME marker' \in {marker, r, None},
             \A m \in Runs \ {r} : pc'[m] = pc[m] /\ (Explained(m)' <=> Explained(m))
                                   /\ cut'[m] = cut[m],
             marker' = r => /\ pc'[r] \in Before \cup {"over"} => Explained(r)'
                            /\ pc'[r] \in Settled => cut'[r]
      PROVE  ExplainedInv'
  BY <1>1 DEF ExplainedInv
<1>2. ASSUME NEW b \in Stages, pc' = [pc EXCEPT ![r] = b]
      PROVE  pc'[r] = b /\ \A m \in Runs \ {r} : pc'[m] = pc[m]
  BY <1>2 DEF TypeOK
<1>3. ASSUME NEW s, RecordStatus(r, s)
      PROVE  \A m \in Runs \ {r} : storeStatus'[m] = storeStatus[m]
  BY <1>3 DEF RecordStatus, TypeOK
<1> USE DEF Stages, Laned, Explained, Recoverable
<1>4. CASE Start(r)
  <2>1. marker' \in {marker, r} /\ UNCHANGED <<storeStatus, cut>>
    BY <1>4 DEF Start, PatchMarker
  <2>2. pc' = [pc EXCEPT ![r] = "opening"] \/ pc' = [pc EXCEPT ![r] = "spawned"]
    BY <1>4 DEF Start
  <2> QED
    BY <2>1, <2>2, <1>1, <1>2
<1>5. CASE PersistMark(r)
  <2>1. marker' \in {marker, r} /\ UNCHANGED <<storeStatus, cut>>
    BY <1>5 DEF PersistMark, PatchMarker
  <2>2. pc' = [pc EXCEPT ![r] = "opening"]
    BY <1>5 DEF PersistMark
  <2> QED
    BY <2>1, <2>2, <1>1, <1>2
<1>6. CASE Open(r)
  <2>1. marker' = marker /\ cut' = cut /\ pc' = [pc EXCEPT ![r] = "driving"]
    BY <1>6 DEF Open, database, process
  <2>2. \A m \in Runs \ {r} : storeStatus'[m] = storeStatus[m]
    BY <1>6, <1>3 DEF Open
  <2> QED
    BY <2>1, <2>2, <1>1, <1>2
<1>7. CASE Finish(r)
  <2>1. marker' = marker /\ storeStatus' = storeStatus /\ pc' = [pc EXCEPT ![r] = "recording"]
    BY <1>7 DEF Finish, database
  <2>2. \A m \in Runs \ {r} : cut'[m] = cut[m]
    BY <1>7 DEF Finish, TypeOK
  <2> QED
    BY <2>1, <2>2, <1>1, <1>2
<1>8. CASE Record(r)
  <2>1. marker' = marker /\ cut' = cut
    BY <1>8 DEF Record, database
  <2>2. pc' = [pc EXCEPT ![r] = "clearing"] \/ (cut[r] /\ pc' = [pc EXCEPT ![r] = "ending"])
    BY <1>8 DEF Record, Settles
  <2>3. \A m \in Runs \ {r} : storeStatus'[m] = storeStatus[m]
    BY <1>8, <1>3 DEF Record
  <2> QED
    BY <2>1, <2>2, <2>3, <1>1, <1>2
<1>9. CASE Unmark(r)
  <2>1. marker' \in {marker, None} /\ storeStatus' = storeStatus
    BY <1>9 DEF Unmark, PatchMarker
  <2>2. cut' = [cut EXCEPT ![r] = marker' = r]
    BY <1>9 DEF Unmark
  <2>3. cut'[r] = (marker' = r) /\ \A m \in Runs \ {r} : cut'[m] = cut[m]
    BY <2>2 DEF TypeOK
  <2>4. pc' = [pc EXCEPT ![r] = AskStage(r)] /\ AskStage(r) \in Settled
    BY <1>9 DEF Unmark, SettleAsk, AskStage
  <2> QED
    BY <2>1, <2>3, <2>4, <1>1, <1>2
<1>10. CASE Interrupt(r)
  <2>1. UNCHANGED <<marker, pc, cut>>
    BY <1>10 DEF Interrupt, database
  <2>2. \A m \in Runs \ {r} : storeStatus'[m] = storeStatus[m]
    BY <1>10, <1>3 DEF Interrupt
  <2>3. r \in pool /\ ~Done(r)
    BY <1>10 DEF Interrupt, Running
  <2>4. pc[r] \in Active
    BY <2>3 DEF StageInv
  <2> QED
    BY <2>1, <2>2, <2>4, <1>1 DEF Active
<1>11. CASE Resume(r)
  <2>1. marker' = marker /\ pc' = [pc EXCEPT ![r] = "loading"]
    BY <1>11 DEF Resume, database
  <2>2. storeStatus' = [storeStatus EXCEPT ![r] = "running"] /\ cut' = [cut EXCEPT ![r] = FALSE]
    BY <1>11 DEF Resume
  <2>3. /\ storeStatus'[r] = "running"
        /\ \A m \in Runs \ {r} : storeStatus'[m] = storeStatus[m] /\ cut'[m] = cut[m]
    BY <2>2 DEF TypeOK
  <2> QED
    BY <2>1, <2>3, <1>1, <1>2
<1> QED
  BY <1>4, <1>5, <1>6, <1>7, <1>8, <1>9, <1>10, <1>11

\* Who deletes a marker that is not its own, a death, and what touches none of it.
LEMMA OtherExplained ==
    ASSUME TypeOK, ExplainedInv, StageInv,
           \/ \E r \in Runs : Answer(r) \/ Gate(r) \/ GiveUp(r)
           \/ Crash \/ Sweep \/ Dismiss \/ UNCHANGED vars
    PROVE  ExplainedInv'
<1>1. ASSUME marker' \in {marker, None}, UNCHANGED <<storeStatus, pc, cut>>
      PROVE  ExplainedInv'
  BY <1>1 DEF ExplainedInv, Explained, Recoverable
<1>2. ASSUME NEW r \in Runs, Answer(r) \/ Gate(r) \/ GiveUp(r) PROVE ExplainedInv'
  BY <1>2, <1>1 DEF Answer, Gate, GiveUp, PatchMarker, database, process
<1>3. CASE Sweep \/ Dismiss \/ UNCHANGED vars
  BY <1>3, <1>1 DEF Sweep, Dismiss, PatchMarker, process, vars
<1>4. CASE Crash
  <2>1. UNCHANGED <<marker, storeStatus>>
    BY <1>4 DEF Crash, database
  <2>2. \A m \in Runs : /\ pc'[m] = (IF pc[m] = "idle" THEN "idle" ELSE "over")
                        /\ cut'[m] = (cut[m] \/ m \in pool)
    BY <1>4 DEF Crash
  <2>3. \A m \in Runs : pc[m] \in Before \cup {"over"} \/ m \in pool
    BY DEF StageInv, TypeOK, Stages, Laned, Before, Active, Ended
  <2>4. ASSUME NEW m \in Runs, marker = m PROVE Explained(m)'
    BY <2>1, <2>2, <2>3, <2>4 DEF ExplainedInv, Explained, Recoverable
  <2>5. \A m \in Runs : pc'[m] \notin Settled
    BY <2>2 DEF Settled
  <2> QED
    BY <2>1, <2>4, <2>5 DEF ExplainedInv
<1> QED
  BY <1>2, <1>3, <1>4

\* Whatever fails, dies or is cancelled, with one Runtime or several: when nothing runs
\* and nothing is about to, the marker in the database names a run that recovery will
\* start again, or one whose wrap-up was cut short before it could delete it.
THEOREM MarkerAtRest == Spec => []MarkerExplained
<1> DEFINE Inv == TypeOK /\ StageInv /\ RecordInv /\ ExplainedInv
<1>1. Init => Inv
  BY InitType DEF Init, StageInv, RecordInv, ExplainedInv, Done, Active, Ended, Before, Terminal
<1>2. Inv /\ [Next]_vars => ExplainedInv'
  BY MoveExplained, WriteExplained, OtherExplained DEF Next, TaskStep
<1>3. Inv /\ [Next]_vars => Inv'
  BY <1>2, NextType, NextStage, NextRecord
<1>4. Inv => MarkerExplained
  <2> SUFFICES ASSUME Inv, Quiet, marker # None
               PROVE  storeStatus[marker] \in {"none", "running", "interrupted"} \/ cut[marker]
    BY DEF MarkerExplained
  <2>1. marker \in Runs
    BY DEF TypeOK, MaybeRun
  <2>2. pc[marker] \in Before \cup {"over"}
    BY <2>1 DEF Quiet, Before
  <2> QED
    BY <2>1, <2>2 DEF ExplainedInv, Explained, Recoverable
<1> QED
  BY <1>1, <1>3, <1>4, PTL DEF Spec
===============================================================================
