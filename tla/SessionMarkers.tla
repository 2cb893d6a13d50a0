---------------------------- MODULE SessionMarkers ----------------------------
(***************************************************************************)
(* One session over the lives of its runs (class Runtime,                  *)
(* engine/runtime.py, with Runner.drive and RunPool): `start' admits a run *)
(* and marks it active on the session, the run wraps up, settles the two   *)
(* markers the session keeps in the database -- the run that is active,    *)
(* and the question a suspended run asked -- and leaves the pool.  After   *)
(* the process died, `recover' starts the interrupted runs again.          *)
(*                                                                         *)
(* Every coroutine that touches the markers off the event loop does so     *)
(* while it holds the session's lane, a FIFO asyncio.Lock per Runtime:     *)
(* lane[l] is its queue, the head being the holder.  Reading a marker and  *)
(* writing it are separate calls in a worker thread, so the loop runs      *)
(* between them; what a synchronous entry point does is one action.        *)
(***************************************************************************)
EXTENDS Naturals, Sequences, FiniteSets

CONSTANTS
    Runs,          \* run ids of this session
    None,          \* no run
    Lanes,         \* runtimes in the process: one, or it and its derivations
    SyncMark,      \* the database is the InMemoryDatabase
    MaxCrashes,    \* bound: process deaths
    Suspensions,   \* how runs suspend: a tool asks, or a gate holds a call
    Disturbances   \* what the environment may do

ASSUME NoneAssumption == None \notin Runs

ASSUME DisturbancesAssumption ==
    Disturbances \subseteq {"patch", "status", "interrupt", "cancel", "dismiss"}

ASSUME SuspensionsAssumption == Suspensions \subseteq {"asked", "gated"}

\* An InMemoryDatabase dies with its process.
ASSUME CrashAssumption ==
    /\ SyncMark \in BOOLEAN
    /\ MaxCrashes \in Nat
    /\ SyncMark => MaxCrashes = 0

VARIABLES
    marker,        \* database: the session's active_run_id
    ask,           \* database: the run whose question is pending
    storeStatus,   \* RunStore: status per run, "none" before create_run
    pc,            \* where the request, then the driving task, of a run is
    laneOf,        \* the Runtime a run was started with
    lane,          \* queue of the session's database lock, per Runtime
    copy,          \* the run's Session object: markers in its meta
    pool,          \* RunPool._by_id
    current,       \* RunPool._by_session of this session
    result,        \* Run._status
    asks,          \* Runner.suspend_marker: "no", "asked" (written) or "gated"
    interrupted,   \* Run.interrupted
    cut,           \* the driving task was cut, or died
    listed,        \* runs `recover' has yet to look at
    crashes        \* process deaths so far

database == <<marker, ask>>
process == <<laneOf, lane, copy, pool, current, result, asks, interrupted,
             cut>>
vars == <<marker, ask, storeStatus, pc, laneOf, lane, copy, pool, current,
          result, asks, interrupted, cut, listed, crashes>>
-------------------------------------------------------------------------------
MaybeRun == Runs \cup {None}

Markers == [active : MaybeRun, ask : MaybeRun]

Terminal == {"done", "stopped", "failed"}

\* Stages that hold, or wait for, the lane.
Laned == {"loading", "marking", "asking", "clearing", "unmarking", "posting",
          "probing", "unasking"}

Stages == Laned \cup {"idle", "loaded", "spawned", "opening", "driving",
                      "recording", "ending", "over"}

TypeOK ==
    /\ marker \in MaybeRun
    /\ ask \in MaybeRun
    /\ storeStatus \in [Runs -> Terminal \cup
                          {"none", "running", "suspended", "interrupted"}]
    /\ pc \in [Runs -> Stages]
    /\ laneOf \in [Runs -> Lanes]
    /\ lane \in [Lanes -> Seq(Runs)]
    /\ copy \in [Runs -> Markers]
    /\ pool \in SUBSET Runs
    /\ current \in MaybeRun
    /\ result \in [Runs -> Terminal \cup {"running", "suspended"}]
    /\ asks \in [Runs -> {"no", "asked", "gated"}]
    /\ interrupted \in [Runs -> BOOLEAN]
    /\ cut \in [Runs -> BOOLEAN]
    /\ listed \in SUBSET Runs
    /\ crashes \in 0 .. MaxCrashes

Blank == [active |-> None, ask |-> None]

Init ==
    /\ marker = None
    /\ ask = None
    /\ storeStatus = [r \in Runs |-> "none"]
    /\ pc = [r \in Runs |-> "idle"]
    /\ laneOf \in [Runs -> Lanes]
    /\ lane = [l \in Lanes |-> <<>>]
    /\ copy = [r \in Runs |-> Blank]
    /\ pool = {}
    /\ current = None
    /\ result = [r \in Runs |-> "running"]
    /\ asks = [r \in Runs |-> "no"]
    /\ interrupted = [r \in Runs |-> FALSE]
    /\ cut = [r \in Runs |-> FALSE]
    /\ listed = {}
    /\ crashes = 0

Done(r) == result[r] # "running"
Running(r) == r \in pool /\ ~Done(r)
-------------------------------------------------------------------------------
(***************************************************************************)
(* Helpers: the lane, liveness, calls that may fail                        *)
(***************************************************************************)
Holds(r) == lane[laneOf[r]] # <<>> /\ Head(lane[laneOf[r]]) = r

Goto(r, stage) == pc' = [pc EXCEPT ![r] = stage]

Queue(r) == lane' = [lane EXCEPT ![laneOf[r]] = Append(@, r)]

Release(r) == lane' = [lane EXCEPT ![laneOf[r]] = Tail(@)]

\* Fault: the second acquisition is forgotten.
RequeueLost(r) == Release(r)

\* Release the lane and queue for it again, behind whoever waits.
Requeue(r) == lane' = [lane EXCEPT ![laneOf[r]] = Append(Tail(@), r)]

\* Fault: only the record is consulted, and a missing one means dead.
SeemsLiveByRecord(r) ==
    storeStatus[r] \in {"running", "suspended", "interrupted"}

\* _run_seems_live: in doubt a run is alive; one in the pool is judged by its
\* handle, any other by its record.
SeemsLive(r) ==
    IF r \in pool THEN ~Done(r) ELSE storeStatus[r] \notin Terminal

\* A patch_meta or run-store call fails; the caller logs it and goes on.
PatchMarker(value) ==
    marker' = value \/ ("patch" \in Disturbances /\ marker' = marker)

PatchAsk(value) ==
    ask' = value \/ ("patch" \in Disturbances /\ ask' = ask)

RecordStatus(r, status) ==
    \/ storeStatus' = [storeStatus EXCEPT ![r] = status]
    \/ "status" \in Disturbances /\ UNCHANGED storeStatus
-------------------------------------------------------------------------------
(***************************************************************************)
(* Starting a run                                                          *)
(***************************************************************************)
\* A request for a new run loads the session, through some Runtime.
Request(r) ==
    /\ pc[r] = "idle"
    /\ Goto(r, "loading")
    /\ Queue(r)
    /\ UNCHANGED <<database, storeStatus, laneOf, copy, pool, current, result,
                   asks, interrupted, cut, listed, crashes>>

Load(r) ==
    /\ pc[r] = "loading"
    /\ Holds(r)
    /\ copy' = [copy EXCEPT ![r] = [active |-> marker, ask |-> ask]]
    /\ Release(r)
    /\ Goto(r, "loaded")
    /\ UNCHANGED <<database, storeStatus, laneOf, pool, current, result, asks,
                   interrupted, cut, listed, crashes>>

\* start raises SessionRunActiveError.
Busy == current # None /\ ~Done(current)

Refuse(r) ==
    /\ pc[r] = "loaded"
    /\ Busy
    /\ Goto(r, "over")
    /\ copy' = [copy EXCEPT ![r] = Blank]
    /\ UNCHANGED <<database, storeStatus, laneOf, lane, pool, current, result,
                   asks, interrupted, cut, listed, crashes>>

\* start marks the Session object, and the InMemoryDatabase at once.  A run
\* started again under its old id finds its own marker and writes nothing.
Start(r) ==
    /\ pc[r] = "loaded"
    /\ ~Busy
    /\ pool' = pool \cup {r}
    /\ current' = r
    /\ copy' = [copy EXCEPT ![r].active = r]
    /\ IF copy[r].active = r THEN Goto(r, "opening") /\ UNCHANGED marker
       ELSE IF SyncMark THEN Goto(r, "opening") /\ PatchMarker(r)
       ELSE Goto(r, "spawned") /\ UNCHANGED marker
    /\ UNCHANGED <<ask, storeStatus, laneOf, lane, result, asks, interrupted,
                   cut, listed, crashes>>

\* The driving task begins: _persist_marked_session_run.
QueueMark(r) ==
    /\ pc[r] = "spawned"
    /\ Goto(r, "marking")
    /\ Queue(r)
    /\ UNCHANGED <<database, storeStatus, laneOf, copy, pool, current, result,
                   asks, interrupted, cut, listed, crashes>>

PersistMark(r) ==
    /\ pc[r] = "marking"
    /\ Holds(r)
    /\ PatchMarker(r)
    /\ Release(r)
    /\ Goto(r, "opening")
    /\ UNCHANGED <<ask, storeStatus, laneOf, copy, pool, current, result, asks,
                   interrupted, cut, listed, crashes>>

\* initialize_store; create_run never rewrites an existing record.
Open(r) ==
    /\ pc[r] = "opening"
    /\ RecordStatus(r, IF storeStatus[r] = "none" THEN "running"
                                                  ELSE storeStatus[r])
    /\ Goto(r, "driving")
    /\ UNCHANGED <<database, process, listed, crashes>>
-------------------------------------------------------------------------------
(***************************************************************************)
(* Driving: answering and asking                                           *)
(***************************************************************************)
\* apply_answer: the answered question goes from the Session object and,
\* without the lane and whoever asked it, from the database.
Answer(r) ==
    /\ pc[r] = "driving"
    /\ asks[r] = "no"
    /\ copy[r].ask # None
    /\ copy' = [copy EXCEPT ![r].ask = None]
    /\ PatchAsk(None)
    /\ UNCHANGED <<marker, storeStatus, pc, laneOf, lane, pool, current, result,
                   asks, interrupted, cut, listed, crashes>>

\* suspend_for: a tool asks the user; the question is written at once.
Ask(r) ==
    /\ "asked" \in Suspensions
    /\ pc[r] = "driving"
    /\ asks[r] = "no"
    /\ asks' = [asks EXCEPT ![r] = "asked"]
    /\ copy' = [copy EXCEPT ![r].ask = r]
    /\ Goto(r, "asking")
    /\ Queue(r)
    /\ UNCHANGED <<database, storeStatus, laneOf, pool, current, result,
                   interrupted, cut, listed, crashes>>

\* mark_session_suspended, while driving or when the run settles.
PostAsk(r) ==
    /\ pc[r] \in {"asking", "posting"}
    /\ Holds(r)
    /\ PatchAsk(r)
    /\ Release(r)
    /\ Goto(r, IF pc[r] = "asking" THEN "driving" ELSE "ending")
    /\ UNCHANGED <<marker, storeStatus, laneOf, copy, pool, current, result,
                   asks, interrupted, cut, listed, crashes>>

\* A gate suspends the run and leaves the marker to settle_session_markers.
Gate(r) ==
    /\ "gated" \in Suspensions
    /\ pc[r] = "driving"
    /\ asks[r] = "no"
    /\ asks' = [asks EXCEPT ![r] = "gated"]
    /\ UNCHANGED <<database, storeStatus, pc, laneOf, lane, copy, pool, current,
                   result, interrupted, cut, listed, crashes>>
-------------------------------------------------------------------------------
(***************************************************************************)
(* Wrapping up                                                             *)
(***************************************************************************)
Endings(r) == IF asks[r] = "no" THEN Terminal ELSE {"suspended", "failed"}

\* Run.finish, up to its store write: the handle is done from here on.
Finish(r) ==
    /\ pc[r] = "driving"
    /\ \/ \E s \in Endings(r) : result' = [result EXCEPT ![r] = s]
          /\ UNCHANGED cut
       \/ /\ "cancel" \in Disturbances
          /\ result' = [result EXCEPT ![r] = "stopped"]
          /\ cut' = [cut EXCEPT ![r] = TRUE]
    /\ Goto(r, "recording")
    /\ UNCHANGED <<database, storeStatus, laneOf, lane, copy, pool, current,
                   asks, interrupted, listed, crashes>>

\* Fault: a cancelled run is recorded under a name of its own.
FinalStatusCancelled(r) == IF cut[r] THEN "cancelled" ELSE result[r]

\* What finish records; a run without a record stays without.
FinalStatus(r) ==
    IF storeStatus[r] = "none" THEN "none"
    ELSE IF interrupted[r] THEN "interrupted" ELSE result[r]

\* Fault: only a run that succeeded settles its markers.
SettlesDone(r) == result[r] \in {"done", "suspended"}

\* A cancelled task re-raises before it settles the markers.
Settles(r) == ~cut[r]

\* finish's store write; then drive settles the markers or re-raises.
Record(r) ==
    /\ pc[r] = "recording"
    /\ RecordStatus(r, FinalStatus(r))
    /\ IF Settles(r) THEN Goto(r, "clearing") /\ Queue(r)
                     ELSE Goto(r, "ending") /\ UNCHANGED lane
    /\ UNCHANGED <<database, laneOf, copy, pool, current, result, asks,
                   interrupted, cut, listed, crashes>>

\* After the active marker: what settling the suspended marker takes.
AskStage(r) ==
    IF asks[r] = "no" THEN "probing"
    ELSE IF copy[r].ask = None THEN "posting" ELSE "ending"

SettleAsk(r) ==
    /\ Goto(r, AskStage(r))
    /\ IF AskStage(r) = "ending" THEN Release(r) ELSE Requeue(r)

\* Fault: the guard does not look at who owns the marker.
MayClearAlways(owner, r) == owner # None

\* The guard of both markers: its own, or one of a run that seems dead.
MayClear(owner, r) == owner # None /\ (owner = r \/ ~SeemsLive(owner))

\* _clear_session_active_run: read the marker in the database, decide.
ReadMarker(r) ==
    /\ pc[r] = "clearing"
    /\ Holds(r)
    /\ IF MayClear(marker, r)
       THEN /\ Goto(r, "unmarking")
            /\ copy' = [copy EXCEPT ![r].active = None]
            /\ UNCHANGED lane
       ELSE SettleAsk(r) /\ UNCHANGED copy
    /\ UNCHANGED <<database, storeStatus, laneOf, pool, current, result, asks,
                   interrupted, cut, listed, crashes>>

\* ... and delete it.
Unmark(r) ==
    /\ pc[r] = "unmarking"
    /\ Holds(r)
    /\ PatchMarker(None)
    /\ cut' = [cut EXCEPT ![r] = marker' = r]
    /\ SettleAsk(r)
    /\ UNCHANGED <<ask, storeStatus, laneOf, copy, pool, current, result, asks,
                   interrupted, listed, crashes>>

\* _clear_session_suspended: the same two steps for the question.
ReadAsk(r) ==
    /\ pc[r] = "probing"
    /\ Holds(r)
    /\ IF MayClear(ask, r)
       THEN /\ Goto(r, "unasking")
            /\ copy' = [copy EXCEPT ![r].ask = None]
            /\ UNCHANGED lane
       ELSE Goto(r, "ending") /\ Release(r) /\ UNCHANGED copy
    /\ UNCHANGED <<database, storeStatus, laneOf, pool, current, result, asks,
                   interrupted, cut, listed, crashes>>

Unask(r) ==
    /\ pc[r] = "unasking"
    /\ Holds(r)
    /\ PatchAsk(None)
    /\ Release(r)
    /\ Goto(r, "ending")
    /\ UNCHANGED <<marker, storeStatus, laneOf, copy, pool, current, result,
                   asks, interrupted, cut, listed, crashes>>

\* Fault: discard forgets the session whoever it points to.
CurrentAfterForgetful(r) == None

\* discard leaves the session's entry alone once it names a newer run.
CurrentAfter(r) == IF current = r THEN None ELSE current

\* on_run_end returned; the run leaves the pool and its handle is forgotten.
Discard(r) ==
    /\ pc[r] = "ending"
    /\ pool' = pool \ {r}
    /\ current' = CurrentAfter(r)
    /\ Goto(r, "over")
    /\ copy' = [copy EXCEPT ![r] = Blank]
    /\ result' = [result EXCEPT ![r] = "running"]
    /\ asks' = [asks EXCEPT ![r] = "no"]
    /\ interrupted' = [interrupted EXCEPT ![r] = FALSE]
    /\ UNCHANGED <<database, storeStatus, laneOf, lane, cut, listed, crashes>>
-------------------------------------------------------------------------------
(***************************************************************************)
(* Shutdown, death, recovery; what the product does from outside           *)
(***************************************************************************)
\* Runtime.shutdown sweeps a run: it is marked for recovery, and goes on.
Interrupt(r) ==
    /\ "interrupt" \in Disturbances
    /\ Running(r)
    /\ ~interrupted[r]
    /\ interrupted' = [interrupted EXCEPT ![r] = TRUE]
    /\ RecordStatus(r, "interrupted")
    /\ UNCHANGED <<database, pc, laneOf, lane, copy, pool, current, result,
                   asks, cut, listed, crashes>>

\* The process dies and its successor calls recover, which lists the runs
\* left running or interrupted.
Crash ==
    /\ crashes < MaxCrashes
    /\ crashes' = crashes + 1
    /\ pc' = [r \in Runs |-> IF pc[r] = "idle" THEN "idle" ELSE "over"]
    /\ lane' = [l \in Lanes |-> <<>>]
    /\ copy' = [r \in Runs |-> Blank]
    /\ pool' = {}
    /\ current' = None
    /\ result' = [r \in Runs |-> "running"]
    /\ asks' = [r \in Runs |-> "no"]
    /\ interrupted' = [r \in Runs |-> FALSE]
    /\ cut' = [r \in Runs |-> cut[r] \/ r \in pool]
    /\ listed' = {r \in Runs : storeStatus[r] \in {"running", "interrupted"}}
    /\ UNCHANGED <<database, storeStatus, laneOf>>

\* mark_resuming, then the product's resume hook loads the session.
Resume(r) ==
    /\ r \in listed
    /\ listed' = listed \ {r}
    /\ storeStatus' = [storeStatus EXCEPT ![r] = "running"]
    /\ Goto(r, "loading")
    /\ Queue(r)
    /\ cut' = [cut EXCEPT ![r] = FALSE]
    /\ UNCHANGED <<database, laneOf, copy, pool, current, result, asks,
                   interrupted, crashes>>

\* The circuit breaker opens; on_gave_up clears the marker by run id.
GiveUp(r) ==
    /\ r \in listed
    /\ listed' = listed \ {r}
    /\ IF MayClear(marker, r) THEN PatchMarker(None) ELSE UNCHANGED marker
    /\ UNCHANGED <<ask, storeStatus, pc, process, crashes>>

\* The product sweeps a stale marker: clear_session_active_run without a run.
Sweep ==
    /\ MayClear(marker, None)
    /\ PatchMarker(None)
    /\ UNCHANGED <<ask, storeStatus, pc, process, listed, crashes>>

\* The product drops a question: clear_session_suspended without a run.
Dismiss ==
    /\ "dismiss" \in Disturbances
    /\ ask # None
    /\ PatchAsk(None)
    /\ UNCHANGED <<marker, storeStatus, pc, process, listed, crashes>>
-------------------------------------------------------------------------------
TaskStep(r) ==
    \/ Load(r) \/ Refuse(r) \/ Start(r) \/ QueueMark(r) \/ PersistMark(r)
    \/ Open(r) \/ PostAsk(r) \/ Record(r) \/ ReadMarker(r) \/ Unmark(r)
    \/ ReadAsk(r) \/ Unask(r) \/ Discard(r)

Next ==
    \/ \E r \in Runs :
        \/ TaskStep(r)
        \/ Request(r) \/ Answer(r) \/ Ask(r) \/ Gate(r) \/ Finish(r)
        \/ Interrupt(r) \/ Resume(r) \/ GiveUp(r)
    \/ Crash \/ Sweep \/ Dismiss

Spec == Init /\ [][Next]_vars

\* The event loop runs every ready task and every worker-thread call returns;
\* on_run_end returns.  How long a run drives, and what users do, is open.
FairSpec == Spec /\ \A r \in Runs : WF_vars(TaskStep(r))
-------------------------------------------------------------------------------
(***************************************************************************)
(* Properties                                                              *)
(***************************************************************************)
\* A conversation has one running turn at a time (RunPool, execution.py:735).
OneRunningTurn == Cardinality({r \in Runs : Running(r)}) <= 1

\* The marker of a run that is still running is never taken away, whoever
\* settles, sweeps or gives up in the meantime ("a late-finishing old run
\* must never wrongly clear a concurrent new run's marker",
\* tests/test_kernel_active_run.py:94).
NeverClearsLive ==
    [][\A r \in Runs : (marker = r /\ Running(r)) => marker' = r]_vars

\* While a run drives, its question is deleted only when it is answered or
\* dismissed: no other run's wrap-up deletes it.
LiveAskKept ==
    [][\A r \in Runs : (ask = r /\ Running(r) /\ ask' = None)
                          => Dismiss \/ \E x \in Runs : Answer(x)]_vars

\* Nothing runs and nothing will until somebody asks for it.
Quiet == \A r \in Runs : pc[r] \in {"idle", "over"}

\* At rest the marker is explained: it names a run recovery may start again,
\* or one whose wrap-up was cut short before it could delete it.
MarkerExplained ==
    (Quiet /\ marker # None) =>
        \/ storeStatus[marker] \in {"none", "running", "interrupted"}
        \/ cut[marker]

\* A run that has ended leaves the pool: the lane never deadlocks.
DoneLeavesPool == \A r \in Runs : (r \in pool /\ Done(r)) ~> r \notin pool
===============================================================================
