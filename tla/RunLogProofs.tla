----------------------------- MODULE RunLogProofs -----------------------------
(***************************************************************************)
(* What RunLog guarantees for every number of clients, events, crashes and *)
(* failures, every coalescer and every kind of store.                      *)
(***************************************************************************)
EXTENDS RunLog, FiniteSetTheorems, TLAPS

(***************************************************************************)
(* Helpers on the data.                                                    *)
(***************************************************************************)

\* A store call turns a well-formed store into a well-formed store
\* (append_chunks, replace_chunk).
LEMMA StoreAfterType ==
    ASSUME store \in Seq(Part), NEW w \in Write
    PROVE  StoreAfter(w) \in Seq(Part)
BY DEF StoreAfter, InRange, Write

\* _apply_to_log keeps the log a sequence of segments and names the index it
\* writes.
LEMMA ApplyType ==
    ASSUME log \in Seq(Part), openSlot \in Nat, SlotIsLast,
           NEW part \in Part, NEW roll \in BOOLEAN
    PROVE  /\ LogAfter(part, roll) \in Seq(Part)
           /\ SlotAfter(roll) \in Nat
           /\ WriteFor(part, roll) \in Write
BY DEF LogAfter, SlotAfter, WriteFor, Overwrites, Write, SlotIsLast

\* Putting one delivery into the queues of some clients keeps them queues.
LEMMA DeliverType ==
    ASSUME stream \in [Clients -> Seq(Delivery)],
           NEW item \in Delivery, NEW targets, Deliver(item, targets)
    PROVE  stream' \in [Clients -> Seq(Delivery)]
BY DEF Deliver

\* The backlog of a subscription is a queue of deliveries.
LEMMA BacklogType ==
    ASSUME log \in Seq(Part), NEW k \in Nat
    PROVE  Backlog(k) \in Seq(Delivery)
<1> DEFINE n == Len(log) - MinOf(k, Len(log))
<1>1. n \in Nat
  BY DEF MinOf
<1>2. \A i \in 1 .. n : k + i \in 1 .. Len(log)
  BY <1>1 DEF MinOf
<1>3. \A i \in 1 .. n : Replay(log[k + i], k + i) \in Delivery
  BY <1>1, <1>2 DEF Replay, Delivery
<1> QED
  BY <1>1, <1>3 DEF Backlog

-------------------------------------------------------------------------------
(***************************************************************************)
(* Types, and the slot                                                     *)
(***************************************************************************)
\* Until the store is ready a run has no log and no open slot: the pre-warm
\* replaces the log without looking at the slot.
FreshUntilReady == proc # "up" => log = <<>> /\ openSlot = 0

\* Where a log segment may be overwritten depends on the open slot being the
\* last entry of the log, so typing and SlotIsLast are proved together.
TypeInv == TypeOK /\ SlotIsLast /\ FreshUntilReady

USE BoundsAssumption, PoliciesAssumption, OutcomesAssumption,
    DisturbancesAssumption, CapabilitiesAssumption

\* A cancelled coroutine leaves a queue and a set of calls (Abandon).
LEMMA AbandonType ==
    ASSUME writes \in Seq(Op), detached \in SUBSET Call, NEW i \in DOMAIN writes, Abandon(i)
    PROVE  writes' \in Seq(Op) /\ detached' \in SUBSET Call
<1>1. i \in 1 .. Len(writes) /\ writes[i].write \in Write
  BY DEF Op, OpOf
<1>2. \A j \in 1 .. Len(writes) - 1 : writes[IF j < i THEN j ELSE j + 1] \in Op
  BY <1>1
<1>3. Len(writes) - 1 \in Nat
  BY <1>1
<1>4. writes' \in Seq(Op)
  BY <1>2, <1>3 DEF Abandon
<1>5. CallOf(writes[i]) \in Call
  BY <1>1 DEF CallOf, Call
<1>6. detached' \in SUBSET Call
  BY <1>5 DEF Abandon
<1> QED
  BY <1>4, <1>6

LEMMA InitType == Init => TypeInv
<1> SUFFICES ASSUME Init PROVE TypeInv
  OBVIOUS
<1>1. {} \in Part
  BY DEF Part
<1>2. /\ log \in Seq(Part) /\ store \in Seq(Part) /\ writes \in Seq(Op)
      /\ stream \in [Clients -> Seq(Delivery)]
  BY DEF Init
<1>3. inplaceOk \in BOOLEAN /\ finished \in BOOLEAN
  BY DEF Init
<1>4. /\ emitted \in 0 .. MaxEvents /\ crashes \in 0 .. MaxCrashes
      /\ connects \in [Clients -> 0 .. MaxConnects]
      /\ cursor \in [Clients -> Nat]
  BY DEF Init
<1> QED
  BY <1>1, <1>2, <1>3, <1>4 DEF Init, TypeInv, TypeOK, SlotIsLast,
     FreshUntilReady

\* Feeding one event, whatever the coalescer makes of it, keeps the queue of
\* the write lock and the subscribers' queues well formed.
LEMMA PersistType ==
    ASSUME TypeOK, emitted + 1 \in Events,
           NEW write \in Write, NEW k \in Nat, Persist(write, k)
    PROVE  /\ writes' \in Seq(Op)
           /\ stream' \in [Clients -> Seq(Delivery)]
<1>1. Live(emitted + 1, k) \in Delivery
  BY DEF Live, Delivery, Part
<1>2. EmitOp(write, emitted + 1, k) \in Op
  BY DEF EmitOp, Op, OpOf, Subscribers
<1>3. CASE PassesThrough(write)
  <2>1. Deliver(Live(emitted + 1, k), Subscribers) /\ writes' = writes
    BY <1>3 DEF Persist
  <2> QED
    BY <1>1, <2>1, DeliverType DEF TypeOK
<1>4. CASE ~PassesThrough(write)
  <2>1. /\ writes' = Append(writes, EmitOp(write, emitted + 1, k))
        /\ stream' = stream
    BY <1>4 DEF Persist
  <2> QED
    BY <1>2, <2>1 DEF TypeOK
<1> QED
  BY <1>3, <1>4

LEMMA FeedSegmentType ==
    ASSUME TypeInv, emitted + 1 \in Events,
           NEW part \in Part, NEW roll \in BOOLEAN, FeedSegment(part, roll)
    PROVE  /\ held' \in Part /\ window' \in Part
           /\ log' \in Seq(Part) /\ openSlot' \in Nat
           /\ openSlot' # 0 => openSlot' = Len(log')
           /\ writes' \in Seq(Op)
           /\ stream' \in [Clients -> Seq(Delivery)]
<1>1. /\ log \in Seq(Part) /\ openSlot \in Nat /\ SlotIsLast
  BY DEF TypeInv, TypeOK
<1>2. /\ log' = LogAfter(part, roll) /\ log' \in Seq(Part)
      /\ openSlot' = SlotAfter(roll) /\ openSlot' \in Nat
      /\ WriteFor(part, roll) \in Write
  BY <1>1, ApplyType DEF FeedSegment
<1>3. openSlot' # 0 => openSlot' = Len(log')
  BY <1>1, <1>2 DEF LogAfter, SlotAfter, Overwrites, SlotIsLast
<1>4. LiveCursor(Len(log'), openSlot') \in Nat
  BY <1>2 DEF LiveCursor
<1>5. Persist(WriteFor(part, roll), LiveCursor(Len(log'), openSlot'))
  BY DEF FeedSegment
<1>6. held' \in Part /\ window' \in Part
  BY DEF FeedSegment, Part
<1>7. TypeOK
  BY DEF TypeInv
<1> HIDE DEF TypeInv, TypeOK
<1>8. /\ writes' \in Seq(Op)
      /\ stream' \in [Clients -> Seq(Delivery)]
  BY <1>2, <1>4, <1>5, <1>7, PersistType
<1> QED
  BY <1>2, <1>3, <1>6, <1>8

LEMMA FeedHeldType ==
    ASSUME TypeInv, emitted + 1 \in Events, FeedHeld
    PROVE  /\ held' \in Part /\ window' \in Part
           /\ log' \in Seq(Part) /\ openSlot' \in Nat
           /\ openSlot' # 0 => openSlot' = Len(log')
           /\ writes' \in Seq(Op)
           /\ stream' \in [Clients -> Seq(Delivery)]
<1>1. held' \in Part /\ UNCHANGED <<window, log, openSlot>>
  BY DEF FeedHeld, TypeInv, TypeOK, Part
<1>2. NoWrite \in Write
  BY DEF NoWrite, Write, Part
<1>3. LiveCursor(Len(log), openSlot) \in Nat
  BY DEF LiveCursor, TypeInv, TypeOK
<1>4. /\ writes' \in Seq(Op)
      /\ stream' \in [Clients -> Seq(Delivery)]
  BY <1>2, <1>3, PersistType DEF FeedHeld, TypeInv
<1> QED
  BY <1>1, <1>4 DEF TypeInv, TypeOK, SlotIsLast

\* Every step of the run, of a subscriber or of the environment keeps types.
LEMMA NextType == TypeInv /\ [Next]_vars => TypeInv'
<1> SUFFICES ASSUME TypeInv, [Next]_vars PROVE TypeInv'
  OBVIOUS
<1>1. CASE InitializeStore
  <2>1. log' \in Seq(Part)
    <3>1. log' = store \/ log' = <<>>
      BY <1>1 DEF InitializeStore, Preloaded
    <3> QED
      <4>1. store \in Seq(Part) /\ <<>> \in Seq(Part)
        BY DEF TypeInv, TypeOK
      <4> QED
        BY <3>1, <4>1
  <2>2. inplaceOk' \in BOOLEAN
    BY <1>1 DEF InitializeStore
  <2>3. openSlot' = 0
    BY <1>1 DEF InitializeStore, TypeInv, FreshUntilReady
  <2>4. storeStatus' = storeStatus \/ storeStatus' = CreatedStatus
    BY <1>1 DEF InitializeStore
  <2>5. TypeOK'
    BY <1>1, <2>1, <2>2, <2>3, <2>4 DEF InitializeStore, CreatedStatus,
       TypeInv, TypeOK, clientVars
  <2> QED
    BY <1>1, <2>3, <2>5 DEF InitializeStore, TypeInv, SlotIsLast,
       FreshUntilReady
<1>2. CASE Emit
  <2>1. emitted + 1 \in Events /\ emitted' \in 0 .. MaxEvents
    BY <1>2 DEF Emit, MayEmit, TypeInv, TypeOK, Events
  <2>2. /\ held \cup {emitted + 1} \in Part
        /\ window \cup held \cup {emitted + 1} \in Part
    BY <2>1 DEF TypeInv, TypeOK, Part
  <2>3. \/ FeedSegment(held \cup {emitted + 1}, FALSE)
        \/ FeedSegment(window \cup held \cup {emitted + 1}, TRUE)
        \/ FeedHeld
    BY <1>2 DEF Emit
  <2>4. /\ held' \in Part /\ window' \in Part
        /\ log' \in Seq(Part) /\ openSlot' \in Nat
        /\ openSlot' # 0 => openSlot' = Len(log')
        /\ writes' \in Seq(Op)
        /\ stream' \in [Clients -> Seq(Delivery)]
    <3>1. CASE FeedSegment(held \cup {emitted + 1}, FALSE)
      BY <2>1, <2>2, <3>1, FeedSegmentType
    <3>2. CASE FeedSegment(window \cup held \cup {emitted + 1}, TRUE)
      BY <2>1, <2>2, <3>2, FeedSegmentType
    <3>3. CASE FeedHeld
      BY <2>1, <3>3, FeedHeldType
    <3> QED
      BY <2>3, <3>1, <3>2, <3>3
  <2>5. proc' = "up" /\ driver' \in {"running", "cancelled", "closing"}
    BY <1>2 DEF Emit, MayEmit, TypeInv, TypeOK
  <2>6. UNCHANGED <<inplaceOk, status, interrupt, finished, detached, store,
                    storeStatus, crashes, conn, cursor, seen, connects>>
    BY <1>2 DEF Emit
  <2>7. TypeOK'
    BY <2>1, <2>4, <2>5, <2>6 DEF TypeInv, TypeOK
  <2> QED
    BY <2>4, <2>5, <2>7 DEF TypeInv, SlotIsLast, FreshUntilReady
<1>3. CASE StoreCall
  <2>1. writes \in Seq(Op) /\ writes # <<>> /\ store \in Seq(Part)
    BY <1>3 DEF StoreCall, TypeInv, TypeOK
  <2>2. Head(writes) \in Op /\ Head(writes).write \in Write
    BY <2>1 DEF Op, OpOf
  <2>3. StoreAfter(Head(writes).write) \in Seq(Part)
    BY <2>1, <2>2, StoreAfterType
  <2>4. \A o \in {"ok", "rejected"} : SaveHead(o) => writes' \in Seq(Op)
    <3>1. SUFFICES ASSUME NEW o \in {"ok", "rejected"}, SaveHead(o)
                   PROVE  writes' \in Seq(Op)
      OBVIOUS
    <3>2. 1 \in DOMAIN writes /\ writes[1] \in Op
      BY <2>1
    <3>3. [writes[1] EXCEPT !.saved = o] \in Op
      BY <3>2 DEF Op, OpOf
    <3> QED
      BY <2>1, <3>1, <3>2, <3>3 DEF SaveHead
  <2>5. \A role : MarkedStatus(role) \in
          {"none", "running", "done", "stopped", "failed", "suspended",
           "interrupted"}
    BY DEF MarkedStatus, MarkOf, TypeInv, TypeOK
  <2>6. writes' \in Seq(Op)
    BY <1>3, <2>4 DEF StoreCall
  <2>7. store' \in Seq(Part)
    BY <1>3, <2>1, <2>3 DEF StoreCall
  <2>8. storeStatus' \in {"none", "running", "done", "stopped", "failed",
                          "suspended", "interrupted"}
    BY <1>3, <2>5 DEF StoreCall, TypeInv, TypeOK
  <2>9. UNCHANGED <<emitted, proc, runVars, detached, crashes, clientVars>>
    BY <1>3 DEF StoreCall
  <2> QED
    BY <2>6, <2>7, <2>8, <2>9 DEF TypeInv, TypeOK, SlotIsLast,
       FreshUntilReady, runVars, clientVars
<1>4. CASE ResumeHolder
  <2>1. writes \in Seq(Op) /\ writes # <<>> /\ inplaceOk' \in BOOLEAN
    BY <1>4 DEF ResumeHolder, TypeInv, TypeOK
  <2>2. Head(writes) \in Op /\ Tail(writes) \in Seq(Op)
    BY <2>1
  <2>3. MarkOp("finish", Head(writes).targets) \in Op
    BY <2>2 DEF MarkOp, Op, OpOf, NoWrite, Write, Part
  <2>4. writes' \in Seq(Op)
    <3>1. \/ writes' = Tail(writes)
          \/ writes' = Append(Tail(writes),
                              MarkOp("finish", Head(writes).targets))
      BY <1>4 DEF ResumeHolder
    <3> QED
      BY <2>2, <2>3, <3>1
  <2>5. Sentinel \in Delivery
    BY DEF Sentinel, Delivery, Part
  <2>6. stream' \in [Clients -> Seq(Delivery)]
    <3>1. stream \in [Clients -> Seq(Delivery)]
      BY DEF TypeInv, TypeOK
    <3>2. CASE /\ Head(writes).role = "emit"
               /\ Deliver(Live(Head(writes).event, Head(writes).cursor),
                          Head(writes).targets)
      <4>1. Live(Head(writes).event, Head(writes).cursor) \in Delivery
        BY <2>2, <3>2 DEF Live, Delivery, Op, OpOf, Part
      <4> QED
        BY <3>1, <3>2, <4>1, DeliverType
    <3>3. CASE Deliver(Sentinel, Head(writes).targets)
      BY <2>5, <3>1, <3>3, DeliverType
    <3>4. CASE stream' = stream
      BY <3>1, <3>4
    <3> QED
      BY <1>4, <3>2, <3>3, <3>4 DEF ResumeHolder
  <2>7. finished' \in BOOLEAN
    BY <1>4 DEF ResumeHolder, TypeInv, TypeOK
  <2>8. UNCHANGED <<emitted, proc, log, openSlot, held, window, status, driver,
                    interrupt, detached, store, storeStatus, crashes, conn,
                    cursor, seen, connects>>
    BY <1>4 DEF ResumeHolder
  <2> QED
    BY <2>1, <2>4, <2>6, <2>7, <2>8 DEF TypeInv, TypeOK, SlotIsLast,
       FreshUntilReady
<1>5. CASE \E outcome \in Outcomes : Finish(outcome)
  <2>1. PICK outcome \in Outcomes : Finish(outcome)
    BY <1>5
  <2>2. /\ log \in Seq(Part) /\ openSlot \in Nat /\ SlotIsLast
        /\ held \in Part /\ writes \in Seq(Op)
    BY DEF TypeInv, TypeOK
  <2>3. /\ LogAfter(held, FALSE) \in Seq(Part) /\ SlotAfter(FALSE) = 0
        /\ WriteFor(held, FALSE) \in Write
    BY <2>2, ApplyType DEF SlotAfter, Overwrites
  <2>4. log' \in Seq(Part) /\ openSlot' \in Nat
    <3>1. /\ log' = log \/ log' = LogAfter(held, FALSE)
          /\ openSlot' = openSlot \/ openSlot' = 0
      BY <2>1, <2>3 DEF Finish
    <3>2. log' \in Seq(Part)
      <4>1. CASE log' = log
        BY <2>2, <4>1
      <4>2. CASE log' = LogAfter(held, FALSE)
        BY <2>3, <4>2
      <4> QED
        BY <3>1, <4>1, <4>2
    <3>3. openSlot' \in Nat
      <4>1. CASE openSlot' = openSlot
        BY <2>2, <4>1
      <4>2. CASE openSlot' = 0
        BY <4>2
      <4> QED
        BY <3>1, <4>1, <4>2
    <3> QED
      BY <3>2, <3>3
  <2>5. openSlot' # 0 => openSlot' = Len(log')
    BY <2>1, <2>2, <2>3 DEF Finish, SlotIsLast
  <2>6. NoWrite \in Write /\ FlushWrite \in Write
    BY <2>3 DEF FlushWrite, NoWrite, Write, Part
  <2>7. FinishOp(FlushWrite) \in Op
    <3>1. MarkOp("finish", Subscribers) \in Op
      BY <2>6 DEF MarkOp, Op, OpOf, Subscribers
    <3>2. [EmitOp(FlushWrite, 0, 0) EXCEPT !.role = "flush"] \in Op
      BY <2>6 DEF EmitOp, Op, OpOf, Subscribers
    <3> QED
      BY <3>1, <3>2 DEF FinishOp
  <2>8. writes' \in Seq(Op)
    BY <2>1, <2>2, <2>7 DEF Finish
  <2>9. /\ held' \in Part /\ window' \in Part
        /\ status' \in {"running", "done", "stopped", "failed", "suspended"}
    BY <2>1 DEF Finish, Part
  <2> QED
    BY <2>1, <2>4, <2>5, <2>8, <2>9 DEF Finish, TypeInv, TypeOK, SlotIsLast,
       FreshUntilReady, clientVars
<1>6. CASE QueueInterruptMark
  <2>1. MarkOp("interrupt", {}) \in Op
    BY DEF MarkOp, Op, OpOf, NoWrite, Write, Part
  <2>2. writes' \in Seq(Op)
    BY <1>6, <2>1 DEF QueueInterruptMark, TypeInv, TypeOK
  <2> QED
    BY <1>6, <2>2 DEF QueueInterruptMark, TypeInv, TypeOK, SlotIsLast,
       FreshUntilReady, clientVars
<1>7. ASSUME NEW c \in Clients, Subscribe(c)
      PROVE  TypeInv'
  <2>1. Backlog(cursor[c]) \in Seq(Delivery)
    BY BacklogType DEF TypeInv, TypeOK
  <2>2. Append(Backlog(cursor[c]), Sentinel) \in Seq(Delivery)
    BY <2>1 DEF Sentinel, Delivery, Part
  <2>3. stream' \in [Clients -> Seq(Delivery)]
    BY <1>7, <2>1, <2>2 DEF Subscribe, TypeInv, TypeOK
  <2>4. /\ conn' \in [Clients -> {"off", "on", "draining", "ended"}]
        /\ connects' \in [Clients -> 0 .. MaxConnects]
    BY <1>7 DEF Subscribe, TypeInv, TypeOK
  <2> QED
    BY <1>7, <2>3, <2>4 DEF Subscribe, TypeInv, TypeOK, SlotIsLast,
       FreshUntilReady, runVars, storeVars
<1>8. ASSUME NEW c \in Clients, Receive(c)
      PROVE  TypeInv'
  <2>1. stream[c] \in Seq(Delivery) /\ stream[c] # <<>>
    BY <1>8 DEF Receive, TypeInv, TypeOK
  <2>2. Head(stream[c]) \in Delivery /\ Tail(stream[c]) \in Seq(Delivery)
    BY <2>1
  <2>3. stream' \in [Clients -> Seq(Delivery)]
    <3>1. \/ stream' = [stream EXCEPT ![c] = Tail(@)]
          \/ stream' = [stream EXCEPT ![c] = <<>>]
      BY <1>8 DEF Receive
    <3>2. stream \in [Clients -> Seq(Delivery)]
      BY DEF TypeInv, TypeOK
    <3>3. <<>> \in Seq(Delivery)
      OBVIOUS
    <3>4. CASE stream' = [stream EXCEPT ![c] = Tail(@)]
      BY <1>8, <2>2, <3>2, <3>4
    <3>5. CASE stream' = [stream EXCEPT ![c] = <<>>]
      BY <1>8, <3>2, <3>3, <3>5
    <3> QED
      BY <3>1, <3>4, <3>5
  <2>4. /\ conn' \in [Clients -> {"off", "on", "draining", "ended"}]
        /\ cursor' \in [Clients -> Nat]
    BY <1>8, <2>2 DEF Receive, TypeInv, TypeOK, Delivery
  <2>5. seen' \in [Clients -> SUBSET Events]
    <3>1. \/ seen' = [seen EXCEPT ![c] = @ \cup Head(stream[c]).events]
          \/ seen' = seen
      BY <1>8 DEF Receive
    <3>2. seen \in [Clients -> SUBSET Events]
      BY DEF TypeInv, TypeOK
    <3>3. Head(stream[c]).events \in SUBSET Events
      BY <2>2 DEF Delivery, Part
    <3>4. seen[c] \cup Head(stream[c]).events \in SUBSET Events
      BY <1>8, <3>2, <3>3
    <3> QED
      BY <1>8, <3>1, <3>2, <3>4
  <2> QED
    BY <1>8, <2>3, <2>4, <2>5 DEF Receive, TypeInv, TypeOK, SlotIsLast,
       FreshUntilReady, runVars, storeVars
<1>9. ASSUME NEW c \in Clients, EndStream(c)
      PROVE  TypeInv'
  BY <1>9 DEF EndStream, TypeInv, TypeOK, SlotIsLast, FreshUntilReady,
     runVars, storeVars
<1>10. ASSUME NEW c \in Clients, Disconnect(c)
       PROVE  TypeInv'
  <2>1. writes \in Seq(Op) /\ stream \in [Clients -> Seq(Delivery)]
    BY DEF TypeInv, TypeOK
  <2>2. \A i \in DOMAIN writes :
           [writes[i] EXCEPT !.targets = @ \ {c}] \in Op
    <3>1. SUFFICES ASSUME NEW i \in DOMAIN writes
                   PROVE  [writes[i] EXCEPT !.targets = @ \ {c}] \in Op
      OBVIOUS
    <3>2. writes[i] \in Op
      BY <2>1, <3>1
    <3>3. writes[i].targets \ {c} \in SUBSET Clients
      BY <3>2 DEF Op, OpOf
    <3> DEFINE t == writes[i].targets \ {c}
    <3>4. [writes[i] EXCEPT !.targets = t] \in Op
      <4> HIDE DEF t
      <4> QED
        BY <3>2, <3>3 DEF Op, OpOf, t
    <3> QED
      BY <3>4
  <2>3. writes' \in Seq(Op)
    <3>1. writes' = [i \in 1 .. Len(writes) |->
                       [writes[i] EXCEPT !.targets = @ \ {c}]]
      BY <1>10, <2>1 DEF Disconnect
    <3> QED
      BY <2>1, <2>2, <3>1
  <2>4. stream' \in [Clients -> Seq(Delivery)]
    BY <1>10, <2>1 DEF Disconnect
  <2>5. conn' \in [Clients -> {"off", "on", "draining", "ended"}]
    BY <1>10 DEF Disconnect, TypeInv, TypeOK
  <2> QED
    BY <1>10, <2>3, <2>4, <2>5 DEF Disconnect, TypeInv, TypeOK, SlotIsLast,
       FreshUntilReady, runVars
<1>11. CASE DetachedCall
  <2>1. PICK w \in detached : /\ detached' = detached \ {w}
                              /\ (w.kind # "mark" /\ store' = StoreAfter(w)) \/ store' = store
    BY <1>11 DEF DetachedCall
  <2>2. (w.kind # "mark" => w \in Write) /\ store \in Seq(Part) /\ detached' \in SUBSET Call
    BY <2>1 DEF TypeInv, TypeOK, Call, TerminalMark
  <2>3. store' \in Seq(Part)
    BY <2>1, <2>2, StoreAfterType
  <2>4. storeStatus' = storeStatus \/ storeStatus' = MarkedStatus("finish")
    BY <1>11 DEF DetachedCall
  <2>5. storeStatus' \in {"none", "running", "done", "stopped", "failed",
                          "suspended", "interrupted"}
    BY <2>4 DEF MarkedStatus, MarkOf, TypeInv, TypeOK
  <2> QED
    BY <1>11, <2>2, <2>3, <2>5 DEF DetachedCall, TypeInv, TypeOK, SlotIsLast,
       FreshUntilReady, runVars, clientVars
<1>12. CASE Interrupt
  <2>1. Sentinel \in Delivery
    BY DEF Sentinel, Delivery, Part
  <2>2. stream' \in [Clients -> Seq(Delivery)]
    BY <1>12, <2>1, DeliverType DEF Interrupt, TypeInv, TypeOK
  <2> QED
    BY <1>12, <2>2 DEF Interrupt, TypeInv, TypeOK, SlotIsLast,
       FreshUntilReady, storeVars
<1>13. CASE Cancel \/ CancelLate
  <2>1. writes \in Seq(Op) /\ detached \in SUBSET Call
    BY DEF TypeInv, TypeOK
  <2>2. writes' \in Seq(Op) /\ detached' \in SUBSET Call
    <3>1. CASE UNCHANGED <<writes, detached>>
      BY <2>1, <3>1
    <3>2. CASE \E i \in DOMAIN writes : Abandon(i)
      BY <2>1, <3>2, AbandonType
    <3> QED
      BY <1>13, <3>1, <3>2 DEF Cancel, CancelLate, EmitsInFlight
  <2>3. driver' \in {"running", "cancelled", "closing", "gone"}
    BY <1>13 DEF Cancel, CancelLate
  <2> QED
    BY <1>13, <2>2, <2>3 DEF Cancel, CancelLate, TypeInv, TypeOK, SlotIsLast,
       FreshUntilReady, clientVars
<1>14. CASE Crash
  <2>1. /\ log' \in Seq(Part) /\ writes' \in Seq(Op)
        /\ held' \in Part /\ window' \in Part /\ detached' \in SUBSET Call
    BY <1>14 DEF Crash, Part
  <2>2. /\ stream' \in [Clients -> Seq(Delivery)]
        /\ conn' \in [Clients -> {"off", "on", "draining", "ended"}]
    BY <1>14 DEF Crash
  <2>3. inplaceOk' \in BOOLEAN /\ finished' \in BOOLEAN
    BY <1>14 DEF Crash
  <2>4. crashes' \in 0 .. MaxCrashes
    BY <1>14 DEF Crash, TypeInv, TypeOK
  <2> QED
    BY <1>14, <2>1, <2>2, <2>3, <2>4 DEF Crash, TypeInv, TypeOK, SlotIsLast,
       FreshUntilReady
<1>15. CASE Recover
  BY <1>15 DEF Recover, TypeInv, TypeOK, SlotIsLast, FreshUntilReady, runVars,
     clientVars
<1>16. CASE UNCHANGED vars
  BY <1>16 DEF vars, TypeInv, TypeOK, SlotIsLast, FreshUntilReady
<1> QED
  BY <1>1, <1>2, <1>3, <1>4, <1>5, <1>6, <1>7, <1>8, <1>9, <1>10, <1>11,
     <1>12, <1>13, <1>14, <1>15, <1>16
     DEF Next, Run, Reader, Environment

LEMMA TypeInvariance == Spec => []TypeInv
<1>1. Init => TypeInv
  BY InitType
<1>2. TypeInv /\ [Next]_vars => TypeInv'
  BY NextType
<1> QED
  BY <1>1, <1>2, PTL DEF Spec

\* Every reachable state is well typed, through pre-warmed logs, overwritten
\* segments, cancelled emits and process deaths.
THEOREM TypeCorrect == Spec => []TypeOK
<1>1. TypeInv => TypeOK
  BY DEF TypeInv
<1> QED
  BY <1>1, TypeInvariance, PTL

\* The slot index and the log length are one fact (_apply_to_log): the slot a
\* rolling snapshot may overwrite is always the last entry of the log.
THEOREM SlotCorrect == Spec => []SlotIsLast
<1>1. TypeInv => SlotIsLast
  BY DEF TypeInv
<1> QED
  BY <1>1, TypeInvariance, PTL

\* The first terminal status wins (finish, interrupt_for_shutdown): while the
\* process lives, nothing that emits, ends, interrupts or marks a run changes
\* what readers of a run that is done find.
THEOREM FirstStatusWins == Spec => TerminalIsFinal
<1>1. ASSUME [Next]_vars, Done, proc' = proc
      PROVE  status' = status /\ log' = log /\ (interrupt # "no" <=> interrupt' # "no")
  <2>1. CASE UNCHANGED vars
    BY <2>1 DEF vars
  <2>2. CASE Run
    <3>1. ~InitializeStore
      BY <1>1 DEF InitializeStore
    <3>2. ~Emit /\ \A outcome : ~Finish(outcome)
      BY <1>1 DEF Emit, MayEmit, Finish
    <3> QED
      BY <2>2, <3>1, <3>2 DEF Run, StoreCall, ResumeHolder, QueueInterruptMark, runVars
  <2>3. CASE \E c \in Clients : Reader(c)
    BY <2>3 DEF Reader, Subscribe, Receive, EndStream, runVars
  <2>4. CASE Environment
    <3>1. ~Interrupt /\ ~Crash /\ ~Cancel /\ ~Recover
      BY <1>1 DEF Interrupt, Crash, Cancel, Recover
    <3> QED
      BY <2>4, <3>1 DEF Environment, Disconnect, DetachedCall, CancelLate, runVars
  <2> QED
    BY <1>1, <2>1, <2>2, <2>3, <2>4 DEF Next
<1>2. [Next]_vars => [(Done /\ proc' = proc) => /\ status' = status
                                               /\ log' = log
                                               /\ (interrupt # "no" <=> interrupt' # "no")]_vars
  BY <1>1
<1> QED
  BY <1>2, PTL DEF Spec, TerminalIsFinal

-------------------------------------------------------------------------------
(***************************************************************************)
(* Log and store                                                           *)
(***************************************************************************)
Unsaved == AppendsQueued \cup ReplacesQueued
At(i) == writes[i].write.at
PartOf(i) == writes[i].write.part

\* What the queue of the write lock still has to append is exactly what the
\* log has and the store has not, in the log's order; what it has to replace
\* is in the store by the time it is its turn.
Aligned ==
    /\ Len(store) <= Len(log)
    /\ \A i \in AppendsQueued : Len(store) < At(i) /\ At(i) <= Len(log)
    /\ \A i, j \in AppendsQueued : i < j => At(i) < At(j)
    /\ \A n \in Len(store) + 1 .. Len(log) : \E i \in AppendsQueued : At(i) = n
    /\ \A j \in ReplacesQueued :
         /\ At(j) \in 1 .. Len(log)
         /\ At(j) > Len(store) => \E i \in AppendsQueued : i < j /\ At(i) = At(j)
         /\ \A i \in AppendsQueued : i < j => At(i) <= At(j)

\* Every segment, saved or not, is the log's, or has a replacement queued
\* after it.
Exact ==
    /\ \A i \in Unsaved :
         \/ PartOf(i) = log[At(i)]
         \/ \E j \in ReplacesQueued : i < j /\ At(j) = At(i)
    /\ \A n \in DOMAIN store :
         store[n] = log[n] \/ \E j \in ReplacesQueued : At(j) = n

\* Nothing is in memory while the process is down or waits for its store.
Idle ==
    proc # "up" =>
        /\ writes = <<>> /\ detached = {} /\ driver = "running"
        /\ held = {} /\ window = {} /\ status = "running" /\ ~finished
        /\ \A c \in Clients : conn[c] \in {"off", "ended"} /\ stream[c] = <<>>

\* A run that has seen no crash finds an empty store when it starts.
FirstStart == crashes = 0 /\ proc # "up" => store = <<>>

\* Only an emit replaces; a mark writes no segment.
RoleInv ==
    \A i \in DOMAIN writes :
        /\ writes[i].role \in {"finish", "interrupt"} => writes[i].write.kind = "none"
        /\ writes[i].write.kind = "replace" => writes[i].role = "emit"

\* The queue moves up by d places: what is unsaved stays so, in its order.
Shifted(d) ==
    /\ \A i \in Unsaved' : i + d \in Unsaved /\ writes'[i].write = writes[i + d].write
    /\ \A i \in Unsaved : i - d \in Unsaved' /\ writes'[i - d].write = writes[i].write

\* What typing says of the queue, in terms of its indices.
QueueShape ==
    /\ Unsaved = {i \in DOMAIN writes : writes[i].saved = "no"
                            /\ writes[i].write.kind \in {"append", "replace"}}
    /\ AppendsQueued = {i \in Unsaved : writes[i].write.kind = "append"}
    /\ ReplacesQueued = {i \in Unsaved : writes[i].write.kind = "replace"}
    /\ \A i \in DOMAIN writes : i \in Nat \ {0} /\ i <= Len(writes)
    /\ \A i \in Unsaved : At(i) \in Nat /\ PartOf(i) \in Part
    /\ Len(writes) \in Nat /\ Len(store) \in Nat /\ Len(log) \in Nat
    /\ DOMAIN writes = 1 .. Len(writes)
    /\ DOMAIN store = 1 .. Len(store) /\ DOMAIN log = 1 .. Len(log)

LEMMA QueueIsShaped == TypeOK => QueueShape
<1> SUFFICES ASSUME TypeOK PROVE QueueShape
  OBVIOUS
<1>1. writes \in Seq(Op) /\ store \in Seq(Part) /\ log \in Seq(Part)
  BY DEF TypeOK
<1>2. \A i \in DOMAIN writes : writes[i] \in Op
  BY <1>1
<1>3. \A i \in DOMAIN writes : writes[i].write \in Write
  BY <1>2 DEF Op, OpOf
<1>4. \A i \in DOMAIN writes : writes[i].write.at \in Nat /\ writes[i].write.part \in Part
  BY <1>3 DEF Write
<1>5. DOMAIN writes = 1 .. Len(writes) /\ Len(writes) \in Nat
  BY <1>1
<1>6. Unsaved = {i \in DOMAIN writes : writes[i].saved = "no"
                            /\ writes[i].write.kind \in {"append", "replace"}}
  BY DEF Unsaved, AppendsQueued, ReplacesQueued
<1>7. /\ AppendsQueued = {i \in Unsaved : writes[i].write.kind = "append"}
      /\ ReplacesQueued = {i \in Unsaved : writes[i].write.kind = "replace"}
  BY DEF Unsaved, AppendsQueued, ReplacesQueued
<1> QED
  BY <1>1, <1>4, <1>5, <1>6, <1>7 DEF At, PartOf, QueueShape

LEMMA QueueStaysShaped == TypeOK' => QueueShape'
  BY QueueIsShaped, PTL

\* A step that only moves the queue up changes nothing between log and store.
LEMMA ShiftedAligned ==
    ASSUME TypeOK, TypeOK', NEW d \in {0, 1}, Shifted(d), UNCHANGED <<log, store>>
    PROVE  /\ Aligned => Aligned'
           /\ Exact => Exact'
           /\ ReplacesQueued = {} => ReplacesQueued' = {}
<1>0. QueueShape /\ QueueShape'
  BY QueueIsShaped, QueueStaysShaped
<1>1. /\ \A i \in Unsaved' : i \in Nat /\ i + d \in Unsaved /\ At(i)' = At(i + d)
                             /\ PartOf(i)' = PartOf(i + d)
      /\ \A i \in Unsaved : i \in Nat /\ i - d \in Unsaved' /\ At(i - d)' = At(i)
      /\ \A i, j \in Nat : i < j => i + d < j + d /\ i - d < j - d
  BY <1>0 DEF QueueShape, Shifted, At, PartOf
<1>2. /\ \A i \in AppendsQueued' : i \in Nat /\ i + d \in AppendsQueued /\ At(i)' = At(i + d)
      /\ \A i \in ReplacesQueued' : i \in Nat /\ i + d \in ReplacesQueued /\ At(i)' = At(i + d)
      /\ \A i \in AppendsQueued : i \in Nat /\ i - d \in AppendsQueued' /\ At(i - d)' = At(i)
      /\ \A i \in ReplacesQueued : i \in Nat /\ i - d \in ReplacesQueued' /\ At(i - d)' = At(i)
  BY <1>0, <1>1 DEF QueueShape, Shifted
<1>3. ASSUME Aligned PROVE Aligned'
  <2>1. /\ Len(store') <= Len(log')
        /\ \A i \in AppendsQueued' : Len(store') < At(i)' /\ At(i)' <= Len(log')
    BY <1>2, <1>3 DEF Aligned
  <2>2. \A i, j \in AppendsQueued' : i < j => At(i)' < At(j)'
    BY <1>1, <1>2, <1>3 DEF Aligned
  <2>3. \A n \in Len(store') + 1 .. Len(log') : \E i \in AppendsQueued' : At(i)' = n
    BY <1>2, <1>3 DEF Aligned
  <2>4. ASSUME NEW j \in ReplacesQueued'
        PROVE  /\ At(j)' \in 1 .. Len(log')
               /\ At(j)' > Len(store') => \E i \in AppendsQueued' : i < j /\ At(i)' = At(j)'
               /\ \A i \in AppendsQueued' : i < j => At(i)' <= At(j)'
    <3>1. j \in Nat /\ j + d \in ReplacesQueued /\ At(j)' = At(j + d)
      BY <1>2, <2>4
    <3>2. At(j)' > Len(store') => \E i \in AppendsQueued' : i < j /\ At(i)' = At(j)'
      <4> SUFFICES ASSUME At(j)' > Len(store')
                   PROVE  \E i \in AppendsQueued' : i < j /\ At(i)' = At(j)'
        OBVIOUS
      <4>1. PICK i \in AppendsQueued : i < j + d /\ At(i) = At(j + d)
        BY <1>3, <3>1 DEF Aligned
      <4>2. i \in Nat /\ i - d \in AppendsQueued' /\ At(i - d)' = At(j)' /\ i - d < j
        BY <1>2, <3>1, <4>1
      <4> QED
        BY <4>2
    <3>3. ASSUME NEW i \in AppendsQueued', i < j PROVE At(i)' <= At(j)'
      <4>1. i \in Nat /\ i + d \in AppendsQueued /\ At(i)' = At(i + d) /\ i + d < j + d
        BY <1>1, <1>2, <3>1, <3>3
      <4> QED
        BY <1>3, <3>1, <4>1 DEF Aligned
    <3> QED
      BY <1>3, <3>1, <3>2, <3>3 DEF Aligned
  <2> QED
    BY <2>1, <2>2, <2>3, <2>4 DEF Aligned
<1>4. ASSUME Exact PROVE Exact'
  <2>1. ASSUME NEW i \in Unsaved'
        PROVE  \/ PartOf(i)' = log'[At(i)']
               \/ \E j \in ReplacesQueued' : i < j /\ At(j)' = At(i)'
    <3>1. i \in Nat /\ i + d \in Unsaved /\ At(i)' = At(i + d) /\ PartOf(i)' = PartOf(i + d)
      BY <1>1, <2>1
    <3>2. CASE PartOf(i + d) = log[At(i + d)]
      BY <3>1, <3>2
    <3>3. CASE \E j \in ReplacesQueued : i + d < j /\ At(j) = At(i + d)
      <4>1. PICK j \in ReplacesQueued : i + d < j /\ At(j) = At(i + d)
        BY <3>3
      <4>2. j - d \in ReplacesQueued' /\ At(j - d)' = At(i)' /\ i < j - d
        BY <1>2, <3>1, <4>1
      <4> QED
        BY <4>2
    <3> QED
      BY <1>4, <3>1, <3>2, <3>3 DEF Exact
  <2>2. \A n \in DOMAIN store' :
          store'[n] = log'[n] \/ \E j \in ReplacesQueued' : At(j)' = n
    BY <1>2, <1>4 DEF Exact
  <2> QED
    BY <2>1, <2>2 DEF Exact
<1>5. ReplacesQueued = {} => ReplacesQueued' = {}
  BY <1>2
<1> QED
  BY <1>3, <1>4, <1>5

\* A coroutine that has nothing to write joins the queue.
LEMMA JoinQuiet ==
    ASSUME TypeOK, TypeOK', NEW op, writes' = Append(writes, op),
           op.saved # "no" \/ op.write.kind = "none"
    PROVE  Shifted(0)
<1>1. QueueShape /\ QueueShape' /\ writes \in Seq(Op)
  BY QueueIsShaped, QueueStaysShaped DEF TypeOK
<1>2. /\ DOMAIN writes' = 1 .. Len(writes) + 1 /\ writes'[Len(writes) + 1] = op
      /\ \A i \in DOMAIN writes : writes'[i] = writes[i]
  BY <1>1
<1>3. \A i \in Unsaved' : i # Len(writes) + 1
  BY <1>1, <1>2 DEF QueueShape
<1>4. \A i \in Unsaved' : i \in Unsaved
  BY <1>1, <1>2, <1>3 DEF QueueShape
<1>5. \A i \in Unsaved : i \in Unsaved' /\ i - 0 = i
  BY <1>1, <1>2 DEF QueueShape
<1>6. \A i \in Unsaved' \cup Unsaved : i + 0 = i /\ i - 0 = i /\ i \in DOMAIN writes
  BY <1>1, <1>4 DEF QueueShape
<1> QED
  BY <1>2, <1>4, <1>5, <1>6 DEF Shifted

\* The holder of the lock leaves it, perhaps for the end of the queue.
LEMMA LeaveQuiet ==
    ASSUME TypeOK, TypeOK', writes # <<>>, 1 \notin Unsaved,
           NEW op, op.write.kind = "none",
           writes' = Tail(writes) \/ writes' = Append(Tail(writes), op)
    PROVE  Shifted(1)
<1>1. QueueShape /\ QueueShape' /\ writes \in Seq(Op)
  BY QueueIsShaped, QueueStaysShaped DEF TypeOK
<1>2. /\ Tail(writes) \in Seq(Op) /\ Len(Tail(writes)) = Len(writes) - 1
      /\ \A i \in 1 .. Len(writes) - 1 : Tail(writes)[i] = writes[i + 1]
  BY <1>1
<1>3. /\ DOMAIN writes' \subseteq 1 .. Len(writes)
      /\ 1 .. Len(writes) - 1 \subseteq DOMAIN writes'
      /\ \A i \in 1 .. Len(writes) - 1 : writes'[i] = writes[i + 1]
      /\ \A i \in DOMAIN writes' : i \in 1 .. Len(writes) - 1 \/ writes'[i] = op
  <2> DEFINE rest == Tail(writes)
  <2>1. /\ rest \in Seq(Op) /\ Len(rest) = Len(writes) - 1 /\ Len(writes) \in Nat \ {0}
        /\ writes' = rest \/ writes' = Append(rest, op)
    BY <1>1, <1>2
  <2>2. \A i \in 1 .. Len(writes) - 1 : rest[i] = writes[i + 1]
    BY <1>2
  <2> HIDE DEF rest
  <2>3. CASE writes' = rest
    <3>1. DOMAIN writes' = 1 .. Len(writes) - 1
      BY <2>1, <2>3
    <3> QED
      BY <2>1, <2>2, <2>3, <3>1
  <2>4. CASE writes' = Append(rest, op)
    <3>1. /\ DOMAIN writes' = 1 .. Len(writes) /\ writes'[Len(writes)] = op
          /\ \A i \in 1 .. Len(writes) - 1 : writes'[i] = rest[i]
      BY <2>1, <2>4
    <3> QED
      BY <2>1, <2>2, <3>1
  <2> QED
    BY <2>1, <2>3, <2>4
<1>4. \A i \in Unsaved' : i \in 1 .. Len(writes) - 1 /\ writes'[i] = writes[i + 1]
  BY <1>1, <1>3 DEF QueueShape
<1>5. ASSUME NEW i \in Unsaved' PROVE i + 1 \in Unsaved /\ writes'[i].write = writes[i + 1].write
  <2>1. i \in 1 .. Len(writes) - 1 /\ writes'[i] = writes[i + 1]
    BY <1>4
  <2>2. i + 1 \in DOMAIN writes
    <3>1. DOMAIN writes = 1 .. Len(writes) /\ Len(writes) \in Nat
      BY <1>1
    <3> QED
      BY <2>1, <3>1
  <2>3. writes'[i].saved = "no" /\ writes'[i].write.kind \in {"append", "replace"}
    BY <1>1 DEF QueueShape
  <2> QED
    BY <1>1, <2>1, <2>2, <2>3 DEF QueueShape
<1>6. ASSUME NEW i \in Unsaved PROVE i - 1 \in Unsaved' /\ writes'[i - 1].write = writes[i].write
  <2>1. i # 1 /\ i \in 1 .. Len(writes) /\ Len(writes) \in Nat
    BY <1>1, <1>6 DEF QueueShape
  <2>2. i - 1 \in 1 .. Len(writes) - 1 /\ (i - 1) + 1 = i
    BY <2>1
  <2>3. i - 1 \in DOMAIN writes' /\ writes'[i - 1] = writes[i]
    BY <1>3, <2>2
  <2> QED
    BY <1>1, <1>6, <2>3 DEF QueueShape
<1> QED
  BY <1>5, <1>6 DEF Shifted

\* The queue changes in nothing that has to do with what it writes.
LEMMA SameQuiet ==
    ASSUME TypeOK, TypeOK', DOMAIN writes' = DOMAIN writes,
           \A i \in DOMAIN writes :
               /\ writes'[i].write = writes[i].write
               /\ i \in Unsaved => writes'[i].saved = writes[i].saved
               /\ i \notin Unsaved => i \notin Unsaved'
    PROVE  Shifted(0)
<1>1. QueueShape /\ QueueShape'
  BY QueueIsShaped, QueueStaysShaped
<1>2. Unsaved' = Unsaved /\ \A i \in Unsaved : i + 0 = i /\ i - 0 = i /\ i \in DOMAIN writes
  BY <1>1 DEF QueueShape
<1> QED
  BY <1>2 DEF Shifted

\* The queue gets an n-th member, which writes segment k of the log.
GrownBy(n, k, part, roll) ==
    /\ n \in Nat \ {0} /\ k \in Nat \ {0}
    /\ \A i \in Unsaved : i \in Unsaved' /\ i < n /\ i \in Nat
                         /\ At(i)' = At(i) /\ PartOf(i)' = PartOf(i)
    /\ \A i \in Unsaved' : i \in Unsaved \/ i = n
    /\ \A i \in AppendsQueued : i \in AppendsQueued'
    /\ \A i \in ReplacesQueued : i \in ReplacesQueued'
    /\ \A i \in AppendsQueued' : i \in AppendsQueued \/ i = n
    /\ \A i \in ReplacesQueued' : i \in ReplacesQueued \/ i = n
    /\ At(n)' = k /\ PartOf(n)' = part
    /\ n \in Unsaved' /\ n \notin Unsaved
    /\ IF Overwrites(roll) THEN n \in ReplacesQueued' /\ n \notin AppendsQueued'
                           ELSE n \in AppendsQueued' /\ n \notin ReplacesQueued'
    /\ DOMAIN log' = DOMAIN log \cup {k} /\ log'[k] = part
    /\ Len(log') = IF Overwrites(roll) THEN Len(log) ELSE Len(log) + 1
    /\ \A m \in DOMAIN log : m # k => log'[m] = log[m]
    /\ Overwrites(roll) => k = Len(log) /\ k \in DOMAIN log
    /\ Len(log) \in Nat /\ DOMAIN log = 1 .. Len(log)
    /\ Overwrites(roll) => k = openSlot
    /\ ~Overwrites(roll) => k = Len(log) + 1
    /\ \A i \in AppendsQueued \cup ReplacesQueued :
          i \in Unsaved /\ i \in Nat /\ i < n /\ At(i) \in Nat
    /\ Len(store) \in Nat /\ DOMAIN store = 1 .. Len(store)

\* The write of a segment follows the log it is about (_apply_to_log).
LEMMA QueueGrows ==
    ASSUME TypeInv, TypeOK', NEW part \in Part, NEW roll \in BOOLEAN, NEW op,
           writes' = Append(writes, op), op.write = WriteFor(part, roll),
           op.saved = "no", log' = LogAfter(part, roll)
    PROVE  \E n, k : GrownBy(n, k, part, roll)
<1>a. PICK n : n = Len(writes) + 1
  OBVIOUS
<1>b. PICK k : k = IF Overwrites(roll) THEN openSlot ELSE Len(log) + 1
  OBVIOUS
<1>1. QueueShape /\ QueueShape' /\ writes \in Seq(Op) /\ log \in Seq(Part)
  BY QueueIsShaped, QueueStaysShaped DEF TypeInv, TypeOK
<1>2. /\ DOMAIN writes' = 1 .. n /\ writes'[n] = op /\ n \in Nat \ {0}
      /\ \A i \in DOMAIN writes : writes'[i] = writes[i] /\ i < n /\ i \in Nat
  BY <1>1, <1>a DEF QueueShape
<1>3. /\ \A i \in Unsaved : i \in Unsaved' /\ i < n /\ i \in Nat
                            /\ At(i)' = At(i) /\ PartOf(i)' = PartOf(i)
      /\ \A i \in Unsaved' : i \in Unsaved \/ i = n
      /\ \A i \in AppendsQueued : i \in AppendsQueued'
      /\ \A i \in ReplacesQueued : i \in ReplacesQueued'
      /\ \A i \in AppendsQueued' : i \in AppendsQueued \/ i = n
      /\ \A i \in ReplacesQueued' : i \in ReplacesQueued \/ i = n
  BY <1>1, <1>2 DEF QueueShape, At, PartOf
<1>4. /\ At(n)' = k /\ PartOf(n)' = part /\ k \in Nat \ {0}
      /\ n \in Unsaved' /\ n \notin Unsaved
      /\ IF Overwrites(roll) THEN n \in ReplacesQueued' /\ n \notin AppendsQueued'
                             ELSE n \in AppendsQueued' /\ n \notin ReplacesQueued'
  <2>1. openSlot \in Nat /\ Len(log) \in Nat /\ (Overwrites(roll) => openSlot # 0)
    BY <1>1 DEF TypeInv, TypeOK, Overwrites
  <2>2. op.write.at = k /\ op.write.part = part
        /\ op.write.kind = IF Overwrites(roll) THEN "replace" ELSE "append"
    BY <1>b DEF WriteFor
  <2>3. n \in DOMAIN writes' /\ writes'[n].write = op.write /\ writes'[n].saved = "no"
    BY <1>2
  <2>4. n \notin Unsaved
    BY <1>1, <1>2 DEF QueueShape
  <2>5. n \in Unsaved'
    BY <1>1, <2>2, <2>3 DEF QueueShape
  <2>6. IF Overwrites(roll) THEN n \in ReplacesQueued' /\ n \notin AppendsQueued'
                           ELSE n \in AppendsQueued' /\ n \notin ReplacesQueued'
    BY <1>1, <2>2, <2>3, <2>5 DEF QueueShape
  <2>7. At(n)' = k /\ PartOf(n)' = part
    BY <2>2, <2>3 DEF At, PartOf
  <2>8. k \in Nat \ {0}
    BY <1>b, <2>1
  <2> QED
    BY <2>4, <2>5, <2>6, <2>7, <2>8
<1>5. /\ DOMAIN log' = DOMAIN log \cup {k} /\ log'[k] = part
      /\ Len(log') = IF Overwrites(roll) THEN Len(log) ELSE Len(log) + 1
      /\ \A m \in DOMAIN log : m # k => log'[m] = log[m]
      /\ Overwrites(roll) => k = Len(log) /\ k \in DOMAIN log
      /\ Len(log) \in Nat /\ DOMAIN log = 1 .. Len(log)
  <2>1. CASE Overwrites(roll)
    <3>1. openSlot = Len(log) /\ openSlot \in DOMAIN log
      BY <1>1, <2>1 DEF TypeInv, TypeOK, SlotIsLast, Overwrites
    <3>2. log' = [log EXCEPT ![openSlot] = part]
      BY <2>1 DEF LogAfter
    <3>3. DOMAIN log' = DOMAIN log /\ Len(log') = Len(log)
      BY <1>1, <3>1, <3>2
    <3> QED
      BY <1>1, <1>b, <2>1, <3>1, <3>2, <3>3
  <2>2. CASE ~Overwrites(roll)
    <3>1. log' = Append(log, part)
      BY <2>2 DEF LogAfter
    <3> QED
      BY <1>1, <1>b, <2>2, <3>1
  <2> QED
    BY <2>1, <2>2
<1>0. /\ Overwrites(roll) => k = openSlot
      /\ ~Overwrites(roll) => k = Len(log) + 1
  BY <1>b
<1>9. \A i \in AppendsQueued \cup ReplacesQueued : i \in Unsaved /\ i \in Nat /\ i < n /\ At(i) \in Nat
  BY <1>1, <1>3 DEF QueueShape
<1>10. Len(store) \in Nat /\ DOMAIN store = 1 .. Len(store)
  BY <1>1 DEF QueueShape
<1>11. GrownBy(n, k, part, roll)
  BY <1>0, <1>2, <1>3, <1>4, <1>5, <1>9, <1>10 DEF GrownBy
<1> QED
  BY <1>11

\* A new segment, or a new version of the last one, is queued behind all that
\* the store still lacks (_apply_to_log, _persist_parts).
LEMMA QueueWrite ==
    ASSUME NEW part \in Part, NEW roll \in BOOLEAN, NEW n, NEW k,
           GrownBy(n, k, part, roll), store' = store
    PROVE  /\ Aligned => Aligned'
           /\ Aligned /\ Exact => Exact'
<1>2. n \in Nat \ {0} /\ \A i \in Unsaved : i \in Nat /\ i < n
  BY DEF GrownBy
<1>3. /\ \A i \in Unsaved : i \in Unsaved' /\ i < n /\ i \in Nat
                            /\ At(i)' = At(i) /\ PartOf(i)' = PartOf(i)
      /\ \A i \in Unsaved' : i \in Unsaved \/ i = n
      /\ \A i \in AppendsQueued : i \in AppendsQueued'
      /\ \A i \in ReplacesQueued : i \in ReplacesQueued'
      /\ \A i \in AppendsQueued' : i \in AppendsQueued \/ i = n
      /\ \A i \in ReplacesQueued' : i \in ReplacesQueued \/ i = n
  BY DEF GrownBy
<1>4. /\ At(n)' = k /\ PartOf(n)' = part /\ k \in Nat \ {0}
      /\ n \in Unsaved' /\ n \notin Unsaved
      /\ IF Overwrites(roll) THEN n \in ReplacesQueued' /\ n \notin AppendsQueued'
                             ELSE n \in AppendsQueued' /\ n \notin ReplacesQueued'
  BY DEF GrownBy
<1>5. /\ DOMAIN log' = DOMAIN log \cup {k} /\ log'[k] = part
      /\ Len(log') = IF Overwrites(roll) THEN Len(log) ELSE Len(log) + 1
      /\ \A m \in DOMAIN log : m # k => log'[m] = log[m]
      /\ Overwrites(roll) => k = Len(log) /\ k \in DOMAIN log
      /\ Len(log) \in Nat /\ DOMAIN log = 1 .. Len(log)
  BY DEF GrownBy
<1>0. /\ Overwrites(roll) => k = openSlot
      /\ ~Overwrites(roll) => k = Len(log) + 1
  BY DEF GrownBy
<1>9. \A i \in AppendsQueued \cup ReplacesQueued : i \in Unsaved /\ i \in Nat /\ i < n /\ At(i) \in Nat
  BY DEF GrownBy
<1>10. Len(store) \in Nat /\ DOMAIN store = 1 .. Len(store)
  BY DEF GrownBy
<1>6. ASSUME Aligned PROVE Aligned'
  <2>1. Len(store') <= Len(log') /\ Len(store) \in Nat
    BY <1>5, <1>6, <1>10 DEF Aligned
  <2>2. \A i \in AppendsQueued' : Len(store') < At(i)' /\ At(i)' <= Len(log')
    <3> SUFFICES ASSUME NEW i \in AppendsQueued' PROVE Len(store) < At(i)' /\ At(i)' <= Len(log')
      OBVIOUS
    <3>1. CASE i \in AppendsQueued
      <4>1. Len(store) < At(i) /\ At(i) <= Len(log) /\ At(i)' = At(i) /\ At(i) \in Nat
        BY <1>3, <1>6, <1>9, <3>1 DEF Aligned
      <4> QED
        BY <1>5, <4>1
    <3>2. CASE i = n
      <4>1. ~Overwrites(roll)
        BY <1>4, <3>2
      <4>2. At(i)' = Len(log) + 1 /\ Len(log') = Len(log) + 1 /\ Len(store) <= Len(log)
        BY <1>0, <1>4, <1>5, <1>6, <3>2, <4>1 DEF Aligned
      <4> QED
        BY <1>5, <2>1, <4>2
    <3> QED
      BY <1>3, <3>1, <3>2
  <2>3. \A i, j \in AppendsQueued' : i < j => At(i)' < At(j)'
    <3> SUFFICES ASSUME NEW i \in AppendsQueued', NEW j \in AppendsQueued', i < j
                 PROVE  At(i)' < At(j)'
      OBVIOUS
    <3>1. i \in AppendsQueued /\ i \in Unsaved
      BY <1>2, <1>3, <1>9
    <3>2. CASE j \in AppendsQueued
      BY <1>3, <1>6, <1>9, <3>1, <3>2 DEF Aligned
    <3>3. CASE j = n
      <4>1. At(i)' = At(i) /\ At(i) <= Len(log) /\ At(i) \in Nat
        BY <1>3, <1>6, <1>9, <3>1 DEF Aligned
      <4>2. At(j)' = Len(log) + 1
        BY <1>0, <1>4, <3>3
      <4> QED
        BY <1>5, <4>1, <4>2
    <3> QED
      BY <1>3, <3>2, <3>3
  <2>4. \A m \in Len(store') + 1 .. Len(log') : \E i \in AppendsQueued' : At(i)' = m
    <3> SUFFICES ASSUME NEW m \in Len(store) + 1 .. Len(log')
                 PROVE  \E i \in AppendsQueued' : At(i)' = m
      OBVIOUS
    <3>1. CASE m <= Len(log)
      <4>1. PICK i \in AppendsQueued : At(i) = m
        BY <1>5, <1>6, <2>1, <3>1 DEF Aligned
      <4> QED
        BY <1>3, <1>9, <4>1
    <3>2. CASE m > Len(log)
      <4>1. ~Overwrites(roll) /\ m = Len(log) + 1
        BY <1>5, <2>1, <3>2
      <4>2. At(n)' = m /\ n \in AppendsQueued'
        BY <1>0, <1>4, <4>1
      <4> QED
        BY <4>2
    <3> QED
      BY <1>5, <2>1, <3>1, <3>2
  <2>5. ASSUME NEW j \in ReplacesQueued'
        PROVE  /\ At(j)' \in 1 .. Len(log')
               /\ At(j)' > Len(store') => \E i \in AppendsQueued' : i < j /\ At(i)' = At(j)'
               /\ \A i \in AppendsQueued' : i < j => At(i)' <= At(j)'
    <3>1. CASE j \in ReplacesQueued
      <4>1. j \in Unsaved /\ At(j)' = At(j) /\ j < n /\ j \in Nat
        BY <1>3, <1>9, <3>1
      <4>2. At(j)' \in 1 .. Len(log')
        BY <1>5, <1>6, <3>1, <4>1 DEF Aligned
      <4>3. At(j)' > Len(store') => \E i \in AppendsQueued' : i < j /\ At(i)' = At(j)'
        <5> SUFFICES ASSUME At(j) > Len(store)
                     PROVE  \E i \in AppendsQueued' : i < j /\ At(i)' = At(j)'
          BY <4>1
        <5>1. PICK i \in AppendsQueued : i < j /\ At(i) = At(j)
          BY <1>6, <3>1 DEF Aligned
        <5>2. i \in AppendsQueued' /\ At(i)' = At(i)
          BY <1>3, <1>9, <5>1
        <5> QED
          BY <4>1, <5>1, <5>2
      <4>4. ASSUME NEW i \in AppendsQueued', i < j PROVE At(i)' <= At(j)'
        <5>1. i \in AppendsQueued
          BY <1>2, <1>3, <4>1, <4>4
        <5>2. At(i)' = At(i)
          BY <1>3, <1>9, <5>1
        <5> QED
          BY <1>6, <3>1, <4>1, <4>4, <5>1, <5>2 DEF Aligned
      <4> QED
        BY <4>2, <4>3, <4>4
    <3>2. CASE j = n
      <4>0. Overwrites(roll)
        BY <1>4, <2>5, <3>2
      <4>1. At(j)' = Len(log) /\ Len(log') = Len(log) /\ Len(log) \in 1 .. Len(log)
        BY <1>4, <1>5, <3>2, <4>0
      <4>2. At(j)' > Len(store') => \E i \in AppendsQueued' : i < j /\ At(i)' = At(j)'
        <5> SUFFICES ASSUME Len(log) > Len(store)
                     PROVE  \E i \in AppendsQueued' : i < j /\ At(i)' = At(j)'
          BY <4>1
        <5>1. PICK i \in AppendsQueued : At(i) = Len(log)
          BY <1>5, <1>6, <2>1 DEF Aligned
        <5>2. i \in Unsaved
          BY <1>9, <5>1
        <5> QED
          BY <1>3, <3>2, <4>1, <5>1, <5>2
      <4>3. \A i \in AppendsQueued' : i < j => At(i)' <= At(j)'
        BY <2>2, <4>1
      <4> QED
        BY <4>1, <4>2, <4>3
    <3> QED
      BY <1>3, <3>1, <3>2
  <2> QED
    BY <2>1, <2>2, <2>3, <2>4, <2>5 DEF Aligned
<1>7. ASSUME Aligned, Exact PROVE Exact'
  <2>1. ASSUME NEW i \in Unsaved'
        PROVE  \/ PartOf(i)' = log'[At(i)']
               \/ \E j \in ReplacesQueued' : i < j /\ At(j)' = At(i)'
    <3>1. CASE i = n
      <4>1. At(n)' = k /\ PartOf(n)' = part
        BY <1>4
      <4>2. log'[k] = part
        BY <1>5
      <4> QED
        BY <3>1, <4>1, <4>2
    <3>2. CASE i \in Unsaved /\ At(i) = k
      <4>1. k <= Len(log)
        BY <1>7, <1>10, <3>2 DEF Aligned, Unsaved
      <4>2. Overwrites(roll)
        BY <1>0, <1>5, <4>1
      <4>3. n \in ReplacesQueued' /\ At(n)' = k
        BY <1>4, <4>2
      <4>4. At(i)' = k /\ i < n
        BY <1>3, <3>2
      <4> QED
        BY <4>3, <4>4
    <3>3. CASE i \in Unsaved /\ At(i) # k
      <4>1. At(i) \in DOMAIN log
        <5>1. At(i) \in Nat /\ 1 <= At(i) /\ At(i) <= Len(log)
          BY <1>7, <1>9, <1>10, <3>3 DEF Aligned, Unsaved
        <5> QED
          BY <1>5, <5>1
      <4>2. log'[At(i)] = log[At(i)] /\ At(i)' = At(i) /\ PartOf(i)' = PartOf(i)
        BY <1>3, <1>5, <3>3, <4>1
      <4>3. CASE PartOf(i) = log[At(i)]
        BY <4>2, <4>3
      <4>4. CASE \E j \in ReplacesQueued : i < j /\ At(j) = At(i)
        BY <1>3, <1>9, <4>2, <4>4
      <4> QED
        BY <1>7, <3>3, <4>3, <4>4 DEF Exact
    <3> QED
      BY <1>3, <3>1, <3>2, <3>3
  <2>2. ASSUME NEW m \in DOMAIN store'
        PROVE  store'[m] = log'[m] \/ \E j \in ReplacesQueued' : At(j)' = m
    <3>1. m \in DOMAIN log /\ m \in DOMAIN store
      BY <1>5, <1>7, <1>10 DEF Aligned
    <3>2. CASE m = k
      <4>1. Overwrites(roll)
        BY <1>0, <1>5, <3>1, <3>2
      <4> QED
        BY <1>4, <3>2, <4>1
    <3>3. CASE m # k
      <4>1. log'[m] = log[m]
        BY <1>5, <3>1, <3>3
      <4>2. store[m] = log[m] \/ \E j \in ReplacesQueued : At(j) = m
        BY <1>7, <3>1 DEF Exact
      <4> QED
        BY <1>3, <1>9, <4>1, <4>2
    <3> QED
      BY <3>2, <3>3
  <2> QED
    BY <2>1, <2>2 DEF Exact
<1> QED
  BY <1>6, <1>7

\* A store call returns: the head of the queue has nothing left to write.
LEMMA HeadSaved ==
    ASSUME TypeOK, TypeOK', writes # <<>>, NEW o \in {"ok", "rejected"}, SaveHead(o)
    PROVE  /\ AppendsQueued' = AppendsQueued \ {1}
           /\ ReplacesQueued' = ReplacesQueued \ {1}
           /\ Unsaved' = Unsaved \ {1}
           /\ \A i \in Unsaved : i \in Nat /\ i >= 1 /\ At(i)' = At(i) /\ PartOf(i)' = PartOf(i)
           /\ DOMAIN writes' = DOMAIN writes
           /\ \A i \in DOMAIN writes : /\ writes'[i].write = writes[i].write
                                       /\ writes'[i].role = writes[i].role
                                       /\ writes'[i].event = writes[i].event
                                       /\ writes'[i].cursor = writes[i].cursor
                                       /\ writes'[i].targets = writes[i].targets
                                       /\ i # 1 => writes'[i] = writes[i]
           /\ 1 \in DOMAIN writes /\ writes'[1].saved = o
<1>1. writes \in Seq(Op) /\ writes' = [writes EXCEPT ![1].saved = o] /\ 1 \in DOMAIN writes
  BY DEF TypeOK, SaveHead
<1>2. writes[1] \in Op
  BY <1>1
<1>3. writes' = [writes EXCEPT ![1] = [writes[1] EXCEPT !.saved = o]]
  BY <1>1
<1>4. [writes[1] EXCEPT !.saved = o] =
        [role |-> writes[1].role, write |-> writes[1].write, saved |-> o,
         event |-> writes[1].event, cursor |-> writes[1].cursor,
         targets |-> writes[1].targets]
  BY <1>2 DEF Op, OpOf
<1>5. /\ DOMAIN writes' = DOMAIN writes
      /\ writes'[1] = [writes[1] EXCEPT !.saved = o]
      /\ \A i \in DOMAIN writes : i # 1 => writes'[i] = writes[i]
  BY <1>1, <1>3
<1>6. /\ writes'[1].write = writes[1].write /\ writes'[1].role = writes[1].role
      /\ writes'[1].event = writes[1].event /\ writes'[1].cursor = writes[1].cursor
      /\ writes'[1].targets = writes[1].targets /\ writes'[1].saved = o
  BY <1>4, <1>5
<1>7. \A i \in DOMAIN writes : /\ writes'[i].write = writes[i].write
                               /\ writes'[i].role = writes[i].role
                               /\ writes'[i].event = writes[i].event
                               /\ writes'[i].cursor = writes[i].cursor
                               /\ writes'[i].targets = writes[i].targets
                               /\ writes'[i].saved = IF i = 1 THEN o ELSE writes[i].saved
  BY <1>5, <1>6
<1>8. /\ AppendsQueued' = AppendsQueued \ {1}
      /\ ReplacesQueued' = ReplacesQueued \ {1}
  BY <1>5, <1>7 DEF AppendsQueued, ReplacesQueued
<1>9. \A i \in Unsaved : i \in DOMAIN writes /\ i \in Nat /\ i >= 1
  BY <1>1 DEF Unsaved, AppendsQueued, ReplacesQueued
<1>10. \A i \in Unsaved : At(i)' = At(i) /\ PartOf(i)' = PartOf(i)
  BY <1>7, <1>9 DEF At, PartOf
<1>11. Unsaved' = Unsaved \ {1}
  BY <1>8 DEF Unsaved
<1> QED
  BY <1>1, <1>5, <1>7, <1>8, <1>9, <1>10, <1>11

\* The next segment the log has and the store has not is the head's.
LEMMA NextAppend ==
    ASSUME TypeOK, Aligned, 1 \in AppendsQueued
    PROVE  At(1) = Len(store) + 1 /\ Len(store) + 1 \in DOMAIN log
<1>1. /\ Len(store) \in Nat /\ Len(log) \in Nat /\ At(1) \in Nat /\ DOMAIN log = 1 .. Len(log)
      /\ \A i \in AppendsQueued : i \in Nat /\ i >= 1 /\ At(i) \in Nat
  BY QueueIsShaped DEF QueueShape
<1>2. Len(store) < At(1) /\ At(1) <= Len(log)
  BY DEF Aligned
<1>3. PICK i \in AppendsQueued : At(i) = Len(store) + 1
  BY <1>1, <1>2 DEF Aligned
<1>4. i = 1 \/ At(1) < At(i)
  BY <1>1, <1>3 DEF Aligned
<1> QED
  BY <1>1, <1>2, <1>3, <1>4

LEMMA SaveAppend ==
    ASSUME TypeOK, TypeOK', Aligned, writes # <<>>, NEW o \in {"ok", "rejected"}, SaveHead(o),
           1 \in AppendsQueued, store' = Append(store, PartOf(1)), log' = log
    PROVE  Aligned' /\ (Exact => Exact')
<1>1. /\ AppendsQueued' = AppendsQueued \ {1} /\ ReplacesQueued' = ReplacesQueued \ {1}
      /\ Unsaved' = Unsaved \ {1} /\ 1 \notin ReplacesQueued
      /\ \A i \in Unsaved : i \in Nat /\ i >= 1 /\ At(i)' = At(i) /\ PartOf(i)' = PartOf(i)
  BY HeadSaved DEF AppendsQueued, ReplacesQueued
<1>2. /\ Len(store) \in Nat /\ Len(log) \in Nat /\ DOMAIN store = 1 .. Len(store)
      /\ DOMAIN log = 1 .. Len(log) /\ store \in Seq(Part)
  BY QueueIsShaped DEF QueueShape, TypeOK
<1>3. /\ Len(store') = Len(store) + 1 /\ DOMAIN store' = 1 .. Len(store) + 1
      /\ store'[Len(store) + 1] = PartOf(1)
      /\ \A n \in DOMAIN store : store'[n] = store[n]
  BY <1>2
<1>4. At(1) = Len(store) + 1 /\ Len(store) + 1 <= Len(log)
  BY <1>2, NextAppend
<1>5. \A i \in Unsaved : At(i) \in Nat
  BY QueueIsShaped DEF QueueShape
<1>6. AppendsQueued \subseteq Unsaved /\ ReplacesQueued \subseteq Unsaved
  BY DEF Unsaved
<1>7. \A i \in AppendsQueued \ {1} : At(i)' = At(i) /\ At(i) > Len(store) + 1 /\ At(i) <= Len(log)
  BY <1>1, <1>4, <1>5, <1>6 DEF Aligned
<1>8. \A n \in Len(store) + 2 .. Len(log) : \E i \in AppendsQueued \ {1} : At(i)' = n
  <2> SUFFICES ASSUME NEW n \in Len(store) + 2 .. Len(log)
               PROVE  \E i \in AppendsQueued \ {1} : At(i)' = n
    OBVIOUS
  <2>1. PICK i \in AppendsQueued : At(i) = n
    BY <1>2 DEF Aligned
  <2>2. i # 1
    BY <1>2, <1>4, <2>1
  <2> QED
    BY <1>7, <2>1, <2>2
<1>9. ASSUME NEW j \in ReplacesQueued
      PROVE  /\ At(j)' \in 1 .. Len(log)
             /\ At(j)' > Len(store) + 1 =>
                  \E i \in AppendsQueued \ {1} : i < j /\ At(i)' = At(j)'
             /\ \A i \in AppendsQueued \ {1} : i < j => At(i)' <= At(j)'
  <2>1. At(j)' = At(j) /\ At(j) \in Nat
    BY <1>1, <1>5, <1>6
  <2>2. At(j) > Len(store) + 1 => \E i \in AppendsQueued \ {1} : i < j /\ At(i)' = At(j)
    <3> SUFFICES ASSUME At(j) > Len(store) + 1
                 PROVE  \E i \in AppendsQueued \ {1} : i < j /\ At(i)' = At(j)
      OBVIOUS
    <3>1. PICK i \in AppendsQueued : i < j /\ At(i) = At(j)
      BY <1>2, <2>1 DEF Aligned
    <3> QED
      BY <1>2, <1>4, <1>7, <3>1
  <2> QED
    BY <1>7, <2>1, <2>2 DEF Aligned
<1>10. Aligned'
  <2>1. \A i, j \in AppendsQueued' : i < j => At(i)' < At(j)'
    BY <1>1, <1>7 DEF Aligned
  <2>2. /\ Len(store') <= Len(log') /\ Len(store') = Len(store) + 1 /\ Len(log') = Len(log)
        /\ \A n \in Len(store') + 1 .. Len(log') : \E i \in AppendsQueued' : At(i)' = n
    BY <1>1, <1>2, <1>3, <1>4, <1>8
  <2>3. \A i \in AppendsQueued' : Len(store') < At(i)' /\ At(i)' <= Len(log')
    BY <1>1, <1>7, <2>2
  <2>4. \A j \in ReplacesQueued' :
          /\ At(j)' \in 1 .. Len(log')
          /\ At(j)' > Len(store') => \E i \in AppendsQueued' : i < j /\ At(i)' = At(j)'
          /\ \A i \in AppendsQueued' : i < j => At(i)' <= At(j)'
    BY <1>1, <1>9, <2>2
  <2> QED
    BY <2>1, <2>2, <2>3, <2>4 DEF Aligned
<1>11. ASSUME Exact PROVE Exact'
  <2>1. \A j \in ReplacesQueued : j \in ReplacesQueued' /\ At(j)' = At(j)
    BY <1>1, <1>6
  <2>2. \A i \in Unsaved' : \/ PartOf(i)' = log'[At(i)']
                            \/ \E j \in ReplacesQueued' : i < j /\ At(j)' = At(i)'
    <3> SUFFICES ASSUME NEW i \in Unsaved \ {1}
                 PROVE  \/ PartOf(i)' = log'[At(i)']
                        \/ \E j \in ReplacesQueued' : i < j /\ At(j)' = At(i)'
      BY <1>1
    <3>1. At(i)' = At(i) /\ PartOf(i)' = PartOf(i) /\ log' = log
      BY <1>1
    <3> QED
      BY <1>11, <2>1, <3>1 DEF Exact
  <2>3. ASSUME NEW n \in DOMAIN store'
        PROVE  store'[n] = log'[n] \/ \E j \in ReplacesQueued' : At(j)' = n
    <3>1. CASE n \in DOMAIN store
      BY <1>3, <1>11, <2>1, <3>1 DEF Exact
    <3>2. CASE n = Len(store) + 1
      <4>1. PartOf(1) = log[n] \/ \E j \in ReplacesQueued : At(j) = n
        BY <1>4, <1>6, <1>11, <3>2 DEF Exact
      <4> QED
        BY <1>3, <2>1, <3>2, <4>1
    <3> QED
      BY <1>2, <1>3, <3>1, <3>2
  <2> QED
    BY <2>2, <2>3 DEF Exact
<1> QED
  BY <1>10, <1>11

\* A replacement's turn comes when its segment is in the store.
LEMMA SaveReplace ==
    ASSUME TypeOK, TypeOK', Aligned, writes # <<>>, NEW o \in {"ok", "rejected"}, SaveHead(o),
           1 \in ReplacesQueued, log' = log,
           store' = store \/ store' = [store EXCEPT ![At(1)] = PartOf(1)]
    PROVE  /\ At(1) \in DOMAIN store
           /\ Aligned'
           /\ store' = [store EXCEPT ![At(1)] = PartOf(1)] /\ Exact => Exact'
<1>1. /\ AppendsQueued' = AppendsQueued \ {1} /\ ReplacesQueued' = ReplacesQueued \ {1}
      /\ Unsaved' = Unsaved \ {1} /\ 1 \notin AppendsQueued
      /\ \A i \in Unsaved : i \in Nat /\ i >= 1 /\ At(i)' = At(i) /\ PartOf(i)' = PartOf(i)
  BY HeadSaved DEF AppendsQueued, ReplacesQueued
<1>2. /\ Len(store) \in Nat /\ Len(log) \in Nat /\ DOMAIN store = 1 .. Len(store)
      /\ DOMAIN log = 1 .. Len(log) /\ store \in Seq(Part) /\ At(1) \in Nat
  BY QueueIsShaped DEF QueueShape, TypeOK, Unsaved
<1>3. AppendsQueued \subseteq Unsaved /\ ReplacesQueued \subseteq Unsaved
  BY DEF Unsaved
<1>4. At(1) \in DOMAIN store
  <2>1. At(1) > Len(store) => \E i \in AppendsQueued : i < 1
    BY DEF Aligned
  <2>2. At(1) >= 1
    BY DEF Aligned
  <2> QED
    BY <1>1, <1>2, <1>3, <2>1, <2>2
<1>5. /\ DOMAIN store' = DOMAIN store /\ Len(store') = Len(store)
      /\ \A n \in DOMAIN store : n # At(1) => store'[n] = store[n]
      /\ store' = [store EXCEPT ![At(1)] = PartOf(1)] => store'[At(1)] = PartOf(1)
  BY <1>2, <1>4
<1>6. Aligned'
  <2>1. /\ AppendsQueued' = AppendsQueued /\ Len(log') = Len(log)
        /\ \A i \in AppendsQueued : At(i)' = At(i)
        /\ \A j \in ReplacesQueued' : j \in ReplacesQueued /\ At(j)' = At(j)
    BY <1>1, <1>3
  <2> QED
    BY <1>5, <2>1 DEF Aligned
<1>7. ASSUME store' = [store EXCEPT ![At(1)] = PartOf(1)], Exact PROVE Exact'
  <2>1. \A j \in ReplacesQueued : j # 1 => j \in ReplacesQueued' /\ At(j)' = At(j)
    BY <1>1, <1>3
  <2>2. ASSUME NEW i \in Unsaved'
        PROVE  \/ PartOf(i)' = log'[At(i)']
               \/ \E j \in ReplacesQueued' : i < j /\ At(j)' = At(i)'
    <3>1. i \in Unsaved /\ i >= 1 /\ i \in Nat /\ At(i)' = At(i) /\ PartOf(i)' = PartOf(i)
      BY <1>1, <2>2
    <3> QED
      BY <1>1, <1>3, <1>7, <2>1, <3>1 DEF Exact
  <2>3. ASSUME NEW n \in DOMAIN store'
        PROVE  store'[n] = log'[n] \/ \E j \in ReplacesQueued' : At(j)' = n
    <3>1. CASE n = At(1)
      <4>1. PartOf(1) = log[n] \/ \E j \in ReplacesQueued : 1 < j /\ At(j) = n
        BY <1>3, <1>7, <3>1 DEF Exact
      <4> QED
        BY <1>5, <1>7, <2>1, <3>1, <4>1
    <3>2. CASE n # At(1)
      <4>1. store[n] = log[n] \/ \E j \in ReplacesQueued : At(j) = n
        BY <1>5, <1>7, <2>3 DEF Exact
      <4> QED
        BY <1>5, <2>1, <2>3, <3>2, <4>1
    <3> QED
      BY <3>1, <3>2
  <2> QED
    BY <2>2, <2>3 DEF Exact
<1> QED
  BY <1>4, <1>6, <1>7

-------------------------------------------------------------------------------
(***************************************************************************)
(* What holds of every run, whatever may fail                              *)
(***************************************************************************)
Base == TypeInv /\ Idle /\ FirstStart /\ RoleInv

\* What an operation puts into the queue of the write lock keeps its role.
LEMMA RolesJoin ==
    ASSUME TypeOK, RoleInv, NEW op, writes' = Append(writes, op),
           op.role \in {"finish", "interrupt"} => op.write.kind = "none",
           op.write.kind = "replace" => op.role = "emit"
    PROVE  RoleInv'
<1>1. writes \in Seq(Op)
  BY DEF TypeOK
<1>2. /\ DOMAIN writes' = 1 .. Len(writes) + 1 /\ writes'[Len(writes) + 1] = op
      /\ \A i \in DOMAIN writes : writes'[i] = writes[i]
      /\ DOMAIN writes = 1 .. Len(writes) /\ Len(writes) \in Nat
  BY <1>1
<1>3. \A i \in DOMAIN writes' : i \in DOMAIN writes \/ i = Len(writes) + 1
  BY <1>2
<1> QED
  BY <1>2, <1>3 DEF RoleInv

\* The queue of the write lock loses members, or none, and gains none.
LEMMA RolesLeave ==
    ASSUME RoleInv,
           \A i \in DOMAIN writes' : \E j \in DOMAIN writes :
               writes'[i].role = writes[j].role /\ writes'[i].write = writes[j].write
    PROVE  RoleInv'
  BY DEF RoleInv

\* The tail of the queue, and what a cancelled emit leaves of it.
LEMMA TailMembers ==
    ASSUME TypeOK, writes # <<>>
    PROVE  /\ Tail(writes) \in Seq(Op)
           /\ \A i \in DOMAIN Tail(writes) : /\ i \in Nat /\ i + 1 \in DOMAIN writes
                                             /\ Tail(writes)[i] = writes[i + 1]
           /\ 1 \in DOMAIN writes /\ Head(writes) = writes[1]
<1>1. writes \in Seq(Op)
  BY DEF TypeOK
<1> QED
  BY <1>1

LEMMA AbandonMembers ==
    ASSUME TypeOK, NEW k \in DOMAIN writes, Abandon(k)
    PROVE  \A i \in DOMAIN writes' :
             /\ i \in Nat /\ (IF i < k THEN i ELSE i + 1) \in DOMAIN writes
             /\ writes'[i] = writes[IF i < k THEN i ELSE i + 1]
<1>1. writes \in Seq(Op)
  BY DEF TypeOK
<1>2. k \in 1 .. Len(writes) /\ Len(writes) \in Nat /\ DOMAIN writes = 1 .. Len(writes)
  BY <1>1
<1>3. writes' = [j \in 1 .. Len(writes) - 1 |-> writes[IF j < k THEN j ELSE j + 1]]
  BY DEF Abandon
<1> QED
  BY <1>2, <1>3

\* What emit and finish queue.
LEMMA OpShape ==
    ASSUME NEW write, NEW e, NEW k
    PROVE  /\ EmitOp(write, e, k).role = "emit" /\ EmitOp(write, e, k).write = write
           /\ EmitOp(write, e, k).saved = IF write.kind = "none" THEN "ok" ELSE "no"
           /\ EmitOp(write, e, k).event = e /\ EmitOp(write, e, k).cursor = k
           /\ EmitOp(write, e, k).targets = Subscribers
           /\ FinishOp(write).role \in {"flush", "finish"}
           /\ FinishOp(write).targets = Subscribers
           /\ FinishOp(write).role = "finish" =>
                FinishOp(write).write.kind = "none" /\ write.kind = "none"
           /\ FinishOp(write).role = "flush" =>
                /\ FinishOp(write).write = write
                /\ FinishOp(write).saved = IF write.kind = "none" THEN "ok" ELSE "no"
  BY DEF EmitOp, FinishOp, PassesThrough, MarkOp, NoWrite

\* Feeding the coalescer queues an emit whose write is the segment's, or none.
LEMMA PersistRoles ==
    ASSUME TypeOK, RoleInv, NEW write, NEW k, Persist(write, k)
    PROVE  RoleInv'
<1>1. CASE writes' = writes
  BY <1>1 DEF RoleInv
<1>2. CASE writes' = Append(writes, EmitOp(write, emitted + 1, k))
  BY <1>2, OpShape, RolesJoin
<1> QED
  BY <1>1, <1>2 DEF Persist

LEMMA RolesStep == TypeInv /\ RoleInv /\ [Next]_vars => RoleInv'
<1> SUFFICES ASSUME TypeInv, RoleInv, [Next]_vars PROVE RoleInv'
  OBVIOUS
<1>0. TypeOK /\ writes \in Seq(Op)
  BY DEF TypeInv, TypeOK
<1>1. CASE UNCHANGED writes
  BY <1>1 DEF RoleInv
<1>2. CASE Emit
  <2>1. ASSUME NEW part, NEW roll, FeedSegment(part, roll) PROVE RoleInv'
    BY <1>0, <2>1, PersistRoles DEF FeedSegment
  <2>2. CASE FeedHeld
    BY <1>0, <2>2, PersistRoles DEF FeedHeld
  <2> QED
    BY <1>2, <2>1, <2>2 DEF Emit
<1>3. CASE StoreCall
  <2>1. PICK o : SaveHead(o) /\ writes # <<>>
    BY <1>3 DEF StoreCall
  <2>2. writes' = [writes EXCEPT ![1].saved = o] /\ 1 \in DOMAIN writes /\ writes[1] \in Op
    BY <1>0, <2>1 DEF SaveHead
  <2>3. DOMAIN writes' = DOMAIN writes
        /\ \A i \in DOMAIN writes : writes'[i].role = writes[i].role /\ writes'[i].write = writes[i].write
    BY <2>2 DEF Op, OpOf
  <2> QED
    BY <2>3, RolesLeave
<1>4. CASE ResumeHolder
  <2>0. writes # <<>>
    BY <1>4 DEF ResumeHolder
  <2>1. CASE writes' = Tail(writes)
    BY <1>0, <2>0, <2>1, TailMembers, RolesLeave
  <2>2. CASE writes' = Append(Tail(writes), MarkOp("finish", Head(writes).targets))
    <3> DEFINE rest == Tail(writes)
    <3>1. /\ rest \in Seq(Op)
          /\ \A i \in DOMAIN rest : i + 1 \in DOMAIN writes /\ rest[i] = writes[i + 1]
          /\ writes' = Append(rest, MarkOp("finish", Head(writes).targets))
      BY <1>0, <2>0, <2>2, TailMembers
    <3> HIDE DEF rest
    <3>2. \A i \in DOMAIN writes' :
             \/ i \in DOMAIN rest /\ writes'[i] = rest[i]
             \/ writes'[i] = MarkOp("finish", Head(writes).targets)
      BY <3>1
    <3> QED
      BY <3>1, <3>2 DEF RoleInv, MarkOp, NoWrite
  <2> QED
    BY <1>4, <2>1, <2>2 DEF ResumeHolder
<1>5. CASE \E outcome \in Outcomes : Finish(outcome)
  <2>1. writes' = Append(writes, FinishOp(FlushWrite))
    BY <1>5 DEF Finish
  <2>2. FlushWrite.kind # "replace"
    BY DEF FlushWrite, WriteFor, Overwrites, NoWrite
  <2>3. /\ FinishOp(FlushWrite).role \in {"finish", "interrupt"} => FinishOp(FlushWrite).write.kind = "none"
        /\ FinishOp(FlushWrite).write.kind # "replace"
    BY <2>2, OpShape
  <2> QED
    BY <1>0, <2>1, <2>3, RolesJoin
<1>6. CASE QueueInterruptMark
  BY <1>0, <1>6, RolesJoin DEF QueueInterruptMark, MarkOp, NoWrite
<1>7. CASE Cancel \/ CancelLate
  <2>1. CASE \E i \in DOMAIN writes : Abandon(i)
    BY <1>0, <2>1, AbandonMembers, RolesLeave
  <2> QED
    BY <1>1, <1>7, <2>1 DEF Cancel, CancelLate, EmitsInFlight
<1>8. CASE \E c \in Clients : Disconnect(c)
  <2>1. PICK c : writes' = [i \in DOMAIN writes |-> [writes[i] EXCEPT !.targets = @ \ {c}]]
    BY <1>8 DEF Disconnect
  <2>2. \A i \in DOMAIN writes : writes[i] \in Op
    BY <1>0
  <2>3. DOMAIN writes' = DOMAIN writes
        /\ \A i \in DOMAIN writes : writes'[i].role = writes[i].role /\ writes'[i].write = writes[i].write
    BY <2>1, <2>2 DEF Op, OpOf
  <2> QED
    BY <2>3, RolesLeave
<1>9. CASE Crash
  BY <1>9 DEF Crash, RoleInv
<1> QED
  BY <1>1, <1>2, <1>3, <1>4, <1>5, <1>6, <1>7, <1>8, <1>9
     DEF Next, Run, Reader, Environment, InitializeStore, Subscribe, Receive, EndStream,
         DetachedCall, Interrupt, Recover, vars, storeVars, runVars

LEMMA BaseStep == Base /\ [Next]_vars => Base'
<1> SUFFICES ASSUME Base, [Next]_vars PROVE Base'
  OBVIOUS
<1>1. TypeInv' /\ RoleInv'
  BY NextType, RolesStep DEF Base
<1>2. Idle'
  <2>1. Idle /\ conn \in [Clients -> {"off", "on", "draining", "ended"}]
    BY DEF Base, TypeInv, TypeOK
  <2>2. CASE Crash
    BY <2>1, <2>2 DEF Crash, Idle
  <2>3. CASE Recover
    BY <2>1, <2>3 DEF Recover, Idle, runVars, clientVars
  <2>4. CASE UNCHANGED vars
    BY <2>1, <2>4 DEF Idle, vars
  <2>5. CASE Interrupt
    <3>1. proc' = proc /\ stream' = [c \in Clients |-> IF conn[c] = "on" THEN Append(stream[c], Sentinel) ELSE stream[c]]
      BY <2>5 DEF Interrupt, Deliver, Subscribers
    <3>2. proc # "up" => \A c \in Clients : stream'[c] = stream[c]
      BY <2>1, <3>1 DEF Idle
    <3> QED
      BY <2>1, <2>5, <3>1, <3>2 DEF Interrupt, Idle, storeVars
  <2>6. CASE \E c \in Clients : Reader(c) \/ Disconnect(c)
    BY <2>1, <2>6 DEF Reader, Subscribe, Receive, EndStream, Disconnect, Idle, runVars, storeVars
  <2>7. CASE DetachedCall
    BY <2>1, <2>7 DEF DetachedCall, Idle, runVars, clientVars
  <2>8. CASE Run \/ Cancel \/ CancelLate
    <3>1. proc' = "up"
      BY <2>8 DEF Run, Cancel, CancelLate, InitializeStore, Emit, MayEmit, StoreCall, ResumeHolder,
         Finish, QueueInterruptMark
    <3> QED
      BY <3>1 DEF Idle
  <2> QED
    BY <2>2, <2>3, <2>4, <2>5, <2>6, <2>7, <2>8 DEF Next, Environment
<1>3. FirstStart'
  <2>1. Idle /\ FirstStart /\ crashes \in Nat
    BY DEF Base, TypeInv, TypeOK
  <2>2. CASE Crash
    BY <2>1, <2>2 DEF Crash, FirstStart
  <2>3. CASE Recover
    BY <2>1, <2>3 DEF Recover, FirstStart
  <2>4. CASE DetachedCall
    BY <2>1, <2>4 DEF DetachedCall, FirstStart, Idle, runVars
  <2>5. CASE Run \/ Cancel \/ CancelLate
    <3>1. proc' = "up"
      BY <2>5 DEF Run, Cancel, CancelLate, InitializeStore, Emit, MayEmit, StoreCall, ResumeHolder,
         Finish, QueueInterruptMark
    <3> QED
      BY <3>1 DEF FirstStart
  <2>6. CASE UNCHANGED <<crashes, proc, store>>
    BY <2>1, <2>6 DEF FirstStart
  <2> QED
    BY <2>2, <2>3, <2>4, <2>5, <2>6 DEF Next, Environment, Reader, Subscribe, Receive, EndStream,
       Interrupt, Disconnect, vars, storeVars
<1> QED
  BY <1>1, <1>2, <1>3 DEF Base

LEMMA InitBase == Init => Base
  BY InitType DEF Base, Idle, FirstStart, RoleInv, Init

LEMMA BaseInvariance == Spec => []Base
  BY InitBase, BaseStep, PTL DEF Spec

-------------------------------------------------------------------------------
(***************************************************************************)
(* What a step does to the log, the store and the queue between them       *)
(***************************************************************************)
Quiet == (\E d \in {0, 1} : Shifted(d)) /\ UNCHANGED <<log, store>>

\* A segment is fed: it enters the log, and its write the queue.
NewSegment(part, roll) ==
    /\ \E op \in Op : /\ writes' = Append(writes, op)
                      /\ op.write = WriteFor(part, roll) /\ op.saved = "no"
    /\ log' = LogAfter(part, roll) /\ UNCHANGED store
    /\ ~Done /\ (roll => driver = "running" /\ window \subseteq part)

SavesAppend ==
    /\ writes # <<>> /\ 1 \in AppendsQueued /\ SaveHead("ok")
    /\ store' = Append(store, PartOf(1)) /\ UNCHANGED log

SavesReplace ==
    /\ writes # <<>> /\ 1 \in ReplacesQueued /\ SaveHead("ok") /\ InRange(At(1))
    /\ store' = [store EXCEPT ![At(1)] = PartOf(1)] /\ UNCHANGED log

LosesAppend ==
    /\ "append" \in Disturbances
    /\ writes # <<>> /\ 1 \in AppendsQueued /\ SaveHead("ok") /\ UNCHANGED <<log, store>>

LosesReplace ==
    /\ "replace" \in Disturbances \/ ~InRange(At(1))
    /\ writes # <<>> /\ 1 \in ReplacesQueued /\ SaveHead("rejected") /\ UNCHANGED <<log, store>>

QueueMove ==
    \/ Quiet
    \/ \E part \in Part, roll \in BOOLEAN : NewSegment(part, roll)
    \/ SavesAppend \/ SavesReplace \/ LosesAppend \/ LosesReplace
    \/ DetachedCall \/ Cancel \/ CancelLate

LEMMA LiveCursorType ==
    ASSUME NEW n \in Nat, NEW slot \in Nat
    PROVE  LiveCursor(n, slot) \in Nat
  BY DEF LiveCursor

\* The coalescer is fed one event (emit).
LEMMA PersistMove ==
    ASSUME TypeInv, TypeOK', NEW write \in Write, NEW k \in Nat, emitted + 1 \in Events,
           Persist(write, k)
    PROVE  /\ write.kind = "none" => Shifted(0)
           /\ write.kind # "none" => \E op \in Op : /\ writes' = Append(writes, op)
                                                   /\ op.write = write /\ op.saved = "no"
<1>1. TypeOK
  BY DEF TypeInv
<1>2. EmitOp(write, emitted + 1, k) \in Op
  BY DEF EmitOp, Op, OpOf, Subscribers
<1>3. CASE PassesThrough(write)
  <2>1. writes' = writes /\ write.kind = "none"
    BY <1>3 DEF Persist, PassesThrough
  <2> QED
    BY <1>1, <2>1, SameQuiet DEF Unsaved, AppendsQueued, ReplacesQueued
<1>4. CASE ~PassesThrough(write)
  <2>1. writes' = Append(writes, EmitOp(write, emitted + 1, k))
    BY <1>4 DEF Persist
  <2>2. write.kind = "none" => EmitOp(write, emitted + 1, k).saved # "no"
    BY OpShape
  <2>3. write.kind = "none" => Shifted(0)
    BY <1>1, <2>1, <2>2, JoinQuiet
  <2> QED
    BY <1>2, <2>1, <2>3, OpShape
<1> QED
  BY <1>3, <1>4

LEMMA SegmentMove ==
    ASSUME TypeInv, TypeOK', emitted + 1 \in Events, NEW part \in Part, NEW roll \in BOOLEAN,
           FeedSegment(part, roll), UNCHANGED store, ~Done,
           roll => driver = "running" /\ window \subseteq part
    PROVE  NewSegment(part, roll)
<1>1. log \in Seq(Part) /\ openSlot \in Nat /\ SlotIsLast /\ log' \in Seq(Part) /\ openSlot' \in Nat
  BY DEF TypeInv, TypeOK
<1>2. WriteFor(part, roll) \in Write /\ WriteFor(part, roll).kind # "none"
  BY <1>1, ApplyType DEF WriteFor
<1>3. LiveCursor(Len(log'), openSlot') \in Nat
  <2>1. Len(log') \in Nat
    BY <1>1
  <2> QED
    BY <1>1, <2>1, LiveCursorType
<1>4. Persist(WriteFor(part, roll), LiveCursor(Len(log'), openSlot')) /\ log' = LogAfter(part, roll)
  BY DEF FeedSegment
<1>5. \E op \in Op : /\ writes' = Append(writes, op)
                     /\ op.write = WriteFor(part, roll) /\ op.saved = "no"
  BY <1>2, <1>3, <1>4, PersistMove
<1> QED
  BY <1>4, <1>5 DEF NewSegment

LEMMA EmitMove ==
    ASSUME TypeInv, TypeOK', Emit
    PROVE  Quiet \/ \E part \in Part, roll \in BOOLEAN : NewSegment(part, roll)
<1>1. /\ emitted + 1 \in Events /\ store' = store /\ held \in Part /\ window \in Part
      /\ log \in Seq(Part) /\ openSlot \in Nat /\ ~Done
  BY DEF Emit, MayEmit, Events, TypeInv, TypeOK
<1>2. CASE FeedSegment(held \cup {emitted + 1}, FALSE)
  <2>1. held \cup {emitted + 1} \in Part
    BY <1>1 DEF Part
  <2> QED
    BY <1>1, <1>2, <2>1, SegmentMove
<1>3. CASE driver = "running" /\ FeedSegment(window \cup held \cup {emitted + 1}, TRUE)
  <2>1. window \cup held \cup {emitted + 1} \in Part
    BY <1>1 DEF Part
  <2> QED
    BY <1>1, <1>3, <2>1, SegmentMove
<1>4. CASE FeedHeld
  <2>1. NoWrite \in Write /\ NoWrite.kind = "none" /\ LiveCursor(Len(log), openSlot) \in Nat
    BY <1>1 DEF NoWrite, Write, Part, LiveCursor
  <2>2. Persist(NoWrite, LiveCursor(Len(log), openSlot)) /\ log' = log
    BY <1>4 DEF FeedHeld
  <2> QED
    BY <1>1, <2>1, <2>2, PersistMove DEF Quiet
<1> QED
  BY <1>2, <1>3, <1>4 DEF Emit

LEMMA FinishMove ==
    ASSUME TypeInv, TypeOK', NEW outcome, Finish(outcome)
    PROVE  Quiet \/ \E part \in Part, roll \in BOOLEAN : NewSegment(part, roll)
<1>1. /\ store' = store /\ held \in Part /\ TypeOK /\ writes' = Append(writes, FinishOp(FlushWrite))
      /\ log \in Seq(Part) /\ openSlot \in Nat /\ SlotIsLast
  BY DEF Finish, TypeInv, TypeOK
<1>2. CASE held = {}
  <2>1. log' = log /\ FlushWrite = NoWrite /\ NoWrite.kind = "none"
    BY <1>2 DEF Finish, FlushWrite, NoWrite
  <2>2. FinishOp(FlushWrite).saved # "no" \/ FinishOp(FlushWrite).write.kind = "none"
    BY <2>1, OpShape
  <2>3. Shifted(0)
    BY <1>1, <2>2, JoinQuiet
  <2> QED
    BY <1>1, <2>1, <2>3 DEF Quiet
<1>3. CASE held # {}
  <2>1. log' = LogAfter(held, FALSE) /\ FlushWrite = WriteFor(held, FALSE) /\ ~Done
    BY <1>3 DEF Finish, FlushWrite
  <2>2. FlushWrite.kind = "append" /\ FlushWrite \in Write
    BY <1>1, <2>1, ApplyType DEF WriteFor, Overwrites
  <2>3. FinishOp(FlushWrite) = [EmitOp(FlushWrite, 0, 0) EXCEPT !.role = "flush"]
    BY <2>2 DEF FinishOp, PassesThrough
  <2>4. PICK w : w = FlushWrite
    OBVIOUS
  <2>5. PICK op : op = [role |-> "flush", write |-> w, saved |-> "no", event |-> 0,
                        cursor |-> 0, targets |-> Subscribers]
    OBVIOUS
  <2>6. FinishOp(FlushWrite) = op
    BY <2>2, <2>3, <2>4, <2>5 DEF EmitOp
  <2>7. op \in Op /\ op.write = w /\ op.saved = "no"
    BY <2>2, <2>4, <2>5 DEF Op, OpOf, Subscribers
  <2> QED
    <3>1. \E o \in Op : /\ writes' = Append(writes, o)
                        /\ o.write = WriteFor(held, FALSE) /\ o.saved = "no"
      BY <1>1, <2>1, <2>4, <2>6, <2>7
    <3>2. NewSegment(held, FALSE)
      BY <1>1, <2>1, <3>1 DEF NewSegment
    <3> QED
      BY <1>1, <3>2
<1> QED
  BY <1>2, <1>3

\* The lock holder's store call.
LEMMA StoreMove ==
    ASSUME TypeInv, TypeOK', RoleInv, StoreCall
    PROVE  Quiet \/ SavesAppend \/ SavesReplace \/ LosesAppend \/ LosesReplace
<1>1. /\ TypeOK /\ writes # <<>> /\ log' = log /\ Head(writes) = writes[1]
      /\ writes[1].saved = "no" /\ 1 \in DOMAIN writes /\ writes[1] \in Op
  <2>1. TypeOK /\ writes \in Seq(Op)
    BY DEF TypeInv, TypeOK
  <2> QED
    BY <2>1 DEF StoreCall, runVars
<1>2. writes[1].write.kind \in {"none", "append", "replace"}
  BY <1>1 DEF Op, OpOf, Write
<1>3. /\ writes[1].write.kind = "append" <=> 1 \in AppendsQueued
      /\ writes[1].write.kind = "replace" <=> 1 \in ReplacesQueued
  BY <1>1 DEF AppendsQueued, ReplacesQueued
<1>4. ASSUME NEW o \in {"ok", "rejected"}, SaveHead(o), writes[1].write.kind = "none", store' = store
      PROVE  Quiet
  <2>1. 1 \notin Unsaved
    BY <1>3, <1>4 DEF Unsaved
  <2>2. Shifted(0)
    BY <1>1, <1>4, <2>1, HeadSaved, SameQuiet
  <2> QED
    BY <1>1, <1>4, <2>2 DEF Quiet
<1>5. CASE /\ Head(writes).write.kind = "append" \/ InRange(Head(writes).write.at)
           /\ store' = StoreAfter(Head(writes).write) /\ SaveHead("ok")
  BY <1>1, <1>2, <1>3, <1>4, <1>5 DEF StoreAfter, SavesAppend, SavesReplace, At, PartOf
<1>6. CASE /\ Head(writes).write.kind = "append" /\ "append" \in Disturbances
           /\ SaveHead("ok") /\ UNCHANGED <<store, storeStatus>>
  BY <1>1, <1>3, <1>6 DEF LosesAppend
<1>7. CASE /\ Head(writes).write.kind = "replace"
           /\ ~InRange(Head(writes).write.at) \/ "replace" \in Disturbances
           /\ SaveHead("rejected") /\ UNCHANGED <<store, storeStatus>>
  BY <1>1, <1>3, <1>7 DEF LosesReplace, At
<1>8. CASE Head(writes).role \in {"finish", "interrupt"} /\ SaveHead("ok") /\ UNCHANGED store
  BY <1>1, <1>4, <1>8 DEF RoleInv
<1> QED
  BY <1>5, <1>6, <1>7, <1>8 DEF StoreCall

LEMMA ResumeMove ==
    ASSUME TypeInv, TypeOK', ResumeHolder
    PROVE  Quiet
<1>1. /\ TypeOK /\ writes # <<>> /\ Head(writes).saved # "no" /\ UNCHANGED <<log, store>>
      /\ \/ writes' = Tail(writes)
         \/ writes' = Append(Tail(writes), MarkOp("finish", Head(writes).targets))
  BY DEF ResumeHolder, TypeInv
<1>2. 1 \notin Unsaved
  BY <1>1, TailMembers DEF Unsaved, AppendsQueued, ReplacesQueued
<1>3. MarkOp("finish", Head(writes).targets).write.kind = "none"
  BY DEF MarkOp, NoWrite
<1>4. Shifted(1)
  BY <1>1, <1>2, <1>3, LeaveQuiet
<1> QED
  BY <1>1, <1>4 DEF Quiet

LEMMA DisconnectMove ==
    ASSUME TypeInv, TypeOK', NEW c, Disconnect(c)
    PROVE  Quiet
<1>1. TypeOK /\ writes \in Seq(Op) /\ UNCHANGED <<log, store>>
  BY DEF TypeInv, TypeOK, Disconnect, runVars
<1>2. writes' = [i \in DOMAIN writes |-> [writes[i] EXCEPT !.targets = @ \ {c}]]
  BY DEF Disconnect
<1>3. /\ DOMAIN writes' = DOMAIN writes
      /\ \A i \in DOMAIN writes : writes'[i].write = writes[i].write /\ writes'[i].saved = writes[i].saved
  BY <1>1, <1>2 DEF Op, OpOf
<1>4. Unsaved' = Unsaved
  BY <1>3 DEF Unsaved, AppendsQueued, ReplacesQueued
<1>5. Shifted(0)
  BY <1>1, <1>3, <1>4, SameQuiet
<1> QED
  BY <1>1, <1>5 DEF Quiet

LEMMA StillMove ==
    ASSUME TypeInv, TypeOK', UNCHANGED <<writes, log, store>>
    PROVE  Quiet
<1>1. TypeOK
  BY DEF TypeInv
<1>2. Unsaved' = Unsaved
  BY DEF Unsaved, AppendsQueued, ReplacesQueued
<1>3. Shifted(0)
  BY <1>1, <1>2, SameQuiet
<1> QED
  BY <1>3 DEF Quiet

\* While the process lives, every step makes one of these moves.
LEMMA Moves ==
    ASSUME TypeInv, TypeOK', RoleInv, [Next]_vars, proc = "up", proc' = "up"
    PROVE  QueueMove
<1>1. CASE Emit
  BY <1>1, EmitMove DEF QueueMove
<1>2. CASE StoreCall
  BY <1>2, StoreMove DEF QueueMove
<1>3. CASE ResumeHolder
  BY <1>3, ResumeMove DEF QueueMove
<1>4. CASE \E outcome \in Outcomes : Finish(outcome)
  BY <1>4, FinishMove DEF QueueMove
<1>5. CASE QueueInterruptMark
  <2>1. /\ writes' = Append(writes, MarkOp("interrupt", {})) /\ UNCHANGED <<log, store>>
        /\ MarkOp("interrupt", {}).write.kind = "none" /\ TypeOK
    BY <1>5 DEF QueueInterruptMark, MarkOp, NoWrite, TypeInv
  <2>2. Shifted(0)
    BY <2>1, JoinQuiet
  <2> QED
    BY <2>1, <2>2 DEF QueueMove, Quiet
<1>6. CASE \E c \in Clients : Disconnect(c)
  BY <1>6, DisconnectMove DEF QueueMove
<1>7. CASE DetachedCall \/ Cancel \/ CancelLate
  BY <1>7 DEF QueueMove
<1>8. CASE UNCHANGED <<writes, log, store>>
  BY <1>8, StillMove DEF QueueMove
<1> QED
  BY <1>1, <1>2, <1>3, <1>4, <1>5, <1>6, <1>7, <1>8
     DEF Next, Run, Reader, Environment, InitializeStore, Subscribe, Receive, EndStream,
         Interrupt, Crash, Recover, vars, storeVars, runVars

-------------------------------------------------------------------------------
(***************************************************************************)
(* The store only grows                                                    *)
(***************************************************************************)
\* No segment, saved or to be saved, holds what its log entry does not.
Within ==
    /\ \A n \in DOMAIN store : store[n] \subseteq log[n]
    /\ \A i \in Unsaved : PartOf(i) \subseteq log[At(i)]

\* Of two versions of a segment the later has all the earlier has.
Ordered ==
    /\ \A i, j \in Unsaved : i < j /\ At(i) = At(j) => PartOf(i) \subseteq PartOf(j)
    /\ \A j \in ReplacesQueued : At(j) \in DOMAIN store => store[At(j)] \subseteq PartOf(j)

Kept == Aligned /\ Within /\ Ordered

\* An append was lost: every replacement still queued finds no entry to hit.
Behind ==
    /\ Len(store) < Len(log)
    /\ \A i \in AppendsQueued : Len(store) + 1 < At(i) /\ At(i) <= Len(log)
    /\ \A i, j \in AppendsQueued : i < j => At(i) < At(j)
    /\ \A j \in ReplacesQueued :
         /\ Len(store) < At(j)
         /\ \A i \in AppendsQueued : i < j => At(i) <= At(j)

\* The log does not know what the store holds, and nothing is overwritten.
NoSlot == ~inplaceOk /\ openSlot = 0 /\ ReplacesQueued = {}

\* The rolling snapshot is the open slot's entry.
WindowInv == openSlot # 0 /\ ~Done => window = log[openSlot]

DetachedInv ==
    /\ driver = "running" => detached = {}
    /\ \A v, w \in detached : v.kind = "replace" /\ w.kind = "replace" => v = w
    /\ \A w \in detached : w.kind = "replace" =>
          w.at \in DOMAIN store /\ store[w.at] \subseteq w.part

GrowInv ==
    /\ Base /\ WindowInv /\ DetachedInv
    /\ driver # "running" => ReplacesQueued = {}
    /\ proc = "up" /\ driver = "running" =>
          Kept \/ NoSlot \/ ("append" \in Disturbances /\ Behind)

LEMMA ShiftedKept ==
    ASSUME TypeOK, TypeOK', NEW d \in {0, 1}, Shifted(d), UNCHANGED <<log, store>>
    PROVE  /\ Kept => Kept'
           /\ Behind => Behind'
           /\ ReplacesQueued = {} => ReplacesQueued' = {}
<1>0. QueueShape /\ QueueShape'
  BY QueueIsShaped, QueueStaysShaped
<1>1. /\ \A i \in Unsaved' : i \in Nat /\ i + d \in Unsaved /\ At(i)' = At(i + d)
                             /\ PartOf(i)' = PartOf(i + d)
      /\ \A i, j \in Nat : i < j => i + d < j + d
  BY <1>0 DEF QueueShape, Shifted, At, PartOf
<1>2. /\ \A i \in AppendsQueued' : i \in Nat /\ i + d \in AppendsQueued /\ At(i)' = At(i + d)
      /\ \A i \in ReplacesQueued' : i \in Nat /\ i + d \in ReplacesQueued /\ At(i)' = At(i + d)
                                    /\ PartOf(i)' = PartOf(i + d)
  BY <1>0, <1>1 DEF QueueShape, Shifted
<1>3. ASSUME Kept PROVE Kept'
  <2>1. Aligned'
    BY <1>3, ShiftedAligned DEF Kept
  <2>2. Within'
    BY <1>1, <1>3 DEF Kept, Within
  <2>3. Ordered'
    <3>1. \A i, j \in Unsaved' : i < j /\ At(i)' = At(j)' => PartOf(i)' \subseteq PartOf(j)'
      <4> SUFFICES ASSUME NEW i \in Unsaved', NEW j \in Unsaved', i < j, At(i)' = At(j)'
                   PROVE  PartOf(i)' \subseteq PartOf(j)'
        OBVIOUS
      <4>1. i + d \in Unsaved /\ j + d \in Unsaved /\ i + d < j + d /\ At(i + d) = At(j + d)
        BY <1>1
      <4> QED
        BY <1>1, <1>3, <4>1 DEF Kept, Ordered
    <3>2. \A j \in ReplacesQueued' : At(j)' \in DOMAIN store' => store'[At(j)'] \subseteq PartOf(j)'
      BY <1>2, <1>3 DEF Kept, Ordered
    <3> QED
      BY <3>1, <3>2 DEF Ordered
  <2> QED
    BY <2>1, <2>2, <2>3 DEF Kept
<1>4. ASSUME Behind PROVE Behind'
  <2>1. /\ Len(store') < Len(log')
        /\ \A i \in AppendsQueued' : Len(store') + 1 < At(i)' /\ At(i)' <= Len(log')
    BY <1>2, <1>4 DEF Behind
  <2>2. \A i, j \in AppendsQueued' : i < j => At(i)' < At(j)'
    BY <1>1, <1>2, <1>4 DEF Behind
  <2>3. \A j \in ReplacesQueued' :
          /\ Len(store') < At(j)'
          /\ \A i \in AppendsQueued' : i < j => At(i)' <= At(j)'
    BY <1>1, <1>2, <1>4 DEF Behind
  <2> QED
    BY <2>1, <2>2, <2>3 DEF Behind
<1>5. ReplacesQueued = {} => ReplacesQueued' = {}
  BY <1>2
<1> QED
  BY <1>3, <1>4, <1>5

\* A new segment has all the one it overwrites had.
LEMMA WriteKept ==
    ASSUME NEW part \in Part, NEW roll \in BOOLEAN, NEW n, NEW k,
           GrownBy(n, k, part, roll), store' = store,
           Overwrites(roll) => log[openSlot] \subseteq part
    PROVE  /\ Kept => Kept'
           /\ Behind => Behind'
           /\ ReplacesQueued = {} /\ ~Overwrites(roll) => ReplacesQueued' = {}
<1>1. /\ \A i \in Unsaved : i < n /\ i \in Nat /\ At(i)' = At(i) /\ PartOf(i)' = PartOf(i)
      /\ \A i \in Unsaved' : i \in Unsaved \/ i = n
      /\ \A i \in AppendsQueued' : i \in AppendsQueued \/ i = n
      /\ \A i \in ReplacesQueued' : i \in ReplacesQueued \/ i = n
      /\ AppendsQueued \subseteq Unsaved /\ ReplacesQueued \subseteq Unsaved
      /\ At(n)' = k /\ PartOf(n)' = part /\ n \notin Unsaved /\ n \in Nat /\ k \in Nat \ {0}
      /\ IF Overwrites(roll) THEN n \in ReplacesQueued' /\ n \notin AppendsQueued'
                             ELSE n \in AppendsQueued' /\ n \notin ReplacesQueued'
      /\ \A i \in AppendsQueued \cup ReplacesQueued : At(i) \in Nat
  BY DEF GrownBy
<1>2. /\ DOMAIN log' = DOMAIN log \cup {k} /\ log'[k] = part
      /\ \A m \in DOMAIN log : m # k => log'[m] = log[m]
      /\ DOMAIN log = 1 .. Len(log) /\ Len(log) \in Nat /\ Len(store) \in Nat
      /\ DOMAIN store = 1 .. Len(store)
      /\ Overwrites(roll) => k = Len(log) /\ k \in DOMAIN log /\ k = openSlot /\ Len(log') = Len(log)
      /\ ~Overwrites(roll) => k = Len(log) + 1 /\ Len(log') = Len(log) + 1
  BY DEF GrownBy
<1>0. Len(log) <= Len(log') /\ Len(log') \in Nat
  <2>1. CASE Overwrites(roll)
    BY <1>2, <2>1
  <2>2. CASE ~Overwrites(roll)
    <3>1. Len(log') = Len(log) + 1 /\ Len(log) \in Nat
      BY <1>2, <2>2
    <3> QED
      BY <3>1
  <2> QED
    BY <2>1, <2>2
<1>3. \A m \in DOMAIN log : log[m] \subseteq log'[m]
  <2> SUFFICES ASSUME NEW m \in DOMAIN log PROVE log[m] \subseteq log'[m]
    OBVIOUS
  <2>1. CASE m = k
    <3>1. Overwrites(roll)
      BY <1>2, <2>1
    <3> QED
      BY <1>2, <2>1, <3>1
  <2> QED
    BY <1>2, <2>1
<1>4. ASSUME Kept PROVE Kept'
  <2>1. Aligned'
    BY <1>4, QueueWrite DEF Kept
  <2>2. \A i \in Unsaved : At(i) \in DOMAIN log /\ PartOf(i) \subseteq log[At(i)]
    <3> SUFFICES ASSUME NEW i \in Unsaved PROVE At(i) \in DOMAIN log /\ PartOf(i) \subseteq log[At(i)]
      OBVIOUS
    <3>1. CASE i \in AppendsQueued
      <4>1. Len(store) < At(i) /\ At(i) <= Len(log) /\ At(i) \in Nat
        BY <1>1, <1>4, <3>1 DEF Kept, Aligned
      <4> QED
        BY <1>2, <1>4, <4>1 DEF Kept, Within
    <3>2. CASE i \in ReplacesQueued
      BY <1>2, <1>4, <3>2 DEF Kept, Aligned, Within
    <3> QED
      BY <3>1, <3>2 DEF Unsaved
  <2>3. \A m \in DOMAIN store : m \in DOMAIN log /\ store[m] \subseteq log[m]
    BY <1>2, <1>4 DEF Kept, Aligned, Within
  <2>4. Within'
    <3>1. store' = store /\ \A m \in DOMAIN store : store[m] \subseteq log'[m]
      BY <1>3, <2>3
    <3>2. ASSUME NEW i \in Unsaved' PROVE PartOf(i)' \subseteq log'[At(i)']
      <4>1. CASE i \in Unsaved
        <5>1. At(i)' = At(i) /\ PartOf(i)' = PartOf(i)
          BY <1>1, <4>1
        <5>2. PartOf(i) \subseteq log[At(i)] /\ log[At(i)] \subseteq log'[At(i)]
          BY <1>3, <2>2, <4>1
        <5> QED
          BY <5>1, <5>2
      <4>2. CASE i = n
        BY <1>1, <1>2, <4>2
      <4> QED
        BY <1>1, <4>1, <4>2
    <3> QED
      BY <3>1, <3>2 DEF Within
  <2>5. Ordered'
    <3>1. \A i, j \in Unsaved' : i < j /\ At(i)' = At(j)' => PartOf(i)' \subseteq PartOf(j)'
      <4> SUFFICES ASSUME NEW i \in Unsaved', NEW j \in Unsaved', i < j, At(i)' = At(j)'
                   PROVE  PartOf(i)' \subseteq PartOf(j)'
        OBVIOUS
      <4>1. i \in Unsaved
        BY <1>1
      <4>2. CASE j \in Unsaved
        BY <1>1, <1>4, <4>1, <4>2 DEF Kept, Ordered
      <4>3. CASE j = n
        <5>1. At(i) = k /\ k \in DOMAIN log
          BY <1>1, <2>2, <4>1, <4>3
        <5>2. Overwrites(roll)
          BY <1>2, <5>1
        <5> QED
          BY <1>1, <1>2, <2>2, <4>1, <4>3, <5>1, <5>2
      <4> QED
        BY <1>1, <4>2, <4>3
    <3>2. \A j \in ReplacesQueued' : At(j)' \in DOMAIN store' => store'[At(j)'] \subseteq PartOf(j)'
      <4> SUFFICES ASSUME NEW j \in ReplacesQueued', At(j)' \in DOMAIN store
                   PROVE  store[At(j)'] \subseteq PartOf(j)'
        OBVIOUS
      <4>1. CASE j \in ReplacesQueued
        BY <1>1, <1>4, <4>1 DEF Kept, Ordered
      <4>2. CASE j = n
        <5>1. Overwrites(roll) /\ At(j)' = openSlot /\ PartOf(j)' = part
          BY <1>1, <1>2, <4>2
        <5> QED
          BY <2>3, <5>1
      <4> QED
        BY <1>1, <4>1, <4>2
    <3> QED
      BY <3>1, <3>2 DEF Ordered
  <2> QED
    BY <2>1, <2>4, <2>5 DEF Kept
<1>5. ASSUME Behind PROVE Behind'
  <2>1. Len(store') < Len(log')
    <3>1. Len(store) < Len(log)
      BY <1>5 DEF Behind
    <3> QED
      BY <1>0, <1>2, <3>1
  <2>2. \A i \in AppendsQueued' : Len(store') + 1 < At(i)' /\ At(i)' <= Len(log')
    <3> SUFFICES ASSUME NEW i \in AppendsQueued'
                 PROVE  Len(store) + 1 < At(i)' /\ At(i)' <= Len(log')
      OBVIOUS
    <3>1. CASE i \in AppendsQueued
      <4>1. At(i)' = At(i) /\ At(i) \in Nat /\ Len(store) + 1 < At(i) /\ At(i) <= Len(log)
        BY <1>1, <1>5, <3>1 DEF Behind
      <4> QED
        BY <1>0, <1>2, <4>1
    <3>2. CASE i = n
      <4>1. /\ At(i)' = Len(log) + 1 /\ Len(log') = Len(log) + 1 /\ Len(store) < Len(log)
            /\ Len(log) \in Nat /\ Len(store) \in Nat
        BY <1>1, <1>2, <1>5, <3>2 DEF Behind
      <4> QED
        BY <4>1
    <3> QED
      BY <1>1, <3>1, <3>2
  <2>3. \A i, j \in AppendsQueued' : i < j => At(i)' < At(j)'
    <3> SUFFICES ASSUME NEW i \in AppendsQueued', NEW j \in AppendsQueued', i < j
                 PROVE  At(i)' < At(j)'
      OBVIOUS
    <3>1. i \in AppendsQueued
      BY <1>1
    <3>2. CASE j \in AppendsQueued
      BY <1>1, <1>5, <3>1, <3>2 DEF Behind
    <3>3. CASE j = n
      <4>1. At(i)' = At(i) /\ At(i) \in Nat /\ At(i) <= Len(log) /\ At(j)' = Len(log) + 1
        BY <1>1, <1>2, <1>5, <3>1, <3>3 DEF Behind
      <4> QED
        BY <1>2, <4>1
    <3> QED
      BY <1>1, <3>2, <3>3
  <2>4. ASSUME NEW j \in ReplacesQueued'
        PROVE  /\ Len(store') < At(j)'
               /\ \A i \in AppendsQueued' : i < j => At(i)' <= At(j)'
    <3>1. CASE j \in ReplacesQueued
      <4>1. At(j)' = At(j) /\ Len(store) < At(j) /\ j < n
        BY <1>1, <1>5, <3>1 DEF Behind
      <4>2. \A i \in AppendsQueued' : i < j => i \in AppendsQueued /\ At(i)' = At(i)
        BY <1>1, <3>1, <4>1
      <4> QED
        BY <1>5, <3>1, <4>1, <4>2 DEF Behind
    <3>2. CASE j = n
      <4>1. Overwrites(roll)
        BY <1>1, <2>4, <3>2
      <4>2. At(j)' = Len(log) /\ Len(log') = Len(log) /\ Len(store) < Len(log)
        BY <1>1, <1>2, <1>5, <3>2, <4>1 DEF Behind
      <4> QED
        BY <2>2, <4>2
    <3> QED
      BY <1>1, <3>1, <3>2
  <2> QED
    BY <2>1, <2>2, <2>3, <2>4 DEF Behind
<1>6. ReplacesQueued = {} /\ ~Overwrites(roll) => ReplacesQueued' = {}
  BY <1>1
<1> QED
  BY <1>4, <1>5, <1>6

\* An append lands where the log has its segment.
LEMMA SaveAppendKept ==
    ASSUME TypeOK, TypeOK', SavesAppend
    PROVE  /\ Kept => Kept'
           /\ Behind => Behind'
           /\ ReplacesQueued = {} => ReplacesQueued' = {}
           /\ DOMAIN store \subseteq DOMAIN store' /\ \A n \in DOMAIN store : store'[n] = store[n]
<1>1. /\ AppendsQueued' = AppendsQueued \ {1} /\ ReplacesQueued' = ReplacesQueued \ {1}
      /\ Unsaved' = Unsaved \ {1} /\ 1 \notin ReplacesQueued /\ 1 \in AppendsQueued
      /\ \A i \in Unsaved : i \in Nat /\ i >= 1 /\ At(i)' = At(i) /\ PartOf(i)' = PartOf(i)
  BY HeadSaved DEF AppendsQueued, ReplacesQueued, SavesAppend
<1>2. /\ Len(store) \in Nat /\ Len(log) \in Nat /\ DOMAIN store = 1 .. Len(store)
      /\ store \in Seq(Part) /\ \A i \in Unsaved : At(i) \in Nat
  BY QueueIsShaped DEF QueueShape, TypeOK
<1>3. /\ Len(store') = Len(store) + 1 /\ DOMAIN store' = 1 .. Len(store) + 1
      /\ store'[Len(store) + 1] = PartOf(1) /\ log' = log
      /\ \A n \in DOMAIN store : store'[n] = store[n]
  BY <1>2 DEF SavesAppend
<1>4. AppendsQueued \subseteq Unsaved /\ ReplacesQueued \subseteq Unsaved
  BY DEF Unsaved
<1>5. ASSUME Kept PROVE Kept'
  <2>1. Aligned' /\ At(1) = Len(store) + 1
    BY <1>5, SaveAppend, NextAppend DEF Kept, SavesAppend
  <2>2. Within'
    <3>1. PartOf(1) \subseteq log[At(1)]
      BY <1>1, <1>4, <1>5 DEF Kept, Within
    <3>2. \A n \in DOMAIN store' : n \in DOMAIN store \/ n = Len(store) + 1
      BY <1>2, <1>3
    <3>3. \A n \in DOMAIN store' : store'[n] \subseteq log'[n]
      BY <1>3, <1>5, <2>1, <3>1, <3>2 DEF Kept, Within
    <3> QED
      BY <1>1, <1>3, <1>5, <3>3 DEF Kept, Within
  <2>3. Ordered'
    <3>1. \A i, j \in Unsaved' : i < j /\ At(i)' = At(j)' => PartOf(i)' \subseteq PartOf(j)'
      BY <1>1, <1>5 DEF Kept, Ordered
    <3>2. ASSUME NEW j \in ReplacesQueued, j # 1, At(j) \in DOMAIN store'
          PROVE  store'[At(j)] \subseteq PartOf(j)
      <4>1. CASE At(j) \in DOMAIN store
        BY <1>3, <1>5, <4>1 DEF Kept, Ordered
      <4>2. CASE At(j) = Len(store) + 1
        <5>1. 1 < j /\ At(1) = At(j)
          BY <1>1, <1>4, <2>1, <3>2, <4>2
        <5>2. PartOf(1) \subseteq PartOf(j)
          BY <1>1, <1>4, <1>5, <5>1 DEF Kept, Ordered
        <5> QED
          BY <1>3, <4>2, <5>2
      <4> QED
        BY <1>2, <1>3, <3>2, <4>1, <4>2
    <3> QED
      BY <1>1, <1>4, <3>1, <3>2 DEF Ordered
  <2> QED
    BY <2>1, <2>2, <2>3 DEF Kept
<1>6. ASSUME Behind PROVE Behind'
  <2>1. Len(store) + 1 < At(1) /\ At(1) <= Len(log) /\ At(1) \in Nat
    BY <1>1, <1>2, <1>4, <1>6 DEF Behind
  <2>2. \A i \in AppendsQueued \ {1} : At(1) < At(i) /\ At(i) <= Len(log) /\ At(i) \in Nat
    BY <1>1, <1>2, <1>4, <1>6 DEF Behind
  <2>3. \A j \in ReplacesQueued : At(1) <= At(j) /\ At(j) \in Nat
    BY <1>1, <1>2, <1>4, <1>6 DEF Behind
  <2>4. \A i, j \in AppendsQueued' : i < j => At(i)' < At(j)'
    BY <1>1, <1>4, <1>6 DEF Behind
  <2>5. \A i \in AppendsQueued' : Len(store') + 1 < At(i)' /\ At(i)' <= Len(log')
    BY <1>1, <1>2, <1>3, <1>4, <2>1, <2>2
  <2>6. Len(store') < Len(log')
    BY <1>2, <1>3, <2>1
  <2>7. \A j \in ReplacesQueued' :
          /\ Len(store') < At(j)'
          /\ \A i \in AppendsQueued' : i < j => At(i)' <= At(j)'
    <3>1. \A j \in ReplacesQueued' : Len(store') < At(j)'
      BY <1>1, <1>2, <1>3, <1>4, <2>1, <2>3
    <3>2. \A j \in ReplacesQueued' : \A i \in AppendsQueued' : i < j => At(i)' <= At(j)'
      BY <1>1, <1>4, <1>6 DEF Behind
    <3> QED
      BY <3>1, <3>2
  <2> QED
    BY <2>4, <2>5, <2>6, <2>7 DEF Behind
<1> QED
  BY <1>1, <1>2, <1>3, <1>5, <1>6

\* A lost append leaves the store behind for good.
LEMMA LoseAppendKept ==
    ASSUME TypeOK, TypeOK', LosesAppend
    PROVE  /\ Kept \/ Behind => Behind'
           /\ ReplacesQueued = {} => ReplacesQueued' = {}
<1>1. /\ AppendsQueued' = AppendsQueued \ {1} /\ ReplacesQueued' = ReplacesQueued \ {1}
      /\ Unsaved' = Unsaved \ {1} /\ 1 \notin ReplacesQueued /\ 1 \in AppendsQueued
      /\ \A i \in Unsaved : i \in Nat /\ i >= 1 /\ At(i)' = At(i)
      /\ log' = log /\ store' = store
  BY HeadSaved DEF AppendsQueued, ReplacesQueued, LosesAppend
<1>2. /\ Len(store) \in Nat /\ Len(log) \in Nat /\ \A i \in Unsaved : At(i) \in Nat
  BY QueueIsShaped DEF QueueShape
<1>3. AppendsQueued \subseteq Unsaved /\ ReplacesQueued \subseteq Unsaved
  BY DEF Unsaved
<1>4. ASSUME Kept PROVE Behind'
  <2>1. At(1) = Len(store) + 1 /\ At(1) <= Len(log)
    BY <1>1, <1>4, NextAppend DEF Kept, Aligned
  <2>2. \A i \in AppendsQueued \ {1} : At(1) < At(i) /\ At(i) <= Len(log)
    BY <1>1, <1>3, <1>4 DEF Kept, Aligned
  <2>3. \A j \in ReplacesQueued : At(1) <= At(j)
    BY <1>1, <1>3, <1>4 DEF Kept, Aligned
  <2>4. \A i, j \in AppendsQueued' : i < j => At(i)' < At(j)'
    BY <1>1, <1>3, <1>4 DEF Kept, Aligned
  <2>5. \A j \in ReplacesQueued' : \A i \in AppendsQueued' : i < j => At(i)' <= At(j)'
    BY <1>1, <1>3, <1>4 DEF Kept, Aligned
  <2>6. \A i \in AppendsQueued' : Len(store') + 1 < At(i)' /\ At(i)' <= Len(log')
    BY <1>1, <1>2, <1>3, <2>1, <2>2
  <2>7. \A j \in ReplacesQueued' : Len(store') < At(j)'
    BY <1>1, <1>2, <1>3, <2>1, <2>3
  <2>8. Len(store') < Len(log')
    BY <1>1, <1>2, <2>1
  <2> QED
    BY <2>4, <2>5, <2>6, <2>7, <2>8 DEF Behind
<1>5. ASSUME Behind PROVE Behind'
  <2>1. \A i \in AppendsQueued' : i \in AppendsQueued /\ At(i)' = At(i)
    BY <1>1, <1>3
  <2>2. \A j \in ReplacesQueued' : j \in ReplacesQueued /\ At(j)' = At(j)
    BY <1>1, <1>3
  <2> QED
    BY <1>1, <1>5, <2>1, <2>2 DEF Behind
<1> QED
  BY <1>1, <1>4, <1>5

\* A replacement that hits an entry hits an older version of its segment.
LEMMA ReplaceKept ==
    ASSUME TypeOK, TypeOK', SavesReplace \/ LosesReplace
    PROVE  /\ Kept => Kept' /\ (SavesReplace => store[At(1)] \subseteq PartOf(1))
           /\ Behind => Behind' /\ ~SavesReplace
<1>1. /\ AppendsQueued' = AppendsQueued \ {1} /\ ReplacesQueued' = ReplacesQueued \ {1}
      /\ Unsaved' = Unsaved \ {1} /\ 1 \notin AppendsQueued /\ 1 \in ReplacesQueued
      /\ \A i \in Unsaved : i \in Nat /\ i >= 1 /\ At(i)' = At(i) /\ PartOf(i)' = PartOf(i)
      /\ log' = log
  BY HeadSaved DEF AppendsQueued, ReplacesQueued, SavesReplace, LosesReplace
<1>2. /\ Len(store) \in Nat /\ Len(log) \in Nat /\ DOMAIN store = 1 .. Len(store)
      /\ store \in Seq(Part) /\ \A i \in Unsaved : At(i) \in Nat
  BY QueueIsShaped DEF QueueShape, TypeOK
<1>3. AppendsQueued \subseteq Unsaved /\ ReplacesQueued \subseteq Unsaved
  BY DEF Unsaved
<1>4. \/ SavesReplace /\ store' = [store EXCEPT ![At(1)] = PartOf(1)] /\ At(1) \in DOMAIN store
      \/ LosesReplace /\ store' = store
  BY DEF SavesReplace, LosesReplace, InRange
<1>5. /\ DOMAIN store' = DOMAIN store
      /\ \A n \in DOMAIN store : n # At(1) => store'[n] = store[n]
      /\ store' = store \/ store'[At(1)] = PartOf(1)
  BY <1>2, <1>4
<1>6. ASSUME Kept PROVE Kept'
  <2>1. Aligned'
    BY <1>6, SaveReplace DEF Kept, SavesReplace, LosesReplace
  <2>2. Within'
    <3>1. PartOf(1) \subseteq log[At(1)]
      BY <1>1, <1>3, <1>6 DEF Kept, Within
    <3>2. \A n \in DOMAIN store' : store'[n] \subseteq log'[n]
      BY <1>1, <1>5, <1>6, <3>1 DEF Kept, Within
    <3> QED
      BY <1>1, <1>6, <3>2 DEF Kept, Within
  <2>3. Ordered'
    <3>1. \A i, j \in Unsaved' : i < j /\ At(i)' = At(j)' => PartOf(i)' \subseteq PartOf(j)'
      BY <1>1, <1>6 DEF Kept, Ordered
    <3>2. ASSUME NEW j \in ReplacesQueued, j # 1, At(j) \in DOMAIN store
          PROVE  store'[At(j)] \subseteq PartOf(j)
      <4>1. CASE At(j) # At(1) \/ store' = store
        BY <1>5, <1>6, <3>2, <4>1 DEF Kept, Ordered
      <4>2. CASE At(j) = At(1) /\ store'[At(1)] = PartOf(1)
        <5>1. 1 < j
          BY <1>1, <1>3, <3>2
        <5> QED
          BY <1>1, <1>3, <1>6, <4>2, <5>1 DEF Kept, Ordered
      <4> QED
        BY <1>5, <4>1, <4>2
    <3> QED
      BY <1>1, <1>3, <1>5, <3>1, <3>2 DEF Ordered
  <2> QED
    BY <2>1, <2>2, <2>3 DEF Kept
<1>7. Kept /\ SavesReplace => store[At(1)] \subseteq PartOf(1)
  BY <1>1 DEF SavesReplace, InRange, Kept, Ordered
<1>8. ASSUME Behind PROVE Behind' /\ ~SavesReplace
  <2>1. Len(store) < At(1)
    BY <1>1, <1>8 DEF Behind
  <2>2. At(1) \notin DOMAIN store
    BY <1>1, <1>2, <1>3, <2>1
  <2>3. store' = store /\ ~SavesReplace
    BY <1>4, <2>2 DEF SavesReplace, InRange
  <2>4. \A i \in AppendsQueued' : i \in AppendsQueued /\ At(i)' = At(i)
    BY <1>1, <1>3
  <2>5. \A j \in ReplacesQueued' : j \in ReplacesQueued /\ At(j)' = At(j)
    BY <1>1, <1>3
  <2> QED
    BY <1>1, <1>8, <2>3, <2>4, <2>5 DEF Behind
<1> QED
  BY <1>6, <1>7, <1>8

\* A process that cannot learn what the store holds must not overwrite; and
\* of a lost append and a cancelled emit only one may happen.
OverwritesKnowingly == CanSize \/ ~CanReplace \/ MaxCrashes = 0
OneFault == "append" \notin Disturbances \/ "cancel" \notin Disturbances

LEMMA WindowStep ==
    ASSUME TypeInv, WindowInv, [Next]_vars
    PROVE  WindowInv'
<1>1. log \in Seq(Part) /\ openSlot \in Nat /\ SlotIsLast
  BY DEF TypeInv, TypeOK
<1>2. ASSUME NEW part, NEW roll, FeedSegment(part, roll) PROVE WindowInv'
  <2>1. log' = LogAfter(part, roll) /\ openSlot' = SlotAfter(roll)
        /\ window' = IF roll THEN part ELSE {}
    BY <1>2 DEF FeedSegment
  <2>2. CASE Overwrites(roll)
    <3>1. roll /\ openSlot' = openSlot /\ openSlot \in DOMAIN log
      BY <1>1, <2>1, <2>2 DEF SlotAfter, Overwrites, SlotIsLast
    <3>2. log' = [log EXCEPT ![openSlot] = part]
      BY <2>1, <2>2 DEF LogAfter
    <3> QED
      BY <1>1, <2>1, <3>1, <3>2 DEF WindowInv
  <2>3. CASE ~Overwrites(roll) /\ roll /\ inplaceOk
    <3>1. log' = Append(log, part) /\ openSlot' = Len(log) + 1 /\ window' = part
      BY <2>1, <2>3 DEF LogAfter, SlotAfter
    <3> QED
      BY <1>1, <3>1 DEF WindowInv
  <2>4. CASE ~Overwrites(roll) /\ ~(roll /\ inplaceOk)
    BY <2>1, <2>4 DEF SlotAfter, WindowInv
  <2> QED
    BY <2>2, <2>3, <2>4
<1>3. CASE Emit
  <2>1. CASE FeedHeld
    BY <1>3, <2>1 DEF FeedHeld, Emit, WindowInv, Done
  <2> QED
    BY <1>2, <1>3, <2>1 DEF Emit
<1>4. CASE \E outcome \in Outcomes : Finish(outcome)
  BY <1>4 DEF Finish, WindowInv, Done
<1>5. CASE InitializeStore
  BY <1>5 DEF InitializeStore, TypeInv, FreshUntilReady, WindowInv
<1>6. CASE Crash
  BY <1>6 DEF Crash, WindowInv
<1>7. CASE UNCHANGED <<log, openSlot, window, status>>
  BY <1>7 DEF WindowInv, Done
<1> QED
  BY <1>3, <1>4, <1>5, <1>6, <1>7
     DEF Next, Run, Reader, Environment, StoreCall, ResumeHolder, QueueInterruptMark, Subscribe,
         Receive, EndStream, Disconnect, DetachedCall, Interrupt, Cancel, CancelLate, Recover, vars, runVars

\* Without in-place support no slot is ever opened.
LEMMA NoSlotStays ==
    ASSUME TypeInv, ~inplaceOk, openSlot = 0, [Next]_vars, proc = "up", proc' = "up"
    PROVE  ~inplaceOk' /\ openSlot' = 0
<1>1. ASSUME NEW part, NEW roll, FeedSegment(part, roll) PROVE openSlot' = 0
  BY <1>1 DEF FeedSegment, SlotAfter, Overwrites
<1>2. CASE Emit
  BY <1>1, <1>2 DEF Emit, FeedHeld
<1>3. CASE \E outcome \in Outcomes : Finish(outcome)
  BY <1>3 DEF Finish, SlotAfter, Overwrites
<1>4. CASE ResumeHolder
  BY <1>4 DEF ResumeHolder
<1>5. CASE UNCHANGED <<inplaceOk, openSlot>>
  BY <1>5
<1> QED
  BY <1>2, <1>3, <1>4, <1>5
     DEF Next, Run, Reader, Environment, InitializeStore, StoreCall, QueueInterruptMark, Subscribe,
         Receive, EndStream, Disconnect, DetachedCall, Interrupt, Cancel, CancelLate, Crash, Recover, vars,
         runVars

\* Who drives the run changes only in these steps.
LEMMA DriverStep ==
    ASSUME [Next]_vars, Base
    PROVE  /\ driver' = "running" => driver = "running" \/ Crash
           /\ Cancel \/ CancelLate \/ Crash \/ DetachedCall \/ detached' = detached
           /\ driver = "running" => Cancel \/ CancelLate \/ Crash \/ driver' = "running"
  BY DEF Next, Run, Reader, Environment, InitializeStore, Emit, StoreCall, ResumeHolder, Finish,
         QueueInterruptMark, Subscribe, Receive, EndStream, Disconnect, DetachedCall, Interrupt,
         Cancel, CancelLate, Crash, Recover, vars, storeVars, runVars

\* The coroutine the driver awaits leaves the queue with the only replacement
\* that can be in it.
LEMMA AbandonKept ==
    ASSUME TypeOK, RoleInv, NEW k \in DOMAIN writes, EmitsInFlight \subseteq {k}, Abandon(k)
    PROVE  ReplacesQueued' = {}
<1>1. writes \in Seq(Op) /\ k \in Nat
  BY DEF TypeOK
<1> SUFFICES ASSUME NEW i \in DOMAIN writes', writes'[i].write.kind = "replace" PROVE FALSE
  BY DEF ReplacesQueued
<1>2. PICK j \in DOMAIN writes : writes'[i] = writes[j] /\ j = IF i < k THEN i ELSE i + 1
  BY AbandonMembers
<1>3. j \in EmitsInFlight
  BY <1>2 DEF RoleInv, EmitsInFlight
<1>4. i \in Nat /\ j # k
  BY <1>1, <1>2, AbandonMembers
<1> QED
  BY <1>3, <1>4

\* A cancelled emit takes the queue's only replacement with it; the call its
\* thread still makes hits the version of the segment it was to replace.
LEMMA CancelKept ==
    ASSUME GrowInv, OneFault, Cancel \/ CancelLate
    PROVE  DetachedInv' /\ ReplacesQueued' = {}
<1>1. /\ "append" \notin Disturbances /\ proc = "up" /\ driver' # "running"
      /\ TypeOK /\ RoleInv /\ DetachedInv /\ store' = store
  BY DEF Cancel, CancelLate, OneFault, GrowInv, Base, TypeInv
<1>2. /\ driver = "running" => detached = {} /\ (Kept \/ NoSlot)
      /\ driver # "running" => ReplacesQueued = {}
  BY <1>1 DEF GrowInv, DetachedInv
<1>3. writes \in Seq(Op)
  BY <1>1 DEF TypeOK
<1>4. CASE EmitsInFlight = {} /\ UNCHANGED <<writes, detached>>
  <2>1. ReplacesQueued' = {}
    BY <1>1, <1>4 DEF ReplacesQueued, RoleInv, EmitsInFlight
  <2> QED
    BY <1>1, <1>4, <2>1 DEF DetachedInv
<1>5. CASE \E i \in DOMAIN writes :
             /\ writes[i].role # "interrupt" /\ EmitsInFlight \subseteq {i} /\ Abandon(i)
  <2>1. PICK k \in DOMAIN writes :
               /\ writes[k].role # "interrupt" /\ EmitsInFlight \subseteq {k} /\ Abandon(k)
    BY <1>5
  <2>2. ReplacesQueued' = {}
    BY <1>1, <2>1, AbandonKept
  <2>3. ASSUME k = 1, writes[1].saved = "no", writes[1].write.kind = "replace"
        PROVE  /\ writes[1].write.at \in DOMAIN store
               /\ store[writes[1].write.at] \subseteq writes[1].write.part
               /\ detached = {}
    <3>1. 1 \in ReplacesQueued
      BY <2>1, <2>3 DEF ReplacesQueued
    <3>2. Kept /\ detached = {}
      BY <1>2, <3>1 DEF NoSlot
    <3>3. At(1) \in DOMAIN store
      <4>1. /\ Len(store) \in Nat /\ DOMAIN store = 1 .. Len(store) /\ At(1) \in Nat
            /\ \A i \in AppendsQueued : ~(i < 1)
        BY <1>1, <3>1, QueueIsShaped DEF QueueShape, Unsaved
      <4>2. At(1) \in 1 .. Len(log) /\ (At(1) > Len(store) => \E i \in AppendsQueued : i < 1)
        BY <3>1, <3>2 DEF Kept, Aligned
      <4> QED
        BY <4>1, <4>2
    <3> QED
      BY <3>1, <3>2, <3>3 DEF Kept, Ordered, At, PartOf
  <2>0. driver' # "running" /\ store' = store /\ DetachedInv
    BY <1>1
  <2>4. CASE detached' = detached
    BY ONLY <2>0, <2>2, <2>4, Zenon DEF DetachedInv
  <2>5. CASE k = 1 /\ writes[1].saved = "no" /\ detached' = detached \cup {CallOf(writes[1])}
    <3>1. PICK call : call = CallOf(writes[1])
      OBVIOUS
    <3>2. call.kind = "replace" =>
              call.at \in DOMAIN store /\ store[call.at] \subseteq call.part /\ detached = {}
      BY <2>3, <2>5, <3>1 DEF CallOf, TerminalMark
    <3>3. detached' = detached \cup {call}
      BY <2>5, <3>1
    <3>4. \A w \in detached' : w \in detached \/ w = call
      BY <3>3
    <3>5. \A w \in detached' : w.kind = "replace" => w.at \in DOMAIN store' /\ store'[w.at] \subseteq w.part
      BY ONLY <2>0, <3>2, <3>4, Zenon DEF DetachedInv
    <3>6. \A v, w \in detached' : v.kind = "replace" /\ w.kind = "replace" => v = w
      BY ONLY <2>0, <3>2, <3>4, Zenon DEF DetachedInv
    <3> QED
      BY ONLY <2>0, <2>2, <3>5, <3>6, Zenon DEF DetachedInv
  <2> QED
    BY <2>1, <2>2, <2>4, <2>5 DEF Abandon
<1>6. CASE Cancel
  <2>1. \A i \in EmitsInFlight : i \in DOMAIN writes /\ writes[i].role # "interrupt"
    BY DEF EmitsInFlight
  <2> QED
    BY <1>4, <1>5, <1>6, <2>1 DEF Cancel
<1> QED
  BY <1>4, <1>5, <1>6 DEF CancelLate

StoreGrew == \A i \in DOMAIN store : i \in DOMAIN store' /\ store[i] \subseteq store'[i]

\* A run that starts knows its store, or will not overwrite.
LEMMA StartKept ==
    ASSUME Base, TypeOK', OverwritesKnowingly, InitializeStore
    PROVE  Kept' \/ NoSlot'
<1>1. /\ writes' = <<>> /\ openSlot' = 0 /\ store' = store /\ store \in Seq(Part) /\ proc # "up"
      /\ crashes \in 0 .. MaxCrashes
  BY DEF Base, Idle, TypeInv, TypeOK, FreshUntilReady, InitializeStore, storeVars
<1>2. AppendsQueued' = {} /\ ReplacesQueued' = {} /\ Unsaved' = {}
  BY <1>1 DEF AppendsQueued, ReplacesQueued, Unsaved
<1>3. CASE log' = store
  <2>1. Aligned' /\ Within' /\ Ordered'
    BY <1>1, <1>2, <1>3 DEF Aligned, Within, Ordered
  <2> QED
    BY <2>1 DEF Kept
<1>4. CASE ~inplaceOk'
  BY <1>1, <1>2, <1>4 DEF NoSlot
<1>5. CASE ~CanSize /\ MaxCrashes = 0 /\ log' = <<>>
  <2>1. store = <<>>
    BY <1>1, <1>5 DEF Base, FirstStart
  <2> QED
    BY <1>3, <1>5, <2>1
<1> QED
  BY <1>3, <1>4, <1>5 DEF InitializeStore, Preloaded, OverwritesKnowingly

\* While the process lives and nobody cancels.
LEMMA GrowMove ==
    ASSUME GrowInv, TypeOK', QueueMove, ~Cancel, ~CancelLate, ~DetachedCall, [Next]_vars,
           proc = "up", proc' = "up"
    PROVE  /\ driver = "running" =>
                Kept' \/ NoSlot' \/ ("append" \in Disturbances /\ Behind')
           /\ driver # "running" => /\ ReplacesQueued' = {}
                                    /\ \A n \in DOMAIN store : n \in DOMAIN store' /\ store'[n] = store[n]
           /\ StoreGrew
<1>0. /\ TypeInv /\ TypeOK /\ WindowInv /\ (driver # "running" => ReplacesQueued = {})
      /\ driver = "running" => Kept \/ NoSlot \/ ("append" \in Disturbances /\ Behind)
  BY DEF GrowInv, Base, TypeInv
<1>a. ASSUME NoSlot, ReplacesQueued' = {} PROVE NoSlot'
  BY <1>0, <1>a, NoSlotStays DEF NoSlot
<1>1. CASE Quiet
  <2>1. /\ Kept => Kept'
        /\ Behind => Behind'
        /\ ReplacesQueued = {} => ReplacesQueued' = {}
    BY <1>0, <1>1, ShiftedKept DEF Quiet
  <2>2. store' = store
    BY <1>1 DEF Quiet
  <2> QED
    BY <1>0, <1>a, <2>1, <2>2 DEF NoSlot, StoreGrew
<1>2. CASE \E part \in Part, roll \in BOOLEAN : NewSegment(part, roll)
  <2>1. PICK part \in Part, roll \in BOOLEAN : NewSegment(part, roll)
    BY <1>2
  <2>2. PICK n, k : GrownBy(n, k, part, roll)
    BY <1>0, <2>1, QueueGrows DEF NewSegment
  <2>3. store' = store /\ ~Done /\ (roll => driver = "running" /\ window \subseteq part)
    BY <2>1 DEF NewSegment
  <2>4. Overwrites(roll) => log[openSlot] \subseteq part /\ driver = "running" /\ inplaceOk
    BY <1>0, <2>3 DEF Overwrites, WindowInv
  <2>5. /\ Kept => Kept'
        /\ Behind => Behind'
        /\ ReplacesQueued = {} /\ ~Overwrites(roll) => ReplacesQueued' = {}
    BY <2>2, <2>3, <2>4, WriteKept
  <2>6. NoSlot => ReplacesQueued' = {}
    BY <2>4, <2>5 DEF NoSlot
  <2>7. driver # "running" => ReplacesQueued' = {}
    BY <1>0, <2>4, <2>5
  <2> QED
    BY <1>0, <1>a, <2>3, <2>5, <2>6, <2>7 DEF StoreGrew
<1>3. CASE SavesAppend
  <2>1. /\ Kept => Kept'
        /\ Behind => Behind'
        /\ ReplacesQueued = {} => ReplacesQueued' = {}
        /\ DOMAIN store \subseteq DOMAIN store' /\ \A n \in DOMAIN store : store'[n] = store[n]
    BY <1>0, <1>3, SaveAppendKept
  <2> QED
    BY <1>0, <1>a, <2>1 DEF NoSlot, StoreGrew
<1>4. CASE LosesAppend
  <2>1. /\ Kept \/ Behind => Behind'
        /\ ReplacesQueued = {} => ReplacesQueued' = {}
        /\ "append" \in Disturbances /\ store' = store
    BY <1>0, <1>4, LoseAppendKept DEF LosesAppend
  <2> QED
    BY <1>0, <1>a, <2>1 DEF NoSlot, StoreGrew
<1>5. CASE SavesReplace
  <2>1. /\ Kept => Kept' /\ store[At(1)] \subseteq PartOf(1)
        /\ ~Behind /\ ReplacesQueued # {}
        /\ store' = [store EXCEPT ![At(1)] = PartOf(1)] /\ store \in Seq(Part)
    BY <1>0, <1>5, ReplaceKept DEF SavesReplace, TypeOK
  <2>2. driver = "running" /\ Kept
    BY <1>0, <2>1 DEF NoSlot
  <2>3. StoreGrew
    BY <2>1, <2>2 DEF StoreGrew
  <2> QED
    BY <2>1, <2>2, <2>3
<1>6. CASE LosesReplace
  <2>1. /\ Kept => Kept'
        /\ Behind => Behind'
        /\ ReplacesQueued # {} /\ store' = store
    BY <1>0, <1>6, ReplaceKept DEF LosesReplace
  <2> QED
    BY <1>0, <2>1 DEF NoSlot, StoreGrew
<1> QED
  BY <1>1, <1>2, <1>3, <1>4, <1>5, <1>6 DEF QueueMove

LEMMA GrowStep ==
    ASSUME OverwritesKnowingly, OneFault
    PROVE  GrowInv /\ [Next]_vars => GrowInv' /\ StoreGrew
<1> SUFFICES ASSUME GrowInv, [Next]_vars PROVE GrowInv' /\ StoreGrew
  OBVIOUS
<1>1. Base /\ Base' /\ TypeInv /\ TypeOK /\ TypeOK' /\ RoleInv /\ WindowInv'
  BY BaseStep, WindowStep DEF GrowInv, Base, TypeInv
<1>2. CASE proc' # "up"
  <2>1. writes' = <<>> /\ detached' = {}
    BY <1>1, <1>2 DEF Base, Idle
  <2>2. store' = store
    <3>1. ~DetachedCall \/ proc = "up"
      BY <1>1 DEF Base, Idle, DetachedCall
    <3> QED
      BY <1>2, <3>1 DEF Next, Run, Reader, Environment, InitializeStore, Emit, MayEmit, StoreCall,
         ResumeHolder, Finish, QueueInterruptMark, Subscribe, Receive, EndStream, Disconnect,
         DetachedCall, Interrupt, Cancel, CancelLate, Crash, Recover, vars, storeVars, runVars
  <2> QED
    BY <1>1, <1>2, <2>1, <2>2 DEF GrowInv, DetachedInv, ReplacesQueued, StoreGrew
<1>3. CASE proc # "up" /\ proc' = "up"
  <2>1. InitializeStore
    BY <1>3 DEF Next, Run, Reader, Environment, Emit, MayEmit, StoreCall, ResumeHolder,
       Finish, QueueInterruptMark, Subscribe, Receive, EndStream, Disconnect, DetachedCall,
       Interrupt, Cancel, CancelLate, Crash, Recover, vars, storeVars, runVars
  <2>2. driver' = "running" /\ detached' = {} /\ store' = store
    BY <1>1, <1>3, <2>1 DEF Base, Idle, InitializeStore, storeVars
  <2>3. Kept' \/ NoSlot'
    BY <1>1, <2>1, StartKept
  <2> QED
    BY <1>1, <2>2, <2>3 DEF GrowInv, DetachedInv, StoreGrew
<1>4. CASE proc = "up" /\ proc' = "up" /\ (Cancel \/ CancelLate)
  <2>1. DetachedInv' /\ ReplacesQueued' = {} /\ driver' # "running" /\ store' = store
    BY <1>4, CancelKept DEF Cancel, CancelLate
  <2> QED
    BY <1>1, <2>1 DEF GrowInv, StoreGrew
<1>5. CASE proc = "up" /\ proc' = "up" /\ DetachedCall
  <2>1. PICK w \in detached : /\ detached' = detached \ {w}
                              /\ store' = store \/ (w.kind # "mark" /\ store' = StoreAfter(w))
    BY <1>5 DEF DetachedCall
  <2>2. /\ driver # "running" /\ UNCHANGED <<driver, writes>> /\ DetachedInv
        /\ ReplacesQueued = {} /\ store \in Seq(Part)
    BY <1>1, <1>5, <2>1 DEF GrowInv, DetachedInv, DetachedCall, runVars, TypeOK
  <2>3. StoreGrew /\ \A i \in DOMAIN store : w.kind # "replace" => store'[i] = store[i]
    <3>1. CASE store' = Append(store, w.part) /\ w.kind # "replace"
      BY <2>2, <3>1 DEF StoreGrew
    <3>2. CASE w.kind = "replace" /\ store' = [store EXCEPT ![w.at] = w.part]
      <4>1. store[w.at] \subseteq w.part
        BY <2>1, <2>2, <3>2 DEF DetachedInv
      <4> QED
        BY <2>2, <3>2, <4>1 DEF StoreGrew
    <3>3. CASE store' = store
      BY <3>3 DEF StoreGrew
    <3> QED
      BY <2>1, <3>1, <3>2, <3>3 DEF StoreAfter
  <2>4. ReplacesQueued' = {}
    BY <2>2 DEF ReplacesQueued
  <2>5. ASSUME NEW v \in detached', v.kind = "replace"
        PROVE  v.at \in DOMAIN store' /\ store'[v.at] \subseteq v.part
    <3>1. w.kind # "replace" /\ v.at \in DOMAIN store /\ store[v.at] \subseteq v.part
      BY <2>1, <2>2, <2>5 DEF DetachedInv
    <3> QED
      BY <2>3, <3>1 DEF StoreGrew
  <2>6. DetachedInv'
    BY <2>1, <2>2, <2>5 DEF DetachedInv
  <2> QED
    BY <1>1, <2>2, <2>3, <2>4, <2>6 DEF GrowInv
<1>6. CASE proc = "up" /\ proc' = "up" /\ ~Cancel /\ ~CancelLate /\ ~DetachedCall
  <2>1. detached' = detached /\ (driver' = "running" <=> driver = "running") /\ ~Crash
    BY <1>1, <1>6, DriverStep DEF Crash
  <2>2. /\ driver = "running" =>
             Kept' \/ NoSlot' \/ ("append" \in Disturbances /\ Behind')
        /\ driver # "running" => /\ ReplacesQueued' = {}
                                 /\ \A n \in DOMAIN store : n \in DOMAIN store' /\ store'[n] = store[n]
        /\ StoreGrew
    BY <1>1, <1>6, Moves, GrowMove
  <2>3. DetachedInv'
    BY <2>1, <2>2 DEF GrowInv, DetachedInv
  <2> QED
    BY <1>1, <2>1, <2>2, <2>3 DEF GrowInv
<1> QED
  BY <1>2, <1>3, <1>4, <1>5, <1>6

\* Overwriting never destroys what another segment recorded (the comment at
\* execution.py:225): whatever is durable at an index stays durable there,
\* through failed appends and replaces, a cancelled emit whose thread goes on,
\* rolled snapshots and process deaths.
THEOREM NothingDurableIsLost ==
    ASSUME OverwritesKnowingly, OneFault
    PROVE  Spec => StoreOnlyGrows
<1>1. Init => GrowInv
  <2>1. Init => proc # "up" /\ openSlot = 0 /\ detached = {} /\ writes = <<>>
    BY DEF Init
  <2> QED
    BY <2>1, InitBase DEF GrowInv, WindowInv, DetachedInv, ReplacesQueued
<1>2. GrowInv /\ [Next]_vars => GrowInv'
  BY GrowStep
<1>3. GrowInv /\ [Next]_vars =>
        [\A i \in DOMAIN store : i \in DOMAIN store' /\ store[i] \subseteq store'[i]]_vars
  BY GrowStep DEF StoreGrew
<1> QED
  BY <1>1, <1>2, <1>3, PTL DEF Spec, StoreOnlyGrows
-------------------------------------------------------------------------------
(***************************************************************************)
(* Lockstep                                                                *)
(***************************************************************************)
\* No append fails and no cancel lets a store call run outside the write lock.
\* An overwrite may fail.
AppendsArrive == Disturbances \cap {"append", "cancel"} = {}

\* A process that was restarted knows what the store holds.
LogIsRebuilt == MaxCrashes = 0 \/ (CanSize /\ "read" \notin Disturbances)

LockInv ==
    /\ Base /\ WindowInv /\ detached = {}
    /\ proc = "up" => Kept /\ (Exact \/ OverwriteFailed)

\* The pre-warm starts a process with the log the store has.
LEMMA PreloadAligns ==
    ASSUME Base, TypeOK', LogIsRebuilt, InitializeStore
    PROVE  log' = store' /\ Aligned' /\ Exact'
<1>1. writes = <<>> /\ writes' = writes /\ proc # "up"
  BY DEF Base, Idle, InitializeStore, storeVars
<1>2. store \in Seq(Part) /\ store' = store
  BY DEF Base, TypeInv, TypeOK, InitializeStore, storeVars
<1>3. log' = store
  <2>1. CASE MaxCrashes = 0
    <3>1. store = <<>>
      BY <1>1, <2>1 DEF Base, TypeInv, TypeOK, FirstStart
    <3> QED
      BY <3>1 DEF InitializeStore, Preloaded
  <2>2. CASE CanSize /\ "read" \notin Disturbances
    BY <2>2 DEF InitializeStore, Preloaded
  <2> QED
    BY <2>1, <2>2 DEF LogIsRebuilt
<1>4. AppendsQueued' = {} /\ ReplacesQueued' = {} /\ Unsaved' = {}
  BY <1>1 DEF AppendsQueued, ReplacesQueued, Unsaved
<1>5. Len(store') \in Nat
  BY <1>2
<1> QED
  BY <1>2, <1>3, <1>4, <1>5 DEF Aligned, Exact

\* Once an overwrite has failed the process knows it for good (_persist_parts).
LEMMA FailureLasts ==
    ASSUME TypeOK, [Next]_vars, ~Cancel, ~CancelLate, proc = "up", proc' = "up", OverwriteFailed
    PROVE  OverwriteFailed'
<1>1. writes \in Seq(Op)
  BY DEF TypeOK
<1>2. inplaceOk' => inplaceOk
  BY DEF Next, Run, Reader, Environment, InitializeStore, Emit, StoreCall, ResumeHolder, Finish,
     QueueInterruptMark, Subscribe, Receive, EndStream, Disconnect, DetachedCall, Interrupt,
     Crash, Recover, vars, runVars
<1>3. CASE ~inplaceOk
  BY <1>2, <1>3 DEF OverwriteFailed
<1>4. CASE inplaceOk
  <2>1. PICK i \in DOMAIN writes : writes[i].saved = "rejected"
    BY <1>4 DEF OverwriteFailed
  <2>2. \A op : writes' = Append(writes, op) => OverwriteFailed'
    BY <1>1, <2>1 DEF OverwriteFailed
  <2>3. CASE writes' = writes
    BY <2>1, <2>3 DEF OverwriteFailed
  <2>4. CASE Emit
    BY <2>2, <2>3, <2>4 DEF Emit, FeedSegment, FeedHeld, Persist
  <2>5. CASE StoreCall
    <3>1. PICK o : SaveHead(o) /\ Head(writes).saved = "no" /\ writes # <<>>
      BY <2>5 DEF StoreCall
    <3>2. i # 1 /\ i \in DOMAIN writes' /\ writes'[i] = writes[i]
      BY <1>1, <2>1, <3>1 DEF SaveHead
    <3> QED
      BY <2>1, <3>2 DEF OverwriteFailed
  <2>6. CASE ResumeHolder
    <3>1. CASE writes[1].saved = "rejected"
      <4>1. Head(writes) = writes[1] /\ inplaceOk' = (inplaceOk /\ Head(writes).saved = "ok")
        BY <1>1, <2>6 DEF ResumeHolder
      <4>2. ~inplaceOk'
        BY <3>1, <4>1
      <4> QED
        BY <4>2 DEF OverwriteFailed
    <3>2. CASE i # 1
      <4>1. /\ Tail(writes) \in Seq(Op) /\ i - 1 \in DOMAIN Tail(writes)
            /\ Tail(writes)[i - 1] = writes[i]
        BY <1>1, <2>1, <3>2
      <4>2. writes' = Tail(writes) \/ \E op : writes' = Append(Tail(writes), op)
        BY <2>6 DEF ResumeHolder
      <4>3. i - 1 \in DOMAIN writes' /\ writes'[i - 1] = writes[i]
        BY <4>1, <4>2
      <4> QED
        BY <2>1, <4>3 DEF OverwriteFailed
    <3> QED
      BY <2>1, <3>1, <3>2
  <2>7. CASE \E outcome \in Outcomes : Finish(outcome)
    BY <2>2, <2>7 DEF Finish
  <2>8. CASE QueueInterruptMark
    BY <2>2, <2>8 DEF QueueInterruptMark
  <2>9. CASE \E c \in Clients : Disconnect(c)
    <3>1. PICK c : writes' = [n \in DOMAIN writes |-> [writes[n] EXCEPT !.targets = @ \ {c}]]
      BY <2>9 DEF Disconnect
    <3>2. i \in DOMAIN writes' /\ writes'[i].saved = writes[i].saved
      BY <1>1, <2>1, <3>1 DEF Op, OpOf
    <3> QED
      BY <2>1, <3>2 DEF OverwriteFailed
  <2> QED
    BY <2>3, <2>4, <2>5, <2>6, <2>7, <2>8, <2>9
       DEF Next, Run, Reader, Environment, InitializeStore, Subscribe, Receive, EndStream,
           DetachedCall, Interrupt, Crash, Recover, vars, storeVars, runVars
<1> QED
  BY <1>3, <1>4

LEMMA LockMove ==
    ASSUME AppendsArrive, LockInv, TypeOK', [Next]_vars, proc = "up", proc' = "up"
    PROVE  Kept' /\ (Exact' \/ OverwriteFailed')
<1>1. /\ TypeInv /\ TypeOK /\ RoleInv /\ WindowInv /\ Kept /\ (Exact \/ OverwriteFailed)
      /\ Aligned
  BY DEF LockInv, Base, TypeInv, Kept
<1>2. ~Cancel /\ ~CancelLate /\ ~DetachedCall
  BY DEF LockInv, Cancel, CancelLate, DetachedCall, AppendsArrive
<1>3. QueueMove
  BY <1>1, Moves
<1>4. OverwriteFailed => OverwriteFailed'
  BY <1>1, <1>2, FailureLasts
<1>5. CASE Quiet
  BY <1>1, <1>4, <1>5, ShiftedAligned, ShiftedKept DEF Quiet
<1>6. CASE \E part \in Part, roll \in BOOLEAN : NewSegment(part, roll)
  <2>1. PICK part \in Part, roll \in BOOLEAN : NewSegment(part, roll)
    BY <1>6
  <2>2. PICK n, k : GrownBy(n, k, part, roll)
    BY <1>1, <2>1, QueueGrows DEF NewSegment
  <2>3. Overwrites(roll) => log[openSlot] \subseteq part
    BY <1>1, <2>1 DEF NewSegment, Overwrites, WindowInv
  <2>4. Kept' /\ (Exact => Exact')
    BY <1>1, <2>1, <2>2, <2>3, QueueWrite, WriteKept DEF NewSegment
  <2> QED
    BY <1>1, <1>4, <2>4
<1>7. CASE SavesAppend
  <2>1. Kept' /\ (Exact => Exact')
    BY <1>1, <1>7, SaveAppend, SaveAppendKept DEF SavesAppend
  <2> QED
    BY <1>1, <1>4, <2>1
<1>8. CASE SavesReplace
  <2>1. Kept' /\ (Exact => Exact')
    BY <1>1, <1>8, SaveReplace, ReplaceKept DEF SavesReplace
  <2> QED
    BY <1>1, <1>4, <2>1
<1>9. ~LosesAppend
  BY DEF LosesAppend, AppendsArrive
<1>10. CASE LosesReplace
  <2>1. Kept'
    BY <1>1, <1>10, ReplaceKept
  <2>2. 1 \in DOMAIN writes' /\ writes'[1].saved = "rejected"
    BY <1>1, <1>10, HeadSaved DEF LosesReplace
  <2> QED
    BY <2>1, <2>2 DEF OverwriteFailed
<1> QED
  BY <1>2, <1>3, <1>5, <1>6, <1>7, <1>8, <1>9, <1>10 DEF QueueMove

LEMMA LockStep ==
    ASSUME AppendsArrive, LogIsRebuilt
    PROVE  LockInv /\ [Next]_vars => LockInv'
<1> SUFFICES ASSUME LockInv, [Next]_vars PROVE LockInv'
  OBVIOUS
<1>1. Base /\ Base' /\ TypeInv /\ TypeOK /\ TypeOK' /\ RoleInv /\ WindowInv'
  BY BaseStep, WindowStep DEF LockInv, Base, TypeInv
<1>2. ~Cancel /\ ~CancelLate /\ ~DetachedCall
  BY DEF LockInv, Cancel, CancelLate, DetachedCall, AppendsArrive
<1>3. detached' = {}
  BY <1>2 DEF LockInv, Next, Run, Reader, Environment, InitializeStore, Emit, StoreCall,
     ResumeHolder, Finish, QueueInterruptMark, Subscribe, Receive, EndStream, Disconnect,
     Interrupt, Crash, Recover, vars, storeVars
<1>4. ASSUME proc # "up", proc' = "up" PROVE Kept' /\ Exact'
  <2>1. InitializeStore
    BY <1>4 DEF Next, Run, Reader, Environment, Emit, MayEmit, StoreCall, ResumeHolder,
       Finish, QueueInterruptMark, Subscribe, Receive, EndStream, Disconnect, DetachedCall,
       Interrupt, Cancel, CancelLate, Crash, Recover, vars, storeVars, runVars
  <2>2. log' = store' /\ Aligned' /\ Exact'
    BY <1>1, <2>1, PreloadAligns
  <2>3. writes' = <<>>
    BY <1>1, <1>4, <2>1 DEF Base, Idle, InitializeStore, storeVars
  <2>4. Unsaved' = {} /\ ReplacesQueued' = {}
    BY <2>3 DEF Unsaved, AppendsQueued, ReplacesQueued
  <2> QED
    BY <2>2, <2>4 DEF Kept, Within, Ordered
<1>5. ASSUME proc = "up", proc' = "up" PROVE Kept' /\ (Exact' \/ OverwriteFailed')
  BY <1>1, <1>5, LockMove
<1> QED
  BY <1>1, <1>3, <1>4, <1>5 DEF LockInv

\* Counting what is queued.
LEMMA AppendsCounted ==
    ASSUME TypeOK, Aligned
    PROVE  Len(store) + Cardinality(AppendsQueued) = Len(log)
<1>1. /\ Len(store) \in Nat /\ Len(log) \in Nat
      /\ \A i \in AppendsQueued : i \in Nat /\ At(i) \in Nat
  BY QueueIsShaped DEF QueueShape
<1> DEFINE lack == Len(store) + 1 .. Len(log)
           f == [i \in AppendsQueued |-> At(i)]
<1>2. IsFiniteSet(lack) /\ Cardinality(lack) = Len(log) - Len(store)
  <2>1. PICK a, b \in Nat : a = Len(store) + 1 /\ b = Len(log) /\ a <= b + 1
    BY <1>1 DEF Aligned
  <2>2. IsFiniteSet(a .. b) /\ Cardinality(a .. b) = IF a > b THEN 0 ELSE b - a + 1
    BY FS_Interval
  <2> QED
    BY <1>1, <2>1, <2>2
<1>3. f \in [AppendsQueued -> lack]
  BY <1>1 DEF Aligned
<1>4. ASSUME NEW i \in AppendsQueued, NEW j \in AppendsQueued, At(i) = At(j) PROVE i = j
  <2>1. ~(i < j) /\ ~(j < i)
    BY <1>1, <1>4 DEF Aligned
  <2> QED
    BY <1>1, <2>1
<1>5. \A n \in lack : \E i \in AppendsQueued : f[i] = n
  BY DEF Aligned
<1>6. f \in Injection(AppendsQueued, lack) /\ f \in Surjection(AppendsQueued, lack)
  BY <1>3, <1>4, <1>5 DEF Injection, Surjection, IsInjective
<1> HIDE DEF f, lack
<1>7. Cardinality(AppendsQueued) = Cardinality(lack)
  BY <1>2, <1>6, FS_Injection
<1> QED
  BY <1>1, <1>2, <1>7

\* Log and store indices stay in lockstep (the comments at execution.py:220
\* and 465): with a store whose appends succeed, whatever the coalescer merges
\* or rolls, whichever overwrites fail, however many emits, marks and
\* subscribers interleave and wherever the process dies, the queued appends are
\* exactly what the store lacks, each segment is the log's or an earlier version
\* of it, and it is the log's unless its replacement is queued or an overwrite
\* has failed.
THEOREM LogAndStoreInLockstep ==
    ASSUME AppendsArrive, LogIsRebuilt
    PROVE  Spec => []Lockstep
<1>1. Init => LockInv
  <2>1. Init => detached = {} /\ proc # "up" /\ openSlot = 0
    BY DEF Init
  <2> QED
    BY <2>1, InitBase DEF LockInv, WindowInv
<1>2. LockInv /\ [Next]_vars => LockInv'
  BY LockStep
<1>3. LockInv => Lockstep
  BY AppendsCounted DEF LockInv, Base, TypeInv, Kept, Within, Exact, Lockstep, At
<1> QED
  BY <1>1, <1>2, <1>3, PTL DEF Spec
===============================================================================
