-------------------------- MODULE RunLogReadersProofs --------------------------
(***************************************************************************)
(* What RunLog guarantees its subscribers: that no cursor skips an event,  *)
(* that what a client has seen has no gap, that nothing comes to it twice, *)
(* and that a run with the default coalescer is an ordered broadcast.      *)
(***************************************************************************)
EXTENDS RunLogProofs

USE BoundsAssumption, PoliciesAssumption, OutcomesAssumption,
    DisturbancesAssumption, CapabilitiesAssumption

(***************************************************************************)
(* Every event anybody holds has been emitted                              *)
(***************************************************************************)
Known == 1 .. emitted

BoundInv ==
    /\ \A c \in Clients : /\ seen[c] \subseteq Known
                          /\ \A i \in DOMAIN stream[c] : stream[c][i].events \subseteq Known
    /\ \A i \in DOMAIN log : log[i] \subseteq Known
    /\ \A i \in DOMAIN store : store[i] \subseteq Known
    /\ held \subseteq Known /\ window \subseteq Known
    /\ \A i \in DOMAIN writes : /\ writes[i].write.part \subseteq Known
                                /\ writes[i].role = "emit" => writes[i].event \in Known
    /\ \A w \in detached : w.part \subseteq Known

LEMMA KnownGrows ==
    ASSUME TypeOK, TypeOK', [Next]_vars
    PROVE  Known \subseteq Known'
<1>1. emitted' = emitted \/ emitted' = emitted + 1
  BY DEF Next, Run, Reader, Environment, InitializeStore, Emit, StoreCall, ResumeHolder, Finish,
         QueueInterruptMark, Subscribe, Receive, EndStream, Disconnect, DetachedCall, Interrupt,
         Cancel, CancelLate, Crash, Recover, vars
<1>2. emitted \in Nat
  BY DEF TypeOK
<1> QED
  BY <1>1, <1>2 DEF Known

\* One more operation in the queue.
LEMMA BoundedJoin ==
    ASSUME writes \in Seq(Op), NEW K, NEW op, writes' = Append(writes, op),
           \A i \in DOMAIN writes : /\ writes[i].write.part \subseteq K
                                    /\ writes[i].role = "emit" => writes[i].event \in K,
           op.write.part \subseteq K, op.role = "emit" => op.event \in K
    PROVE  \A i \in DOMAIN writes' : /\ writes'[i].write.part \subseteq K
                                     /\ writes'[i].role = "emit" => writes'[i].event \in K
<1>1. /\ DOMAIN writes' = 1 .. Len(writes) + 1 /\ writes'[Len(writes) + 1] = op
      /\ \A i \in DOMAIN writes : writes'[i] = writes[i]
      /\ DOMAIN writes = 1 .. Len(writes) /\ Len(writes) \in Nat
  OBVIOUS
<1>2. \A i \in DOMAIN writes' : i \in DOMAIN writes \/ i = Len(writes) + 1
  BY <1>1
<1> QED
  BY <1>1, <1>2

LEMMA BoundedLeave ==
    ASSUME NEW K,
           \A i \in DOMAIN writes : /\ writes[i].write.part \subseteq K
                                    /\ writes[i].role = "emit" => writes[i].event \in K,
           \A i \in DOMAIN writes' : \E j \in DOMAIN writes :
               /\ writes'[i].write = writes[j].write /\ writes'[i].role = writes[j].role
               /\ writes'[i].event = writes[j].event
    PROVE  \A i \in DOMAIN writes' : /\ writes'[i].write.part \subseteq K
                                     /\ writes'[i].role = "emit" => writes'[i].event \in K
  OBVIOUS

\* One more delivery in some queues.
LEMMA BoundedDeliver ==
    ASSUME TypeOK, NEW K, NEW item, NEW targets, Deliver(item, targets),
           \A c \in Clients : \A i \in DOMAIN stream[c] : stream[c][i].events \subseteq K,
           item.events \subseteq K
    PROVE  \A c \in Clients : \A i \in DOMAIN stream'[c] : stream'[c][i].events \subseteq K
<1> SUFFICES ASSUME NEW c \in Clients, NEW i \in DOMAIN stream'[c]
             PROVE  stream'[c][i].events \subseteq K
  OBVIOUS
<1>1. stream[c] \in Seq(Delivery)
  BY DEF TypeOK
<1>2. stream'[c] = IF c \in targets THEN Append(stream[c], item) ELSE stream[c]
  BY DEF Deliver
<1>3. CASE stream'[c] = stream[c]
  BY <1>3
<1>4. CASE stream'[c] = Append(stream[c], item)
  <2>1. (i \in DOMAIN stream[c] /\ stream'[c][i] = stream[c][i]) \/ stream'[c][i] = item
    BY <1>1, <1>4
  <2> QED
    BY <2>1
<1> QED
  BY <1>2, <1>3, <1>4

\* A log or a store gets a segment.
LEMMA BoundedSegment ==
    ASSUME NEW s \in Seq(Part), NEW K, NEW p, NEW k,
           \A i \in DOMAIN s : s[i] \subseteq K, p \subseteq K
    PROVE  /\ \A i \in DOMAIN Append(s, p) : Append(s, p)[i] \subseteq K
           /\ \A i \in DOMAIN [s EXCEPT ![k] = p] : [s EXCEPT ![k] = p][i] \subseteq K
<1>1. \A i \in DOMAIN Append(s, p) : (i \in DOMAIN s /\ Append(s, p)[i] = s[i]) \/ Append(s, p)[i] = p
  OBVIOUS
<1> QED
  BY <1>1

LEMMA BoundedStore ==
    ASSUME store \in Seq(Part), NEW K, NEW w, \A i \in DOMAIN store : store[i] \subseteq K,
           w.part \subseteq K
    PROVE  \A i \in DOMAIN StoreAfter(w) : StoreAfter(w)[i] \subseteq K
<1>1. CASE StoreAfter(w) = Append(store, w.part)
  BY <1>1, BoundedSegment
<1>2. CASE StoreAfter(w) = [store EXCEPT ![w.at] = w.part]
  BY <1>2, BoundedSegment
<1>3. CASE StoreAfter(w) = store
  BY <1>3
<1> QED
  BY <1>1, <1>2, <1>3 DEF StoreAfter

\* What a client that goes away leaves of an operation in the queue.
LEMMA TargetsLeave ==
    ASSUME NEW op \in Op, NEW c, NEW left, left = [op EXCEPT !.targets = @ \ {c}]
    PROVE  /\ left.role = op.role /\ left.write = op.write /\ left.saved = op.saved
           /\ left.event = op.event /\ left.cursor = op.cursor
           /\ left.targets = op.targets \ {c}
  BY DEF Op, OpOf

\* The four parts of BoundInv, for a set K of events.
SeenWithin(K) ==
    \A c \in Clients : /\ seen[c] \subseteq K
                       /\ \A i \in DOMAIN stream[c] : stream[c][i].events \subseteq K
KeptWithin(K) ==
    /\ \A i \in DOMAIN log : log[i] \subseteq K
    /\ \A i \in DOMAIN store : store[i] \subseteq K
FedWithin(K) == held \subseteq K /\ window \subseteq K
QueuedWithin(K) ==
    /\ \A i \in DOMAIN writes : /\ writes[i].write.part \subseteq K
                                /\ writes[i].role = "emit" => writes[i].event \in K
    /\ \A w \in detached : w.part \subseteq K

LEMMA BoundedFeed ==
    ASSUME TypeInv, NEW K, emitted + 1 \in K, SeenWithin(K), KeptWithin(K), QueuedWithin(K),
           NEW part, part \subseteq K, NEW roll, FeedSegment(part, roll)
    PROVE  /\ \A c \in Clients : \A i \in DOMAIN stream'[c] : stream'[c][i].events \subseteq K
           /\ \A i \in DOMAIN log' : log'[i] \subseteq K
           /\ held' \subseteq K /\ window' \subseteq K
           /\ \A i \in DOMAIN writes' : /\ writes'[i].write.part \subseteq K
                                        /\ writes'[i].role = "emit" => writes'[i].event \in K
<1>1. TypeOK /\ log \in Seq(Part) /\ writes \in Seq(Op)
  BY DEF TypeInv, TypeOK
<1>2. held' = {} /\ (window' = part \/ window' = {}) /\ log' = LogAfter(part, roll)
  BY DEF FeedSegment
<1>3. \A i \in DOMAIN log' : log'[i] \subseteq K
  BY <1>1, <1>2, BoundedSegment DEF LogAfter, KeptWithin
<1>4. PICK k : Persist(WriteFor(part, roll), k)
  BY DEF FeedSegment
<1>5. WriteFor(part, roll).part = part /\ WriteFor(part, roll).kind # "none"
  BY DEF WriteFor
<1>6. writes' = Append(writes, EmitOp(WriteFor(part, roll), emitted + 1, k)) /\ stream' = stream
  BY <1>4, <1>5 DEF Persist, PassesThrough
<1>7. /\ EmitOp(WriteFor(part, roll), emitted + 1, k).write.part \subseteq K
      /\ EmitOp(WriteFor(part, roll), emitted + 1, k).event \in K
  BY <1>5, OpShape
<1>8. \A i \in DOMAIN writes' : /\ writes'[i].write.part \subseteq K
                                /\ writes'[i].role = "emit" => writes'[i].event \in K
  BY <1>1, <1>6, <1>7, BoundedJoin DEF QueuedWithin
<1> QED
  BY <1>2, <1>3, <1>6, <1>8 DEF SeenWithin

LEMMA BoundedHold ==
    ASSUME TypeInv, NEW K, emitted + 1 \in K, SeenWithin(K), KeptWithin(K), QueuedWithin(K),
           FedWithin(K), FeedHeld
    PROVE  /\ \A c \in Clients : \A i \in DOMAIN stream'[c] : stream'[c][i].events \subseteq K
           /\ \A i \in DOMAIN log' : log'[i] \subseteq K
           /\ held' \subseteq K /\ window' \subseteq K
           /\ \A i \in DOMAIN writes' : /\ writes'[i].write.part \subseteq K
                                        /\ writes'[i].role = "emit" => writes'[i].event \in K
<1>1. TypeOK /\ writes \in Seq(Op)
  BY DEF TypeInv, TypeOK
<1>2. held' \subseteq K /\ window' \subseteq K /\ log' = log
  BY DEF FeedHeld, FedWithin
<1>3. PICK k : Persist(NoWrite, k)
  BY DEF FeedHeld
<1>4. CASE writes' = writes /\ Deliver(Live(emitted + 1, k), Subscribers)
  <2>1. Live(emitted + 1, k).events \subseteq K
    BY DEF Live
  <2> QED
    BY <1>1, <1>2, <1>4, <2>1, BoundedDeliver DEF SeenWithin, KeptWithin, QueuedWithin
<1>5. CASE writes' = Append(writes, EmitOp(NoWrite, emitted + 1, k)) /\ stream' = stream
  <2>1. /\ EmitOp(NoWrite, emitted + 1, k).write.part \subseteq K
        /\ EmitOp(NoWrite, emitted + 1, k).event \in K
    BY OpShape DEF NoWrite
  <2>2. \A i \in DOMAIN writes' : /\ writes'[i].write.part \subseteq K
                                  /\ writes'[i].role = "emit" => writes'[i].event \in K
    BY <1>1, <1>5, <2>1, BoundedJoin DEF QueuedWithin
  <2> QED
    BY <1>2, <1>5, <2>2 DEF SeenWithin, KeptWithin
<1> QED
  BY <1>3, <1>4, <1>5 DEF Persist

LEMMA BoundStep == TypeInv /\ BoundInv /\ [Next]_vars => BoundInv'
<1> SUFFICES ASSUME TypeInv, BoundInv, [Next]_vars PROVE BoundInv'
  OBVIOUS
<1>0. TypeOK /\ TypeOK'
  BY NextType DEF TypeInv
<1>1. /\ TypeOK /\ TypeOK' /\ writes \in Seq(Op) /\ stream \in [Clients -> Seq(Delivery)]
      /\ log \in Seq(Part) /\ store \in Seq(Part) /\ emitted \in Nat
  BY <1>0 DEF TypeOK
<1>2. PICK K : K = Known'
  OBVIOUS
<1>3. SeenWithin(K) /\ KeptWithin(K) /\ FedWithin(K) /\ QueuedWithin(K)
  <2>1. Known \subseteq K
    BY <1>1, <1>2, KnownGrows
  <2> QED
    BY <2>1 DEF BoundInv, SeenWithin, KeptWithin, FedWithin, QueuedWithin
<1>b. TypeOK
  BY <1>1
<1>c. \A i \in DOMAIN writes : writes[i] \in Op
  BY <1>1
<1>a. \A c \in Clients : \A i \in DOMAIN stream[c] : stream[c][i].events \subseteq K
  BY <1>3 DEF SeenWithin
<1>4. (SeenWithin(K) /\ KeptWithin(K) /\ FedWithin(K) /\ QueuedWithin(K))' => BoundInv'
  BY <1>2 DEF BoundInv, SeenWithin, KeptWithin, FedWithin, QueuedWithin
<1>5. CASE UNCHANGED <<log, store, held, window, writes, detached, seen, stream>>
  BY <1>3, <1>4, <1>5 DEF SeenWithin, KeptWithin, FedWithin, QueuedWithin
<1>6. CASE InitializeStore
  <2>1. log' = store \/ log' = <<>>
    BY <1>6 DEF InitializeStore, Preloaded
  <2> QED
    BY <1>3, <1>4, <1>6, <2>1
       DEF InitializeStore, SeenWithin, KeptWithin, FedWithin, QueuedWithin, clientVars
<1>7. CASE Emit
  <2>1. emitted + 1 \in K /\ UNCHANGED <<store, seen, detached>>
    BY <1>1, <1>2, <1>7 DEF Emit, Known
  <2>2. ASSUME NEW part, part \subseteq K, NEW roll, FeedSegment(part, roll) PROVE BoundInv'
    BY <1>3, <1>4, <2>1, <2>2, BoundedFeed DEF SeenWithin, KeptWithin, FedWithin, QueuedWithin
  <2>3. CASE FeedHeld
    BY <1>3, <1>4, <2>1, <2>3, BoundedHold DEF SeenWithin, KeptWithin, FedWithin, QueuedWithin
  <2>4. held \cup {emitted + 1} \subseteq K /\ window \cup held \cup {emitted + 1} \subseteq K
    BY <1>3, <2>1 DEF FedWithin
  <2> QED
    BY <1>7, <2>2, <2>3, <2>4 DEF Emit
<1>8. CASE StoreCall
  <2>0. UNCHANGED <<log, held, window, detached, seen, stream>>
    BY <1>8 DEF StoreCall, runVars, clientVars
  <2>1. PICK o : SaveHead(o) /\ writes # <<>> /\ 1 \in DOMAIN writes /\ Head(writes) = writes[1]
    BY <1>1, <1>8 DEF StoreCall
  <2>2. DOMAIN writes' = DOMAIN writes
        /\ \A i \in DOMAIN writes : /\ writes'[i].role = writes[i].role
                                    /\ writes'[i].write = writes[i].write
                                    /\ writes'[i].event = writes[i].event
    BY <1>1, <2>1 DEF SaveHead, Op, OpOf
  <2>3. QueuedWithin(K)'
    BY <1>3, <2>0, <2>2, BoundedLeave DEF QueuedWithin
  <2>4. store' = store \/ store' = StoreAfter(writes[1].write)
    BY <1>8, <2>1 DEF StoreCall
  <2>5. writes[1].write.part \subseteq K
    BY <1>3, <2>1 DEF QueuedWithin
  <2>6. \A i \in DOMAIN store' : store'[i] \subseteq K
    BY <1>1, <1>3, <2>4, <2>5, BoundedStore DEF KeptWithin
  <2> QED
    BY <1>3, <1>4, <2>0, <2>3, <2>6 DEF SeenWithin, KeptWithin, FedWithin
<1>9. CASE ResumeHolder
  <2>0. UNCHANGED <<log, store, held, window, detached, seen>> /\ writes # <<>>
    BY <1>9 DEF ResumeHolder
  <2>1. 1 \in DOMAIN writes /\ Head(writes) = writes[1]
    BY <1>1, <2>0
  <2>2. \A c \in Clients : \A i \in DOMAIN stream'[c] : stream'[c][i].events \subseteq K
    <3>1. CASE Head(writes).role = "emit" /\ Deliver(Live(Head(writes).event, Head(writes).cursor), Head(writes).targets)
      <4>1. Live(Head(writes).event, Head(writes).cursor).events \subseteq K
        BY <1>3, <2>1, <3>1 DEF QueuedWithin, Live
      <4> QED
        BY <1>b, <1>a, <3>1, <4>1, BoundedDeliver
    <3>2. CASE Deliver(Sentinel, Head(writes).targets)
      <4>1. Sentinel.events \subseteq K
        BY DEF Sentinel
      <4> QED
        BY <1>b, <1>a, <3>2, <4>1, BoundedDeliver
    <3>3. CASE stream' = stream
      BY <1>3, <3>3 DEF SeenWithin
    <3> QED
      BY <1>9, <3>1, <3>2, <3>3 DEF ResumeHolder
  <2>3. /\ Tail(writes) \in Seq(Op)
        /\ \A i \in DOMAIN Tail(writes) : i + 1 \in DOMAIN writes /\ Tail(writes)[i] = writes[i + 1]
    BY <1>1, <2>0, TailMembers
  <2>4. QueuedWithin(K)'
    <3>1. CASE writes' = Tail(writes)
      BY <1>3, <2>0, <2>3, <3>1 DEF QueuedWithin
    <3>2. CASE writes' = Append(Tail(writes), MarkOp("finish", Head(writes).targets))
      <4> DEFINE rest == Tail(writes)
      <4>1. \A i \in DOMAIN rest : /\ rest[i].write.part \subseteq K
                                   /\ rest[i].role = "emit" => rest[i].event \in K
        BY <1>3, <2>3 DEF QueuedWithin
      <4>2. rest \in Seq(Op) /\ writes' = Append(rest, MarkOp("finish", Head(writes).targets))
        BY <2>3, <3>2
      <4> HIDE DEF rest
      <4>3. \A i \in DOMAIN writes' : (i \in DOMAIN rest /\ writes'[i] = rest[i])
                                      \/ writes'[i] = MarkOp("finish", Head(writes).targets)
        BY <4>2
      <4> QED
        BY <1>3, <2>0, <4>1, <4>3 DEF QueuedWithin, MarkOp, NoWrite
    <3> QED
      BY <1>9, <3>1, <3>2 DEF ResumeHolder
  <2> QED
    BY <1>3, <1>4, <2>0, <2>2, <2>4 DEF SeenWithin, KeptWithin, FedWithin
<1>10. CASE \E outcome \in Outcomes : Finish(outcome)
  <2>0. UNCHANGED <<store, detached, seen, stream>> /\ held' = {} /\ window' = {}
        /\ writes' = Append(writes, FinishOp(FlushWrite)) /\ (log' = log \/ log' = LogAfter(held, FALSE))
    BY <1>10 DEF Finish, clientVars
  <2>1. \A i \in DOMAIN log' : log'[i] \subseteq K
    <3>1. LogAfter(held, FALSE) = Append(log, held)
      BY DEF LogAfter, Overwrites
    <3>2. log \in Seq(Part) /\ (\A i \in DOMAIN log : log[i] \subseteq K) /\ held \subseteq K
      BY <1>1, <1>3 DEF KeptWithin, FedWithin
    <3>3. \A i \in DOMAIN Append(log, held) : Append(log, held)[i] \subseteq K
      BY <3>2, BoundedSegment
    <3> QED
      BY <2>0, <3>1, <3>2, <3>3
  <2>2. FlushWrite.part \subseteq K
    BY <1>3 DEF FlushWrite, WriteFor, NoWrite, FedWithin
  <2>3. FinishOp(FlushWrite).write.part \subseteq K /\ FinishOp(FlushWrite).role # "emit"
    BY <2>2 DEF FinishOp, MarkOp, NoWrite, EmitOp
  <2>4. QueuedWithin(K)'
    BY <1>1, <1>3, <2>0, <2>3, BoundedJoin DEF QueuedWithin
  <2> QED
    BY <1>3, <1>4, <2>0, <2>1, <2>4 DEF SeenWithin, KeptWithin, FedWithin
<1>11. CASE QueueInterruptMark
  <2>1. QueuedWithin(K)'
    BY <1>1, <1>3, <1>11, BoundedJoin DEF QueueInterruptMark, QueuedWithin, MarkOp, NoWrite
  <2> QED
    BY <1>3, <1>4, <1>11, <2>1 DEF QueueInterruptMark, SeenWithin, KeptWithin, FedWithin, clientVars
<1>12. CASE Interrupt
  <2>0. /\ Sentinel.events \subseteq K
        /\ Deliver(Sentinel, Subscribers)
    BY <1>12 DEF Interrupt, Sentinel
  <2>1. \A c \in Clients : \A i \in DOMAIN stream'[c] : stream'[c][i].events \subseteq K
    BY <1>1, <1>a, <2>0, BoundedDeliver
  <2> QED
    BY <1>3, <1>4, <1>12, <2>1
       DEF Interrupt, SeenWithin, KeptWithin, FedWithin, QueuedWithin, storeVars
<1>13. CASE DetachedCall
  <2>1. PICK w \in detached : /\ detached' = detached \ {w}
                              /\ (w.kind # "mark" /\ store' = StoreAfter(w)) \/ store' = store
    BY <1>13 DEF DetachedCall
  <2>2. \A i \in DOMAIN store' : store'[i] \subseteq K
    <3>1. w.kind # "mark" => w \in Write
      BY <1>1, <2>1 DEF TypeOK, Call, TerminalMark
    <3> QED
      BY <1>1, <1>3, <2>1, <3>1, BoundedStore DEF KeptWithin, QueuedWithin
  <2> QED
    BY <1>3, <1>4, <1>13, <2>1, <2>2
       DEF DetachedCall, SeenWithin, KeptWithin, FedWithin, QueuedWithin, runVars, clientVars
<1>14. CASE Cancel \/ CancelLate
  <2>1. CASE \E i \in DOMAIN writes : Abandon(i)
    <3>1. PICK k \in DOMAIN writes : Abandon(k)
      BY <2>1
    <3>2. k \in DOMAIN writes
      OBVIOUS
    <3>3. \A i \in DOMAIN writes' : \E j \in DOMAIN writes : writes'[i] = writes[j]
      BY <1>1, <3>1, <3>2, AbandonMembers
    <3>4. /\ detached' = detached \/ (detached' = detached \cup {CallOf(writes[k])})
          /\ CallOf(writes[k]).part \subseteq K
      BY <1>3, <3>1 DEF Abandon, CallOf, TerminalMark, QueuedWithin
    <3>5. QueuedWithin(K)'
      BY <1>3, <3>2, <3>3, <3>4 DEF QueuedWithin
    <3> QED
      BY <1>3, <1>4, <1>14, <3>5 DEF Cancel, CancelLate, SeenWithin, KeptWithin, FedWithin, clientVars
  <2> QED
    BY <1>5, <1>14, <2>1 DEF Cancel, CancelLate, EmitsInFlight, clientVars
<1>15. CASE \E c \in Clients : Subscribe(c)
  <2>1. PICK c \in Clients : Subscribe(c)
    BY <1>15
  <2>2. \A i \in DOMAIN Backlog(cursor[c]) : Backlog(cursor[c])[i].events \subseteq K
    <3>1. cursor[c] \in Nat
      BY <1>1 DEF TypeOK
    <3>2. \A i \in 1 .. Len(log) - MinOf(cursor[c], Len(log)) : cursor[c] + i \in DOMAIN log
      BY <1>1, <3>1 DEF MinOf
    <3> QED
      BY <1>3, <3>2 DEF Backlog, Replay, KeptWithin
  <2>3. Backlog(cursor[c]) \in Seq(Delivery)
    BY <1>1, BacklogType DEF TypeOK
  <2>4. \A i \in DOMAIN stream'[c] : stream'[c][i].events \subseteq K
    <3> DEFINE b == Backlog(cursor[c])
    <3>1. stream'[c] = b \/ stream'[c] = Append(b, Sentinel)
      BY <1>1, <2>1 DEF Subscribe
    <3>2. b \in Seq(Delivery) /\ \A i \in DOMAIN b : b[i].events \subseteq K
      BY <2>2, <2>3
    <3> HIDE DEF b
    <3>3. \A i \in DOMAIN stream'[c] : (i \in DOMAIN b /\ stream'[c][i] = b[i]) \/ stream'[c][i] = Sentinel
      BY <3>1, <3>2
    <3> QED
      BY <3>2, <3>3 DEF Sentinel
  <2>5. \A d \in Clients : d # c => stream'[d] = stream[d]
    BY <1>1, <2>1 DEF Subscribe
  <2> QED
    BY <1>3, <1>4, <2>1, <2>4, <2>5
       DEF Subscribe, SeenWithin, KeptWithin, FedWithin, QueuedWithin, runVars, storeVars
<1>16. CASE \E c \in Clients : Receive(c)
  <2>1. PICK c \in Clients : Receive(c)
    BY <1>16
  <2>2. /\ stream[c] \in Seq(Delivery) /\ stream[c] # <<>> /\ 1 \in DOMAIN stream[c]
        /\ Head(stream[c]) = stream[c][1]
        /\ \A i \in DOMAIN Tail(stream[c]) : i + 1 \in DOMAIN stream[c] /\ Tail(stream[c])[i] = stream[c][i + 1]
    BY <1>1, <2>1 DEF Receive
  <2>3. /\ \/ seen' = [seen EXCEPT ![c] = @ \cup stream[c][1].events]
           \/ seen' = seen
        /\ \/ stream' = [stream EXCEPT ![c] = Tail(@)]
           \/ stream' = [stream EXCEPT ![c] = <<>>]
    BY <2>1, <2>2 DEF Receive
  <2>4. \A d \in Clients : seen'[d] \subseteq K
    <3>1. seen \in [Clients -> SUBSET Events] /\ \A d \in Clients : seen[d] \subseteq K
      BY <1>1, <1>3 DEF TypeOK, SeenWithin
    <3>2. stream[c][1].events \subseteq K
      BY <1>a, <2>2
    <3> QED
      BY <2>3, <3>1, <3>2
  <2>5. \A i \in DOMAIN stream'[c] : stream'[c][i].events \subseteq K
    <3>1. stream'[c] = Tail(stream[c]) \/ stream'[c] = <<>>
      BY <1>1, <2>3
    <3>2. \A i \in DOMAIN Tail(stream[c]) : Tail(stream[c])[i].events \subseteq K
      BY <1>a, <2>2
    <3>3. CASE stream'[c] = <<>>
      BY <3>3
    <3>4. CASE stream'[c] = Tail(stream[c])
      BY <3>2, <3>4
    <3> QED
      BY <3>1, <3>3, <3>4
  <2>6. \A d \in Clients : d # c => stream'[d] = stream[d]
    BY <1>1, <2>3
  <2> QED
    BY <1>3, <1>4, <2>1, <2>4, <2>5, <2>6
       DEF Receive, SeenWithin, KeptWithin, FedWithin, QueuedWithin, runVars, storeVars
<1>17. CASE \E c \in Clients : Disconnect(c)
  <2>1. PICK c \in Clients : Disconnect(c)
    BY <1>17
  <2>2. writes' = [i \in DOMAIN writes |-> [writes[i] EXCEPT !.targets = @ \ {c}]]
    BY <2>1 DEF Disconnect
  <2>3. DOMAIN writes' = DOMAIN writes
        /\ \A i \in DOMAIN writes : /\ writes'[i].role = writes[i].role
                                    /\ writes'[i].write = writes[i].write
                                    /\ writes'[i].event = writes[i].event
    BY <1>c, <2>2, TargetsLeave
  <2>4. QueuedWithin(K)'
    BY <1>3, <2>1, <2>3 DEF QueuedWithin, Disconnect
  <2>5. SeenWithin(K)'
    BY <1>1, <1>3, <2>1 DEF SeenWithin, Disconnect
  <2> QED
    BY <1>3, <1>4, <2>1, <2>4, <2>5 DEF Disconnect, KeptWithin, FedWithin, runVars
<1>18. CASE Crash
  BY <1>3, <1>4, <1>18 DEF Crash, SeenWithin, KeptWithin, FedWithin, QueuedWithin
<1> QED
  BY <1>5, <1>6, <1>7, <1>8, <1>9, <1>10, <1>11, <1>12, <1>13, <1>14, <1>15, <1>16, <1>17, <1>18
     DEF Next, Run, Reader, Environment, EndStream, Recover, vars, storeVars, runVars, clientVars

LEMMA InitBound == Init => BoundInv
  BY DEF Init, BoundInv

-------------------------------------------------------------------------------
(***************************************************************************)
(* What a subscriber has, what is due to it, and what a cursor vouches for *)
(***************************************************************************)
\* The events client c has after i more deliveries of its stream.
Got(c, i) == seen[c] \cup UNION {stream[c][j].events : j \in 1 .. i}

\* The emits in the queue of the write lock that will deliver to c.
Queued(c) == {i \in DOMAIN writes : writes[i].role = "emit" /\ c \in writes[i].targets}

\* The events c has once it has read its stream.
Sent(c) == Got(c, Len(stream[c]))

\* The events c has once emit i of the queue has delivered, and once all have.
Due(c, i) == Sent(c) \cup {writes[j].event : j \in {q \in Queued(c) : q <= i}}
AllDue(c) == Sent(c) \cup {writes[j].event : j \in Queued(c)}

\* The code's cursor of a live delivery: it stops short of an open slot.
Limit == LiveCursor(Len(log), openSlot)

\* Whoever has an event of S has every earlier one the log l has.
ClosedIn(l, S) == \A e \in S : \A i \in DOMAIN l : \A f \in l[i] : f < e => f \in S
Closed(S) == ClosedIn(log, S)

\* S holds all of the first k entries of the log l.
Covers(S, l, k) == \A m \in DOMAIN l : m <= k => l[m] \subseteq S
Vouches(k, S) == Covers(S, log, k)

\* Entries up to k do not change any more, and survive a crash.
SafeIn(limit, length, k) == k <= limit /\ (MaxCrashes # 0 => k <= length)
Safe(k) == SafeIn(Limit, Len(store), k)

\* The client keeps the cursor of this delivery.
Trusted(d) == d.kind = "live" \/ (d.kind = "replay" /\ TrustReplay)

\* A has no event earlier than one of B that B has not.
Early(A, B) == \A x \in A, y \in B : x < y => x \in B
Nested(s) == \A j, m \in DOMAIN s : j < m => Early(s[m], s[j])

\* What the store has of a segment, or is to get, is its oldest events.
Prefix ==
    /\ \A n \in DOMAIN store : Early(log[n], store[n])
    /\ \A i \in Unsaved : Early(log[At(i)], PartOf(i))

\* Log and store, when every event is a segment of its own or of a rolling
\* snapshot, and no emit is cancelled.
LogInv ==
    /\ Base /\ BoundInv /\ WindowInv /\ held = {} /\ detached = {}
    /\ Nested(log)
    /\ window \subseteq EventsIn(log) /\ \A j \in DOMAIN log : Early(window, log[j])
    /\ MaxCrashes # 0 => Nested(store) /\ (proc = "up" => Kept /\ Prefix)
    /\ TrustReplay => /\ openSlot = 0
                      /\ proc = "up" => ~inplaceOk \/ "snapshot" \notin Policies

EmitInv ==
    \A i \in EmitsInFlight :
        /\ writes[i].cursor <= Limit
        /\ MaxCrashes # 0 => IF writes[i].saved = "no"
                             THEN i \in Unsaved /\ writes[i].cursor <= At(i)
                             ELSE writes[i].cursor <= Len(store)

ClientInv(c) ==
    /\ Closed(seen[c]) /\ Vouches(cursor[c], seen[c]) /\ Safe(cursor[c])
    /\ conn[c] = "on" =>
         /\ \A i \in DOMAIN stream[c] :
              /\ Closed(Got(c, i))
              /\ Trusted(stream[c][i]) =>
                    Vouches(stream[c][i].cursor, Got(c, i)) /\ Safe(stream[c][i].cursor)
         /\ \A i \in Queued(c) : Closed(Due(c, i)) /\ Vouches(writes[i].cursor, Due(c, i))
         /\ EventsIn(log) \subseteq AllDue(c)

\* What a client has and vouches for, while only the store is left.
StoredClient(c) ==
    /\ crashes = 0 => cursor[c] = 0
    /\ MaxCrashes # 0 => /\ cursor[c] <= Len(store)
                         /\ \A m \in DOMAIN store : m <= cursor[c] => store[m] \subseteq seen[c]
                         /\ \A e \in seen[c], f \in EventsIn(store) : f < e => f \in seen[c]

ReadInv ==
    /\ LogInv /\ EmitInv
    /\ \A c \in Clients : IF proc = "up" THEN ClientInv(c) ELSE StoredClient(c)

\* The coalescer never keeps an event back, and no emit is cancelled.
SegmentsOnly == "hold" \notin Policies
NoCancel == "cancel" \notin Disturbances

\* A client that keeps the cursor of a replayed entry relies on an entry
\* that neither a rolling snapshot nor a crash will take back.
ReplaysAreFinal ==
    TrustReplay => MaxCrashes = 0 /\ ("snapshot" \notin Policies \/ ~CanReplace)

\* If the process may die, the store has and returns what it was given.
StoreIsComplete ==
    MaxCrashes = 0 \/ (CanSize /\ Disturbances \cap {"append", "read"} = {})

\* The segment emit feeds when the coalescer holds nothing.
Fed(roll) == (IF roll THEN window ELSE {}) \cup {emitted + 1}

FeedsOne(roll) ==
    /\ Emit /\ FeedSegment(Fed(roll), roll) /\ NewSegment(Fed(roll), roll)
    /\ emitted' = emitted + 1 /\ emitted + 1 \in Events /\ Fed(roll) \in Part
    /\ roll => "snapshot" \in Policies

LEMMA FeedsOneEvent ==
    ASSUME SegmentsOnly, TypeInv, TypeOK', held = {}, Emit
    PROVE  \E roll \in BOOLEAN : FeedsOne(roll)
<1>1. /\ emitted + 1 \in Events /\ emitted' = emitted + 1 /\ store' = store /\ ~Done
      /\ window \in Part
  BY DEF Emit, MayEmit, Events, TypeInv, TypeOK
<1>2. CASE FeedSegment(held \cup {emitted + 1}, FALSE)
  <2>1. held \cup {emitted + 1} = Fed(FALSE) /\ Fed(FALSE) \in Part
    BY <1>1 DEF Fed, Part
  <2>2. NewSegment(Fed(FALSE), FALSE)
    BY <1>1, <1>2, <2>1, SegmentMove
  <2>3. FeedsOne(FALSE)
    BY <1>1, <1>2, <2>1, <2>2 DEF FeedsOne
  <2> QED
    BY <2>3
<1>3. CASE /\ "snapshot" \in Policies /\ driver = "running"
           /\ FeedSegment(window \cup held \cup {emitted + 1}, TRUE)
  <2>1. window \cup held \cup {emitted + 1} = Fed(TRUE) /\ Fed(TRUE) \in Part /\ window \subseteq Fed(TRUE)
    BY <1>1 DEF Fed, Part
  <2>2. NewSegment(Fed(TRUE), TRUE)
    BY <1>1, <1>3, <2>1, SegmentMove
  <2>3. FeedsOne(TRUE)
    BY <1>1, <1>3, <2>1, <2>2 DEF FeedsOne
  <2> QED
    BY <2>3
<1> QED
  BY <1>2, <1>3 DEF Emit, SegmentsOnly

\* Every other step leaves the log alone.
Rests ==
    /\ Quiet \/ SavesAppend \/ SavesReplace \/ LosesAppend \/ LosesReplace
    /\ UNCHANGED <<log, openSlot, held, emitted>> /\ window' \in {window, {}}
    /\ inplaceOk' => inplaceOk

LEMMA PlainMoves ==
    ASSUME SegmentsOnly, NoCancel, LogInv, TypeOK', [Next]_vars, proc = "up", proc' = "up"
    PROVE  (\E roll \in BOOLEAN : FeedsOne(roll)) \/ Rests
<1>0. TypeInv /\ RoleInv /\ held = {} /\ detached = {}
  BY DEF LogInv, Base
<1>1. CASE Emit
  BY <1>0, <1>1, FeedsOneEvent
<1>2. CASE StoreCall
  <2>1. Quiet \/ SavesAppend \/ SavesReplace \/ LosesAppend \/ LosesReplace
    BY <1>0, <1>2, StoreMove
  <2> QED
    BY <1>2, <2>1 DEF StoreCall, Rests, runVars
<1>3. CASE ResumeHolder
  BY <1>0, <1>3, ResumeMove DEF Rests, ResumeHolder
<1>4. CASE \E outcome \in Outcomes : Finish(outcome)
  <2>1. PICK outcome : Finish(outcome)
    BY <1>4
  <2>2. /\ UNCHANGED <<log, openSlot, held, emitted, inplaceOk, store>> /\ window' = {}
        /\ writes' = Append(writes, FinishOp(FlushWrite)) /\ FlushWrite = NoWrite
    BY <1>0, <2>1 DEF Finish, FlushWrite
  <2>3. FinishOp(FlushWrite).saved # "no" \/ FinishOp(FlushWrite).write.kind = "none"
    <3>1. NoWrite.kind = "none"
      BY DEF NoWrite
    <3> QED
      BY <2>2, <3>1, OpShape
  <2>4. Shifted(0)
    BY <1>0, <2>2, <2>3, JoinQuiet DEF TypeInv
  <2> QED
    BY <2>2, <2>4 DEF Rests, Quiet
<1>5. CASE QueueInterruptMark
  <2>1. /\ writes' = Append(writes, MarkOp("interrupt", {})) /\ UNCHANGED <<log, store>>
        /\ MarkOp("interrupt", {}).write.kind = "none" /\ TypeOK
    BY <1>0, <1>5 DEF QueueInterruptMark, MarkOp, NoWrite, TypeInv
  <2>2. Shifted(0)
    BY <2>1, JoinQuiet
  <2> QED
    BY <1>5, <2>1, <2>2 DEF Rests, Quiet, QueueInterruptMark
<1>6. CASE \E c \in Clients : Disconnect(c)
  <2>1. Quiet
    BY <1>0, <1>6, DisconnectMove
  <2> QED
    BY <1>6, <2>1 DEF Rests, Disconnect, runVars
<1>7. ~DetachedCall /\ ~Cancel /\ ~CancelLate
  BY <1>0 DEF DetachedCall, Cancel, CancelLate, NoCancel
<1>8. CASE UNCHANGED <<writes, log, store, openSlot, held, emitted, window, inplaceOk>>
  <2>1. Quiet
    BY <1>0, <1>8, StillMove
  <2> QED
    BY <1>8, <2>1 DEF Rests
<1> QED
  BY <1>1, <1>2, <1>3, <1>4, <1>5, <1>6, <1>7, <1>8
     DEF Next, Run, Reader, Environment, InitializeStore, Subscribe, Receive, EndStream,
         Interrupt, Crash, Recover, vars, storeVars, runVars

\* The entry k that emit writes: a new one, or the window with its event.
FedAt(n, k, roll) ==
    /\ GrownBy(n, k, Fed(roll), roll)
    /\ Overwrites(roll) => log[k] = window /\ roll
    /\ window' = IF roll THEN Fed(roll) ELSE {}
    /\ openSlot' = SlotAfter(roll)
    /\ UNCHANGED <<held, store, inplaceOk, detached, seen, conn, cursor, stream, crashes>>
    /\ writes' = Append(writes, EmitOp(WriteFor(Fed(roll), roll), emitted + 1, Limit'))

LEMMA FeedsOneAt ==
    ASSUME LogInv, TypeOK', NEW roll \in BOOLEAN, FeedsOne(roll)
    PROVE  \E n, k : FedAt(n, k, roll)
<1>1. TypeInv /\ WindowInv /\ held = {} /\ ~Done
  BY DEF LogInv, Base, FeedsOne, Emit, MayEmit
<1>2. PICK n, k : GrownBy(n, k, Fed(roll), roll)
  BY <1>1, QueueGrows DEF FeedsOne, NewSegment
<1>3. Overwrites(roll) => log[k] = window /\ roll
  <2>1. Overwrites(roll) => k = openSlot /\ openSlot # 0 /\ roll
    BY <1>2 DEF GrownBy, Overwrites
  <2> QED
    BY <1>1, <2>1 DEF WindowInv
<1>4. /\ window' = IF roll THEN Fed(roll) ELSE {}
      /\ openSlot' = SlotAfter(roll) /\ held' = {}
      /\ Persist(WriteFor(Fed(roll), roll), Limit')
  BY DEF FeedsOne, FeedSegment, Limit
<1>5. WriteFor(Fed(roll), roll).kind # "none"
  BY DEF WriteFor
<1>6. /\ writes' = Append(writes, EmitOp(WriteFor(Fed(roll), roll), emitted + 1, Limit'))
      /\ stream' = stream
  BY <1>4, <1>5 DEF Persist, PassesThrough
<1>7. UNCHANGED <<store, inplaceOk, detached, seen, conn, cursor, crashes>>
  BY DEF FeedsOne, Emit
<1>8. FedAt(n, k, roll)
  BY <1>1, <1>2, <1>3, <1>4, <1>6, <1>7 DEF FedAt
<1> QED
  BY <1>8

\* The new event comes after all the others.
LEMMA NewIsLast ==
    ASSUME TypeOK
    PROVE  /\ \A y \in Known : y < emitted + 1 /\ ~(emitted + 1 < y) /\ y \in Nat
           /\ emitted + 1 \in Nat /\ emitted \in Nat
  BY DEF TypeOK, Known

LEMMA StoreNested == TypeOK /\ Kept /\ Prefix /\ Nested(log) => Nested(store)
<1> SUFFICES ASSUME TypeOK, Kept, Prefix, Nested(log) PROVE Nested(store)
  OBVIOUS
<1>1. \A n \in DOMAIN store : n \in DOMAIN log /\ store[n] \subseteq log[n]
  <2>1. DOMAIN store = 1 .. Len(store) /\ DOMAIN log = 1 .. Len(log) /\ Len(store) \in Nat /\ Len(log) \in Nat
    BY DEF TypeOK
  <2> QED
    BY <2>1 DEF Kept, Aligned, Within
<1> QED
  BY <1>1 DEF Prefix, Nested, Early

LEMMA StoreStaysNested == TypeOK' /\ Kept' /\ Prefix' /\ Nested(log') => Nested(store')
<1>1. TypeOK' /\ Kept' /\ Prefix' /\ Nested(log)' => Nested(store)'
  BY StoreNested, PTL
<1> QED
  BY <1>1 DEF Nested

LEMMA ShiftedPrefix ==
    ASSUME TypeOK, TypeOK', Quiet, Prefix
    PROVE  Prefix'
<1>1. PICK d \in {0, 1} : Shifted(d) /\ log' = log /\ store' = store
  BY DEF Quiet
<1>2. \A i \in Unsaved' : i + d \in Unsaved /\ At(i)' = At(i + d) /\ PartOf(i)' = PartOf(i + d)
  BY <1>1 DEF Shifted, At, PartOf
<1>3. \A i \in Unsaved' : Early(log'[At(i)'], PartOf(i)')
  BY <1>1, <1>2 DEF Prefix
<1> QED
  BY <1>1, <1>3 DEF Prefix

LEMMA SavedPrefix ==
    ASSUME TypeOK, TypeOK', SavesAppend \/ SavesReplace \/ LosesReplace, Kept, Prefix
    PROVE  Prefix'
<1>1. writes # <<>> /\ log' = log /\ 1 \in Unsaved /\ \E o \in {"ok", "rejected"} : SaveHead(o)
  BY DEF SavesAppend, SavesReplace, LosesReplace, Unsaved
<1>2. /\ Unsaved' = Unsaved \ {1}
      /\ \A i \in Unsaved : At(i)' = At(i) /\ PartOf(i)' = PartOf(i)
  BY <1>1, HeadSaved
<1>3. store \in Seq(Part) /\ DOMAIN store = 1 .. Len(store) /\ Len(store) \in Nat
  BY DEF TypeOK
<1>4. \A n \in DOMAIN store' : (n \in DOMAIN store /\ store'[n] = store[n])
                               \/ (store'[n] = PartOf(1) /\ n = At(1))
  <2>1. CASE SavesAppend
    <3>1. At(1) = Len(store) + 1
      BY <2>1, NextAppend DEF Kept, SavesAppend
    <3>2. store' = Append(store, PartOf(1))
      BY <2>1 DEF SavesAppend
    <3> QED
      BY <1>3, <3>1, <3>2
  <2>2. CASE SavesReplace
    <3>1. store' = [store EXCEPT ![At(1)] = PartOf(1)]
      BY <2>2 DEF SavesReplace
    <3> QED
      BY <1>3, <3>1
  <2>3. CASE LosesReplace
    BY <2>3 DEF LosesReplace
  <2> QED
    BY <2>1, <2>2, <2>3
<1>5. \A n \in DOMAIN store' : Early(log'[n], store'[n])
  BY <1>1, <1>4 DEF Prefix
<1> QED
  BY <1>1, <1>2, <1>5 DEF Prefix

LEMMA FedPrefix ==
    ASSUME LogInv, TypeOK', NEW roll \in BOOLEAN, NEW n, NEW k, FedAt(n, k, roll), Kept, Prefix
    PROVE  Kept' /\ Prefix'
<1>0. ~Overwrites(roll) => k \notin DOMAIN log
  <2>1. (~Overwrites(roll) => k = Len(log) + 1) /\ Len(log) \in Nat /\ DOMAIN log = 1 .. Len(log)
    BY DEF FedAt, GrownBy
  <2> QED
    BY <2>1
<1>1. /\ \A i \in Unsaved : i \in Unsaved' /\ At(i)' = At(i) /\ PartOf(i)' = PartOf(i)
      /\ \A i \in Unsaved' : i \in Unsaved \/ i = n
      /\ At(n)' = k /\ PartOf(n)' = Fed(roll) /\ log'[k] = Fed(roll)
      /\ \A m \in DOMAIN log : m # k => log'[m] = log[m]
      /\ ~Overwrites(roll) => k \notin DOMAIN log
      /\ Overwrites(roll) => k = openSlot
  BY <1>0 DEF FedAt, GrownBy
<1>2. Fed(roll) \subseteq window \cup {emitted + 1} /\ TypeOK /\ store' = store
      /\ (Overwrites(roll) => Fed(roll) = log[k] \cup {emitted + 1})
  BY DEF Fed, FedAt, LogInv, Base, TypeInv
<1>3. Kept'
  <2>1. Overwrites(roll) => log[openSlot] \subseteq Fed(roll)
    BY <1>1, <1>2
  <2>2. Fed(roll) \in Part
    <3>1. log' \in Seq(Part) /\ k \in DOMAIN log'
      BY DEF TypeOK, FedAt, GrownBy
    <3> QED
      BY <1>1, <3>1
  <2> QED
    BY <1>2, <2>1, <2>2, WriteKept DEF FedAt
<1>4. \A i \in DOMAIN store : i \in DOMAIN log /\ store[i] \subseteq Known
  <2>1. DOMAIN store = 1 .. Len(store) /\ DOMAIN log = 1 .. Len(log) /\ Len(store) \in Nat /\ Len(log) \in Nat
    BY <1>2 DEF TypeOK
  <2> QED
    BY <2>1 DEF Kept, Aligned, LogInv, BoundInv
<1>5. \A i \in Unsaved : At(i) \in DOMAIN log /\ PartOf(i) \subseteq Known
  <2> SUFFICES ASSUME NEW i \in Unsaved PROVE At(i) \in DOMAIN log /\ PartOf(i) \subseteq Known
    OBVIOUS
  <2>1. /\ DOMAIN log = 1 .. Len(log) /\ Len(log) \in Nat /\ Len(store) \in Nat /\ At(i) \in Nat
        /\ i \in DOMAIN writes
    BY <1>2, QueueIsShaped DEF QueueShape
  <2>2. PartOf(i) \subseteq Known
    BY <2>1 DEF LogInv, BoundInv, PartOf
  <2>3. CASE i \in AppendsQueued
    <3>1. Len(store) < At(i) /\ At(i) <= Len(log)
      BY <2>3 DEF Kept, Aligned
    <3> QED
      BY <2>1, <2>2, <3>1
  <2>4. CASE i \in ReplacesQueued
    BY <2>1, <2>2, <2>4 DEF Kept, Aligned
  <2> QED
    BY <2>3, <2>4 DEF Unsaved
<1>6. ASSUME NEW m \in DOMAIN log, NEW B, B \subseteq Known, Early(log[m], B)
      PROVE  Early(log'[m], B)
  <2>1. CASE m # k
    BY <1>1, <1>6, <2>1
  <2>2. CASE m = k
    <3>1. Fed(roll) = log[k] \cup {emitted + 1} /\ log'[k] = Fed(roll)
      BY <1>1, <1>2, <2>2
    <3>2. \A y \in B : ~(emitted + 1 < y)
      BY <1>2, <1>6, NewIsLast
    <3> QED
      BY <1>6, <2>2, <3>1, <3>2 DEF Early
  <2> QED
    BY <2>1, <2>2
<1>7. \A i \in DOMAIN store' : Early(log'[i], store'[i])
  BY <1>2, <1>4, <1>6 DEF Prefix
<1>8. \A i \in Unsaved' : Early(log'[At(i)'], PartOf(i)')
  <2> SUFFICES ASSUME NEW i \in Unsaved' PROVE Early(log'[At(i)'], PartOf(i)')
    OBVIOUS
  <2>1. CASE i \in Unsaved
    <3>1. Early(log'[At(i)], PartOf(i))
      BY <1>5, <1>6, <2>1 DEF Prefix
    <3> QED
      BY <1>1, <2>1, <3>1
  <2>2. CASE i = n
    BY <1>1, <2>2 DEF Early
  <2> QED
    BY <1>1, <2>1, <2>2
<1> QED
  BY <1>3, <1>7, <1>8 DEF Prefix

LEMMA FedNested ==
    ASSUME LogInv, NEW roll \in BOOLEAN, NEW n, NEW k, FedAt(n, k, roll)
    PROVE  /\ Nested(log')
           /\ window' \subseteq EventsIn(log') /\ \A j \in DOMAIN log' : Early(window', log'[j])
<1>1. /\ DOMAIN log' = DOMAIN log \cup {k} /\ log'[k] = Fed(roll)
      /\ \A m \in DOMAIN log : m # k => log'[m] = log[m]
  BY DEF FedAt, GrownBy
<1>2. \A j \in DOMAIN log : j \in Nat /\ k \in Nat /\ j <= k
  <2>1. /\ Len(log) \in Nat /\ DOMAIN log = 1 .. Len(log)
        /\ k = Len(log) \/ k = Len(log) + 1
    BY DEF FedAt, GrownBy
  <2> QED
    BY <2>1
<1>3. Fed(roll) \subseteq window \cup {emitted + 1} /\ (window' = Fed(roll) \/ window' = {})
  BY DEF Fed, FedAt
<1>4. \A j \in DOMAIN log : Early(Fed(roll), log[j])
  <2>1. \A j \in DOMAIN log : \A y \in log[j] : ~(emitted + 1 < y)
    BY NewIsLast DEF LogInv, Base, TypeInv, BoundInv
  <2>2. \A j \in DOMAIN log : Early(window, log[j])
    BY DEF LogInv
  <2> QED
    BY <1>3, <2>1, <2>2 DEF Early
<1>5. \A j \in DOMAIN log' : Early(Fed(roll), log'[j])
  <2>1. Early(Fed(roll), Fed(roll))
    BY DEF Early
  <2> QED
    BY <1>1, <1>4, <2>1
<1>6. Nested(log')
  <2> SUFFICES ASSUME NEW j \in DOMAIN log', NEW m \in DOMAIN log', j < m
               PROVE  Early(log'[m], log'[j])
    BY DEF Nested
  <2>1. CASE m = k
    BY <1>1, <1>5, <2>1
  <2>2. CASE m # k
    <3>1. m \in DOMAIN log /\ j # k
      BY <1>1, <1>2, <2>2
    <3>2. j \in DOMAIN log /\ log'[j] = log[j] /\ log'[m] = log[m]
      BY <1>1, <2>2, <3>1
    <3> QED
      BY <3>1, <3>2 DEF LogInv, Nested
  <2> QED
    BY <2>1, <2>2
<1>7. window' \subseteq EventsIn(log')
  BY <1>1, <1>3 DEF EventsIn
<1>8. \A j \in DOMAIN log' : Early(window', log'[j])
  BY <1>3, <1>5 DEF Early
<1> QED
  BY <1>6, <1>7, <1>8

LEMMA LogRests ==
    ASSUME LogInv, Rests
    PROVE  /\ Nested(log')
           /\ window' \subseteq EventsIn(log') /\ \A j \in DOMAIN log' : Early(window', log'[j])
<1>1. log' = log /\ window' \subseteq window
  BY DEF Rests
<1> QED
  BY <1>1 DEF LogInv, Early

\* The pre-warm brings back what the store has.
LEMMA StartsAsStored ==
    ASSUME Base, TypeOK', StoreIsComplete, InitializeStore
    PROVE  /\ log' = store /\ store' = store /\ (MaxCrashes = 0 => store = <<>>)
           /\ openSlot' = 0 /\ window' = {} /\ held' = {} /\ writes' = <<>>
           /\ Kept' /\ Prefix'
           /\ inplaceOk' => CanReplace
           /\ \A c \in Clients : conn[c] # "on" /\ conn'[c] = conn[c] /\ stream'[c] = <<>>
           /\ cursor' = cursor /\ seen' = seen
<1>1. log' = store' /\ Aligned'
  BY PreloadAligns DEF StoreIsComplete, LogIsRebuilt
<1>2. /\ writes' = <<>> /\ openSlot' = 0 /\ store' = store /\ store \in Seq(Part) /\ proc # "up"
      /\ crashes \in 0 .. MaxCrashes /\ held' = {} /\ window' = {}
  BY DEF Base, Idle, TypeInv, TypeOK, FreshUntilReady, InitializeStore, storeVars
<1>3. AppendsQueued' = {} /\ ReplacesQueued' = {} /\ Unsaved' = {}
  BY <1>2 DEF AppendsQueued, ReplacesQueued, Unsaved
<1>4. Kept' /\ Prefix'
  BY <1>1, <1>3 DEF Kept, Within, Ordered, Prefix, Early
<1>5. MaxCrashes = 0 => store = <<>>
  BY <1>2 DEF Base, FirstStart
<1>6. \A c \in Clients : conn[c] # "on" /\ stream[c] = <<>>
  BY <1>2 DEF Base, Idle
<1>7. UNCHANGED <<conn, stream, cursor, seen>> /\ (inplaceOk' => CanReplace)
  BY DEF InitializeStore, clientVars
<1> QED
  BY <1>1, <1>2, <1>4, <1>5, <1>6, <1>7

LEMMA LogStep ==
    ASSUME SegmentsOnly, NoCancel, ReplaysAreFinal, StoreIsComplete
    PROVE  LogInv /\ [Next]_vars => LogInv'
<1> SUFFICES ASSUME LogInv, [Next]_vars PROVE LogInv'
  OBVIOUS
<1>1. Base /\ Base' /\ TypeInv /\ TypeOK /\ TypeInv' /\ TypeOK' /\ BoundInv' /\ WindowInv'
  BY BaseStep, WindowStep, BoundStep DEF LogInv, Base, TypeInv
<1>2. CASE proc' # "up"
  <2>1. writes' = <<>> /\ held' = {} /\ detached' = {} /\ window' = {}
    BY <1>1, <1>2 DEF Base, Idle
  <2>2. log' = <<>> /\ openSlot' = 0
    BY <1>1, <1>2 DEF TypeInv, FreshUntilReady
  <2>3. store' = store
    <3>1. ~DetachedCall
      BY DEF LogInv, DetachedCall
    <3> QED
      BY <1>2, <3>1 DEF Next, Run, Reader, Environment, InitializeStore, Emit, MayEmit, StoreCall,
         ResumeHolder, Finish, QueueInterruptMark, Subscribe, Receive, EndStream, Disconnect,
         Interrupt, Cancel, CancelLate, Crash, Recover, vars, storeVars, runVars
  <2>4. Nested(store') <=> Nested(store)
    BY <2>3
  <2> QED
    BY <1>1, <1>2, <2>1, <2>2, <2>4 DEF LogInv, Nested, EventsIn
<1>3. CASE proc # "up" /\ proc' = "up"
  <2>1. InitializeStore
    BY <1>3 DEF Next, Run, Reader, Environment, Emit, MayEmit, StoreCall, ResumeHolder,
       Finish, QueueInterruptMark, Subscribe, Receive, EndStream, Disconnect, DetachedCall,
       Interrupt, Cancel, CancelLate, Crash, Recover, vars, storeVars, runVars
  <2>2. /\ log' = store /\ store' = store /\ (MaxCrashes = 0 => store = <<>>)
        /\ openSlot' = 0 /\ window' = {} /\ held' = {}
        /\ Kept' /\ Prefix'
        /\ inplaceOk' => CanReplace
    BY <1>1, <2>1, StartsAsStored
  <2>3. Nested(store)
    BY <2>2 DEF LogInv, Nested
  <2>4. detached' = {}
    BY <2>1 DEF LogInv, InitializeStore
  <2>5. Nested(log') /\ Nested(store')
    BY <2>2, <2>3
  <2>6. TrustReplay => ~inplaceOk' \/ "snapshot" \notin Policies
    BY <2>2 DEF ReplaysAreFinal
  <2> QED
    BY <1>1, <2>2, <2>4, <2>5, <2>6 DEF LogInv, EventsIn, Early
<1>4. CASE proc = "up" /\ proc' = "up"
  <2>1. detached' = {}
    BY <1>1, <1>4, DriverStep DEF LogInv, Cancel, CancelLate, NoCancel, Crash, DetachedCall
  <2>2. CASE \E roll \in BOOLEAN : FeedsOne(roll)
    <3>1. PICK roll \in BOOLEAN : FeedsOne(roll)
      BY <2>2
    <3>2. PICK n, k : FedAt(n, k, roll)
      BY <1>1, <3>1, FeedsOneAt
    <3>3. /\ Nested(log')
          /\ window' \subseteq EventsIn(log') /\ \A j \in DOMAIN log' : Early(window', log'[j])
      BY <3>2, FedNested
    <3>4. /\ held' = {} /\ store' = store /\ inplaceOk' = inplaceOk
          /\ openSlot' = SlotAfter(roll) /\ (roll => "snapshot" \in Policies)
      BY <3>1, <3>2 DEF FedAt, FeedsOne, LogInv
    <3>5. MaxCrashes # 0 => Nested(store') /\ Kept' /\ Prefix'
      <4>1. MaxCrashes # 0 => Kept' /\ Prefix'
        BY <1>1, <1>4, <3>2, FedPrefix DEF LogInv
      <4>2. Nested(store') <=> Nested(store)
        BY <3>4
      <4> QED
        BY <4>1, <4>2 DEF LogInv
    <3>6. TrustReplay => /\ openSlot' = 0
                         /\ ~inplaceOk' \/ "snapshot" \notin Policies
      BY <1>4, <3>4 DEF LogInv, SlotAfter, Overwrites
    <3> QED
      BY <1>1, <2>1, <3>3, <3>4, <3>5, <3>6 DEF LogInv
  <2>3. CASE Rests
    <3>1. /\ Nested(log')
          /\ window' \subseteq EventsIn(log') /\ \A j \in DOMAIN log' : Early(window', log'[j])
      BY <2>3, LogRests
    <3>2. held' = {} /\ openSlot' = openSlot /\ (inplaceOk' => inplaceOk) /\ log' = log
      BY <2>3 DEF Rests, LogInv
    <3>3. MaxCrashes # 0 => Kept' /\ Prefix'
      <4> SUFFICES ASSUME MaxCrashes # 0 PROVE Kept' /\ Prefix'
        OBVIOUS
      <4>1. Kept /\ Prefix /\ ~LosesAppend
        BY <1>4 DEF LogInv, StoreIsComplete, LosesAppend
      <4>2. CASE Quiet
        BY <1>1, <4>1, <4>2, ShiftedKept, ShiftedPrefix DEF Quiet
      <4>3. CASE SavesAppend
        BY <1>1, <4>1, <4>3, SaveAppendKept, SavedPrefix
      <4>4. CASE SavesReplace \/ LosesReplace
        BY <1>1, <4>1, <4>4, ReplaceKept, SavedPrefix
      <4> QED
        BY <2>3, <4>1, <4>2, <4>3, <4>4 DEF Rests
    <3>4. MaxCrashes # 0 => Nested(store')
      BY <1>1, <3>1, <3>3, StoreStaysNested
    <3> QED
      BY <1>1, <1>4, <2>1, <3>1, <3>2, <3>3, <3>4 DEF LogInv
  <2> QED
    BY <1>1, <1>4, <2>2, <2>3, PlainMoves
<1> QED
  BY <1>2, <1>3, <1>4

-------------------------------------------------------------------------------
(***************************************************************************)
(* One step of one subscriber                                              *)
(***************************************************************************)
\* Nothing or one delivery enters the queue of the subscriber.
LEMMA GotSame ==
    ASSUME TypeOK, NEW c \in Clients, seen'[c] = seen[c]
    PROVE  /\ Len(stream[c]) \in Nat /\ DOMAIN stream[c] = 1 .. Len(stream[c])
           /\ stream'[c] = stream[c] =>
                /\ \A i : Got(c, i)' = Got(c, i)
                /\ Sent(c)' = Sent(c)
           /\ \A x : stream'[c] = Append(stream[c], x) =>
                /\ DOMAIN stream'[c] = 1 .. Len(stream[c]) + 1
                /\ \A i \in DOMAIN stream[c] : /\ Got(c, i)' = Got(c, i)
                                               /\ stream'[c][i] = stream[c][i]
                /\ stream'[c][Len(stream[c]) + 1] = x
                /\ \A i : i = Len(stream[c]) + 1 => Got(c, i)' = Sent(c) \cup x.events
                /\ Sent(c)' = Sent(c) \cup x.events
<1>1. stream[c] \in Seq(Delivery) /\ Len(stream[c]) \in Nat /\ DOMAIN stream[c] = 1 .. Len(stream[c])
  BY DEF TypeOK
<1>2. ASSUME stream'[c] = stream[c]
      PROVE  (\A i : Got(c, i)' = Got(c, i)) /\ Sent(c)' = Sent(c)
  BY <1>2 DEF Got, Sent
<1>3. ASSUME NEW x, stream'[c] = Append(stream[c], x)
      PROVE  /\ DOMAIN stream'[c] = 1 .. Len(stream[c]) + 1
             /\ \A i \in DOMAIN stream[c] : /\ Got(c, i)' = Got(c, i)
                                            /\ stream'[c][i] = stream[c][i]
             /\ stream'[c][Len(stream[c]) + 1] = x
             /\ \A i : i = Len(stream[c]) + 1 => Got(c, i)' = Sent(c) \cup x.events
             /\ Sent(c)' = Sent(c) \cup x.events
  <2>1. PICK n \in Nat : n = Len(stream[c])
    BY <1>1
  <2>2. /\ \A i \in 1 .. n : stream'[c][i] = stream[c][i]
        /\ stream'[c][n + 1] = x /\ DOMAIN stream'[c] = 1 .. n + 1 /\ Len(stream'[c]) = n + 1
    BY <1>1, <1>3, <2>1
  <2>3. ASSUME NEW i \in 1 .. n PROVE Got(c, i)' = Got(c, i)
    <3>1. \A j \in 1 .. i : j \in 1 .. n
      BY <2>1
    <3>2. \A j \in 1 .. i : stream'[c][j] = stream[c][j]
      BY <2>2, <3>1
    <3> QED
      BY <3>2 DEF Got
  <2>4. Sent(c) = seen[c] \cup UNION {stream[c][j].events : j \in 1 .. n}
    BY <2>1 DEF Sent, Got
  <2>5. seen'[c] \cup UNION {stream'[c][j].events : j \in 1 .. n + 1} = Sent(c) \cup x.events
    <3>1. \A j : j \in 1 .. n + 1 <=> (j \in 1 .. n \/ j = n + 1)
      BY <2>1
    <3> QED
      BY <2>2, <2>4, <3>1
  <2>6. Sent(c)' = Sent(c) \cup x.events
    BY <2>2, <2>5 DEF Sent, Got
  <2>7. \A i : i = n + 1 => Got(c, i)' = Sent(c) \cup x.events
    BY <2>5 DEF Got
  <2> QED
    BY <1>1, <2>1, <2>2, <2>3, <2>6, <2>7
<1> QED
  BY <1>1, <1>2, <1>3

\* The queue of the write lock moves up by d places.
QueueCarried(c, d) ==
    /\ \A i \in Queued(c)' : /\ i + d \in Queued(c) /\ i \in Nat
                             /\ writes'[i].event = writes[i + d].event
                             /\ writes'[i].cursor = writes[i + d].cursor
    /\ \A i \in Queued(c) : (i - d \in Queued(c)' \/ (i = 1 /\ d = 1)) /\ i \in Nat

LEMMA DueSame ==
    ASSUME NEW c \in Clients, NEW d \in {0, 1}, QueueCarried(c, d), Sent(c)' = Sent(c),
           d = 1 => 1 \notin Queued(c)
    PROVE  /\ \A i \in Queued(c)' : Due(c, i)' = Due(c, i + d)
           /\ AllDue(c)' = AllDue(c)
<1>1. /\ \A i \in Queued(c)' : /\ i + d \in Queued(c) /\ i \in Nat
                               /\ writes'[i].event = writes[i + d].event
      /\ \A i \in Queued(c) : i - d \in Queued(c)' /\ i \in Nat /\ (i - d) + d = i
  BY DEF QueueCarried
<1>2. ASSUME NEW i \in Queued(c)' PROVE Due(c, i)' = Due(c, i + d)
  <2>1. {writes'[j].event : j \in {q \in Queued(c)' : q <= i}}
            \subseteq {writes[j].event : j \in {q \in Queued(c) : q <= i + d}}
    <3> SUFFICES ASSUME NEW j \in Queued(c)', j <= i
                 PROVE  \E m \in Queued(c) : m <= i + d /\ writes[m].event = writes'[j].event
      OBVIOUS
    <3>1. j + d \in Queued(c) /\ writes[j + d].event = writes'[j].event /\ j + d <= i + d
      BY <1>1
    <3> QED
      BY <3>1
  <2>2. {writes[j].event : j \in {q \in Queued(c) : q <= i + d}}
            \subseteq {writes'[j].event : j \in {q \in Queued(c)' : q <= i}}
    <3> SUFFICES ASSUME NEW j \in Queued(c), j <= i + d
                 PROVE  \E m \in Queued(c)' : m <= i /\ writes'[m].event = writes[j].event
      OBVIOUS
    <3>1. j - d \in Queued(c)' /\ writes'[j - d].event = writes[(j - d) + d].event
          /\ (j - d) + d = j /\ j - d <= i
      BY <1>1
    <3> QED
      BY <3>1
  <2>3. {writes'[j].event : j \in {q \in Queued(c)' : q <= i}}
            = {writes[j].event : j \in {q \in Queued(c) : q <= i + d}}
    BY <2>1, <2>2
  <2> QED
    BY <2>3 DEF Due
<1>3. {writes'[j].event : j \in Queued(c)'} = {writes[j].event : j \in Queued(c)}
  <2>1. \A j \in Queued(c)' : \E m \in Queued(c) : writes[m].event = writes'[j].event
    BY <1>1
  <2>2. \A j \in Queued(c) : \E m \in Queued(c)' : writes'[m].event = writes[j].event
    <3> SUFFICES ASSUME NEW j \in Queued(c)
                 PROVE  \E m \in Queued(c)' : writes'[m].event = writes[j].event
      OBVIOUS
    <3>1. j - d \in Queued(c)' /\ writes'[j - d].event = writes[(j - d) + d].event
          /\ (j - d) + d = j
      BY <1>1
    <3> QED
      BY <3>1
  <2> QED
    BY <2>1, <2>2
<1> QED
  BY <1>2, <1>3 DEF AllDue

\* The emit that holds the lock delivers to c: what was due has been sent.
LEMMA DuePaid ==
    ASSUME NEW c \in Clients, QueueCarried(c, 1), 1 \in Queued(c),
           Sent(c)' = Sent(c) \cup {writes[1].event}
    PROVE  /\ \A i \in Queued(c)' : Due(c, i)' = Due(c, i + 1)
           /\ AllDue(c)' = AllDue(c)
           /\ Due(c, 1) = Sent(c)'
<1>1. /\ \A i \in Queued(c)' : /\ i + 1 \in Queued(c) /\ i \in Nat
                               /\ writes'[i].event = writes[i + 1].event
      /\ \A i \in Queued(c) : /\ i = 1 \/ i - 1 \in Queued(c)'
                              /\ i \in Nat /\ (i - 1) + 1 = i
  BY DEF QueueCarried
<1>0. \A q \in Queued(c) : q <= 1 => q = 1
  <2> SUFFICES ASSUME NEW q \in Queued(c), q <= 1 PROVE q = 1
    OBVIOUS
  <2>1. q \in DOMAIN writes /\ q \in Nat
    BY <1>1 DEF Queued
  <2>2. CASE q = 1
    BY <2>2
  <2>3. CASE q # 1
    <3>1. q - 1 \in Queued(c)'
      BY <1>1, <2>3
    <3>2. q - 1 \in Nat
      BY <1>1, <3>1
    <3> QED
      BY <2>1, <3>2
  <2> QED
    BY <2>2, <2>3
<1>2. ASSUME NEW i \in Queued(c)' PROVE Due(c, i)' = Due(c, i + 1)
  <2>1. \A j \in Queued(c)' : j <= i =>
            \E m \in Queued(c) : m <= i + 1 /\ writes[m].event = writes'[j].event
    <3> SUFFICES ASSUME NEW j \in Queued(c)', j <= i
                 PROVE  \E m \in Queued(c) : m <= i + 1 /\ writes[m].event = writes'[j].event
      OBVIOUS
    <3>1. j + 1 \in Queued(c) /\ writes[j + 1].event = writes'[j].event /\ j + 1 <= i + 1
      BY <1>1
    <3> QED
      BY <3>1
  <2>2. \A j \in Queued(c) : j <= i + 1 =>
            j = 1 \/ \E m \in Queued(c)' : m <= i /\ writes'[m].event = writes[j].event
    <3> SUFFICES ASSUME NEW j \in Queued(c), j <= i + 1, j # 1
                 PROVE  \E m \in Queued(c)' : m <= i /\ writes'[m].event = writes[j].event
      OBVIOUS
    <3>1. j - 1 \in Queued(c)' /\ writes'[j - 1].event = writes[(j - 1) + 1].event
          /\ (j - 1) + 1 = j /\ j - 1 <= i
      BY <1>1
    <3> QED
      BY <3>1
  <2>3. 1 <= i + 1
    BY <1>1
  <2>4. {writes'[j].event : j \in {q \in Queued(c)' : q <= i}} \cup {writes[1].event}
            = {writes[j].event : j \in {q \in Queued(c) : q <= i + 1}}
    BY <2>1, <2>2, <2>3
  <2> QED
    BY <2>4 DEF Due
<1>3. {writes'[j].event : j \in Queued(c)'} \cup {writes[1].event}
          = {writes[j].event : j \in Queued(c)}
  <2>1. \A j \in Queued(c)' : \E m \in Queued(c) : writes[m].event = writes'[j].event
    BY <1>1
  <2>2. \A j \in Queued(c) : j = 1 \/ \E m \in Queued(c)' : writes'[m].event = writes[j].event
    <3> SUFFICES ASSUME NEW j \in Queued(c), j # 1
                 PROVE  \E m \in Queued(c)' : writes'[m].event = writes[j].event
      OBVIOUS
    <3>1. j - 1 \in Queued(c)' /\ writes'[j - 1].event = writes[(j - 1) + 1].event
          /\ (j - 1) + 1 = j
      BY <1>1
    <3> QED
      BY <3>1
  <2> QED
    BY <2>1, <2>2
<1>4. {writes[j].event : j \in {q \in Queued(c) : q <= 1}} = {writes[1].event}
  BY <1>0
<1> QED
  BY <1>2, <1>3, <1>4 DEF AllDue, Due

\* Neither log nor store loses what a cursor vouches for.
LogStays ==
    /\ UNCHANGED <<log, openSlot>>
    /\ Len(store) \in Nat /\ Len(store') \in Nat /\ Len(store) <= Len(store')


LEMMA LogStaysFacts ==
    ASSUME LogStays
    PROVE  /\ log' = log /\ Limit' = Limit
           /\ \A k \in Nat : SafeIn(Limit, Len(store), k) => SafeIn(Limit', Len(store'), k)
<1>1. log' = log /\ openSlot' = openSlot /\ Limit' = Limit
  BY DEF LogStays, Limit
<1>2. Len(store) \in Nat /\ Len(store') \in Nat /\ Len(store) <= Len(store')
  BY DEF LogStays
<1> QED
  BY <1>1, <1>2 DEF SafeIn

LEMMA CursorsAreNat ==
    ASSUME TypeOK, NEW c \in Clients
    PROVE  /\ \A i \in DOMAIN stream[c] : stream[c][i].cursor \in Nat
           /\ cursor[c] \in Nat
           /\ \A i \in DOMAIN writes : writes[i].cursor \in Nat
<1>1. stream[c] \in Seq(Delivery) /\ writes \in Seq(Op) /\ cursor[c] \in Nat
  BY DEF TypeOK
<1>2. /\ \A i \in DOMAIN stream[c] : stream[c][i] \in Delivery
      /\ \A i \in DOMAIN writes : writes[i] \in Op
  BY <1>1
<1>3. \A i \in DOMAIN writes : writes[i].cursor \in Nat
  BY <1>2 DEF Op, OpOf
<1>4. \A i \in DOMAIN stream[c] : stream[c][i].cursor \in Nat
  BY <1>2 DEF Delivery
<1> QED
  BY <1>1, <1>3, <1>4

\* The three things that are always true of a client while the process is up.
HasInv(c) == Closed(seen[c]) /\ Vouches(cursor[c], seen[c]) /\ Safe(cursor[c])

StreamInv(c) ==
    \A i \in DOMAIN stream[c] :
      /\ Closed(Got(c, i))
      /\ Trusted(stream[c][i]) =>
            Vouches(stream[c][i].cursor, Got(c, i)) /\ Safe(stream[c][i].cursor)

DueInv(c) ==
    /\ \A i \in Queued(c) : Closed(Due(c, i)) /\ Vouches(writes[i].cursor, Due(c, i))
    /\ EventsIn(log) \subseteq AllDue(c)

LEMMA ClientParts ==
    ASSUME NEW c
    PROVE  /\ ClientInv(c) <=> HasInv(c) /\ (conn[c] = "on" => StreamInv(c) /\ DueInv(c))
           /\ ClientInv(c)' <=> HasInv(c)' /\ (conn'[c] = "on" => StreamInv(c)' /\ DueInv(c)')
  BY DEF ClientInv, HasInv, StreamInv, DueInv

LEMMA HasStays ==
    ASSUME TypeOK, LogStays, NEW c \in Clients, HasInv(c),
           seen'[c] = seen[c], cursor'[c] = cursor[c]
    PROVE  HasInv(c)'
  BY LogStaysFacts, CursorsAreNat DEF HasInv, Closed, Vouches, Safe

LEMMA StreamStays ==
    ASSUME TypeOK, LogStays, NEW c \in Clients, StreamInv(c), seen'[c] = seen[c],
           stream'[c] = stream[c]
    PROVE  StreamInv(c)'
<1>1. \A i : Got(c, i)' = Got(c, i)
  BY GotSame
<1> QED
  BY <1>1, LogStaysFacts, CursorsAreNat DEF StreamInv, Trusted, Closed, Vouches, Safe

\* One more delivery, which keeps what was promised.
LEMMA StreamGrows ==
    ASSUME TypeOK, LogStays, NEW c \in Clients, StreamInv(c), seen'[c] = seen[c],
           NEW x, stream'[c] = Append(stream[c], x),
           Closed(Sent(c) \cup x.events),
           Trusted(x) => /\ Vouches(x.cursor, Sent(c) \cup x.events)
                         /\ Safe(x.cursor) /\ x.cursor \in Nat
    PROVE  StreamInv(c)'
<1>1. /\ DOMAIN stream[c] = 1 .. Len(stream[c]) /\ Len(stream[c]) \in Nat
      /\ DOMAIN stream'[c] = 1 .. Len(stream[c]) + 1
      /\ \A i \in DOMAIN stream[c] : /\ Got(c, i)' = Got(c, i)
                                     /\ stream'[c][i] = stream[c][i]
      /\ stream'[c][Len(stream[c]) + 1] = x
      /\ \A i : i = Len(stream[c]) + 1 => Got(c, i)' = Sent(c) \cup x.events
  BY GotSame
<1>2. \A i \in DOMAIN stream'[c] : i \in DOMAIN stream[c] \/ i = Len(stream[c]) + 1
  BY <1>1
<1>3. ASSUME NEW i \in DOMAIN stream[c]
      PROVE  /\ ClosedIn(log', Got(c, i)')
             /\ Trusted(stream'[c][i]) =>
                  /\ Covers(Got(c, i)', log', stream'[c][i].cursor)
                  /\ SafeIn(Limit', Len(store'), stream'[c][i].cursor)
  BY <1>1, LogStaysFacts, CursorsAreNat DEF StreamInv, Closed, Vouches, Safe
<1>4. ASSUME NEW i, i = Len(stream[c]) + 1
      PROVE  /\ ClosedIn(log', Got(c, i)')
             /\ Trusted(stream'[c][i]) =>
                  /\ Covers(Got(c, i)', log', stream'[c][i].cursor)
                  /\ SafeIn(Limit', Len(store'), stream'[c][i].cursor)
  BY <1>1, <1>4, LogStaysFacts DEF Closed, Vouches, Safe
<1> QED
  BY <1>2, <1>3, <1>4 DEF StreamInv, Trusted, Closed, Vouches, Safe

LEMMA DueStays ==
    ASSUME LogStays, NEW c \in Clients, DueInv(c), NEW d \in {0, 1}, QueueCarried(c, d),
           \/ Sent(c)' = Sent(c) /\ (d = 1 => 1 \notin Queued(c))
           \/ d = 1 /\ 1 \in Queued(c) /\ Sent(c)' = Sent(c) \cup {writes[1].event}
    PROVE  DueInv(c)'
<1>1. (\A i \in Queued(c)' : Due(c, i)' = Due(c, i + d)) /\ AllDue(c)' = AllDue(c)
  BY DueSame, DuePaid
<1>2. \A i \in Queued(c)' : i + d \in Queued(c) /\ writes'[i].cursor = writes[i + d].cursor
  BY DEF QueueCarried
<1> QED
  BY <1>1, <1>2, LogStaysFacts DEF DueInv, Closed, Vouches

LEMMA SentClosed ==
    ASSUME TypeOK, NEW c \in Clients, HasInv(c), StreamInv(c)
    PROVE  Closed(Sent(c))
<1>1. Len(stream[c]) \in Nat /\ DOMAIN stream[c] = 1 .. Len(stream[c])
  BY GotSame DEF TypeOK
<1>2. CASE Len(stream[c]) = 0
  <2>1. Sent(c) = seen[c]
    BY <1>2 DEF Sent, Got
  <2> QED
    BY <2>1 DEF HasInv
<1>3. CASE Len(stream[c]) # 0
  <2>1. Len(stream[c]) \in DOMAIN stream[c]
    BY <1>1, <1>3
  <2> QED
    BY <2>1 DEF Sent, StreamInv
<1> QED
  BY <1>2, <1>3

\* What a step of somebody else, or the emit that holds the lock, is to c.
StreamFed(c, d) ==
    \/ /\ d = 1 => 1 \notin Queued(c)
       /\ stream'[c] = stream[c] \/ stream'[c] = Append(stream[c], Sentinel)
    \/ /\ d = 1 /\ 1 \in Queued(c) /\ Safe(writes[1].cursor)
       /\ stream'[c] = Append(stream[c], Live(writes[1].event, writes[1].cursor))

LEMMA ClientStays ==
    ASSUME TypeOK, LogStays, NEW c \in Clients, ClientInv(c),
           seen'[c] = seen[c], cursor'[c] = cursor[c],
           conn'[c] = "on" =>
             conn[c] = "on" /\ \E d \in {0, 1} : QueueCarried(c, d) /\ StreamFed(c, d)
    PROVE  ClientInv(c)'
<1>1. HasInv(c)'
  BY ClientParts, HasStays
<1>2. ASSUME conn'[c] = "on" PROVE StreamInv(c)' /\ DueInv(c)'
  <2>1. HasInv(c) /\ StreamInv(c) /\ DueInv(c)
    BY <1>2, ClientParts
  <2>2. PICK d \in {0, 1} : QueueCarried(c, d) /\ StreamFed(c, d)
    BY <1>2
  <2>3. CASE stream'[c] = stream[c] /\ (d = 1 => 1 \notin Queued(c))
    <3>1. Sent(c)' = Sent(c)
      BY <2>3, GotSame
    <3>2. StreamInv(c)'
      BY <2>1, <2>3, StreamStays
    <3>3. DueInv(c)'
      BY <2>1, <2>2, <2>3, <3>1, DueStays
    <3> QED
      BY <3>2, <3>3
  <2>4. CASE stream'[c] = Append(stream[c], Sentinel) /\ (d = 1 => 1 \notin Queued(c))
    <3>1. Sent(c) \cup Sentinel.events = Sent(c) /\ ~Trusted(Sentinel)
      BY DEF Sentinel, Trusted
    <3>2. Sent(c)' = Sent(c)
      BY <2>4, <3>1, GotSame
    <3>3. Closed(Sent(c) \cup Sentinel.events)
      BY <2>1, <3>1, SentClosed
    <3>4. StreamInv(c)'
      BY <2>1, <2>4, <3>1, <3>3, StreamGrows
    <3>5. DueInv(c)'
      BY <2>1, <2>2, <2>4, <3>2, DueStays
    <3> QED
      BY <3>4, <3>5
  <2>5. CASE /\ d = 1 /\ 1 \in Queued(c) /\ Safe(writes[1].cursor)
             /\ stream'[c] = Append(stream[c], Live(writes[1].event, writes[1].cursor))
    <3> DEFINE x == Live(writes[1].event, writes[1].cursor)
    <3>1. x.events = {writes[1].event} /\ x.cursor = writes[1].cursor
      BY DEF Live
    <3>2. Sent(c)' = Sent(c) \cup {writes[1].event}
      BY <2>5, <3>1, GotSame
    <3>3. Due(c, 1) = Sent(c) \cup {writes[1].event}
      BY <2>2, <2>5, <3>2, DuePaid
    <3>4. Closed(Due(c, 1)) /\ Vouches(writes[1].cursor, Due(c, 1))
      BY <2>1, <2>5 DEF DueInv
    <3>5. Closed(Sent(c) \cup x.events) /\ Vouches(x.cursor, Sent(c) \cup x.events)
      BY <3>1, <3>3, <3>4
    <3>6. x.cursor \in Nat /\ Safe(x.cursor)
      BY <2>5, <3>1, CursorsAreNat DEF Queued
    <3>7. stream'[c] = Append(stream[c], x)
      BY <2>5
    <3> HIDE DEF x
    <3>8. StreamInv(c)'
      BY <2>1, <3>5, <3>6, <3>7, StreamGrows
    <3>9. DueInv(c)'
      BY <2>1, <2>2, <2>5, <3>2, DueStays
    <3> QED
      BY <3>8, <3>9
  <2> QED
    BY <2>2, <2>3, <2>4, <2>5 DEF StreamFed
<1> QED
  BY <1>1, <1>2, ClientParts

LEMMA GotNext ==
    ASSUME TypeOK, NEW c \in Clients, stream[c] # <<>>,
           seen'[c] = seen[c] \cup stream[c][1].events, stream'[c] = Tail(stream[c])
    PROVE  /\ 1 \in DOMAIN stream[c] /\ seen'[c] = Got(c, 1)
           /\ \A i \in DOMAIN stream'[c] : /\ i + 1 \in DOMAIN stream[c]
                                           /\ stream'[c][i] = stream[c][i + 1]
                                           /\ Got(c, i)' = Got(c, i + 1)
           /\ Sent(c)' = Sent(c)
<1>1. PICK n \in Nat : n + 1 = Len(stream[c])
  <2>1. stream[c] \in Seq(Delivery)
    BY DEF TypeOK
  <2>2. Len(stream[c]) \in Nat /\ Len(stream[c]) # 0
    BY <2>1
  <2>3. Len(stream[c]) - 1 \in Nat /\ (Len(stream[c]) - 1) + 1 = Len(stream[c])
    BY <2>2
  <2> QED
    BY <2>3
<1>2. /\ DOMAIN stream[c] = 1 .. n + 1 /\ 1 \in DOMAIN stream[c]
      /\ DOMAIN stream'[c] = 1 .. n /\ Len(stream'[c]) = n
      /\ \A i \in 1 .. n : stream'[c][i] = stream[c][i + 1]
  <2>1. stream[c] \in Seq(Delivery)
    BY DEF TypeOK
  <2> QED
    BY <1>1, <2>1
<1>3. seen'[c] = Got(c, 1)
  <2>1. 1 .. 1 = {1}
    OBVIOUS
  <2> QED
    BY <2>1 DEF Got
<1>4. \A i \in 0 .. n : seen'[c] \cup UNION {stream'[c][j].events : j \in 1 .. i} = Got(c, i + 1)
  <2> SUFFICES ASSUME NEW i \in 0 .. n
               PROVE  seen'[c] \cup UNION {stream'[c][j].events : j \in 1 .. i} = Got(c, i + 1)
    OBVIOUS
  <2>1. \A j \in 1 .. i : j + 1 \in 1 .. i + 1 /\ stream'[c][j] = stream[c][j + 1]
    BY <1>2
  <2>2. \A j \in 1 .. i + 1 : j = 1 \/ (j - 1 \in 1 .. i /\ stream'[c][j - 1] = stream[c][j])
    <3> SUFFICES ASSUME NEW j \in 1 .. i + 1, j # 1
                 PROVE  j - 1 \in 1 .. i /\ stream'[c][j - 1] = stream[c][j]
      OBVIOUS
    <3>1. j - 1 \in 1 .. i /\ j - 1 \in 1 .. n /\ (j - 1) + 1 = j
      OBVIOUS
    <3> QED
      BY <1>2, <3>1
  <2>3. 1 \in 1 .. i + 1
    OBVIOUS
  <2>4. ASSUME NEW x PROVE (\E j \in 1 .. i : x \in stream'[c][j].events) \/ x \in stream[c][1].events
                           <=> \E j \in 1 .. i + 1 : x \in stream[c][j].events
    <3>1. ASSUME NEW j \in 1 .. i, x \in stream'[c][j].events
          PROVE  \E m \in 1 .. i + 1 : x \in stream[c][m].events
      BY <2>1, <3>1
    <3>2. ASSUME NEW j \in 1 .. i + 1, x \in stream[c][j].events, x \notin stream[c][1].events
          PROVE  \E m \in 1 .. i : x \in stream'[c][m].events
      BY <2>2, <3>2
    <3> QED
      BY <2>3, <3>1, <3>2
  <2>5. \A x : x \in UNION {stream'[c][j].events : j \in 1 .. i}
                 <=> \E j \in 1 .. i : x \in stream'[c][j].events
    OBVIOUS
  <2>6. \A x : x \in Got(c, i + 1)
                 <=> x \in seen[c] \/ \E j \in 1 .. i + 1 : x \in stream[c][j].events
    BY DEF Got
  <2>7. \A x : x \in seen'[c] \cup UNION {stream'[c][j].events : j \in 1 .. i}
                 <=> x \in Got(c, i + 1)
    BY <2>4, <2>5, <2>6
  <2> QED
    BY <2>7
<1>5. \A i \in 1 .. n : Got(c, i)' = Got(c, i + 1)
  <2>1. \A i \in 1 .. n : i \in 0 .. n
    OBVIOUS
  <2> QED
    BY <1>4, <2>1 DEF Got
<1>6. Sent(c)' = Got(c, n + 1)
  <2>1. n \in 0 .. n
    OBVIOUS
  <2>2. Sent(c)' = seen'[c] \cup UNION {stream'[c][j].events : j \in 1 .. Len(stream'[c])}
    BY DEF Sent, Got
  <2> QED
    BY <1>2, <1>4, <2>1, <2>2
<1>7. Sent(c) = Got(c, n + 1)
  BY <1>1 DEF Sent
<1> QED
  BY <1>2, <1>3, <1>5, <1>6, <1>7

LEMMA ReceiveKeeps ==
    ASSUME TypeOK, TypeOK', NEW c \in Clients, ClientInv(c), Receive(c)
    PROVE  ClientInv(c)'
<1>1. LogStays /\ writes' = writes
  BY DEF Receive, runVars, storeVars, LogStays, TypeOK
<1>2. HasInv(c) /\ StreamInv(c) /\ DueInv(c) /\ stream[c] # <<>>
  BY ClientParts DEF Receive
<1>3. CASE conn'[c] # "on"
  <2>1. seen'[c] = seen[c] /\ cursor'[c] = cursor[c]
    BY <1>3 DEF Receive
  <2> QED
    BY <1>1, <1>2, <1>3, <2>1, HasStays, ClientParts
<1>4. CASE conn'[c] = "on"
  <2>1. Head(stream[c]) = stream[c][1] /\ stream[c] \in Seq(Delivery)
    BY <1>2 DEF TypeOK
  <2>2. /\ seen'[c] = seen[c] \cup stream[c][1].events /\ stream'[c] = Tail(stream[c])
        /\ cursor'[c] = IF stream[c][1].kind = "live" \/ TrustReplay
                        THEN stream[c][1].cursor ELSE cursor[c]
        /\ stream[c][1].kind # "end"
    <3>1. Head(stream[c]).kind # "end"
      <4>1. conn'[c] # "draining"
        BY <1>4
      <4>2. conn \in [Clients -> {"off", "on", "draining", "ended"}]
        BY DEF TypeOK
      <4> QED
        BY <4>1, <4>2 DEF Receive
    <3>2. /\ seen' = [seen EXCEPT ![c] = @ \cup Head(stream[c]).events]
          /\ cursor' = IF Head(stream[c]).kind = "live" \/ TrustReplay
                       THEN [cursor EXCEPT ![c] = Head(stream[c]).cursor]
                       ELSE cursor
          /\ stream' = [stream EXCEPT ![c] = Tail(@)]
      BY <3>1 DEF Receive
    <3>3. /\ seen \in [Clients -> SUBSET Events] /\ cursor \in [Clients -> Nat]
          /\ stream \in [Clients -> Seq(Delivery)]
      BY DEF TypeOK
    <3> QED
      BY <2>1, <3>1, <3>2, <3>3
  <2>3. /\ 1 \in DOMAIN stream[c] /\ seen'[c] = Got(c, 1)
        /\ \A i \in DOMAIN stream'[c] : /\ i + 1 \in DOMAIN stream[c]
                                        /\ stream'[c][i] = stream[c][i + 1]
                                        /\ Got(c, i)' = Got(c, i + 1)
        /\ Sent(c)' = Sent(c)
    BY <1>2, <2>2, GotNext
  <2>4. HasInv(c)'
    <3>0. stream[c][1] \in Delivery
      BY <2>1, <2>3
    <3>1. stream[c][1].kind \in {"live", "replay", "end"}
      BY <3>0 DEF Delivery
    <3>2. /\ Closed(Got(c, 1))
          /\ Trusted(stream[c][1]) =>
                Vouches(stream[c][1].cursor, Got(c, 1)) /\ Safe(stream[c][1].cursor)
      BY <1>2, <2>3 DEF StreamInv
    <3>3. Vouches(cursor[c], Got(c, 1))
      <4>1. seen[c] \subseteq Got(c, 1)
        BY DEF Got
      <4> QED
        BY <1>2, <4>1 DEF HasInv, Vouches, Covers
    <3>4. Vouches(cursor'[c], Got(c, 1)) /\ Safe(cursor'[c])
      <4>1. CASE stream[c][1].kind = "live" \/ TrustReplay
        <5>1. Trusted(stream[c][1])
          BY <2>2, <3>1, <4>1 DEF Trusted
        <5> QED
          BY <2>2, <3>2, <4>1, <5>1
      <4>2. CASE ~(stream[c][1].kind = "live" \/ TrustReplay)
        BY <1>2, <2>2, <3>3, <4>2 DEF HasInv
      <4> QED
        BY <4>1, <4>2
    <3>5. cursor'[c] \in Nat
      BY DEF TypeOK
    <3> QED
      BY <1>1, <2>3, <3>2, <3>4, <3>5, LogStaysFacts DEF HasInv, Closed, Vouches, Safe
  <2>5. StreamInv(c)'
    <3>1. \A i \in DOMAIN stream'[c] : stream'[c][i].cursor \in Nat
      BY <2>3, CursorsAreNat
    <3> QED
      BY <1>1, <1>2, <2>3, <3>1, LogStaysFacts DEF StreamInv, Trusted, Closed, Vouches, Safe
  <2>6. QueueCarried(c, 0)
    <3>1. Queued(c)' = Queued(c)
      BY <1>1 DEF Queued
    <3>2. \A i \in Queued(c) : i \in Nat /\ i + 0 = i /\ i - 0 = i
      BY QueueIsShaped DEF QueueShape, Queued
    <3> QED
      BY <1>1, <3>1, <3>2 DEF QueueCarried
  <2>7. DueInv(c)'
    BY <1>1, <1>2, <2>3, <2>6, DueStays
  <2> QED
    BY <2>4, <2>5, <2>7, ClientParts
<1> QED
  BY <1>3, <1>4

\* Whoever has the whole log misses nothing.
LEMMA WholeLog ==
    ASSUME NEW l, NEW S, EventsIn(l) \subseteq S
    PROVE  ClosedIn(l, S) /\ \A k : Covers(S, l, k)
<1>1. \A m \in DOMAIN l : l[m] \subseteq S
  BY DEF EventsIn
<1> QED
  BY <1>1 DEF ClosedIn, Covers

\* What a subscription replays.
LEMMA SubscribeStream ==
    ASSUME TypeOK, NEW c \in Clients, Subscribe(c)
    PROVE  \E n \in Nat :
             /\ DOMAIN stream'[c] \in {1 .. n, 1 .. n + 1}
             /\ \A i \in 1 .. n : /\ cursor[c] + i \in DOMAIN log
                                  /\ stream'[c][i] = Replay(log[cursor[c] + i], cursor[c] + i)
             /\ \A i \in DOMAIN stream'[c] : i \notin 1 .. n => stream'[c][i] = Sentinel
             /\ \A m \in DOMAIN log : m <= cursor[c] \/ m - cursor[c] \in 1 .. n
             /\ DOMAIN stream'[c] = 1 .. Len(stream'[c]) /\ Len(stream'[c]) \in Nat
<1>1. cursor[c] \in Nat /\ log \in Seq(Part) /\ stream \in [Clients -> Seq(Delivery)]
  BY DEF TypeOK
<1>2. PICK n : n = Len(log) - MinOf(cursor[c], Len(log))
  OBVIOUS
<1>3. PICK K, L \in Nat : K = cursor[c] /\ L = Len(log) /\ DOMAIN log = 1 .. L
  BY <1>1
<1>4. /\ n \in Nat
      /\ \A i \in 1 .. n : K + i \in 1 .. L
      /\ \A m \in 1 .. L : m <= K \/ m - K \in 1 .. n
  <2>1. CASE K <= L
    <3>1. n = L - K
      BY <1>2, <1>3, <2>1 DEF MinOf
    <3>2. n \in Nat /\ L = K + n
      BY <1>3, <2>1, <3>1
    <3>3. \A i \in 1 .. n : K + i \in 1 .. L
      BY <1>3, <3>2
    <3>4. \A m \in 1 .. L : m <= K \/ m - K \in 1 .. n
      BY <1>3, <3>2
    <3> QED
      BY <3>2, <3>3, <3>4
  <2>2. CASE ~(K <= L)
    <3>1. n = L - L
      <4>1. ~(K < L)
        BY <1>3, <2>2
      <4> QED
        BY <1>2, <1>3, <4>1 DEF MinOf
    <3>2. n = 0
      BY <1>3, <3>1
    <3> QED
      BY <1>3, <2>2, <3>2
  <2> QED
    BY <2>1, <2>2
<1>5. PICK b : b = Backlog(cursor[c])
  OBVIOUS
<1>6. /\ b \in Seq(Delivery) /\ DOMAIN b = 1 .. n
      /\ \A i \in 1 .. n : b[i] = Replay(log[K + i], K + i)
  <2>1. b \in Seq(Delivery)
    BY <1>1, <1>5, BacklogType
  <2> QED
    BY <1>2, <1>3, <1>5, <2>1 DEF Backlog
<1>7. Len(b) = n
  BY <1>4, <1>6
<1>8. stream'[c] = b \/ stream'[c] = Append(b, Sentinel)
  BY <1>1, <1>5 DEF Subscribe
<1>9. CASE stream'[c] = b
  BY <1>3, <1>4, <1>6, <1>7, <1>9
<1>10. CASE stream'[c] = Append(b, Sentinel)
  <2>1. /\ DOMAIN stream'[c] = 1 .. n + 1 /\ Len(stream'[c]) = n + 1
        /\ \A i \in 1 .. n : stream'[c][i] = b[i]
        /\ stream'[c][n + 1] = Sentinel
    BY <1>4, <1>6, <1>7, <1>10
  <2>2. \A i \in 1 .. n + 1 : i \notin 1 .. n => i = n + 1
    BY <1>4
  <2>3. \A i \in DOMAIN stream'[c] : i \notin 1 .. n => stream'[c][i] = Sentinel
    BY <2>1, <2>2
  <2>4. n + 1 \in Nat
    BY <1>4
  <2> QED
    BY <1>3, <1>4, <1>6, <2>1, <2>3, <2>4
<1> QED
  BY <1>8, <1>9, <1>10

LEMMA SubscribeKeeps ==
    ASSUME ReplaysAreFinal, LogInv, NEW c \in Clients, ClientInv(c), Subscribe(c)
    PROVE  ClientInv(c)'
<1>0. TypeOK /\ proc = "up" /\ cursor[c] \in Nat /\ log \in Seq(Part)
  BY DEF LogInv, Base, TypeInv, Subscribe, TypeOK
<1>1. /\ LogStays /\ seen' = seen /\ cursor' = cursor
  BY <1>0 DEF Subscribe, runVars, storeVars, LogStays, TypeOK
<1>2. PICK n \in Nat :
        /\ DOMAIN stream'[c] \in {1 .. n, 1 .. n + 1}
        /\ \A i \in 1 .. n : /\ cursor[c] + i \in DOMAIN log
                             /\ stream'[c][i] = Replay(log[cursor[c] + i], cursor[c] + i)
        /\ \A i \in DOMAIN stream'[c] : i \notin 1 .. n => stream'[c][i] = Sentinel
        /\ \A m \in DOMAIN log : m <= cursor[c] \/ m - cursor[c] \in 1 .. n
        /\ DOMAIN stream'[c] = 1 .. Len(stream'[c]) /\ Len(stream'[c]) \in Nat
  BY <1>0, SubscribeStream
<1>a. /\ \A i \in 1 .. n : /\ cursor[c] + i \in DOMAIN log
                           /\ stream'[c][i].events = log[cursor[c] + i]
                           /\ stream'[c][i].cursor = cursor[c] + i
      /\ \A i \in DOMAIN stream'[c] : i \notin 1 .. n =>
            stream'[c][i].events = {} /\ ~Trusted(stream'[c][i])
      /\ \A i \in 1 .. n : Trusted(stream'[c][i]) => TrustReplay
  <2>1. \A x, k : /\ Replay(x, k).events = x /\ Replay(x, k).cursor = k
                  /\ Trusted(Replay(x, k)) => TrustReplay
    BY DEF Replay, Trusted
  <2>2. Sentinel.events = {} /\ ~Trusted(Sentinel)
    BY DEF Sentinel, Trusted
  <2>3. \A i \in 1 .. n : /\ cursor[c] + i \in DOMAIN log
                          /\ stream'[c][i] = Replay(log[cursor[c] + i], cursor[c] + i)
    BY <1>2
  <2>4. \A i \in DOMAIN stream'[c] : i \notin 1 .. n => stream'[c][i] = Sentinel
    BY <1>2
  <2> QED
    BY <2>1, <2>2, <2>3, <2>4
<1>3. HasInv(c) /\ HasInv(c)'
  BY <1>0, <1>1, HasStays, ClientParts
<1>4. /\ seen[c] \subseteq Got(c, 0)'
      /\ \A m \in DOMAIN log : m <= cursor[c] => log[m] \subseteq seen[c]
      /\ ClosedIn(log, seen[c])
  BY <1>1, <1>3 DEF HasInv, Vouches, Covers, Closed, Got
<1>5. \A i : \A j \in 1 .. i : j \in 1 .. n => log[cursor[c] + j] \subseteq Got(c, i)'
  <2>1. \A j \in 1 .. n : stream'[c][j].events = log[cursor[c] + j]
    BY <1>a
  <2> QED
    BY <2>1 DEF Got
<1>6. ASSUME NEW i \in DOMAIN stream'[c], NEW e \in Got(c, i)'
      PROVE  e \in seen[c] \/ \E j \in 1 .. i : j \in 1 .. n /\ e \in log[cursor[c] + j]
  <2>1. e \in seen[c] \/ \E j \in 1 .. i : e \in stream'[c][j].events
    BY <1>1, <1>6 DEF Got
  <2>2. \A j \in 1 .. i : j \in DOMAIN stream'[c]
    BY <1>2
  <2>3. \A j \in 1 .. i : j \in 1 .. n \/ stream'[c][j].events = {}
    BY <1>a, <2>2
  <2>4. \A j \in 1 .. n : stream'[c][j].events = log[cursor[c] + j]
    BY <1>a
  <2> QED
    BY <2>1, <2>3, <2>4
<1>7. \A i : seen[c] \subseteq Got(c, i)'
  BY <1>1 DEF Got
<1>8. ASSUME NEW i \in DOMAIN stream'[c] PROVE ClosedIn(log', Got(c, i)')
  <2> SUFFICES ASSUME NEW e \in Got(c, i)', NEW m \in DOMAIN log, NEW f \in log[m], f < e
               PROVE  f \in Got(c, i)'
    BY <1>1 DEF ClosedIn, LogStays
  <2>1. CASE e \in seen[c] \/ m <= cursor[c]
    BY <1>4, <1>7, <2>1 DEF ClosedIn
  <2>2. CASE m - cursor[c] \in 1 .. i /\ m - cursor[c] \in 1 .. n
    <3>1. cursor[c] + (m - cursor[c]) = m
      BY <1>0
    <3> QED
      BY <1>5, <2>2, <3>1
  <2>3. CASE e \notin seen[c] /\ m - cursor[c] \in 1 .. n /\ m - cursor[c] \notin 1 .. i
    <3>1. PICK j \in 1 .. i : j \in 1 .. n /\ e \in log[cursor[c] + j]
      BY <1>6, <2>3
    <3>2. cursor[c] + j < m /\ cursor[c] + j \in DOMAIN log
      <4>1. i \in Nat /\ j \in Nat /\ m \in Nat
        BY <1>0, <1>2, <3>1
      <4> QED
        BY <1>0, <1>2, <2>3, <3>1, <4>1
    <3>3. Early(log[m], log[cursor[c] + j])
      BY <3>2 DEF LogInv, Nested
    <3>4. f \in log[cursor[c] + j]
      BY <3>1, <3>3 DEF Early
    <3> QED
      BY <1>5, <3>1, <3>4
  <2> QED
    BY <1>2, <2>1, <2>2, <2>3
<1>9. ASSUME NEW i \in DOMAIN stream'[c], Trusted(stream'[c][i])
      PROVE  /\ Covers(Got(c, i)', log', stream'[c][i].cursor)
             /\ SafeIn(Limit', Len(store'), stream'[c][i].cursor)
  <2>1. i \in 1 .. n /\ TrustReplay /\ stream'[c][i].cursor = cursor[c] + i
    BY <1>9, <1>a
  <2>2. Limit' = Len(log) /\ MaxCrashes = 0
    <3>1. openSlot = 0
      BY <2>1 DEF LogInv
    <3> QED
      BY <1>1, <2>1, <3>1, LogStaysFacts DEF ReplaysAreFinal, Limit, LiveCursor
  <2>3. cursor[c] + i <= Len(log)
    BY <1>0, <1>2, <2>1
  <2>4. ASSUME NEW m \in DOMAIN log, m <= cursor[c] + i PROVE log[m] \subseteq Got(c, i)'
    <3>1. CASE m <= cursor[c]
      BY <1>4, <1>7, <3>1
    <3>2. CASE m - cursor[c] \in 1 .. n
      <4>1. m \in Nat /\ i \in Nat
        BY <1>0, <2>1
      <4>2. m - cursor[c] \in 1 .. i /\ cursor[c] + (m - cursor[c]) = m
        BY <1>0, <2>4, <3>2, <4>1
      <4> QED
        BY <1>5, <3>2, <4>2
    <3> QED
      BY <1>2, <3>1, <3>2
  <2> QED
    BY <1>1, <2>1, <2>2, <2>3, <2>4 DEF Covers, SafeIn, LogStays
<1>10. StreamInv(c)'
  BY <1>8, <1>9 DEF StreamInv, Closed, Vouches, Safe, Trusted
<1>11. EventsIn(log') \subseteq Sent(c)'
  <2> SUFFICES ASSUME NEW m \in DOMAIN log PROVE log[m] \subseteq Got(c, Len(stream[c]))'
    BY <1>1 DEF EventsIn, LogStays, Sent
  <2>1. CASE m <= cursor[c]
    BY <1>1, <1>4, <2>1 DEF Got
  <2>2. CASE m - cursor[c] \in 1 .. n
    <3>1. m - cursor[c] \in 1 .. Len(stream'[c]) /\ cursor[c] + (m - cursor[c]) = m
      BY <1>0, <1>2, <2>2
    <3>2. stream'[c][m - cursor[c]].events = log[m]
      BY <1>a, <2>2, <3>1
    <3> QED
      BY <3>1, <3>2 DEF Got
  <2> QED
    BY <1>2, <2>1, <2>2
<1>12. DueInv(c)'
  <2>1. EventsIn(log') \subseteq AllDue(c)' /\ \A i : EventsIn(log') \subseteq Due(c, i)'
    BY <1>11 DEF AllDue, Due
  <2>2. \A i : ClosedIn(log', Due(c, i)') /\ \A k : Covers(Due(c, i)', log', k)
    BY <2>1, WholeLog
  <2> QED
    BY <2>1, <2>2 DEF DueInv, Closed, Vouches
<1> QED
  BY <1>3, <1>10, <1>12, ClientParts

\* The cursor of a live delivery never goes back, and stops short of the
\* entry that emit writes.
LEMMA LimitGrows ==
    ASSUME LogInv, NEW roll \in BOOLEAN, NEW n, NEW k, FedAt(n, k, roll)
    PROVE  /\ Limit \in Nat /\ Limit' \in Nat /\ k \in Nat
           /\ Limit < k /\ Limit <= Limit' /\ Limit' <= k
<1>1. /\ Len(log) \in Nat /\ k \in Nat
      /\ Overwrites(roll) => k = openSlot
      /\ ~Overwrites(roll) => k = Len(log) + 1
      /\ Len(log') = IF Overwrites(roll) THEN Len(log) ELSE Len(log) + 1
      /\ openSlot' = SlotAfter(roll)
  BY DEF FedAt, GrownBy
<1>2. openSlot # 0 => openSlot = Len(log)
  BY DEF LogInv, Base, TypeInv, SlotIsLast
<1>3. CASE Overwrites(roll)
  <2>1. openSlot # 0 /\ openSlot' = openSlot /\ Len(log') = Len(log) /\ k = openSlot
    BY <1>1, <1>3 DEF Overwrites, SlotAfter
  <2>2. Limit = openSlot - 1 /\ Limit' = openSlot - 1 /\ openSlot = Len(log)
    BY <1>2, <2>1 DEF Limit, LiveCursor
  <2> QED
    BY <1>1, <2>1, <2>2
<1>4. CASE ~Overwrites(roll)
  <2>1. openSlot' \in {0, Len(log) + 1} /\ Len(log') = Len(log) + 1 /\ k = Len(log) + 1
    BY <1>1, <1>4 DEF SlotAfter
  <2>2. Limit' \in {Len(log), Len(log) + 1}
    BY <1>1, <2>1 DEF Limit, LiveCursor
  <2>3. Limit \in {Len(log) - 1, Len(log)} /\ (Len(log) = 0 => Limit = Len(log))
    BY <1>1, <1>2 DEF Limit, LiveCursor
  <2> QED
    BY <1>1, <2>1, <2>2, <2>3
<1> QED
  BY <1>3, <1>4

\* An event that comes after all others changes nothing for who has some.
LEMMA FedKeeps ==
    ASSUME LogInv, NEW roll \in BOOLEAN, NEW n, NEW k, FedAt(n, k, roll), NEW S, S \subseteq Known
    PROVE  /\ ClosedIn(log, S) => ClosedIn(log', S)
           /\ \A j \in Nat : j <= Limit /\ Covers(S, log, j) => Covers(S, log', j)
<1>1. /\ DOMAIN log' = DOMAIN log \cup {k} /\ log'[k] = Fed(roll)
      /\ \A m \in DOMAIN log : m # k => log'[m] = log[m]
  BY DEF FedAt, GrownBy
<1>2. Fed(roll) \subseteq window \cup {emitted + 1} /\ window \subseteq EventsIn(log)
  BY DEF Fed, LogInv
<1>3. ASSUME ClosedIn(log, S) PROVE ClosedIn(log', S)
  <2> SUFFICES ASSUME NEW e \in S, NEW m \in DOMAIN log', NEW f \in log'[m], f < e
               PROVE  f \in S
    BY DEF ClosedIn
  <2>1. CASE m # k
    BY <1>1, <1>3, <2>1 DEF ClosedIn
  <2>2. CASE m = k
    <3>1. f # emitted + 1
      BY NewIsLast DEF LogInv, Base, TypeInv
    <3>2. PICK j \in DOMAIN log : f \in log[j]
      BY <1>1, <1>2, <2>2, <3>1 DEF EventsIn
    <3> QED
      BY <1>3, <3>2 DEF ClosedIn
  <2> QED
    BY <2>1, <2>2
<1>4. ASSUME NEW j \in Nat, j <= Limit, Covers(S, log, j) PROVE Covers(S, log', j)
  <2> SUFFICES ASSUME NEW m \in DOMAIN log', m <= j PROVE log'[m] \subseteq S
    BY DEF Covers
  <2>1. m # k
    BY <1>4, LimitGrows
  <2> QED
    BY <1>1, <1>4, <2>1 DEF Covers
<1> QED
  BY <1>3, <1>4

LEMMA HoldsKnown ==
    ASSUME TypeOK, BoundInv, NEW c \in Clients
    PROVE  /\ seen[c] \subseteq Known /\ Sent(c) \subseteq Known
           /\ \A i \in DOMAIN stream[c] : Got(c, i) \subseteq Known
           /\ \A i : Due(c, i) \subseteq Known
<1>1. DOMAIN stream[c] = 1 .. Len(stream[c]) /\ Len(stream[c]) \in Nat
  BY GotSame DEF TypeOK
<1>2. seen[c] \subseteq Known /\ \A i \in DOMAIN stream[c] : stream[c][i].events \subseteq Known
  BY DEF BoundInv
<1>3. ASSUME NEW i, i \in 0 .. Len(stream[c]) PROVE Got(c, i) \subseteq Known
  <2>1. \A j \in 1 .. i : j \in DOMAIN stream[c]
    BY <1>1, <1>3
  <2> QED
    BY <1>2, <2>1 DEF Got
<1>4. Sent(c) \subseteq Known
  BY <1>1, <1>3 DEF Sent
<1>5. \A i \in Queued(c) : writes[i].event \in Known
  BY DEF Queued, BoundInv
<1>6. \A i : Due(c, i) \subseteq Known
  BY <1>4, <1>5 DEF Due
<1>7. \A i \in DOMAIN stream[c] : i \in 0 .. Len(stream[c])
  BY <1>1
<1> QED
  BY <1>2, <1>3, <1>4, <1>6, <1>7

\* The emit of entry k enters the queue at place N.
EntersAt(N, k) ==
    /\ N \in Nat /\ N \notin DOMAIN writes /\ \A i \in DOMAIN writes : i < N /\ i \in Nat
    /\ DOMAIN writes' = DOMAIN writes \cup {N}
    /\ \A i \in DOMAIN writes : writes'[i] = writes[i]
    /\ writes'[N].role = "emit" /\ writes'[N].event = emitted + 1
    /\ writes'[N].cursor = Limit' /\ writes'[N].saved = "no"
    /\ writes'[N].write.kind \in {"append", "replace"} /\ writes'[N].write.at = k
    /\ \A c \in Clients :
          Queued(c)' = IF conn[c] = "on" THEN Queued(c) \cup {N} ELSE Queued(c)

LEMMA FedQueued ==
    ASSUME LogInv, NEW roll \in BOOLEAN, NEW n, NEW k, FedAt(n, k, roll)
    PROVE  \E N : EntersAt(N, k)
<1>1. writes \in Seq(Op) /\ conn' = conn
  BY DEF LogInv, Base, TypeInv, TypeOK, FedAt
<1>2. PICK op : /\ op = EmitOp(WriteFor(Fed(roll), roll), emitted + 1, Limit')
                /\ writes' = Append(writes, op)
  BY DEF FedAt
<1>3. /\ WriteFor(Fed(roll), roll).kind \in {"append", "replace"}
      /\ WriteFor(Fed(roll), roll).at = IF Overwrites(roll) THEN openSlot ELSE Len(log) + 1
  BY DEF WriteFor
<1>4. WriteFor(Fed(roll), roll).at = k
  BY <1>3 DEF FedAt, GrownBy
<1>5. /\ op.role = "emit" /\ op.event = emitted + 1 /\ op.cursor = Limit' /\ op.saved = "no"
      /\ op.write.kind \in {"append", "replace"} /\ op.write.at = k /\ op.targets = Subscribers
  BY <1>2, <1>3, <1>4, OpShape
<1>6. PICK N \in Nat : N = Len(writes) + 1
  BY <1>1
<1>7. /\ N \notin DOMAIN writes /\ \A i \in DOMAIN writes : i < N /\ i \in Nat
      /\ DOMAIN writes' = DOMAIN writes \cup {N} /\ writes'[N] = op
      /\ \A i \in DOMAIN writes : writes'[i] = writes[i]
  BY <1>1, <1>2, <1>6
<1>8. ASSUME NEW c \in Clients
      PROVE  Queued(c)' = IF conn[c] = "on" THEN Queued(c) \cup {N} ELSE Queued(c)
  <2>1. c \in op.targets <=> conn[c] = "on"
    BY <1>5 DEF Subscribers
  <2> QED
    BY <1>5, <1>7, <2>1 DEF Queued
<1>9. EntersAt(N, k)
  BY <1>5, <1>7, <1>8 DEF EntersAt
<1> QED
  BY <1>9

LEMMA EmitKeeps ==
    ASSUME LogInv, EmitInv, TypeOK', NEW roll \in BOOLEAN, NEW n, NEW k, FedAt(n, k, roll),
           NEW c \in Clients, ClientInv(c)
    PROVE  ClientInv(c)'
<1>0. TypeOK /\ BoundInv
  BY DEF LogInv, Base, TypeInv
<1>1. Limit \in Nat /\ Limit' \in Nat /\ Limit <= Limit'
  BY LimitGrows
<1>2. /\ store' = store /\ seen' = seen /\ cursor' = cursor /\ conn' = conn /\ stream' = stream
  BY DEF FedAt
<1>3. \A j \in Nat : SafeIn(Limit, Len(store), j) => SafeIn(Limit', Len(store'), j) /\ j <= Limit
  BY <1>1, <1>2 DEF SafeIn
<1>4. \A S : S \subseteq Known =>
               /\ ClosedIn(log, S) => ClosedIn(log', S)
               /\ \A j \in Nat : j <= Limit /\ Covers(S, log, j) => Covers(S, log', j)
  BY FedKeeps
<1>5. /\ seen[c] \subseteq Known /\ Sent(c) \subseteq Known
      /\ \A i \in DOMAIN stream[c] : Got(c, i) \subseteq Known
      /\ \A i : Due(c, i) \subseteq Known
  BY <1>0, HoldsKnown
<1>6. /\ \A i \in DOMAIN stream[c] : stream[c][i].cursor \in Nat
      /\ cursor[c] \in Nat
      /\ \A i \in DOMAIN writes : writes[i].cursor \in Nat
  BY <1>0, CursorsAreNat
<1>7. HasInv(c)'
  <2>1. HasInv(c)
    BY ClientParts
  <2> QED
    BY <1>2, <1>3, <1>4, <1>5, <1>6, <2>1 DEF HasInv, Closed, Vouches, Safe
<1>8. ASSUME conn[c] = "on" PROVE StreamInv(c)' /\ DueInv(c)'
  <2>0. StreamInv(c) /\ DueInv(c)
    BY <1>8, ClientParts
  <2>1. (\A i : Got(c, i)' = Got(c, i)) /\ Sent(c)' = Sent(c)
    BY <1>0, <1>2, GotSame
  <2>2. StreamInv(c)'
    BY <1>2, <1>3, <1>4, <1>5, <1>6, <2>0, <2>1 DEF StreamInv, Trusted, Closed, Vouches, Safe
  <2>a. PICK N : EntersAt(N, k)
    BY FedQueued
  <2>3. /\ \A i \in DOMAIN writes : i < N /\ i \in Nat
        /\ N \in Nat /\ N \notin DOMAIN writes
        /\ \A i \in DOMAIN writes : writes'[i] = writes[i]
        /\ writes'[N].event = emitted + 1
        /\ Queued(c)' = Queued(c) \cup {N}
    BY <1>8, <2>a DEF EntersAt
  <2>4. Queued(c) \subseteq DOMAIN writes /\ Queued(c) \subseteq EmitsInFlight
    BY DEF Queued, EmitsInFlight
  <2>5. AllDue(c)' = AllDue(c) \cup {emitted + 1}
    BY <1>8, <2>1, <2>3, <2>4 DEF AllDue
  <2>6. EventsIn(log') \subseteq EventsIn(log) \cup {emitted + 1}
    <3>1. /\ DOMAIN log' = DOMAIN log \cup {k} /\ log'[k] = Fed(roll)
          /\ \A m \in DOMAIN log : m # k => log'[m] = log[m]
      BY DEF FedAt, GrownBy
    <3>2. Fed(roll) \subseteq EventsIn(log) \cup {emitted + 1}
      BY DEF Fed, LogInv
    <3> QED
      BY <3>1, <3>2 DEF EventsIn
  <2>7. EventsIn(log') \subseteq AllDue(c)'
    BY <2>0, <2>5, <2>6 DEF DueInv
  <2>8. ASSUME NEW i \in Queued(c)
        PROVE  ClosedIn(log', Due(c, i)') /\ Covers(Due(c, i)', log', writes'[i].cursor)
    <3>1. {q \in Queued(c)' : q <= i} = {q \in Queued(c) : q <= i}
      BY <1>8, <2>3, <2>4
    <3>2. \A q \in Queued(c) : writes'[q].event = writes[q].event
      BY <2>3, <2>4
    <3>3. Due(c, i)' = Due(c, i)
      BY <2>1, <3>1, <3>2 DEF Due
    <3>4. writes'[i].cursor = writes[i].cursor /\ writes[i].cursor \in Nat /\ writes[i].cursor <= Limit
      BY <1>6, <2>3, <2>4 DEF EmitInv
    <3>5. ClosedIn(log, Due(c, i)) /\ Covers(Due(c, i), log, writes[i].cursor)
      BY <2>0 DEF DueInv, Closed, Vouches
    <3> QED
      BY <1>4, <1>5, <3>3, <3>4, <3>5
  <2>9. ClosedIn(log', Due(c, N)') /\ Covers(Due(c, N)', log', writes'[N].cursor)
    <3>1. {q \in Queued(c)' : q <= N} = Queued(c)'
      BY <1>8, <2>3, <2>4
    <3>2. Due(c, N)' = AllDue(c)'
      BY <3>1 DEF Due, AllDue
    <3> QED
      BY <2>7, <3>2, WholeLog
  <2>10. DueInv(c)'
    BY <1>8, <2>3, <2>7, <2>8, <2>9 DEF DueInv, Closed, Vouches
  <2> QED
    BY <2>2, <2>10
<1> QED
  BY <1>2, <1>7, <1>8, ClientParts

-------------------------------------------------------------------------------
(***************************************************************************)
(* One step of the queue of the write lock                                 *)
(***************************************************************************)
EmitsCarried(d) ==
    \A i \in EmitsInFlight' :
        /\ i + d \in EmitsInFlight
        /\ writes'[i].cursor = writes[i + d].cursor
        /\ writes'[i].write = writes[i + d].write
        /\ writes'[i].saved = writes[i + d].saved

LEMMA SameCarried ==
    ASSUME TypeOK, writes' = writes, NEW c
    PROVE  QueueCarried(c, 0) /\ EmitsCarried(0)
<1>1. \A i \in DOMAIN writes : i \in Nat /\ i + 0 = i /\ i - 0 = i
  BY QueueIsShaped DEF QueueShape
<1>2. Queued(c)' = Queued(c) /\ EmitsInFlight' = EmitsInFlight
  BY DEF Queued, EmitsInFlight
<1>3. Queued(c) \subseteq DOMAIN writes /\ EmitsInFlight \subseteq DOMAIN writes
  BY DEF Queued, EmitsInFlight
<1> QED
  BY <1>1, <1>2, <1>3 DEF QueueCarried, EmitsCarried

LEMMA JoinCarried ==
    ASSUME TypeOK, NEW op, op.role # "emit", writes' = Append(writes, op), NEW c
    PROVE  QueueCarried(c, 0) /\ EmitsCarried(0)
<1>0. writes \in Seq(Op)
  BY DEF TypeOK
<1>1. \A i \in DOMAIN writes : i \in Nat /\ i + 0 = i /\ i - 0 = i
  BY QueueIsShaped DEF QueueShape
<1>2. /\ \A i \in DOMAIN writes : i \in DOMAIN writes' /\ writes'[i] = writes[i]
      /\ \A i \in DOMAIN writes' : i \in DOMAIN writes \/ writes'[i] = op
  BY <1>0
<1>3. Queued(c)' = Queued(c) /\ EmitsInFlight' = EmitsInFlight
  BY <1>2 DEF Queued, EmitsInFlight
<1>4. Queued(c) \subseteq DOMAIN writes /\ EmitsInFlight \subseteq DOMAIN writes
  BY DEF Queued, EmitsInFlight
<1> QED
  BY <1>1, <1>2, <1>3, <1>4 DEF QueueCarried, EmitsCarried

LEMMA LeaveCarried ==
    ASSUME TypeOK, writes # <<>>, NEW c,
           \/ writes' = Tail(writes)
           \/ \E op : op.role # "emit" /\ writes' = Append(Tail(writes), op)
    PROVE  QueueCarried(c, 1) /\ EmitsCarried(1)
<1>0. writes \in Seq(Op) /\ Tail(writes) \in Seq(Op) /\ Len(writes) \in Nat
      /\ DOMAIN writes = 1 .. Len(writes) /\ Len(Tail(writes)) = Len(writes) - 1
      /\ DOMAIN Tail(writes) = 1 .. Len(writes) - 1
  BY DEF TypeOK
<1>1. \A i \in DOMAIN Tail(writes) : /\ i \in Nat /\ i + 1 \in DOMAIN writes
                                     /\ Tail(writes)[i] = writes[i + 1]
  BY <1>0
<1>2. \A i \in DOMAIN writes : /\ i \in Nat
                               /\ (i - 1) + 1 = i
                               /\ i = 1 \/ i - 1 \in DOMAIN Tail(writes)
  BY <1>0
<1>3. PICK t \in Seq(Op) : t = Tail(writes)
  BY <1>0
<1>4. /\ \A i \in DOMAIN t : i \in DOMAIN writes' /\ writes'[i] = t[i]
      /\ \A i \in DOMAIN writes' : i \in DOMAIN t \/ writes'[i].role # "emit"
  <2>1. CASE writes' = t
    BY <2>1
  <2>2. CASE \E op : op.role # "emit" /\ writes' = Append(t, op)
    <3>1. PICK op : op.role # "emit" /\ writes' = Append(t, op)
      BY <2>2
    <3>2. /\ \A i \in DOMAIN t : i \in DOMAIN writes' /\ writes'[i] = t[i]
          /\ \A i \in DOMAIN writes' : i \in DOMAIN t \/ writes'[i] = op
      BY <3>1
    <3> QED
      BY <3>1, <3>2
  <2> QED
    BY <1>3, <2>1, <2>2
<1>5. \A i \in DOMAIN writes' : writes'[i].role = "emit" =>
            i \in Nat /\ i + 1 \in DOMAIN writes /\ writes'[i] = writes[i + 1]
  BY <1>1, <1>3, <1>4
<1>6. \A i \in DOMAIN writes : i # 1 => i - 1 \in DOMAIN writes' /\ writes'[i - 1] = writes[i]
  BY <1>1, <1>2, <1>3, <1>4
<1>7. EmitsCarried(1)
  BY <1>5 DEF EmitsCarried, EmitsInFlight
<1>8. QueueCarried(c, 1)
  <2>1. \A i \in Queued(c)' : /\ i + 1 \in Queued(c) /\ i \in Nat
                              /\ writes'[i].event = writes[i + 1].event
                              /\ writes'[i].cursor = writes[i + 1].cursor
    BY <1>5 DEF Queued
  <2>2. \A i \in Queued(c) : (i - 1 \in Queued(c)' \/ i = 1) /\ i \in Nat
    BY <1>2, <1>6 DEF Queued
  <2> QED
    BY <2>1, <2>2 DEF QueueCarried
<1> QED
  BY <1>7, <1>8

LEMMA DisconnectCarried ==
    ASSUME TypeOK, NEW e \in Clients, Disconnect(e), NEW c
    PROVE  (c # e => QueueCarried(c, 0)) /\ EmitsCarried(0)
<1>1. \A i \in DOMAIN writes : i \in Nat /\ i + 0 = i /\ i - 0 = i
  BY QueueIsShaped DEF QueueShape
<1>2. \A i \in DOMAIN writes : writes[i] \in Op
  BY DEF TypeOK
<1>3. writes' = [i \in DOMAIN writes |-> [writes[i] EXCEPT !.targets = @ \ {e}]]
  BY DEF Disconnect
<1>4. /\ DOMAIN writes' = DOMAIN writes
      /\ \A i \in DOMAIN writes :
            /\ writes'[i].role = writes[i].role /\ writes'[i].write = writes[i].write
            /\ writes'[i].saved = writes[i].saved /\ writes'[i].event = writes[i].event
            /\ writes'[i].cursor = writes[i].cursor
            /\ writes'[i].targets = writes[i].targets \ {e}
  <2>1. /\ DOMAIN writes' = DOMAIN writes
        /\ \A i \in DOMAIN writes : writes'[i] = [writes[i] EXCEPT !.targets = @ \ {e}]
    BY <1>3
  <2> SUFFICES ASSUME NEW i \in DOMAIN writes
               PROVE  /\ writes'[i].role = writes[i].role /\ writes'[i].write = writes[i].write
                      /\ writes'[i].saved = writes[i].saved /\ writes'[i].event = writes[i].event
                      /\ writes'[i].cursor = writes[i].cursor
                      /\ writes'[i].targets = writes[i].targets \ {e}
    BY <2>1
  <2>2. writes[i] \in Op
    BY <1>2
  <2> QED
    BY <2>1, <2>2, TargetsLeave
<1>5. EmitsInFlight' = EmitsInFlight /\ (c # e => Queued(c)' = Queued(c))
  BY <1>4 DEF EmitsInFlight, Queued
<1>6. Queued(c) \subseteq DOMAIN writes /\ EmitsInFlight \subseteq DOMAIN writes
  BY DEF Queued, EmitsInFlight
<1> QED
  BY <1>1, <1>4, <1>5, <1>6 DEF QueueCarried, EmitsCarried

LEMMA EmitsCarriedKeep ==
    ASSUME TypeOK, TypeOK', EmitInv, NEW d, EmitsCarried(d), LogStays
    PROVE  EmitInv'
<1>1. Limit' = Limit /\ Len(store) \in Nat /\ Len(store') \in Nat /\ Len(store) <= Len(store')
  BY LogStaysFacts DEF LogStays
<1>2. \A i \in DOMAIN writes : writes[i].cursor \in Nat
  <2>1. \A i \in DOMAIN writes : writes[i] \in Op
    BY DEF TypeOK
  <2> QED
    BY <2>1 DEF Op, OpOf
<1>3. /\ Unsaved = {i \in DOMAIN writes : writes[i].saved = "no"
                            /\ writes[i].write.kind \in {"append", "replace"}}
      /\ Unsaved' = {i \in DOMAIN writes' : writes'[i].saved = "no"
                            /\ writes'[i].write.kind \in {"append", "replace"}}
  BY QueueIsShaped, QueueStaysShaped DEF QueueShape
<1> SUFFICES ASSUME NEW i \in EmitsInFlight'
             PROVE  /\ writes'[i].cursor <= Limit'
                    /\ MaxCrashes # 0 => IF writes'[i].saved = "no"
                                         THEN i \in Unsaved' /\ writes'[i].cursor <= At(i)'
                                         ELSE writes'[i].cursor <= Len(store')
  BY DEF EmitInv
<1>4. /\ i + d \in EmitsInFlight
      /\ writes'[i].cursor = writes[i + d].cursor
      /\ writes'[i].write = writes[i + d].write
      /\ writes'[i].saved = writes[i + d].saved
      /\ i \in DOMAIN writes' /\ i + d \in DOMAIN writes
  BY DEF EmitsCarried, EmitsInFlight
<1>5. /\ writes[i + d].cursor <= Limit
      /\ MaxCrashes # 0 => IF writes[i + d].saved = "no"
                           THEN i + d \in Unsaved /\ writes[i + d].cursor <= At(i + d)
                           ELSE writes[i + d].cursor <= Len(store)
  BY <1>4 DEF EmitInv
<1>6. i + d \in Unsaved => i \in Unsaved'
  BY <1>3, <1>4
<1>7. At(i)' = At(i + d)
  BY <1>4 DEF At
<1> QED
  BY <1>1, <1>2, <1>4, <1>5, <1>6, <1>7

LEMMA StoreCallQueue ==
    ASSUME TypeOK, StoreCall
    PROVE  /\ 1 \in DOMAIN writes /\ Head(writes) = writes[1] /\ writes[1].saved = "no"
           /\ DOMAIN writes' = DOMAIN writes
           /\ \A i \in DOMAIN writes :
                 /\ writes'[i].role = writes[i].role /\ writes'[i].write = writes[i].write
                 /\ writes'[i].event = writes[i].event /\ writes'[i].cursor = writes[i].cursor
                 /\ writes'[i].targets = writes[i].targets
                 /\ i # 1 => writes'[i].saved = writes[i].saved
           /\ writes'[1].saved # "no"
<1>1. writes \in Seq(Op) /\ writes # <<>> /\ Head(writes).saved = "no"
  BY DEF TypeOK, StoreCall
<1>2. 1 \in DOMAIN writes /\ Head(writes) = writes[1] /\ \A i \in DOMAIN writes : writes[i] \in Op
  BY <1>1
<1>3. PICK o \in {"ok", "rejected"} : writes' = [writes EXCEPT ![1].saved = o]
  BY DEF StoreCall, SaveHead
<1>4. LET op == [writes[1] EXCEPT !.saved = o]
      IN  /\ op.role = writes[1].role /\ op.write = writes[1].write /\ op.event = writes[1].event
          /\ op.cursor = writes[1].cursor /\ op.targets = writes[1].targets /\ op.saved = o
  BY <1>2 DEF Op, OpOf
<1>5. writes'[1] = [writes[1] EXCEPT !.saved = o]
      /\ DOMAIN writes' = DOMAIN writes
      /\ \A i \in DOMAIN writes : i # 1 => writes'[i] = writes[i]
  BY <1>2, <1>3
<1> QED
  BY <1>1, <1>2, <1>4, <1>5

LEMMA StoreCallCarried ==
    ASSUME TypeOK, StoreCall, NEW c
    PROVE  QueueCarried(c, 0)
<1>1. \A i \in DOMAIN writes : i \in Nat /\ i + 0 = i /\ i - 0 = i
  BY QueueIsShaped DEF QueueShape
<1>2. /\ DOMAIN writes' = DOMAIN writes
      /\ \A i \in DOMAIN writes :
            /\ writes'[i].role = writes[i].role /\ writes'[i].event = writes[i].event
            /\ writes'[i].cursor = writes[i].cursor /\ writes'[i].targets = writes[i].targets
  BY StoreCallQueue
<1>3. Queued(c)' = Queued(c) /\ Queued(c) \subseteq DOMAIN writes
  BY <1>2 DEF Queued
<1> QED
  BY <1>1, <1>2, <1>3 DEF QueueCarried

LEMMA StoreCallLogStays ==
    ASSUME TypeOK, TypeOK', StoreCall
    PROVE  LogStays
<1>1. store \in Seq(Part) /\ UNCHANGED <<log, openSlot>> /\ store' \in Seq(Part)
  BY DEF StoreCall, runVars, TypeOK
<1>2. store' = store \/ \E w : store' = StoreAfter(w)
  BY DEF StoreCall
<1>3. ASSUME NEW w, store' = StoreAfter(w) PROVE Len(store) <= Len(store')
  <2>1. CASE store' = Append(store, w.part)
    BY <1>1, <2>1
  <2>2. CASE store' = [store EXCEPT ![w.at] = w.part]
    BY <1>1, <2>2
  <2>3. CASE store' = store
    BY <1>1, <2>3
  <2> QED
    BY <1>3, <2>1, <2>2, <2>3 DEF StoreAfter
<1>4. Len(store) <= Len(store')
  BY <1>1, <1>2, <1>3
<1> QED
  BY <1>1, <1>4 DEF LogStays

LEMMA StoreCallEmits ==
    ASSUME StoreIsComplete, LogInv, EmitInv, TypeOK', proc = "up", StoreCall
    PROVE  EmitInv'
<1>0. TypeOK /\ LogStays
  BY StoreCallLogStays DEF LogInv, Base, TypeInv
<1>1. /\ 1 \in DOMAIN writes /\ Head(writes) = writes[1] /\ writes[1].saved = "no"
      /\ DOMAIN writes' = DOMAIN writes
      /\ \A i \in DOMAIN writes :
            /\ writes'[i].role = writes[i].role /\ writes'[i].write = writes[i].write
            /\ writes'[i].cursor = writes[i].cursor
            /\ i # 1 => writes'[i].saved = writes[i].saved
      /\ writes'[1].saved # "no"
  BY <1>0, StoreCallQueue
<1>2. /\ Unsaved = {i \in DOMAIN writes : writes[i].saved = "no"
                            /\ writes[i].write.kind \in {"append", "replace"}}
      /\ Unsaved' = {i \in DOMAIN writes' : writes'[i].saved = "no"
                            /\ writes'[i].write.kind \in {"append", "replace"}}
      /\ AppendsQueued = {i \in Unsaved : writes[i].write.kind = "append"}
      /\ ReplacesQueued = {i \in Unsaved : writes[i].write.kind = "replace"}
      /\ \A i \in DOMAIN writes : i \in Nat \ {0}
      /\ \A i \in Unsaved : At(i) \in Nat
  BY <1>0, QueueIsShaped, QueueStaysShaped DEF QueueShape
<1>3. EmitsInFlight' = EmitsInFlight
  BY <1>1 DEF EmitsInFlight
<1>4. Limit' = Limit /\ Len(store) \in Nat /\ Len(store') \in Nat /\ Len(store) <= Len(store')
  BY <1>0, LogStaysFacts DEF LogStays
<1>5. \A i \in DOMAIN writes : writes[i].cursor \in Nat
  <2>1. \A i \in DOMAIN writes : writes[i] \in Op
    BY <1>0 DEF TypeOK
  <2> QED
    BY <2>1 DEF Op, OpOf
<1>6. ASSUME MaxCrashes # 0, 1 \in EmitsInFlight PROVE writes[1].cursor <= Len(store')
  <2>1. 1 \in Unsaved /\ writes[1].cursor <= At(1) /\ writes[1].role = "emit"
    BY <1>1, <1>6 DEF EmitInv, EmitsInFlight
  <2>2. Aligned /\ "append" \notin Disturbances
    BY <1>6 DEF LogInv, StoreIsComplete, Kept
  <2>3. CASE 1 \in AppendsQueued
    <3>1. At(1) = Len(store) + 1
      BY <1>0, <2>2, <2>3, NextAppend
    <3>2. writes[1].write.kind = "append"
      BY <1>2, <2>3
    <3>3. store' = Append(store, writes[1].write.part)
      BY <1>1, <2>1, <2>2, <3>2 DEF StoreCall, StoreAfter
    <3>4. Len(store') = Len(store) + 1
      BY <1>0, <3>3 DEF TypeOK
    <3> QED
      BY <2>1, <3>1, <3>4
  <2>4. CASE 1 \in ReplacesQueued
    <3>1. At(1) <= Len(store)
      <4> SUFFICES ASSUME At(1) > Len(store) PROVE FALSE
        BY <1>2, <1>4, <2>1
      <4>1. PICK i \in AppendsQueued : i < 1
        BY <2>2, <2>4 DEF Aligned
      <4> QED
        BY <1>2, <4>1
    <3> QED
      BY <1>1, <1>2, <1>4, <1>5, <2>1, <3>1
  <2> QED
    BY <1>2, <2>1, <2>3, <2>4
<1>7. ASSUME NEW i \in EmitsInFlight
      PROVE  /\ writes'[i].cursor <= Limit'
             /\ MaxCrashes # 0 => IF writes'[i].saved = "no"
                                  THEN i \in Unsaved' /\ writes'[i].cursor <= At(i)'
                                  ELSE writes'[i].cursor <= Len(store')
  <2>1. i \in DOMAIN writes
    BY DEF EmitsInFlight
  <2>2. /\ writes[i].cursor <= Limit
        /\ MaxCrashes # 0 => IF writes[i].saved = "no"
                             THEN i \in Unsaved /\ writes[i].cursor <= At(i)
                             ELSE writes[i].cursor <= Len(store)
    BY DEF EmitInv
  <2>3. CASE i = 1
    BY <1>1, <1>4, <1>6, <1>7, <2>1, <2>2, <2>3
  <2>4. CASE i # 1
    <3>1. /\ writes'[i].cursor = writes[i].cursor /\ writes'[i].saved = writes[i].saved
          /\ At(i)' = At(i)
      BY <1>1, <2>1, <2>4 DEF At
    <3>2. i \in Unsaved => i \in Unsaved'
      BY <1>1, <1>2, <2>1, <2>4
    <3>3. writes[i].cursor \in Nat
      BY <1>5, <2>1
    <3> QED
      BY <1>4, <2>2, <3>1, <3>2, <3>3
  <2> QED
    BY <2>3, <2>4
<1> QED
  BY <1>3, <1>7 DEF EmitInv

LEMMA FedEmits ==
    ASSUME LogInv, EmitInv, TypeOK', NEW roll \in BOOLEAN, NEW n, NEW k, FedAt(n, k, roll)
    PROVE  EmitInv'
<1>0. TypeOK
  BY DEF LogInv, Base, TypeInv
<1>1. /\ Limit \in Nat /\ Limit' \in Nat /\ k \in Nat /\ Limit <= Limit' /\ Limit' <= k
  BY LimitGrows
<1>2. PICK N : EntersAt(N, k)
  BY FedQueued
<1>3. /\ DOMAIN writes' = DOMAIN writes \cup {N}
      /\ \A i \in DOMAIN writes : writes'[i] = writes[i]
      /\ writes'[N].cursor = Limit' /\ writes'[N].saved = "no"
      /\ writes'[N].write.kind \in {"append", "replace"} /\ writes'[N].write.at = k
  BY <1>2 DEF EntersAt
<1>4. \A i \in DOMAIN writes : writes[i].cursor \in Nat
  <2>1. \A i \in DOMAIN writes : writes[i] \in Op
    BY <1>0 DEF TypeOK
  <2> QED
    BY <2>1 DEF Op, OpOf
<1>5. /\ Unsaved' = {i \in DOMAIN writes' : writes'[i].saved = "no"
                            /\ writes'[i].write.kind \in {"append", "replace"}}
      /\ Unsaved = {i \in DOMAIN writes : writes[i].saved = "no"
                            /\ writes[i].write.kind \in {"append", "replace"}}
  BY <1>0, QueueIsShaped, QueueStaysShaped DEF QueueShape
<1>6. store' = store
  BY DEF FedAt
<1> SUFFICES ASSUME NEW i \in EmitsInFlight'
             PROVE  /\ writes'[i].cursor <= Limit'
                    /\ MaxCrashes # 0 => IF writes'[i].saved = "no"
                                         THEN i \in Unsaved' /\ writes'[i].cursor <= At(i)'
                                         ELSE writes'[i].cursor <= Len(store')
  BY DEF EmitInv
<1>7. CASE i = N
  <2>1. At(i)' = k /\ i \in Unsaved'
    BY <1>3, <1>5, <1>7 DEF At
  <2> QED
    BY <1>1, <1>3, <1>7, <2>1
<1>8. CASE i # N
  <2>1. i \in DOMAIN writes /\ i \in EmitsInFlight /\ writes'[i] = writes[i]
    BY <1>3, <1>8 DEF EmitsInFlight
  <2>2. /\ writes[i].cursor <= Limit
        /\ MaxCrashes # 0 => IF writes[i].saved = "no"
                             THEN i \in Unsaved /\ writes[i].cursor <= At(i)
                             ELSE writes[i].cursor <= Len(store)
    BY <2>1 DEF EmitInv
  <2>3. At(i)' = At(i) /\ (i \in Unsaved => i \in Unsaved')
    BY <1>3, <1>5, <2>1 DEF At
  <2> QED
    BY <1>1, <1>4, <1>6, <2>1, <2>2, <2>3
<1> QED
  BY <1>7, <1>8

-------------------------------------------------------------------------------
(***************************************************************************)
(* One step of the run, for its emits and for each subscriber              *)
(***************************************************************************)
\* Only emit changes the log, only a store call the store.
LEMMA OthersLeaveLog ==
    ASSUME NoCancel, LogInv, [Next]_vars, proc = "up", proc' = "up", ~Emit, ~StoreCall
    PROVE  LogStays
<1>1. ~Cancel /\ ~CancelLate /\ ~DetachedCall /\ held = {} /\ store \in Seq(Part) /\ log \in Seq(Part)
  BY DEF NoCancel, LogInv, Cancel, CancelLate, DetachedCall, Base, TypeInv, TypeOK
<1>2. UNCHANGED <<log, openSlot, store>>
  BY <1>1 DEF Next, Run, Reader, Environment, InitializeStore, ResumeHolder, Finish,
     QueueInterruptMark, Subscribe, Receive, EndStream, Disconnect, Interrupt, Crash, Recover,
     vars, storeVars, runVars
<1>3. Len(store) \in Nat
  BY <1>1
<1> QED
  BY <1>2, <1>3 DEF LogStays

LEMMA ResumeCarried ==
    ASSUME TypeOK, ResumeHolder, NEW c
    PROVE  QueueCarried(c, 1) /\ EmitsCarried(1)
<1>1. writes # <<>>
  BY DEF ResumeHolder
<1>2. \/ writes' = Tail(writes)
      \/ \E op : op.role # "emit" /\ writes' = Append(Tail(writes), op)
  <2>1. \A t : MarkOp("finish", t).role # "emit"
    BY DEF MarkOp
  <2> QED
    BY <2>1 DEF ResumeHolder
<1> QED
  BY <1>1, <1>2, LeaveCarried

LEMMA MarkCarried ==
    ASSUME TypeOK, NEW c, QueueInterruptMark \/ \E outcome \in Outcomes : Finish(outcome)
    PROVE  QueueCarried(c, 0) /\ EmitsCarried(0)
<1>1. \E op : op.role # "emit" /\ writes' = Append(writes, op)
  <2>1. \A t : MarkOp("interrupt", t).role # "emit"
    BY DEF MarkOp
  <2>2. FinishOp(FlushWrite).role # "emit"
    BY OpShape
  <2> QED
    BY <2>1, <2>2 DEF QueueInterruptMark, Finish
<1> QED
  BY <1>1, JoinCarried

LEMMA EmitsMove ==
    ASSUME SegmentsOnly, NoCancel, StoreIsComplete, LogInv, EmitInv, TypeOK', [Next]_vars,
           proc = "up", proc' = "up"
    PROVE  EmitInv'
<1>0. TypeOK /\ TypeInv /\ held = {} /\ ~Cancel /\ ~CancelLate
  BY DEF LogInv, Base, TypeInv, NoCancel, CancelLate, Cancel
<1>1. CASE Emit
  <2>1. PICK roll \in BOOLEAN : FeedsOne(roll)
    BY <1>0, <1>1, FeedsOneEvent
  <2>2. PICK n, k : FedAt(n, k, roll)
    BY <2>1, FeedsOneAt
  <2> QED
    BY <2>2, FedEmits
<1>2. CASE StoreCall
  BY <1>2, StoreCallEmits
<1>3. CASE ~Emit /\ ~StoreCall
  <2>0. LogStays
    BY <1>3, OthersLeaveLog
  <2>1. CASE ResumeHolder
    BY <1>0, <2>0, <2>1, ResumeCarried, EmitsCarriedKeep
  <2>2. CASE QueueInterruptMark \/ \E outcome \in Outcomes : Finish(outcome)
    BY <1>0, <2>0, <2>2, MarkCarried, EmitsCarriedKeep
  <2>3. CASE \E e \in Clients : Disconnect(e)
    BY <1>0, <2>0, <2>3, DisconnectCarried, EmitsCarriedKeep
  <2>4. CASE writes' = writes
    BY <1>0, <2>0, <2>4, SameCarried, EmitsCarriedKeep
  <2> QED
    BY <1>0, <1>3, <2>1, <2>2, <2>3, <2>4
       DEF Next, Run, Reader, Environment, InitializeStore, Subscribe, Receive, EndStream,
           DetachedCall, Interrupt, Crash, Recover, vars, storeVars, runVars
<1> QED
  BY <1>1, <1>2, <1>3

LEMMA ResumeKeeps ==
    ASSUME LogInv, EmitInv, LogStays, NEW c \in Clients, ClientInv(c), ResumeHolder
    PROVE  ClientInv(c)'
<1>0. /\ TypeOK /\ writes \in Seq(Op) /\ writes # <<>> /\ stream \in [Clients -> Seq(Delivery)]
      /\ UNCHANGED <<seen, cursor, conn>>
  BY DEF LogInv, Base, TypeInv, TypeOK, ResumeHolder
<1>1. 1 \in DOMAIN writes /\ Head(writes) = writes[1] /\ writes[1].saved # "no"
  BY <1>0 DEF ResumeHolder
<1>2. QueueCarried(c, 1)
  BY <1>0, ResumeCarried
<1>3. StreamFed(c, 1)
  <2>1. CASE writes[1].role = "emit"
    <3>1. Deliver(Live(writes[1].event, writes[1].cursor), writes[1].targets)
      BY <1>1, <2>1 DEF ResumeHolder
    <3>2. CASE c \in writes[1].targets
      <4>1. stream'[c] = Append(stream[c], Live(writes[1].event, writes[1].cursor))
        BY <3>1, <3>2 DEF Deliver
      <4>2. 1 \in Queued(c) /\ 1 \in EmitsInFlight
        BY <1>1, <2>1, <3>2 DEF Queued, EmitsInFlight
      <4>3. Safe(writes[1].cursor)
        BY <1>1, <4>2 DEF EmitInv, Safe, SafeIn
      <4> QED
        BY <4>1, <4>2, <4>3 DEF StreamFed
    <3>3. CASE c \notin writes[1].targets
      <4>1. stream'[c] = stream[c] /\ 1 \notin Queued(c)
        BY <3>1, <3>3 DEF Deliver, Queued
      <4> QED
        BY <4>1 DEF StreamFed
    <3> QED
      BY <3>2, <3>3
  <2>2. CASE writes[1].role # "emit"
    <3>1. 1 \notin Queued(c)
      BY <2>2 DEF Queued
    <3>2. stream' = stream \/ Deliver(Sentinel, writes[1].targets)
      BY <1>1, <2>2 DEF ResumeHolder
    <3>3. stream'[c] = stream[c] \/ stream'[c] = Append(stream[c], Sentinel)
      BY <3>2 DEF Deliver
    <3> QED
      BY <3>1, <3>3 DEF StreamFed
  <2> QED
    BY <2>1, <2>2
<1> QED
  BY <1>0, <1>2, <1>3, ClientStays

LEMMA ClientMoves ==
    ASSUME SegmentsOnly, NoCancel, ReplaysAreFinal, LogInv, EmitInv, TypeOK', [Next]_vars,
           proc = "up", proc' = "up", NEW c \in Clients, ClientInv(c)
    PROVE  ClientInv(c)'
<1>0. /\ TypeOK /\ TypeInv /\ held = {} /\ ~Cancel /\ ~CancelLate /\ ~DetachedCall
      /\ conn \in [Clients -> {"off", "on", "draining", "ended"}]
      /\ stream \in [Clients -> Seq(Delivery)] /\ cursor \in [Clients -> Nat]
      /\ seen \in [Clients -> SUBSET Events]
  BY DEF LogInv, Base, TypeInv, TypeOK, NoCancel, Cancel, CancelLate, DetachedCall
<1>1. CASE Emit
  <2>1. PICK roll \in BOOLEAN : FeedsOne(roll)
    BY <1>0, <1>1, FeedsOneEvent
  <2>2. PICK n, k : FedAt(n, k, roll)
    BY <2>1, FeedsOneAt
  <2> QED
    BY <2>2, EmitKeeps
<1>2. CASE StoreCall
  <2>1. UNCHANGED <<seen, cursor, conn, stream>>
    BY <1>2 DEF StoreCall, clientVars
  <2>2. StreamFed(c, 0)
    BY <2>1 DEF StreamFed
  <2> QED
    BY <1>0, <1>2, <2>1, <2>2, StoreCallCarried, StoreCallLogStays, ClientStays
<1>3. CASE ~Emit /\ ~StoreCall
  <2>0. LogStays
    BY <1>3, OthersLeaveLog
  <2>1. CASE ResumeHolder
    BY <2>0, <2>1, ResumeKeeps
  <2>2. CASE QueueInterruptMark \/ \E outcome \in Outcomes : Finish(outcome)
    <3>1. UNCHANGED <<seen, cursor, conn, stream>>
      BY <2>2 DEF QueueInterruptMark, Finish, clientVars
    <3>2. StreamFed(c, 0)
      BY <3>1 DEF StreamFed
    <3> QED
      BY <1>0, <2>0, <2>2, <3>1, <3>2, MarkCarried, ClientStays
  <2>3. CASE Subscribe(c)
    BY <2>3, SubscribeKeeps
  <2>4. CASE Receive(c)
    BY <1>0, <2>4, ReceiveKeeps
  <2>5. CASE /\ writes' = writes /\ seen'[c] = seen[c] /\ cursor'[c] = cursor[c]
             /\ conn'[c] = "on" => conn[c] = "on"
             /\ stream'[c] = stream[c] \/ stream'[c] = Append(stream[c], Sentinel)
    <3>1. QueueCarried(c, 0)
      BY <1>0, <2>5, SameCarried
    <3>2. StreamFed(c, 0)
      BY <2>5 DEF StreamFed
    <3> QED
      BY <1>0, <2>0, <2>5, <3>1, <3>2, ClientStays
  <2>6. CASE \E e \in Clients : e # c /\ (Subscribe(e) \/ Receive(e))
    <3>1. PICK e \in Clients : e # c /\ (Subscribe(e) \/ Receive(e))
      BY <2>6
    <3>2. writes' = writes
      BY <3>1 DEF Subscribe, Receive, storeVars
    <3>3. seen'[c] = seen[c] /\ cursor'[c] = cursor[c] /\ conn'[c] = conn[c] /\ stream'[c] = stream[c]
      BY <1>0, <3>1 DEF Subscribe, Receive
    <3> QED
      BY <2>5, <3>2, <3>3
  <2>7. CASE \E e \in Clients : EndStream(e)
    BY <1>0, <2>5, <2>7 DEF EndStream, storeVars
  <2>8. CASE \E e \in Clients : Disconnect(e)
    <3>1. PICK e \in Clients : Disconnect(e)
      BY <2>8
    <3>2. /\ seen'[c] = seen[c] /\ cursor'[c] = cursor[c]
          /\ e = c => conn'[c] = "off"
          /\ e # c => conn'[c] = conn[c] /\ stream'[c] = stream[c]
      BY <1>0, <3>1 DEF Disconnect
    <3>3. CASE e = c
      BY <1>0, <2>0, <3>2, <3>3, ClientStays
    <3>4. CASE e # c
      <4>1. QueueCarried(c, 0)
        BY <1>0, <3>1, <3>4, DisconnectCarried
      <4>2. StreamFed(c, 0)
        BY <3>2, <3>4 DEF StreamFed
      <4> QED
        BY <1>0, <2>0, <3>2, <3>4, <4>1, <4>2, ClientStays
    <3> QED
      BY <3>3, <3>4
  <2>9. CASE Interrupt
    <3>1. stream'[c] = stream[c] \/ stream'[c] = Append(stream[c], Sentinel)
      BY <2>9 DEF Interrupt, Deliver
    <3> QED
      BY <2>5, <2>9, <3>1 DEF Interrupt, storeVars
  <2>10. CASE UNCHANGED vars
    BY <2>5, <2>10 DEF vars
  <2>11. ~InitializeStore /\ ~Crash /\ ~Recover
    BY DEF InitializeStore, Crash, Recover
  <2> QED
    BY <1>0, <1>3, <2>1, <2>2, <2>3, <2>4, <2>6, <2>7, <2>8, <2>9, <2>10, <2>11
       DEF Next, Run, Reader, Environment
<1> QED
  BY <1>1, <1>2, <1>3

\* What survives a crash is what the cursor vouched for.
LEMMA CrashKeeps ==
    ASSUME LogInv, proc = "up", Crash, NEW c \in Clients, ClientInv(c)
    PROVE  StoredClient(c)'
<1>1. /\ crashes \in Nat /\ MaxCrashes \in Nat /\ cursor[c] \in Nat
      /\ DOMAIN store = 1 .. Len(store) /\ DOMAIN log = 1 .. Len(log)
      /\ Len(store) \in Nat /\ Len(log) \in Nat
  BY DEF LogInv, Base, TypeInv, TypeOK
<1>2. crashes < MaxCrashes /\ crashes' = crashes + 1 /\ UNCHANGED <<store, cursor, seen>>
  BY DEF Crash
<1>3. MaxCrashes # 0 /\ crashes' # 0
  BY <1>1, <1>2
<1>4. \A m \in DOMAIN store : m \in DOMAIN log /\ store[m] \subseteq log[m]
  <2>1. Within /\ Len(store) <= Len(log)
    BY <1>3 DEF LogInv, Kept, Aligned
  <2> QED
    BY <1>1, <2>1 DEF Within
<1>5. HasInv(c)
  BY ClientParts
<1>6. cursor[c] <= Len(store)
  BY <1>3, <1>5 DEF HasInv, Safe, SafeIn
<1>7. \A m \in DOMAIN store : m <= cursor[c] => store[m] \subseteq seen[c]
  BY <1>4, <1>5 DEF HasInv, Vouches, Covers
<1>8. \A e \in seen[c], f \in EventsIn(store) : f < e => f \in seen[c]
  BY <1>4, <1>5 DEF HasInv, Closed, ClosedIn, EventsIn
<1> QED
  BY <1>2, <1>3, <1>6, <1>7, <1>8 DEF StoredClient

LEMMA StartKeeps ==
    ASSUME StoreIsComplete, LogInv, TypeOK', InitializeStore, NEW c \in Clients, StoredClient(c)
    PROVE  ClientInv(c)'
<1>1. /\ log' = store /\ store' = store /\ (MaxCrashes = 0 => store = <<>>)
      /\ openSlot' = 0 /\ conn'[c] # "on" /\ cursor' = cursor /\ seen' = seen
  BY StartsAsStored DEF LogInv
<1>2. /\ crashes \in 0 .. MaxCrashes /\ cursor[c] \in Nat /\ Len(store) \in Nat
      /\ DOMAIN store = 1 .. Len(store)
  BY DEF LogInv, Base, TypeInv, TypeOK
<1>3. Limit' = Len(store)
  BY <1>1 DEF Limit, LiveCursor
<1>4. CASE MaxCrashes = 0
  <2>1. log' = <<>> /\ cursor[c] = 0 /\ crashes = 0
    BY <1>1, <1>2, <1>4 DEF StoredClient
  <2>2. ClosedIn(log', seen[c]) /\ Covers(seen[c], log', cursor[c])
    BY <2>1 DEF ClosedIn, Covers
  <2>3. SafeIn(Limit', Len(store'), cursor[c])
    BY <1>2, <1>3, <1>4, <2>1 DEF SafeIn
  <2>4. HasInv(c)'
    BY <1>1, <2>2, <2>3 DEF HasInv, Closed, Vouches, Safe
  <2> QED
    BY <1>1, <2>4, ClientParts
<1>5. CASE MaxCrashes # 0
  <2>1. /\ cursor[c] <= Len(store)
        /\ \A m \in DOMAIN store : m <= cursor[c] => store[m] \subseteq seen[c]
        /\ \A e \in seen[c], f \in EventsIn(store) : f < e => f \in seen[c]
    BY <1>5 DEF StoredClient
  <2>2. ClosedIn(log', seen[c])
    BY <1>1, <2>1 DEF ClosedIn, EventsIn
  <2>3. Covers(seen[c], log', cursor[c])
    BY <1>1, <2>1 DEF Covers
  <2>4. SafeIn(Limit', Len(store'), cursor[c])
    BY <1>1, <1>3, <2>1 DEF SafeIn
  <2>5. HasInv(c)'
    BY <1>1, <2>2, <2>3, <2>4 DEF HasInv, Closed, Vouches, Safe
  <2> QED
    BY <1>1, <2>5, ClientParts
<1> QED
  BY <1>4, <1>5

LEMMA ReadStep ==
    ASSUME SegmentsOnly, NoCancel, ReplaysAreFinal, StoreIsComplete
    PROVE  ReadInv /\ [Next]_vars => ReadInv'
<1> SUFFICES ASSUME ReadInv, [Next]_vars PROVE ReadInv'
  OBVIOUS
<1>1. LogInv /\ EmitInv /\ LogInv' /\ TypeOK' /\ TypeOK /\ Base /\ Base'
  BY LogStep DEF ReadInv, LogInv, Base, TypeInv
<1>2. CASE proc = "up" /\ proc' = "up"
  <2>1. EmitInv'
    BY <1>1, <1>2, EmitsMove
  <2>2. \A c \in Clients : ClientInv(c)'
    BY <1>1, <1>2, ClientMoves DEF ReadInv
  <2> QED
    BY <1>1, <1>2, <2>1, <2>2 DEF ReadInv
<1>3. CASE proc # "up" /\ proc' = "up"
  <2>1. InitializeStore
    BY <1>3 DEF Next, Run, Reader, Environment, Emit, MayEmit, StoreCall, ResumeHolder,
       Finish, QueueInterruptMark, Subscribe, Receive, EndStream, Disconnect, DetachedCall,
       Interrupt, Cancel, CancelLate, Crash, Recover, vars, storeVars, runVars
  <2>2. \A c \in Clients : ClientInv(c)'
    BY <1>1, <1>3, <2>1, StartKeeps DEF ReadInv
  <2>3. EmitInv'
    <3>1. writes' = <<>>
      BY <1>1, <2>1, StartsAsStored
    <3> QED
      BY <3>1 DEF EmitInv, EmitsInFlight
  <2> QED
    BY <1>1, <1>3, <2>2, <2>3 DEF ReadInv
<1>4. CASE proc' # "up"
  <2>1. writes' = <<>>
    BY <1>1, <1>4 DEF Base, Idle
  <2>2. EmitInv'
    BY <2>1 DEF EmitInv, EmitsInFlight
  <2>3. ASSUME NEW c \in Clients PROVE StoredClient(c)'
    <3>1. CASE proc = "up"
      <4>1. Crash
        BY <1>4, <3>1 DEF Next, Run, Reader, Environment, InitializeStore, Emit, StoreCall,
           ResumeHolder, Finish, QueueInterruptMark, Subscribe, Receive, EndStream, Disconnect,
           DetachedCall, Interrupt, Cancel, CancelLate, Recover, vars, storeVars, runVars
      <4> QED
        BY <1>1, <3>1, <4>1, CrashKeeps DEF ReadInv
    <3>2. CASE proc # "up"
      <4>1. StoredClient(c) /\ detached = {} /\ \A e \in Clients : conn[e] \notin {"on", "draining"}
        BY <1>1, <3>2 DEF ReadInv, Base, Idle
      <4>a. crashes \in Nat
        BY <1>1 DEF TypeOK
      <4>b. ~InitializeStore /\ ~DetachedCall
            /\ \A e \in Clients : ~Receive(e) /\ ~EndStream(e) /\ ~Disconnect(e)
        BY <1>4, <4>1 DEF InitializeStore, DetachedCall, Receive, EndStream, Disconnect
      <4>2. UNCHANGED <<store, cursor, seen>> /\ crashes' \in {crashes, crashes + 1}
        BY <3>2, <4>b DEF Next, Run, Reader, Environment, Emit, MayEmit, StoreCall, ResumeHolder,
           Finish, QueueInterruptMark, Subscribe, Interrupt, Cancel, CancelLate, Crash, Recover, vars,
           storeVars, runVars, clientVars
      <4>3. crashes' = 0 => crashes = 0
        BY <4>a, <4>2
      <4> QED
        BY <4>1, <4>2, <4>3 DEF StoredClient
    <3> QED
      BY <3>1, <3>2
  <2> QED
    BY <1>1, <1>4, <2>2, <2>3 DEF ReadInv
<1> QED
  BY <1>2, <1>3, <1>4

LEMMA InitRead == Init => ReadInv
<1> SUFFICES ASSUME Init PROVE ReadInv
  OBVIOUS
<1>1. Base /\ BoundInv
  BY InitBase, InitBound
<1>2. LogInv
  BY <1>1 DEF Init, LogInv, WindowInv, Nested, EventsIn
<1>3. EmitInv
  BY DEF Init, EmitInv, EmitsInFlight
<1>4. \A c \in Clients : StoredClient(c)
  BY DEF Init, StoredClient
<1>5. proc # "up"
  BY DEF Init
<1> QED
  BY <1>2, <1>3, <1>4, <1>5 DEF ReadInv

LEMMA ReadInvariance ==
    ASSUME SegmentsOnly, NoCancel, ReplaysAreFinal, StoreIsComplete
    PROVE  Spec => []ReadInv
<1>1. Init => ReadInv
  BY InitRead
<1>2. ReadInv /\ [Next]_vars => ReadInv'
  BY ReadStep
<1> QED
  BY <1>1, <1>2, PTL DEF Spec

\* Resubscribing with the cursor it kept makes a client skip nothing: every
\* log entry up to the cursor has reached it (subscribe, execution.py:498, and
\* the cursor that stops short of an open slot, execution.py:335), through
\* lost connections, rolled snapshots, process deaths and the log rebuilt
\* from the store.
THEOREM CursorsSkipNothing ==
    ASSUME SegmentsOnly, NoCancel, ReplaysAreFinal, StoreIsComplete
    PROVE  Spec => []CursorSound
<1>1. ReadInv => CursorSound
  <2> SUFFICES ASSUME ReadInv, proc = "up", NEW c \in Clients,
                      NEW i \in 1 .. MinOf(cursor[c], Len(log))
               PROVE  log[i] \subseteq seen[c]
    BY DEF CursorSound
  <2>1. Len(log) \in Nat /\ cursor[c] \in Nat /\ DOMAIN log = 1 .. Len(log)
    BY DEF ReadInv, LogInv, Base, TypeInv, TypeOK
  <2>2. i \in DOMAIN log /\ i <= cursor[c]
    BY <2>1 DEF MinOf
  <2>3. Covers(seen[c], log, cursor[c])
    BY DEF ReadInv, ClientInv, Vouches
  <2> QED
    BY <2>2, <2>3 DEF Covers
<1> QED
  BY <1>1, ReadInvariance, PTL

\* No gaps (execution.py:78-86): whoever has received an event has received
\* every earlier one that still exists.
THEOREM NoGaps ==
    ASSUME SegmentsOnly, NoCancel, ReplaysAreFinal, StoreIsComplete
    PROVE  Spec => []GapFree
<1>1. ReadInv => GapFree
  <2> SUFFICES ASSUME ReadInv, NEW c \in Clients, NEW e \in seen[c], NEW f \in Surviving, f < e
               PROVE  f \in seen[c]
    BY DEF GapFree
  <2>1. held = {} /\ Base
    BY DEF ReadInv, LogInv
  <2>2. CASE proc = "up"
    <3>1. f \in EventsIn(log)
      BY <2>1, <2>2 DEF Surviving
    <3>2. ClosedIn(log, seen[c])
      BY <2>2 DEF ReadInv, ClientInv, Closed
    <3> QED
      BY <3>1, <3>2 DEF ClosedIn, EventsIn
  <2>3. CASE proc # "up"
    <3>1. f \in EventsIn(store) /\ StoredClient(c)
      BY <2>3 DEF ReadInv, Surviving
    <3>2. MaxCrashes # 0
      <4>1. ASSUME MaxCrashes = 0 PROVE FALSE
        <5>1. crashes = 0
          BY <2>1, <4>1 DEF Base, TypeInv, TypeOK
        <5>2. store = <<>>
          BY <2>1, <2>3, <5>1 DEF Base, FirstStart
        <5> QED
          BY <3>1, <5>2 DEF EventsIn
      <4> QED
        BY <4>1
    <3> QED
      BY <3>1, <3>2 DEF StoredClient
  <2> QED
    BY <2>2, <2>3
<1> QED
  BY <1>1, ReadInvariance, PTL

-------------------------------------------------------------------------------
(***************************************************************************)
(* The ordered broadcast                                                   *)
(***************************************************************************)
AppendsOnly == Policies \subseteq {"append"}
NeverCrashes == MaxCrashes = 0

\* A delivery of one event of K, or a sentinel.
SingleIn(d, K) == d.kind = "end" \/ \E e \in K : d.events = {e}

\* Every event is an entry of its own in the log, and in every delivery; what a client
\* has read is the beginning of the run.
OrderInv ==
    /\ Len(log) = emitted /\ \A i \in DOMAIN log : log[i] = {i}
    /\ \A c \in Clients :
         /\ \E k \in 0 .. emitted : seen[c] = 1 .. k
         /\ \A i \in DOMAIN stream[c] : SingleIn(stream[c][i], Known)

\* The only step of a reader that changes what it has: its next delivery, which the
\* invariant of the readers keeps from skipping an event.
LEMMA ReadsNext ==
    ASSUME ReadInv, OrderInv, NEW c \in Clients, Receive(c), seen' # seen
    PROVE  \E k \in 0 .. emitted - 1 : /\ seen[c] = 1 .. k
                                       /\ seen' = [seen EXCEPT ![c] = 1 .. k + 1]
<1>0. /\ emitted \in Nat /\ stream[c] \in Seq(Delivery) /\ seen \in [Clients -> SUBSET Events]
      /\ DOMAIN log = 1 .. Len(log)
  BY DEF ReadInv, LogInv, Base, TypeInv, TypeOK
<1>1. conn[c] = "on" /\ stream[c] # <<>> /\ proc = "up"
  BY DEF Receive, ReadInv, LogInv, Base, Idle
<1>2. 1 \in DOMAIN stream[c] /\ Head(stream[c]) = stream[c][1]
  BY <1>0, <1>1
<1>3. stream[c][1].kind # "end" /\ seen' = [seen EXCEPT ![c] = @ \cup stream[c][1].events]
  BY <1>2 DEF Receive
<1>4. PICK e \in Known : stream[c][1].events = {e}
  BY <1>2, <1>3 DEF OrderInv, SingleIn
<1>5. PICK k \in 0 .. emitted : seen[c] = 1 .. k
  BY DEF OrderInv
<1>6. seen' = [seen EXCEPT ![c] = (1 .. k) \cup {e}]
  BY <1>3, <1>4, <1>5
<1>7. Closed(Got(c, 1))
  BY <1>1, <1>2 DEF ReadInv, ClientInv
<1>8. Got(c, 1) = (1 .. k) \cup {e}
  BY <1>4, <1>5 DEF Got
<1>9. \A f \in 1 .. emitted : f < e => f \in (1 .. k) \cup {e}
  <2>1. \A f \in 1 .. emitted : f \in DOMAIN log /\ f \in log[f]
    BY <1>0 DEF OrderInv
  <2> QED
    BY <1>7, <1>8, <2>1 DEF Closed, ClosedIn
<1>10. e <= k + 1
  BY <1>0, <1>4, <1>9 DEF Known
<1>11. e = k + 1
  <2>1. ASSUME e <= k PROVE FALSE
    <3>1. (1 .. k) \cup {e} = 1 .. k
      BY <1>0, <1>4, <2>1 DEF Known
    <3>2. seen' = seen
      BY <1>0, <1>5, <1>6, <3>1
    <3> QED
      BY <3>2
  <2> QED
    BY <1>0, <1>4, <1>10, <2>1 DEF Known
<1>12. (1 .. k) \cup {e} = 1 .. k + 1 /\ k \in 0 .. emitted - 1
  BY <1>0, <1>4, <1>11 DEF Known
<1> QED
  BY <1>5, <1>6, <1>12

\* A step appends one event to the log or leaves it, and a client reads what is next.
LEMMA OrderMoves ==
    ASSUME AppendsOnly, NeverCrashes, NoCancel, ReadInv, TypeInv', OrderInv, [Next]_vars
    PROVE  \/ /\ emitted' = emitted + 1 /\ log' = Append(log, {emitted + 1})
              /\ UNCHANGED <<seen, stream>>
           \/ UNCHANGED <<emitted, log>>
<1>0. /\ TypeInv /\ TypeOK /\ held = {} /\ ~Crash /\ ~Cancel /\ ~CancelLate
      /\ proc # "up" => log = <<>> /\ store = <<>>
  <2>1. /\ TypeInv /\ TypeOK /\ held = {} /\ Idle /\ FirstStart /\ ~Cancel /\ ~CancelLate
    BY DEF ReadInv, LogInv, Base, TypeInv, Cancel, CancelLate, NoCancel
  <2>2. crashes = 0 /\ ~Crash
    BY <2>1 DEF TypeOK, Crash, NeverCrashes
  <2> QED
    BY <2>1, <2>2 DEF FirstStart, TypeInv, FreshUntilReady
<1>1. CASE Emit
  <2>1. FeedSegment({emitted + 1}, FALSE) /\ emitted' = emitted + 1 /\ seen' = seen
    BY <1>0, <1>1 DEF Emit, AppendsOnly
  <2>2. log' = Append(log, {emitted + 1})
    BY <2>1 DEF FeedSegment, LogAfter, Overwrites
  <2>3. WriteFor({emitted + 1}, FALSE).kind # "none"
    BY DEF WriteFor
  <2>4. stream' = stream
    BY <2>1, <2>3 DEF FeedSegment, Persist, PassesThrough
  <2> QED
    BY <2>1, <2>2, <2>4
<1>2. CASE InitializeStore
  BY <1>0, <1>2 DEF InitializeStore, Preloaded
<1>3. CASE \E outcome \in Outcomes : Finish(outcome)
  BY <1>0, <1>3 DEF Finish
<1> QED
  BY <1>0, <1>1, <1>2, <1>3 DEF Next, Run, Reader, Environment, StoreCall, ResumeHolder,
     QueueInterruptMark, Subscribe, Receive, EndStream, Disconnect, DetachedCall, Interrupt,
     Recover, vars, storeVars, runVars, clientVars

LEMMA OrderStep ==
    ASSUME AppendsOnly, NeverCrashes, NoCancel, ReadInv, TypeInv', BoundInv', OrderInv, [Next]_vars
    PROVE  OrderInv'
<1>0. /\ emitted \in Nat /\ log \in Seq(Part) /\ stream \in [Clients -> Seq(Delivery)]
      /\ seen \in [Clients -> SUBSET Events] /\ writes \in Seq(Op)
  BY DEF ReadInv, LogInv, Base, TypeInv, TypeOK
<1>1. emitted' \in Nat /\ emitted <= emitted' /\ Known \subseteq Known'
  BY <1>0, OrderMoves DEF Known
<1>2. Len(log') = emitted' /\ \A i \in DOMAIN log' : log'[i] = {i}
  <2>1. CASE UNCHANGED <<emitted, log>>
    BY <2>1 DEF OrderInv
  <2>2. CASE emitted' = emitted + 1 /\ log' = Append(log, {emitted + 1})
    <3>1. /\ Len(log') = Len(log) + 1 /\ log'[Len(log) + 1] = {emitted + 1}
          /\ \A i \in DOMAIN log' : i \in DOMAIN log \/ i = Len(log) + 1
          /\ \A i \in DOMAIN log : log'[i] = log[i]
      BY <1>0, <2>2
    <3> QED
      BY <2>2, <3>1 DEF OrderInv
  <2> QED
    BY <2>1, <2>2, OrderMoves
<1>3. ASSUME NEW c \in Clients PROVE \E k \in 0 .. emitted' : seen'[c] = 1 .. k
  <2>1. CASE seen'[c] = seen[c]
    BY <1>0, <1>1, <2>1 DEF OrderInv
  <2>2. CASE seen'[c] # seen[c]
    <3>1. PICK d \in Clients : Receive(d)
      BY <2>2 DEF Next, Run, Reader, Environment, InitializeStore, Emit, StoreCall, ResumeHolder,
         Finish, QueueInterruptMark, Subscribe, EndStream, Disconnect, DetachedCall, Interrupt,
         Cancel, CancelLate, Crash, Recover, vars, clientVars
    <3>2. PICK k \in 0 .. emitted - 1 : seen[d] = 1 .. k /\ seen' = [seen EXCEPT ![d] = 1 .. k + 1]
      BY <2>2, <3>1, ReadsNext
    <3>3. c = d /\ seen'[c] = 1 .. k + 1
      BY <1>0, <2>2, <3>2
    <3>4. k + 1 \in 0 .. emitted'
      BY <1>0, <1>1
    <3> QED
      BY <3>3, <3>4
  <2> QED
    BY <2>1, <2>2
<1>4. ASSUME NEW c \in Clients, NEW i \in DOMAIN stream'[c]
      PROVE  SingleIn(stream'[c][i], Known')
  <2>0. \A j \in DOMAIN stream[c] : SingleIn(stream[c][j], Known')
    BY <1>1 DEF OrderInv, SingleIn
  <2>1. SingleIn(Sentinel, Known')
    BY DEF Sentinel, SingleIn
  <2>2. ASSUME NEW d, SingleIn(d, Known'), stream'[c] = Append(stream[c], d) PROVE SingleIn(stream'[c][i], Known')
    <3>1. (i \in DOMAIN stream[c] /\ stream'[c][i] = stream[c][i]) \/ stream'[c][i] = d
      BY <1>0, <2>2
    <3> QED
      BY <2>0, <2>2, <3>1
  <2>3. ASSUME NEW d, NEW targets, SingleIn(d, Known'), Deliver(d, targets) PROVE SingleIn(stream'[c][i], Known')
    <3>1. stream'[c] = stream[c] \/ stream'[c] = Append(stream[c], d)
      BY <2>3 DEF Deliver
    <3> QED
      BY <2>0, <2>2, <2>3, <3>1
  <2>4. CASE ResumeHolder
    <3>1. 1 \in DOMAIN writes /\ Head(writes) = writes[1]
      BY <1>0, <2>4 DEF ResumeHolder
    <3>2. writes[1].role = "emit" => SingleIn(Live(writes[1].event, writes[1].cursor), Known')
      BY <1>1, <3>1 DEF ReadInv, LogInv, BoundInv, Live, SingleIn
    <3>3. stream' = stream => SingleIn(stream'[c][i], Known')
      BY <2>0
    <3>4. writes[1].role = "emit" => \E targets : Deliver(Live(writes[1].event, writes[1].cursor), targets)
      BY <2>4, <3>1 DEF ResumeHolder
    <3>5. writes[1].role # "emit" => stream' = stream \/ \E targets : Deliver(Sentinel, targets)
      BY <2>4, <3>1 DEF ResumeHolder
    <3> QED
      BY <2>1, <2>3, <3>2, <3>3, <3>4, <3>5
  <2>5. CASE \E d \in Clients : Subscribe(d)
    <3>1. PICK d \in Clients : Subscribe(d)
      BY <2>5
    <3>2. CASE c = d
      <4>1. \A j \in DOMAIN Backlog(cursor[c]) : SingleIn(Backlog(cursor[c])[j], Known')
        <5>1. cursor[c] \in Nat /\ Len(log) = emitted /\ DOMAIN log = 1 .. Len(log)
          BY <1>0 DEF ReadInv, LogInv, Base, TypeInv, TypeOK, OrderInv
        <5>2. DOMAIN Backlog(cursor[c]) = 1 .. Len(log) - MinOf(cursor[c], Len(log))
          BY DEF Backlog
        <5>3. \A j \in 1 .. Len(log) - MinOf(cursor[c], Len(log)) : cursor[c] + j \in DOMAIN log
          BY <5>1 DEF MinOf
        <5>4. \A j \in DOMAIN Backlog(cursor[c]) : Backlog(cursor[c])[j].events = {cursor[c] + j}
          BY <5>2, <5>3 DEF Backlog, Replay, OrderInv
        <5> QED
          BY <1>1, <5>1, <5>2, <5>3, <5>4 DEF Known, SingleIn
      <4>2. Backlog(cursor[c]) \in Seq(Delivery)
        BY <1>0, BacklogType DEF ReadInv, LogInv, Base, TypeInv, TypeOK
      <4>3. \/ stream'[c] = Backlog(cursor[c])
            \/ stream'[c] = Append(Backlog(cursor[c]), Sentinel)
        BY <1>0, <3>1, <3>2 DEF Subscribe
      <4>4. \/ i \in DOMAIN Backlog(cursor[c]) /\ stream'[c][i] = Backlog(cursor[c])[i]
            \/ stream'[c][i] = Sentinel
        BY <4>2, <4>3
      <4> QED
        BY <2>1, <4>1, <4>4
    <3>3. CASE c # d
      <4>1. stream'[c] = stream[c]
        BY <1>0, <3>1, <3>3 DEF Subscribe
      <4> QED
        BY <2>0, <4>1
    <3> QED
      BY <3>2, <3>3
  <2>6. CASE \E d \in Clients : Receive(d)
    <3>1. PICK d \in Clients : Receive(d)
      BY <2>6
    <3>2. stream[c] \in Seq(Delivery) /\ (c = d => stream[c] # <<>>)
      BY <1>0, <3>1 DEF Receive
    <3>3. stream'[c] = stream[c] \/ stream'[c] = <<>> \/ (c = d /\ stream'[c] = Tail(stream[c]))
      BY <1>0, <3>1 DEF Receive
    <3>4. \/ i \in DOMAIN stream[c] /\ stream'[c][i] = stream[c][i]
          \/ i + 1 \in DOMAIN stream[c] /\ stream'[c][i] = stream[c][i + 1]
      <4>1. CASE stream'[c] = stream[c]
        BY <4>1
      <4>2. CASE stream'[c] = <<>>
        <5>1. DOMAIN stream'[c] = {}
          BY <4>2
        <5> QED
          BY <5>1
      <4>3. CASE stream[c] # <<>> /\ stream'[c] = Tail(stream[c])
        <5>1. \A j \in DOMAIN Tail(stream[c]) : j + 1 \in DOMAIN stream[c]
                                               /\ Tail(stream[c])[j] = stream[c][j + 1]
          BY <3>2, <4>3
        <5> QED
          BY <4>3, <5>1
      <4> QED
        BY <3>2, <3>3, <4>1, <4>2, <4>3
    <3> QED
      BY <2>0, <3>4
  <2>7. CASE Interrupt
    BY <2>1, <2>3, <2>7 DEF Interrupt
  <2>8. CASE \E d \in Clients : Disconnect(d)
    <3>1. stream'[c] = stream[c] \/ stream'[c] = <<>>
      BY <1>0, <2>8 DEF Disconnect
    <3> QED
      BY <2>0, <3>1
  <2>9. CASE Crash
    BY <2>9 DEF Crash
  <2>10. CASE stream' = stream
    BY <2>0, <2>10
  <2>11. Emit => stream' = stream
    <3>1. Emit => emitted' = emitted + 1
      BY DEF Emit
    <3> QED
      BY <1>0, <3>1, OrderMoves
  <2> QED
    BY <2>4, <2>5, <2>6, <2>7, <2>8, <2>9, <2>10, <2>11
       DEF Next, Run, Reader, Environment, InitializeStore, StoreCall, Finish,
           QueueInterruptMark, EndStream, DetachedCall, Cancel, CancelLate, Recover, vars, clientVars
<1> QED
  BY <1>2, <1>3, <1>4 DEF OrderInv

\* Where the coalescer makes every event a segment of its own, nothing crashes and no
\* emit is cancelled, a run is an ordered broadcast: whatever connects, leaves,
\* resubscribes, fails in the store or is interrupted, a client reads the events in order, each once.
THEOREM ImplementsBroadcast ==
    ASSUME AppendsOnly, NeverCrashes, NoCancel
    PROVE  Spec => OrderedBroadcast
<1>1. Init => Broadcast!Init /\ OrderInv
  BY DEF Init, Broadcast!Init, OrderInv
<1>2. Spec => []ReadInv
  BY ReadInvariance DEF SegmentsOnly, ReplaysAreFinal, StoreIsComplete, AppendsOnly, NeverCrashes
<1>3. (ReadInv => TypeInv /\ BoundInv) /\ (ReadInv' => TypeInv' /\ BoundInv')
  BY DEF ReadInv, LogInv, Base
<1>4. ReadInv /\ ReadInv' /\ OrderInv /\ [Next]_vars => OrderInv'
  BY <1>3, OrderStep
<1>5. ReadInv /\ ReadInv' /\ OrderInv /\ [Next]_vars => [Broadcast!Next]_<<emitted, seen>>
  <2> SUFFICES ASSUME ReadInv, TypeInv', OrderInv, [Next]_vars
               PROVE  [Broadcast!Next]_<<emitted, seen>>
    BY <1>3
  <2>1. CASE \E c \in Clients : Receive(c) /\ seen' # seen
    <3>1. PICK c \in Clients : Receive(c) /\ seen' # seen
      BY <2>1
    <3>2. Broadcast!Read(c)
      BY <3>1, ReadsNext DEF Broadcast!Read, Receive
    <3> QED
      BY <3>2 DEF Broadcast!Next
  <2>2. CASE ~\E c \in Clients : Receive(c) /\ seen' # seen
    <3>1. seen' = seen
      BY <2>2 DEF Next, Run, Reader, Environment, InitializeStore, Emit, StoreCall, ResumeHolder,
         Finish, QueueInterruptMark, Subscribe, EndStream, Disconnect, DetachedCall, Interrupt,
         Cancel, CancelLate, Crash, Recover, vars, clientVars
    <3>2. emitted' = emitted \/ emitted' = emitted + 1
      BY OrderMoves
    <3> QED
      BY <3>1, <3>2 DEF Broadcast!Next, Broadcast!Publish
  <2> QED
    BY <2>1, <2>2
<1> QED
  BY <1>1, <1>2, <1>4, <1>5, PTL DEF Spec, OrderedBroadcast, Broadcast!Spec

-------------------------------------------------------------------------------
(***************************************************************************)
(* Nothing twice                                                           *)
(***************************************************************************)
Below(A, B) == \A x \in A, y \in B : x < y

\* The entries of a log are in the order of their events, and none is empty.
Rising(l) == \A i \in DOMAIN l : l[i] # {} /\ \A j \in DOMAIN l : i < j => Below(l[i], l[j])

\* What the log l has behind its entry k is later than S.
Older(S, l, k) == \A m \in DOMAIN l : k < m => Below(S, l[m])

\* The deliveries s on their way to a client that has S: each is later than what the
\* client has by then, and so is what a cursor leaves to be replayed.
Fresh(s, S, l) ==
    \A i \in DOMAIN s :
        /\ Below(S, s[i].events) /\ \A j \in DOMAIN s : j < i => Below(s[j].events, s[i].events)
        /\ s[i].kind # "end" => s[i].events # {} /\ Older(s[i].events, l, s[i].cursor)

\* Event e is later than what the client has and is sent.
Later(S, s, e) == Below(S, {e}) /\ \A i \in DOMAIN s : Below(s[i].events, {e})

LEMMA NextIsLater == \A n \in Nat : \A S : S \subseteq 1 .. n => Below(S, {n + 1})
  BY DEF Below

LEMMA LogRises ==
    ASSUME NEW l \in Seq(Part), NEW n \in Nat, \A i \in DOMAIN l : l[i] \subseteq 1 .. n
    PROVE  /\ Rising(l) => Rising(Append(l, {n + 1}))
           /\ \A S, k : (S \subseteq 1 .. n /\ Older(S, l, k)) => Older(S, Append(l, {n + 1}), k)
           /\ \A S : Older(S, Append(l, {n + 1}), Len(l) + 1)
<1>1. /\ DOMAIN l = 1 .. Len(l) /\ Len(l) \in Nat
      /\ DOMAIN Append(l, {n + 1}) = 1 .. Len(l) + 1 /\ Append(l, {n + 1})[Len(l) + 1] = {n + 1}
      /\ \A i \in DOMAIN l : Append(l, {n + 1})[i] = l[i]
  OBVIOUS
<1>2. PICK t : t = Append(l, {n + 1})
  OBVIOUS
<1>3. /\ \A i \in DOMAIN t : (i \in DOMAIN l /\ t[i] = l[i]) \/ (i = Len(l) + 1 /\ t[i] = {n + 1})
      /\ \A i \in DOMAIN l : i < Len(l) + 1 /\ ~(Len(l) + 1 < i)
      /\ \A i \in DOMAIN t : ~(Len(l) + 1 < i)
  BY <1>1, <1>2
<1>4. \A S : S \subseteq 1 .. n => Below(S, {n + 1})
  BY NextIsLater
<1>5. ASSUME Rising(l) PROVE Rising(t)
  <2>1. \A i \in DOMAIN t : t[i] # {}
    BY <1>3, <1>5 DEF Rising
  <2>2. ASSUME NEW i \in DOMAIN t, NEW j \in DOMAIN t, i < j PROVE Below(t[i], t[j])
    <3>1. i \in DOMAIN l /\ t[i] = l[i]
      BY <1>3, <2>2
    <3>2. CASE j \in DOMAIN l /\ t[j] = l[j]
      BY <1>5, <2>2, <3>1, <3>2 DEF Rising
    <3>3. CASE t[j] = {n + 1}
      BY <1>4, <3>1, <3>3
    <3> QED
      BY <1>3, <3>2, <3>3
  <2> QED
    BY <2>1, <2>2 DEF Rising
<1>6. \A S, k : (S \subseteq 1 .. n /\ Older(S, l, k)) => Older(S, t, k)
  BY <1>3, <1>4 DEF Older
<1>7. \A S : Older(S, t, Len(l) + 1)
  BY <1>3 DEF Older
<1> QED
  BY <1>2, <1>5, <1>6, <1>7

\* One more delivery: the sentinel, or an event later than all before.
LEMMA FreshGrows ==
    ASSUME NEW s \in Seq(Delivery), NEW S, NEW l, NEW d, Fresh(s, S, l),
           \/ d.kind = "end" /\ d.events = {}
           \/ \E e : /\ d.events = {e} /\ Later(S, s, e) /\ Older({e}, l, d.cursor)
    PROVE  Fresh(Append(s, d), S, l)
<1>1. /\ \A i \in DOMAIN Append(s, d) : \/ i \in DOMAIN s /\ Append(s, d)[i] = s[i]
                                        \/ i = Len(s) + 1 /\ Append(s, d)[i] = d
      /\ \A i \in DOMAIN s : ~(Len(s) + 1 < i) /\ i # Len(s) + 1
  OBVIOUS
<1>2. /\ Below(S, d.events) /\ \A j \in DOMAIN s : Below(s[j].events, d.events)
      /\ d.kind # "end" => d.events # {} /\ Older(d.events, l, d.cursor)
  BY DEF Below, Later
<1>3. \A i \in DOMAIN s :
        /\ Below(S, s[i].events) /\ \A j \in DOMAIN s : j < i => Below(s[j].events, s[i].events)
        /\ s[i].kind # "end" => s[i].events # {} /\ Older(s[i].events, l, s[i].cursor)
  BY DEF Fresh
<1>4. PICK t : t = Append(s, d)
  OBVIOUS
<1>5. \A i \in DOMAIN t : \/ i \in DOMAIN s /\ t[i] = s[i]
                          \/ i = Len(s) + 1 /\ t[i] = d
  BY <1>1, <1>4
<1>6. ~(Len(s) + 1 < Len(s) + 1)
  BY <1>1
<1>7. Fresh(t, S, l)
  BY <1>1, <1>2, <1>3, <1>5, <1>6 DEF Fresh
<1> QED
  BY <1>4, <1>7

\* The log gets an event later than everything.
LEMMA FreshLog ==
    ASSUME NEW s, NEW S, NEW l \in Seq(Part), NEW n \in Nat, Fresh(s, S, l),
           \A i \in DOMAIN l : l[i] \subseteq 1 .. n, \A i \in DOMAIN s : s[i].events \subseteq 1 .. n
    PROVE  Fresh(s, S, Append(l, {n + 1}))
<1>1. \A T, k : (T \subseteq 1 .. n /\ Older(T, l, k)) => Older(T, Append(l, {n + 1}), k)
  BY LogRises
<1> QED
  BY <1>1 DEF Fresh

\* The first delivery is read.
LEMMA FreshRead ==
    ASSUME NEW s \in Seq(Delivery), s # <<>>, NEW S, NEW l, Fresh(s, S, l)
    PROVE  /\ Fresh(Tail(s), S \cup s[1].events, l)
           /\ \A e : Later(S, s, e) => Later(S \cup s[1].events, Tail(s), e)
<1>1. /\ 1 \in DOMAIN s
      /\ \A i \in DOMAIN Tail(s) : /\ i + 1 \in DOMAIN s /\ Tail(s)[i] = s[i + 1] /\ 1 < i + 1
                                   /\ \A j \in DOMAIN Tail(s) : j < i => j + 1 < i + 1
  OBVIOUS
<1>2. PICK t : t = Tail(s)
  OBVIOUS
<1>3. \A i \in DOMAIN t : /\ i + 1 \in DOMAIN s /\ t[i] = s[i + 1] /\ 1 < i + 1
                          /\ \A j \in DOMAIN t : j < i => j + 1 < i + 1
  BY <1>1, <1>2
<1>4. \A A, B, C : Below(A, C) /\ Below(B, C) => Below(A \cup B, C)
  BY DEF Below
<1>5. Fresh(t, S \cup s[1].events, l)
  <2> SUFFICES ASSUME NEW i \in DOMAIN t
               PROVE  /\ Below(S \cup s[1].events, t[i].events)
                      /\ \A j \in DOMAIN t : j < i => Below(t[j].events, t[i].events)
                      /\ t[i].kind # "end" => t[i].events # {} /\ Older(t[i].events, l, t[i].cursor)
    BY DEF Fresh
  <2>1. /\ Below(S, s[i + 1].events) /\ Below(s[1].events, s[i + 1].events)
        /\ s[i + 1].kind # "end" =>
              s[i + 1].events # {} /\ Older(s[i + 1].events, l, s[i + 1].cursor)
    BY <1>1, <1>3 DEF Fresh
  <2>2. \A j \in DOMAIN t : j < i => Below(s[j + 1].events, s[i + 1].events)
    BY <1>3 DEF Fresh
  <2> QED
    BY <1>3, <1>4, <2>1, <2>2
<1>6. \A e : Later(S, s, e) => Later(S \cup s[1].events, t, e)
  BY <1>1, <1>3, <1>4 DEF Later
<1> QED
  BY <1>2, <1>5, <1>6

\* The backlog behind a cursor is later than what the client has.
LEMMA FreshBacklog ==
    ASSUME log \in Seq(Part), NEW k \in Nat, NEW S, Rising(log), Older(S, log, k)
    PROVE  Fresh(Backlog(k), S, log)
<1>1. DOMAIN log = 1 .. Len(log) /\ Len(log) \in Nat
  OBVIOUS
<1>2. DOMAIN Backlog(k) = 1 .. Len(log) - MinOf(k, Len(log))
  BY DEF Backlog
<1>3. \A i \in DOMAIN Backlog(k) :
        /\ k + i \in DOMAIN log /\ k < k + i
        /\ \A j \in DOMAIN Backlog(k) : j < i => k + j < k + i
  BY <1>1, <1>2 DEF MinOf
<1>4. \A i \in DOMAIN Backlog(k) :
        /\ Backlog(k)[i].events = log[k + i] /\ Backlog(k)[i].cursor = k + i
  BY <1>2 DEF Backlog, Replay
<1>5. PICK b : b = Backlog(k)
  OBVIOUS
<1>6. \A i \in DOMAIN b :
        /\ k + i \in DOMAIN log /\ k < k + i /\ b[i].events = log[k + i] /\ b[i].cursor = k + i
        /\ \A j \in DOMAIN b : j < i => k + j < k + i
  BY <1>3, <1>4, <1>5
<1>7. Fresh(b, S, log)
  <2> SUFFICES ASSUME NEW i \in DOMAIN b
               PROVE  /\ Below(S, b[i].events)
                      /\ \A j \in DOMAIN b : j < i => Below(b[j].events, b[i].events)
                      /\ b[i].events # {} /\ Older(b[i].events, log, b[i].cursor)
    BY DEF Fresh
  <2>1. Below(S, log[k + i])
    BY <1>6 DEF Older
  <2>2. \A j \in DOMAIN b : j < i => Below(log[k + j], log[k + i])
    BY <1>6 DEF Rising
  <2>3. log[k + i] # {} /\ Older(log[k + i], log, k + i)
    BY <1>6 DEF Older, Rising
  <2> QED
    BY <1>6, <2>1, <2>2, <2>3
<1> QED
  BY <1>5, <1>7

\* What an operation of the queue q is to readers and store: that of the queue p, for no
\* more clients, or one that carries neither an event nor a segment.
Same(o, p) ==
    /\ o.role = p.role /\ o.write = p.write /\ o.event = p.event /\ o.cursor = p.cursor
    /\ o.targets \subseteq p.targets
    /\ o.saved = "no" => p.saved = "no"
Enters(o, done) ==
    /\ o.role # "emit" /\ o.write.kind = "none"
    /\ o.role \in {"flush", "finish"} => done

\* The queue q is p without some of its operations, and with some at its end that carry nothing.
Thins(q, p, done) ==
    /\ \A i \in DOMAIN q : Enters(q[i], done) \/ \E v \in DOMAIN p : Same(q[i], p[v])
    /\ \A i, j \in DOMAIN q :
          \/ ~(i < j) \/ Enters(q[i], done) \/ Enters(q[j], done)
          \/ \E v, w \in DOMAIN p : v < w /\ Same(q[i], p[v]) /\ Same(q[j], p[w])

LEMMA ThinsSelf == ASSUME NEW q, NEW done PROVE Thins(q, q, done)
  BY DEF Thins, Same

\* A queue one operation longer or shorter.
LEMMA ThinsJoin ==
    ASSUME NEW q \in Seq(Op), NEW p, NEW op, NEW done, Thins(q, p, done), Enters(op, done)
    PROVE  Thins(Append(q, op), p, done)
<1>1. PICK t : t = Append(q, op)
  OBVIOUS
<1>2. \A i \in DOMAIN t : (i \in DOMAIN q /\ t[i] = q[i]) \/ t[i] = op
  BY <1>1
<1> QED
  BY <1>1, <1>2 DEF Thins

\* Operation k leaves.
LEMMA ThinsLeave ==
    ASSUME NEW q, NEW p \in Seq(Op), NEW k \in Nat, NEW done,
           \A i \in DOMAIN q : /\ i \in Nat /\ (IF i < k THEN i ELSE i + 1) \in DOMAIN p
                               /\ q[i] = p[IF i < k THEN i ELSE i + 1]
    PROVE  Thins(q, p, done)
<1>1. \A o : Same(o, o)
  BY DEF Same
<1>2. \A i, j \in DOMAIN q : i < j => (IF i < k THEN i ELSE i + 1) < (IF j < k THEN j ELSE j + 1)
  OBVIOUS
<1> QED
  BY <1>1, <1>2 DEF Thins

\* Its operations stay where they are.
LEMMA ThinsInPlace ==
    ASSUME NEW q, NEW p, NEW done, DOMAIN q = DOMAIN p, \A i \in DOMAIN p : Same(q[i], p[i])
    PROVE  Thins(q, p, done)
  BY DEF Thins

\* finish sets the status before it queues up, and `_finished' after its last write.
FinInv ==
    /\ finished => Done
    /\ Done => \A i \in DOMAIN writes : writes[i].role # "emit"
    /\ \A i \in DOMAIN writes : writes[i].role \in {"flush", "finish"} => Done

\* No step but an emit puts an event or a segment into the queue.
LEMMA QueueThins ==
    ASSUME TypeOK, held = {}, FinInv, [Next]_vars, ~Emit
    PROVE  Thins(writes', writes, Done')
<1>0. writes \in Seq(Op) /\ \A i \in DOMAIN writes : writes[i] \in Op
  BY DEF TypeOK
<1>1. CASE writes' = writes
  BY <1>1, ThinsSelf
<1>2. CASE StoreCall
  <2>1. /\ DOMAIN writes' = DOMAIN writes
        /\ \A i \in DOMAIN writes :
              /\ writes'[i].role = writes[i].role /\ writes'[i].write = writes[i].write
              /\ writes'[i].event = writes[i].event /\ writes'[i].cursor = writes[i].cursor
              /\ writes'[i].targets = writes[i].targets
              /\ i # 1 => writes'[i].saved = writes[i].saved
        /\ writes'[1].saved # "no"
    BY <1>2, StoreCallQueue
  <2>2. \A i \in DOMAIN writes : Same(writes'[i], writes[i])
    BY <2>1 DEF Same
  <2> QED
    BY <2>1, <2>2, ThinsInPlace
<1>3. CASE ResumeHolder
  <2>0. writes # <<>>
    BY <1>3 DEF ResumeHolder
  <2>1. /\ Tail(writes) \in Seq(Op)
        /\ \A i \in DOMAIN Tail(writes) : /\ i \in Nat /\ i + 1 \in DOMAIN writes
                                          /\ Tail(writes)[i] = writes[i + 1]
        /\ 1 \in DOMAIN writes /\ Head(writes) = writes[1]
    BY <2>0, TailMembers
  <2>2. PICK t : t = Tail(writes)
    OBVIOUS
  <2>3. \A i \in DOMAIN t : i \in Nat /\ i >= 1
    BY <2>1, <2>2
  <2>4. \A i \in DOMAIN t : /\ i \in Nat /\ (IF i < 1 THEN i ELSE i + 1) \in DOMAIN writes
                            /\ t[i] = writes[IF i < 1 THEN i ELSE i + 1]
    BY <2>1, <2>2, <2>3
  <2>5. Thins(t, writes, Done')
    BY <1>0, <2>4, ThinsLeave
  <2>6. CASE writes' = Append(Tail(writes), MarkOp("finish", Head(writes).targets))
             /\ Head(writes).role = "flush"
    <3>1. PICK op : op = MarkOp("finish", Head(writes).targets)
      OBVIOUS
    <3>2. op.role = "finish" /\ op.write.kind = "none"
      BY <3>1 DEF MarkOp, NoWrite
    <3>3. Done'
      <4>1. status' = status /\ Done
        BY <1>3, <2>1, <2>6 DEF ResumeHolder, FinInv
      <4> QED
        BY <4>1 DEF Done
    <3>4. Enters(op, Done') /\ t \in Seq(Op) /\ writes' = Append(t, op)
      BY <2>1, <2>2, <2>6, <3>1, <3>2, <3>3 DEF Enters
    <3>5. Thins(Append(t, op), writes, Done')
      BY <2>5, <3>4, ThinsJoin
    <3> QED
      BY <3>4, <3>5
  <2> QED
    BY <1>3, <2>2, <2>5, <2>6 DEF ResumeHolder
<1>4. CASE \E outcome \in Outcomes : Finish(outcome)
  <2>1. PICK outcome \in Outcomes : Finish(outcome)
    BY <1>4
  <2>2. Done'
    BY <2>1 DEF Finish, Done
  <2>3. PICK op : op = FinishOp(FlushWrite)
    OBVIOUS
  <2>4. op.role \in {"flush", "finish"} /\ op.write.kind = "none"
    <3>1. FlushWrite.kind = "none"
      BY DEF FlushWrite, NoWrite
    <3> QED
      BY <2>3, <3>1, OpShape
  <2>5. Enters(op, Done') /\ writes' = Append(writes, op)
    BY <2>1, <2>2, <2>3, <2>4 DEF Enters, Finish
  <2>6. Thins(Append(writes, op), writes, Done')
    BY <1>0, <2>5, ThinsSelf, ThinsJoin
  <2> QED
    BY <2>5, <2>6
<1>5. CASE QueueInterruptMark
  <2>1. PICK op : op = MarkOp("interrupt", {})
    OBVIOUS
  <2>2. Enters(op, Done') /\ writes' = Append(writes, op)
    BY <1>5, <2>1 DEF Enters, MarkOp, NoWrite, QueueInterruptMark
  <2>3. Thins(Append(writes, op), writes, Done')
    BY <1>0, <2>2, ThinsSelf, ThinsJoin
  <2> QED
    BY <2>2, <2>3
<1>6. CASE Cancel \/ CancelLate
  <2>1. CASE \E i \in DOMAIN writes : Abandon(i)
    <3>1. PICK k \in DOMAIN writes : Abandon(k)
      BY <2>1
    <3>2. k \in DOMAIN writes /\ k \in Nat
      BY <1>0, <3>1 DEF EmitsInFlight
    <3> QED
      BY <1>0, <3>1, <3>2, AbandonMembers, ThinsLeave
  <2> QED
    BY <1>1, <1>6, <2>1 DEF Cancel, CancelLate, EmitsInFlight
<1>7. CASE \E c \in Clients : Disconnect(c)
  <2>1. PICK c : writes' = [i \in DOMAIN writes |-> [writes[i] EXCEPT !.targets = @ \ {c}]]
    BY <1>7 DEF Disconnect
  <2>2. DOMAIN writes' = DOMAIN writes
        /\ \A i \in DOMAIN writes : writes'[i] = [writes[i] EXCEPT !.targets = @ \ {c}]
    BY <2>1
  <2>3. \A i \in DOMAIN writes : Same(writes'[i], writes[i])
    BY <1>0, <2>2 DEF Op, OpOf, Same
  <2> QED
    BY <2>2, <2>3, ThinsInPlace
<1>8. CASE Crash
  BY <1>8 DEF Crash, Thins
<1> QED
  BY <1>1, <1>2, <1>3, <1>4, <1>5, <1>6, <1>7, <1>8
     DEF Next, Run, Reader, Environment, InitializeStore, Subscribe, Receive, EndStream,
         DetachedCall, Interrupt, Recover, vars, storeVars, runVars

\* The emits of the queue q are in the order of their events, and a cursor of theirs
\* leaves only later events of the log l to be replayed.
InTurn(q, l) ==
    /\ \A w \in DOMAIN q : /\ q[w].write.kind # "replace"
                           /\ q[w].role = "emit" => Older({q[w].event}, l, q[w].cursor)
    /\ \A v, w \in DOMAIN q : (v < w /\ q[v].role = "emit" /\ q[w].role = "emit")
                                  => q[v].event < q[w].event

\* What the queue q holds for the client c, which has S and is sent s, is later than both.
Awaits(q, c, S, s) ==
    \A w \in DOMAIN q : (q[w].role = "emit" /\ c \in q[w].targets) => Later(S, s, q[w].event)

\* The store st holds entries of the log l in their order, all before those the queue q
\* has yet to append.
Waiting(o) == o.write.kind = "append" /\ o.saved = "no"
Unsent(q, l, st) ==
    /\ \A w \in DOMAIN q : Waiting(q[w]) =>
          q[w].write.at \in DOMAIN l /\ q[w].write.part = l[q[w].write.at]
    /\ \A v, w \in DOMAIN q : (v < w /\ Waiting(q[v]) /\ Waiting(q[w]))
                                  => q[v].write.at < q[w].write.at
    /\ \A i \in DOMAIN st : \E j \in DOMAIN l :
          /\ i <= j /\ st[i] = l[j]
          /\ \A w \in DOMAIN q : Waiting(q[w]) => j < q[w].write.at

LEMMA ThinsKeep ==
    ASSUME NEW q, NEW p, NEW done, Thins(q, p, done)
    PROVE  /\ \A l : InTurn(p, l) => InTurn(q, l)
           /\ \A c, S, s : Awaits(p, c, S, s) => Awaits(q, c, S, s)
           /\ \A l, st : Unsent(p, l, st) => Unsent(q, l, st)
<1>1. \A i \in DOMAIN q : Enters(q[i], done) \/ \E v \in DOMAIN p : Same(q[i], p[v])
  BY DEF Thins
<1>2. \A i, j \in DOMAIN q :
          \/ ~(i < j) \/ Enters(q[i], done) \/ Enters(q[j], done)
          \/ \E v, w \in DOMAIN p : v < w /\ Same(q[i], p[v]) /\ Same(q[j], p[w])
  BY DEF Thins
<1>3. \A o : Enters(o, done) => o.role # "emit" /\ ~Waiting(o) /\ o.write.kind # "replace"
  BY DEF Enters, Waiting
<1>4. \A o, r : Same(o, r) => /\ o.role = r.role /\ o.write = r.write /\ o.event = r.event
                              /\ o.cursor = r.cursor /\ o.targets \subseteq r.targets
                              /\ Waiting(o) => Waiting(r)
  BY DEF Same, Waiting
<1>5. ASSUME NEW l, InTurn(p, l) PROVE InTurn(q, l)
  <2>1. ASSUME NEW w \in DOMAIN q
        PROVE  /\ q[w].write.kind # "replace"
               /\ q[w].role = "emit" => Older({q[w].event}, l, q[w].cursor)
    BY <1>1, <1>3, <1>4, <1>5 DEF InTurn
  <2>2. ASSUME NEW v \in DOMAIN q, NEW w \in DOMAIN q, v < w, q[v].role = "emit", q[w].role = "emit"
        PROVE  q[v].event < q[w].event
    BY <1>2, <1>3, <1>4, <1>5, <2>2 DEF InTurn
  <2> QED
    BY <2>1, <2>2 DEF InTurn
<1>6. ASSUME NEW c, NEW S, NEW s, Awaits(p, c, S, s) PROVE Awaits(q, c, S, s)
  BY <1>1, <1>3, <1>4, <1>6 DEF Awaits
<1>7. ASSUME NEW l, NEW st, Unsent(p, l, st) PROVE Unsent(q, l, st)
  <2>1. \A w \in DOMAIN q : Waiting(q[w]) => \E v \in DOMAIN p : Waiting(p[v]) /\ q[w].write = p[v].write
    BY <1>1, <1>3, <1>4
  <2>2. \A w \in DOMAIN q : Waiting(q[w]) =>
          q[w].write.at \in DOMAIN l /\ q[w].write.part = l[q[w].write.at]
    BY <1>7, <2>1 DEF Unsent
  <2>3. ASSUME NEW v \in DOMAIN q, NEW w \in DOMAIN q, v < w, Waiting(q[v]), Waiting(q[w])
        PROVE  q[v].write.at < q[w].write.at
    BY <1>2, <1>3, <1>4, <1>7, <2>3 DEF Unsent
  <2>4. ASSUME NEW i \in DOMAIN st
        PROVE  \E j \in DOMAIN l : /\ i <= j /\ st[i] = l[j]
                                   /\ \A w \in DOMAIN q : Waiting(q[w]) => j < q[w].write.at
    <3>1. PICK j \in DOMAIN l : /\ i <= j /\ st[i] = l[j]
                                /\ \A w \in DOMAIN p : Waiting(p[w]) => j < p[w].write.at
      BY <1>7, <2>4 DEF Unsent
    <3> QED
      BY <2>1, <3>1
  <2> QED
    BY <2>2, <2>3, <2>4 DEF Unsent
<1> QED
  BY <1>5, <1>6, <1>7

\* An operation more, which carries event n + 1 and its segment.
LEMMA InTurnGrows ==
    ASSUME NEW q \in Seq(Op), NEW op, NEW l \in Seq(Part), NEW n \in Nat, InTurn(q, l),
           \A i \in DOMAIN l : l[i] \subseteq 1 .. n,
           \A i \in DOMAIN q : q[i].role = "emit" => q[i].event \in 1 .. n,
           op.event = n + 1, op.cursor = Len(l) + 1, op.write.kind # "replace"
    PROVE  InTurn(Append(q, op), Append(l, {n + 1}))
<1>1. PICK t : t = Append(q, op)
  OBVIOUS
<1>2. /\ \A i \in DOMAIN t : (i \in DOMAIN q /\ t[i] = q[i]) \/ (i = Len(q) + 1 /\ t[i] = op)
      /\ \A i \in DOMAIN q : i < Len(q) + 1 /\ ~(Len(q) + 1 < i)
      /\ ~(Len(q) + 1 < Len(q) + 1)
  BY <1>1
<1>3. PICK m : m = Append(l, {n + 1})
  OBVIOUS
<1>4. /\ \A S, k : (S \subseteq 1 .. n /\ Older(S, l, k)) => Older(S, m, k)
      /\ \A S : Older(S, m, Len(l) + 1)
  BY <1>3, LogRises
<1>5. ASSUME NEW w \in DOMAIN t
      PROVE  /\ t[w].write.kind # "replace"
             /\ t[w].role = "emit" => Older({t[w].event}, m, t[w].cursor)
  <2>1. CASE w \in DOMAIN q /\ t[w] = q[w]
    <3>1. q[w].role = "emit" => {q[w].event} \subseteq 1 .. n
      BY <2>1
    <3> QED
      BY <1>4, <2>1, <3>1 DEF InTurn
  <2>2. CASE t[w] = op
    BY <1>4, <2>2
  <2> QED
    BY <1>2, <2>1, <2>2
<1>6. ASSUME NEW v \in DOMAIN t, NEW w \in DOMAIN t, v < w, t[v].role = "emit", t[w].role = "emit"
      PROVE  t[v].event < t[w].event
  <2>1. v \in DOMAIN q /\ t[v] = q[v]
    BY <1>2, <1>6
  <2>2. CASE w \in DOMAIN q /\ t[w] = q[w]
    BY <1>6, <2>1, <2>2 DEF InTurn
  <2>3. CASE t[w] = op
    <3>1. q[v].event \in 1 .. n
      BY <1>6, <2>1
    <3> QED
      BY <2>1, <2>3, <3>1
  <2> QED
    BY <1>2, <2>2, <2>3
<1>7. InTurn(t, m)
  BY <1>5, <1>6 DEF InTurn
<1> QED
  BY <1>1, <1>3, <1>7

LEMMA AwaitsGrows ==
    ASSUME NEW q \in Seq(Op), NEW op, NEW c, NEW S, NEW s, NEW n \in Nat, Awaits(q, c, S, s),
           op.event = n + 1, S \subseteq 1 .. n, \A i \in DOMAIN s : s[i].events \subseteq 1 .. n
    PROVE  Awaits(Append(q, op), c, S, s)
<1>1. PICK t : t = Append(q, op)
  OBVIOUS
<1>2. \A i \in DOMAIN t : (i \in DOMAIN q /\ t[i] = q[i]) \/ t[i] = op
  BY <1>1
<1>3. \A T : T \subseteq 1 .. n => Below(T, {n + 1})
  BY NextIsLater
<1>4. Later(S, s, n + 1)
  BY <1>3 DEF Later
<1>5. Awaits(t, c, S, s)
  BY <1>2, <1>4 DEF Awaits
<1> QED
  BY <1>1, <1>5

LEMMA UnsentGrows ==
    ASSUME NEW q \in Seq(Op), NEW op, NEW l \in Seq(Part), NEW part, NEW st, Unsent(q, l, st),
           op.write.at = Len(l) + 1, op.write.part = part
    PROVE  Unsent(Append(q, op), Append(l, part), st)
<1>1. PICK t : t = Append(q, op)
  OBVIOUS
<1>2. /\ \A i \in DOMAIN t : (i \in DOMAIN q /\ t[i] = q[i]) \/ (i = Len(q) + 1 /\ t[i] = op)
      /\ \A i \in DOMAIN q : ~(Len(q) + 1 < i)
      /\ ~(Len(q) + 1 < Len(q) + 1)
  BY <1>1
<1>3. PICK m : m = Append(l, part)
  OBVIOUS
<1>4. /\ \A j \in DOMAIN l : j \in DOMAIN m /\ m[j] = l[j] /\ j < Len(l) + 1
      /\ Len(l) + 1 \in DOMAIN m /\ m[Len(l) + 1] = part
  BY <1>3
<1>5. \A w \in DOMAIN q : Waiting(q[w]) =>
          q[w].write.at \in DOMAIN l /\ q[w].write.part = l[q[w].write.at]
  BY DEF Unsent
<1>6. ASSUME NEW w \in DOMAIN t, Waiting(t[w])
      PROVE  t[w].write.at \in DOMAIN m /\ t[w].write.part = m[t[w].write.at]
  BY <1>2, <1>4, <1>5, <1>6
<1>7. ASSUME NEW v \in DOMAIN t, NEW w \in DOMAIN t, v < w, Waiting(t[v]), Waiting(t[w])
      PROVE  t[v].write.at < t[w].write.at
  <2>1. v \in DOMAIN q /\ t[v] = q[v] /\ q[v].write.at \in DOMAIN l
    BY <1>2, <1>5, <1>7
  <2>2. CASE w \in DOMAIN q /\ t[w] = q[w]
    BY <1>7, <2>1, <2>2 DEF Unsent
  <2>3. CASE t[w] = op
    BY <1>4, <2>1, <2>3
  <2> QED
    BY <1>2, <2>2, <2>3
<1>8. ASSUME NEW i \in DOMAIN st
      PROVE  \E j \in DOMAIN m : /\ i <= j /\ st[i] = m[j]
                                 /\ \A w \in DOMAIN t : Waiting(t[w]) => j < t[w].write.at
  <2>1. PICK j \in DOMAIN l : /\ i <= j /\ st[i] = l[j]
                              /\ \A w \in DOMAIN q : Waiting(q[w]) => j < q[w].write.at
    BY <1>8 DEF Unsent
  <2> QED
    BY <1>2, <1>4, <2>1
<1>9. Unsent(t, m, st)
  BY <1>6, <1>7, <1>8 DEF Unsent
<1> QED
  BY <1>1, <1>3, <1>9

\* The holder of the lock appends its segment to the store.
LEMMA UnsentSaved ==
    ASSUME NEW q, NEW p \in Seq(Op), NEW l \in Seq(Part), NEW st \in Seq(Part),
           Unsent(p, l, st), Rising(l), Rising(st), 1 \in DOMAIN p, Waiting(p[1]),
           DOMAIN q = DOMAIN p, \A i \in DOMAIN p : q[i].write = p[i].write,
           \A i \in DOMAIN p : Waiting(q[i]) => i # 1 /\ Waiting(p[i])
    PROVE  /\ Unsent(q, l, Append(st, p[1].write.part))
           /\ Rising(Append(st, p[1].write.part))
<1> DEFINE a == p[1].write.at
<1>1. PICK t : t = Append(st, p[1].write.part)
  OBVIOUS
<1>2. a \in DOMAIN l /\ p[1].write.part = l[a] /\ a \in Nat /\ 1 <= a
  BY DEF Unsent
<1>3. \A w \in DOMAIN q : Waiting(q[w]) => Waiting(p[w]) /\ 1 < w /\ q[w].write = p[w].write /\ w \in DOMAIN p
  OBVIOUS
<1>4. \A w \in DOMAIN q : Waiting(q[w]) => a < q[w].write.at
  BY <1>3 DEF Unsent
<1>5. \A i \in DOMAIN st : \E j \in DOMAIN l :
          /\ i <= j /\ st[i] = l[j] /\ j < a
          /\ \A w \in DOMAIN p : Waiting(p[w]) => j < p[w].write.at
  BY DEF Unsent
<1>6. Len(st) + 1 <= a
  <2>1. CASE Len(st) = 0
    BY <1>2, <2>1
  <2>2. CASE Len(st) # 0
    <3>1. Len(st) \in DOMAIN st
      BY <2>2
    <3>2. PICK j \in DOMAIN l : Len(st) <= j /\ j < a
      BY <1>5, <3>1
    <3> QED
      BY <1>2, <3>2
  <2> QED
    BY <2>1, <2>2
<1>7. /\ \A i \in DOMAIN t : (i \in DOMAIN st /\ t[i] = st[i]) \/ (i = Len(st) + 1 /\ t[i] = l[a])
      /\ \A i \in DOMAIN st : ~(Len(st) + 1 < i)
      /\ ~(Len(st) + 1 < Len(st) + 1)
  BY <1>1, <1>2
<1> HIDE DEF a
<1>8. Unsent(q, l, t)
  <2>1. ASSUME NEW w \in DOMAIN q, Waiting(q[w])
        PROVE  q[w].write.at \in DOMAIN l /\ q[w].write.part = l[q[w].write.at]
    BY <1>3, <2>1 DEF Unsent
  <2>2. ASSUME NEW v \in DOMAIN q, NEW w \in DOMAIN q, v < w, Waiting(q[v]), Waiting(q[w])
        PROVE  q[v].write.at < q[w].write.at
    BY <1>3, <2>2 DEF Unsent
  <2>3. ASSUME NEW i \in DOMAIN t
        PROVE  \E j \in DOMAIN l : /\ i <= j /\ t[i] = l[j]
                                   /\ \A w \in DOMAIN q : Waiting(q[w]) => j < q[w].write.at
    <3>1. CASE i \in DOMAIN st /\ t[i] = st[i]
      <4>1. PICK j \in DOMAIN l : /\ i <= j /\ st[i] = l[j]
                                  /\ \A w \in DOMAIN p : Waiting(p[w]) => j < p[w].write.at
        BY <1>5, <3>1
      <4> QED
        BY <1>3, <3>1, <4>1
    <3>2. CASE i = Len(st) + 1 /\ t[i] = l[a]
      BY <1>2, <1>4, <1>6, <3>2
    <3> QED
      BY <1>7, <3>1, <3>2
  <2> QED
    BY <2>1, <2>2, <2>3 DEF Unsent
<1>9. Rising(t)
  <2>1. \A i \in DOMAIN t : t[i] # {}
    BY <1>2, <1>7 DEF Rising
  <2>2. ASSUME NEW i \in DOMAIN t, NEW j \in DOMAIN t, i < j PROVE Below(t[i], t[j])
    <3>1. i \in DOMAIN st /\ t[i] = st[i]
      BY <1>7, <2>2
    <3>2. CASE j \in DOMAIN st /\ t[j] = st[j]
      BY <2>2, <3>1, <3>2 DEF Rising
    <3>3. CASE t[j] = l[a]
      <4>1. PICK m \in DOMAIN l : st[i] = l[m] /\ m < a
        BY <1>5, <3>1
      <4> QED
        BY <1>2, <3>1, <3>3, <4>1 DEF Rising
    <3> QED
      BY <1>7, <3>2, <3>3
  <2> QED
    BY <2>1, <2>2 DEF Rising
<1> QED
  BY <1>1, <1>8, <1>9

\* What a client has, what is on its way, and what waits to be sent, in this order.
FreshClient(c) ==
    /\ Older(seen[c], log, cursor[c])
    /\ Fresh(stream[c], seen[c], log)
    /\ Awaits(writes, c, seen[c], stream[c])
    /\ conn[c] \in {"off", "ended"} =>
          \A w \in DOMAIN writes : writes[w].role = "emit" => c \notin writes[w].targets

\* A restart reads back what it wrote, in the order of the log.
StoredInv ==
    (MaxCrashes # 0 /\ CanSize) =>
        /\ detached = {} /\ Rising(store)
        /\ proc = "up" => Unsent(writes, log, store)
        /\ proc # "up" => \A c \in Clients : Older(seen[c], store, cursor[c])

DupInv ==
    /\ held = {} /\ openSlot = 0
    /\ Rising(log) /\ InTurn(writes, log)
    /\ FinInv
    /\ \A c \in Clients : FreshClient(c)
    /\ StoredInv

\* With the default coalescer every emit logs one segment and queues up with it.
LEMMA EmitQueues ==
    ASSUME AppendsOnly, TypeInv, held = {}, openSlot = 0, Emit
    PROVE  /\ held' = {} /\ openSlot' = 0 /\ log' = Append(log, {emitted + 1})
           /\ emitted + 1 \in Events /\ proc = "up" /\ ~Done
           /\ UNCHANGED <<proc, status, finished, stream, seen, cursor, conn, store, detached>>
           /\ \E op : /\ writes' = Append(writes, op)
                      /\ op.role = "emit" /\ op.event = emitted + 1 /\ op.cursor = Len(log) + 1
                      /\ op.targets = Subscribers /\ op.write.kind = "append"
                      /\ op.write.at = Len(log) + 1 /\ op.write.part = {emitted + 1}
<1>1. FeedSegment({emitted + 1}, FALSE)
  BY DEF Emit, AppendsOnly
<1>2. log' = Append(log, {emitted + 1}) /\ held' = {} /\ openSlot' = 0
  BY <1>1 DEF FeedSegment, LogAfter, SlotAfter, Overwrites
<1>3. Len(log') = Len(log) + 1
  BY <1>2 DEF TypeInv, TypeOK
<1>4. /\ WriteFor({emitted + 1}, FALSE).kind = "append"
      /\ WriteFor({emitted + 1}, FALSE).at = Len(log) + 1
      /\ WriteFor({emitted + 1}, FALSE).part = {emitted + 1}
  BY DEF WriteFor, Overwrites
<1>5. PICK wr : wr = WriteFor({emitted + 1}, FALSE)
  OBVIOUS
<1>6. LiveCursor(Len(log'), openSlot') = Len(log) + 1
  BY <1>2, <1>3 DEF LiveCursor
<1>7. /\ writes' = Append(writes, EmitOp(wr, emitted + 1, Len(log) + 1))
      /\ stream' = stream
  BY <1>1, <1>4, <1>5, <1>6 DEF FeedSegment, Persist, PassesThrough
<1>8. PICK op : op = EmitOp(wr, emitted + 1, Len(log) + 1)
  OBVIOUS
<1>9. /\ op.role = "emit" /\ op.event = emitted + 1 /\ op.cursor = Len(log) + 1
      /\ op.targets = Subscribers /\ op.write = wr
  BY <1>8, OpShape
<1>10. /\ emitted + 1 \in Events /\ proc = "up" /\ ~Done
       /\ UNCHANGED <<proc, status, finished, seen, cursor, conn, store, detached>>
  BY DEF Emit, MayEmit, Events, TypeInv, TypeOK
<1> QED
  BY <1>2, <1>4, <1>5, <1>7, <1>8, <1>9, <1>10

LEMMA EmitKeepsOrder ==
    ASSUME AppendsOnly, Base, BoundInv, DupInv, Emit
    PROVE  DupInv'
<1>0. /\ TypeInv /\ TypeOK /\ held = {} /\ openSlot = 0 /\ emitted \in Nat
      /\ log \in Seq(Part) /\ writes \in Seq(Op)
  BY DEF Base, TypeInv, TypeOK, DupInv
<1>1. /\ held' = {} /\ openSlot' = 0 /\ log' = Append(log, {emitted + 1})
      /\ proc = "up" /\ ~Done
      /\ UNCHANGED <<proc, status, finished, stream, seen, cursor, conn, store, detached>>
  BY <1>0, EmitQueues
<1>2. PICK op : /\ writes' = Append(writes, op)
                /\ op.role = "emit" /\ op.event = emitted + 1 /\ op.cursor = Len(log) + 1
                /\ op.targets = Subscribers /\ op.write.kind = "append"
                /\ op.write.at = Len(log) + 1 /\ op.write.part = {emitted + 1}
  BY <1>0, EmitQueues
<1>3. /\ \A i \in DOMAIN log : log[i] \subseteq 1 .. emitted
      /\ \A c \in Clients : /\ seen[c] \subseteq 1 .. emitted
                            /\ \A i \in DOMAIN stream[c] : stream[c][i].events \subseteq 1 .. emitted
      /\ \A i \in DOMAIN writes : writes[i].role = "emit" => writes[i].event \in 1 .. emitted
  BY DEF BoundInv, Known
<1>4. Rising(log')
  BY <1>0, <1>1, <1>3, LogRises DEF DupInv
<1>5. InTurn(writes', log')
  <2>1. op.write.kind # "replace"
    BY <1>2
  <2> QED
    BY <1>0, <1>1, <1>2, <1>3, <2>1, InTurnGrows DEF DupInv
<1>6. \A i \in DOMAIN writes' : (i \in DOMAIN writes /\ writes'[i] = writes[i]) \/ writes'[i] = op
  BY <1>0, <1>2
<1>7. FinInv'
  <2>1. ~Done'
    BY <1>1 DEF Done
  <2>2. ~finished'
    BY <1>1 DEF DupInv, FinInv
  <2>3. \A i \in DOMAIN writes' : writes'[i].role \notin {"flush", "finish"}
    BY <1>1, <1>2, <1>6 DEF DupInv, FinInv
  <2> QED
    BY <2>1, <2>2, <2>3 DEF FinInv
<1>8. ASSUME NEW c \in Clients PROVE FreshClient(c)'
  <2>0. FreshClient(c) /\ seen'[c] = seen[c] /\ stream'[c] = stream[c] /\ cursor'[c] = cursor[c]
        /\ conn'[c] = conn[c]
    BY <1>1 DEF DupInv
  <2>1. Older(seen'[c], log', cursor'[c])
    BY <1>0, <1>1, <1>3, <2>0, LogRises DEF FreshClient
  <2>2. Fresh(stream'[c], seen'[c], log')
    BY <1>0, <1>1, <1>3, <2>0, FreshLog DEF FreshClient
  <2>3. Awaits(writes', c, seen'[c], stream'[c])
    BY <1>0, <1>2, <1>3, <2>0, AwaitsGrows DEF FreshClient
  <2>4. conn'[c] \in {"off", "ended"} => c \notin op.targets
    BY <1>2, <2>0 DEF Subscribers
  <2>5. conn'[c] \in {"off", "ended"} =>
          \A w \in DOMAIN writes' : writes'[w].role = "emit" => c \notin writes'[w].targets
    BY <1>6, <2>0, <2>4 DEF FreshClient
  <2> QED
    BY <2>1, <2>2, <2>3, <2>5 DEF FreshClient
<1>9. StoredInv'
  <2>1. Unsent(writes, log, store) => Unsent(writes', log', store')
    BY <1>0, <1>1, <1>2, UnsentGrows
  <2> QED
    BY <1>1, <2>1 DEF DupInv, StoredInv
<1> QED
  BY <1>1, <1>4, <1>5, <1>7, <1>8, <1>9 DEF DupInv

\* A process that may die and then reads its store back, reads it entirely, and has
\* written it in order.
RestartsInOrder ==
    (MaxCrashes # 0 /\ CanSize) => Disturbances \cap {"read", "cancel"} = {}

\* With nothing in the coalescer only emits and restarts change the log.
LEMMA OthersKeepLog ==
    ASSUME Base, DupInv, [Next]_vars, ~Emit, ~InitializeStore, ~Crash
    PROVE  UNCHANGED <<log, held, openSlot>>
  BY DEF DupInv, Next, Run, Reader, Environment, StoreCall, ResumeHolder, Finish,
     QueueInterruptMark, Subscribe, Receive, EndStream, Disconnect, DetachedCall, Interrupt,
     Cancel, CancelLate, Recover, vars, storeVars, runVars

LEMMA SavedInOrder ==
    ASSUME Base, DupInv, MaxCrashes # 0, CanSize, StoreCall
    PROVE  Rising(store') /\ Unsent(writes', log', store')
<1>0. /\ TypeOK /\ writes \in Seq(Op) /\ store \in Seq(Part) /\ log \in Seq(Part)
      /\ proc = "up" /\ log' = log /\ Rising(log) /\ Rising(store) /\ Unsent(writes, log, store)
  BY DEF Base, TypeInv, TypeOK, StoreCall, runVars, DupInv, StoredInv
<1>1. /\ 1 \in DOMAIN writes /\ Head(writes) = writes[1] /\ writes[1].saved = "no"
      /\ DOMAIN writes' = DOMAIN writes
      /\ \A i \in DOMAIN writes :
            /\ writes'[i].role = writes[i].role /\ writes'[i].write = writes[i].write
            /\ writes'[i].event = writes[i].event /\ writes'[i].cursor = writes[i].cursor
            /\ writes'[i].targets = writes[i].targets
            /\ i # 1 => writes'[i].saved = writes[i].saved
      /\ writes'[1].saved # "no"
  BY <1>0, StoreCallQueue
<1>2. writes[1].write.kind # "replace"
  BY <1>1 DEF DupInv, InTurn
<1>3. \/ store' = store
      \/ store' = Append(store, writes[1].write.part) /\ writes[1].write.kind = "append"
  BY <1>1, <1>2 DEF StoreCall, StoreAfter
<1>4. CASE store' = store
  <2>1. \A i \in DOMAIN writes : Same(writes'[i], writes[i])
    BY <1>1 DEF Same
  <2>2. Thins(writes', writes, TRUE)
    BY <1>1, <2>1, ThinsInPlace
  <2> QED
    BY <1>0, <1>4, <2>2, ThinsKeep
<1>5. CASE store' = Append(store, writes[1].write.part) /\ writes[1].write.kind = "append"
  <2>1. Waiting(writes[1])
    BY <1>1, <1>5 DEF Waiting
  <2>2. \A i \in DOMAIN writes : Waiting(writes'[i]) => i # 1 /\ Waiting(writes[i])
    BY <1>1 DEF Waiting
  <2>3. \A i \in DOMAIN writes : writes'[i].write = writes[i].write
    BY <1>1
  <2>4. DOMAIN writes' = DOMAIN writes /\ 1 \in DOMAIN writes
    BY <1>1
  <2> QED
    BY <1>0, <1>5, <2>1, <2>2, <2>3, <2>4, UnsentSaved
<1> QED
  BY <1>3, <1>4, <1>5

\* What is behind a cursor in the store was behind it in the log.
LEMMA StoredIsOlder ==
    ASSUME NEW l \in Seq(Part), NEW st \in Seq(Part), NEW q, Unsent(q, l, st),
           NEW S, NEW k \in Nat, Older(S, l, k)
    PROVE  Older(S, st, k)
<1>1. \A i \in DOMAIN st : i \in Nat /\ \E j \in DOMAIN l : j \in Nat /\ i <= j /\ st[i] = l[j]
  BY DEF Unsent
<1> QED
  BY <1>1 DEF Older

LEMMA StoredStep ==
    ASSUME RestartsInOrder, Base, DupInv, [Next]_vars, ~Emit
    PROVE  StoredInv'
<1> SUFFICES ASSUME MaxCrashes # 0, CanSize
             PROVE  /\ detached' = {} /\ Rising(store')
                    /\ proc' = "up" => Unsent(writes', log', store')
                    /\ proc' # "up" => \A c \in Clients : Older(seen'[c], store', cursor'[c])
  BY DEF StoredInv
<1>0. /\ TypeOK /\ Idle /\ held = {} /\ FinInv /\ log \in Seq(Part) /\ store \in Seq(Part)
      /\ cursor \in [Clients -> Nat] /\ "cancel" \notin Disturbances /\ "read" \notin Disturbances
      /\ proc # "up" => writes = <<>>
  BY DEF Base, Idle, TypeInv, TypeOK, DupInv, RestartsInOrder
<1>1. /\ detached = {} /\ Rising(store)
      /\ proc = "up" => Unsent(writes, log, store)
      /\ proc # "up" => \A c \in Clients : Older(seen[c], store, cursor[c])
  BY DEF DupInv, StoredInv
<1>2. ~Cancel /\ ~CancelLate /\ ~DetachedCall
  BY <1>0, <1>1 DEF Cancel, CancelLate, DetachedCall
<1>3. CASE StoreCall
  <2>1. Rising(store') /\ Unsent(writes', log', store')
    BY <1>3, SavedInOrder
  <2> QED
    BY <1>1, <1>3, <2>1 DEF StoreCall
<1>4. CASE InitializeStore
  <2>1. /\ proc' = "up" /\ log' = store /\ store' = store /\ writes' = <<>> /\ detached' = {}
    BY <1>0, <1>1, <1>4 DEF InitializeStore, Preloaded
  <2>2. \A i \in DOMAIN store : i \in Nat
    BY <1>0
  <2>3. Unsent(<<>>, store, store)
    BY <2>2 DEF Unsent
  <2> QED
    BY <1>1, <2>1, <2>3
<1>5. CASE Crash
  <2>1. proc' # "up" /\ UNCHANGED <<store, seen, cursor>> /\ detached' = {}
    BY <1>5 DEF Crash
  <2>2. ASSUME NEW c \in Clients, proc = "up" PROVE Older(seen[c], store, cursor[c])
    <3>1. Older(seen[c], log, cursor[c]) /\ cursor[c] \in Nat
      BY <1>0 DEF DupInv, FreshClient
    <3> QED
      BY <1>0, <1>1, <2>2, <3>1, StoredIsOlder
  <2> QED
    BY <1>1, <2>1, <2>2
<1>6. CASE ~StoreCall /\ ~InitializeStore /\ ~Crash
  <2>1. UNCHANGED <<log, store, detached>>
    <3>1. UNCHANGED log
      BY <1>6, OthersKeepLog
    <3>2. UNCHANGED <<store, detached>>
      BY <1>2, <1>6 DEF Next, Run, Reader, Environment, Emit, ResumeHolder, Finish,
         QueueInterruptMark, Subscribe, Receive, EndStream, Disconnect, Interrupt, Recover,
         vars, storeVars
    <3> QED
      BY <3>1, <3>2
  <2>2. Thins(writes', writes, Done')
    BY <1>0, QueueThins
  <2>3. proc' = "up" => proc = "up"
    BY <1>2, <1>6 DEF Next, Run, Reader, Environment, Emit, ResumeHolder, Finish,
       QueueInterruptMark, Subscribe, Receive, EndStream, Disconnect, Interrupt, Recover, vars
  <2>4. proc' # "up" => proc # "up" /\ UNCHANGED <<seen, cursor>>
    <3>1. proc # "up" => \A c \in Clients : ~Receive(c)
      BY <1>0 DEF Idle, Receive
    <3>2. (\E c \in Clients : Receive(c)) => proc' = proc
      BY DEF Receive
    <3>3. (~\E c \in Clients : Receive(c)) => UNCHANGED <<seen, cursor>>
      BY <1>2, <1>6 DEF Next, Run, Reader, Environment, Emit, ResumeHolder, Finish,
         QueueInterruptMark, Subscribe, EndStream, Disconnect, Interrupt, Recover, vars, clientVars
    <3>4. proc' # "up" => proc # "up"
      BY <1>2, <1>6 DEF Next, Run, Reader, Environment, Emit, ResumeHolder, Finish,
         QueueInterruptMark, Subscribe, Receive, EndStream, Disconnect, Interrupt, Recover, vars
    <3> QED
      BY <3>1, <3>2, <3>3, <3>4
  <2> QED
    BY <1>1, <2>1, <2>2, <2>3, <2>4, ThinsKeep
<1> QED
  BY <1>3, <1>4, <1>5, <1>6

\* Nothing reaches the client, and the queue holds no more for it than before.
LEMMA FreshStays ==
    ASSUME DupInv, NEW c \in Clients, Thins(writes', writes, Done'), log' = log,
           seen'[c] = seen[c], stream'[c] = stream[c], cursor'[c] = cursor[c],
           conn'[c] \in {"off", "ended"} =>
               \A w \in DOMAIN writes' : writes'[w].role = "emit" => c \notin writes'[w].targets
    PROVE  FreshClient(c)'
<1>1. FreshClient(c)
  BY DEF DupInv
<1>2. Awaits(writes', c, seen'[c], stream'[c])
  BY <1>1, ThinsKeep DEF FreshClient
<1> QED
  BY <1>1, <1>2 DEF FreshClient

\* Who is sent nothing is still sent nothing.
LEMMA UntargetedStay ==
    ASSUME NEW q, NEW p, NEW done, Thins(q, p, done), NEW c,
           \A w \in DOMAIN p : p[w].role = "emit" => c \notin p[w].targets
    PROVE  \A w \in DOMAIN q : q[w].role = "emit" => c \notin q[w].targets
  BY DEF Thins, Enters, Same

\* A delivery that is later than everything, or a sentinel, is put into the queues.
LEMMA FreshDelivers ==
    ASSUME Base, DupInv, NEW c \in Clients, NEW d, NEW targets, Deliver(d, targets), log' = log,
           UNCHANGED <<seen, cursor, conn>>, Thins(writes', writes, Done'),
           c \in targets =>
               \/ d.kind = "end" /\ d.events = {}
               \/ \E e : /\ d.events = {e} /\ Later(seen[c], stream[c], e) /\ Older({e}, log, d.cursor)
                         /\ \A w \in DOMAIN writes' :
                               (writes'[w].role = "emit" /\ c \in writes'[w].targets) => e < writes'[w].event
    PROVE  FreshClient(c)'
<1>0. FreshClient(c) /\ stream[c] \in Seq(Delivery) /\ seen'[c] = seen[c] /\ cursor'[c] = cursor[c]
      /\ conn'[c] = conn[c]
  BY DEF DupInv, Base, TypeInv, TypeOK
<1>1. conn'[c] \in {"off", "ended"} =>
          \A w \in DOMAIN writes' : writes'[w].role = "emit" => c \notin writes'[w].targets
  BY <1>0, UntargetedStay DEF FreshClient
<1>2. stream'[c] = IF c \in targets THEN Append(stream[c], d) ELSE stream[c]
  BY DEF Deliver
<1>3. CASE c \notin targets
  BY <1>0, <1>1, <1>2, <1>3, FreshStays
<1>4. CASE c \in targets
  <2>1. stream'[c] = Append(stream[c], d)
    BY <1>2, <1>4
  <2>2. Fresh(stream'[c], seen'[c], log')
    <3>1. \/ d.kind = "end" /\ d.events = {}
          \/ \E e : d.events = {e} /\ Later(seen[c], stream[c], e) /\ Older({e}, log, d.cursor)
      BY <1>4
    <3>2. stream[c] \in Seq(Delivery) /\ Fresh(stream[c], seen[c], log)
      BY <1>0 DEF FreshClient
    <3>3. Fresh(Append(stream[c], d), seen[c], log)
      BY <3>1, <3>2, FreshGrows
    <3> QED
      BY <1>0, <2>1, <3>3
  <2>3. \A i \in DOMAIN stream'[c] : (i \in DOMAIN stream[c] /\ stream'[c][i] = stream[c][i])
                                     \/ stream'[c][i] = d
    BY <1>0, <2>1
  <2>4. Awaits(writes', c, seen[c], stream[c])
    BY <1>0, ThinsKeep DEF FreshClient
  <2>5. ASSUME NEW w \in DOMAIN writes', writes'[w].role = "emit", c \in writes'[w].targets
        PROVE  Later(seen'[c], stream'[c], writes'[w].event)
    <3>1. Later(seen[c], stream[c], writes'[w].event)
      BY <2>4, <2>5 DEF Awaits
    <3>2. Below(d.events, {writes'[w].event})
      <4>1. d.events = {} \/ \E e : d.events = {e} /\ e < writes'[w].event
        BY <1>4, <2>5
      <4> QED
        BY <4>1 DEF Below
    <3> QED
      BY <1>0, <2>3, <3>1, <3>2 DEF Later
  <2> QED
    BY <1>0, <1>1, <2>2, <2>5 DEF FreshClient, Awaits
<1> QED
  BY <1>3, <1>4

LEMMA FreshResumes ==
    ASSUME Base, DupInv, NEW c \in Clients, ResumeHolder, Thins(writes', writes, Done')
    PROVE  FreshClient(c)'
<1>0. /\ writes # <<>> /\ TypeOK /\ log' = log /\ UNCHANGED <<seen, cursor, conn>>
      /\ FreshClient(c) /\ conn'[c] = conn[c] /\ seen'[c] = seen[c] /\ cursor'[c] = cursor[c]
  BY DEF ResumeHolder, Base, TypeInv, DupInv
<1>1. /\ 1 \in DOMAIN writes /\ Head(writes) = writes[1]
      /\ \A i \in DOMAIN Tail(writes) : /\ i \in Nat /\ i + 1 \in DOMAIN writes
                                        /\ Tail(writes)[i] = writes[i + 1]
  BY <1>0, TailMembers
<1>2. CASE /\ writes[1].role = "emit" /\ writes' = Tail(writes)
           /\ Deliver(Live(writes[1].event, writes[1].cursor), writes[1].targets)
  <2>1. PICK d : d = Live(writes[1].event, writes[1].cursor)
    OBVIOUS
  <2>2. d.events = {writes[1].event} /\ d.cursor = writes[1].cursor
    BY <2>1 DEF Live
  <2>3. Older({writes[1].event}, log, writes[1].cursor)
    BY <1>1, <1>2 DEF DupInv, InTurn
  <2>4. c \in writes[1].targets => Later(seen[c], stream[c], writes[1].event)
    BY <1>0, <1>1, <1>2 DEF FreshClient, Awaits
  <2>5. \A w \in DOMAIN writes' : writes'[w].role = "emit" => writes[1].event < writes'[w].event
    <3>1. PICK t : t = Tail(writes)
      OBVIOUS
    <3>2. \A w \in DOMAIN t : w + 1 \in DOMAIN writes /\ t[w] = writes[w + 1] /\ 1 < w + 1
      <4>1. \A w \in DOMAIN t : w \in Nat /\ w >= 1
        <5>1. t \in Seq(Op)
          BY <1>0, <3>1, TailMembers
        <5> QED
          BY <5>1
      <4> QED
        BY <1>1, <3>1, <4>1
    <3>3. \A w \in DOMAIN t : t[w].role = "emit" => writes[1].event < t[w].event
      BY <1>1, <1>2, <3>2 DEF DupInv, InTurn
    <3> QED
      BY <1>2, <3>1, <3>3
  <2> QED
    BY <1>0, <1>2, <2>1, <2>2, <2>3, <2>4, <2>5, FreshDelivers
<1>3. CASE Deliver(Sentinel, writes[1].targets)
  <2>1. Sentinel.kind = "end" /\ Sentinel.events = {}
    BY DEF Sentinel
  <2> QED
    BY <1>0, <1>3, <2>1, FreshDelivers
<1>4. CASE UNCHANGED stream
  <2>1. conn'[c] \in {"off", "ended"} =>
          \A w \in DOMAIN writes' : writes'[w].role = "emit" => c \notin writes'[w].targets
    BY <1>0, UntargetedStay DEF FreshClient
  <2>2. stream'[c] = stream[c]
    BY <1>4
  <2> QED
    BY <1>0, <2>1, <2>2, FreshStays
<1> QED
  BY <1>1, <1>2, <1>3, <1>4 DEF ResumeHolder

LEMMA FreshSubscribes ==
    ASSUME Base, DupInv, NEW c \in Clients, Subscribe(c)
    PROVE  FreshClient(c)'
<1>0. /\ log \in Seq(Part) /\ stream \in [Clients -> Seq(Delivery)] /\ cursor[c] \in Nat
      /\ conn \in [Clients -> {"off", "on", "draining", "ended"}]
      /\ Rising(log) /\ FreshClient(c)
  BY DEF Base, TypeInv, TypeOK, DupInv
<1>1. /\ conn[c] \in {"off", "ended"} /\ conn'[c] = "on" /\ UNCHANGED <<log, seen, cursor, writes>>
      /\ stream'[c] = Backlog(cursor[c]) \/ stream'[c] = Append(Backlog(cursor[c]), Sentinel)
  BY <1>0 DEF Subscribe, runVars, storeVars
<1>2. Fresh(Backlog(cursor[c]), seen[c], log) /\ Backlog(cursor[c]) \in Seq(Delivery)
  BY <1>0, FreshBacklog, BacklogType DEF FreshClient
<1>3. Fresh(Append(Backlog(cursor[c]), Sentinel), seen[c], log)
  <2>1. Sentinel.kind = "end" /\ Sentinel.events = {}
    BY DEF Sentinel
  <2> QED
    BY <1>2, <2>1, FreshGrows
<1>4. Fresh(stream'[c], seen'[c], log')
  BY <1>1, <1>2, <1>3
<1>5. \A w \in DOMAIN writes' : writes'[w].role = "emit" => c \notin writes'[w].targets
  BY <1>0, <1>1 DEF FreshClient
<1> QED
  BY <1>0, <1>1, <1>4, <1>5 DEF FreshClient, Awaits

\* A client that keeps the cursor of what it receives asks later for what is later.
LEMMA FreshReceives ==
    ASSUME TrustReplay, Base, DupInv, NEW c \in Clients, Receive(c)
    PROVE  FreshClient(c)'
<1>0. /\ stream \in [Clients -> Seq(Delivery)] /\ stream[c] \in Seq(Delivery) /\ stream[c] # <<>>
      /\ cursor \in [Clients -> Nat] /\ seen \in [Clients -> SUBSET Events]
      /\ conn \in [Clients -> {"off", "on", "draining", "ended"}]
      /\ conn[c] = "on" /\ UNCHANGED <<log, writes>> /\ FreshClient(c)
  BY DEF Base, TypeInv, TypeOK, DupInv, Receive, runVars, storeVars
<1>1. 1 \in DOMAIN stream[c] /\ Head(stream[c]) = stream[c][1] /\ stream[c][1] \in Delivery
  BY <1>0
<1>2. PICK d : d = stream[c][1]
  OBVIOUS
<1>3. CASE d.kind # "end"
  <2>1. /\ seen'[c] = seen[c] \cup d.events /\ cursor'[c] = d.cursor /\ stream'[c] = Tail(stream[c])
        /\ conn'[c] = "on"
    BY <1>0, <1>1, <1>2, <1>3 DEF Receive
  <2>2. /\ Fresh(Tail(stream[c]), seen[c] \cup stream[c][1].events, log)
        /\ \A e : Later(seen[c], stream[c], e) => Later(seen[c] \cup stream[c][1].events, Tail(stream[c]), e)
    BY <1>0, FreshRead DEF FreshClient
  <2>3. Fresh(stream'[c], seen'[c], log')
    BY <1>0, <1>2, <2>1, <2>2
  <2>4. Awaits(writes', c, seen'[c], stream'[c])
    <3>1. \A e : Later(seen[c], stream[c], e) => Later(seen'[c], stream'[c], e)
      BY <1>2, <2>1, <2>2
    <3>2. Awaits(writes, c, seen[c], stream[c])
      BY <1>0 DEF FreshClient
    <3>3. Awaits(writes, c, seen'[c], stream'[c])
      BY <3>1, <3>2 DEF Awaits
    <3> QED
      BY <1>0, <3>3
  <2>5. Older(seen'[c], log', cursor'[c])
    <3>1. Below(seen[c], d.events) /\ d.events # {} /\ Older(d.events, log, d.cursor)
      BY <1>0, <1>1, <1>2, <1>3 DEF FreshClient, Fresh
    <3>2. d.events \subseteq Events /\ seen[c] \subseteq Events
      BY <1>0, <1>1, <1>2 DEF Delivery, Part
    <3>3. \A m \in DOMAIN log : log[m] \subseteq Events
      BY DEF Base, TypeInv, TypeOK, Part
    <3>4. ASSUME NEW m \in DOMAIN log, d.cursor < m PROVE Below(seen[c] \cup d.events, log[m])
      <4>1. Below(d.events, log[m])
        BY <3>1, <3>4 DEF Older
      <4>2. PICK e \in d.events : TRUE
        BY <3>1
      <4>3. \A x \in seen[c], y \in log[m] : x < e /\ e < y /\ x \in Nat /\ y \in Nat /\ e \in Nat
        BY <3>1, <3>2, <3>3, <4>1, <4>2 DEF Below, Events
      <4>4. \A x \in seen[c], y \in log[m] : x < y
        BY <4>3
      <4> QED
        BY <4>1, <4>4 DEF Below
    <3>5. Older(seen[c] \cup d.events, log, d.cursor)
      BY <3>4 DEF Older
    <3> QED
      BY <1>0, <2>1, <3>5
  <2> QED
    BY <2>1, <2>3, <2>4, <2>5 DEF FreshClient
<1>4. CASE d.kind = "end"
  <2>1. /\ seen'[c] = seen[c] /\ cursor'[c] = cursor[c] /\ stream'[c] = <<>> /\ conn'[c] = "draining"
    BY <1>0, <1>1, <1>2, <1>4 DEF Receive
  <2>2. Fresh(stream'[c], seen'[c], log')
    BY <2>1 DEF Fresh
  <2>3. Awaits(writes', c, seen'[c], stream'[c])
    <3>1. \A S, s, e : Later(S, s, e) => Later(S, <<>>, e)
      BY DEF Later
    <3>2. Awaits(writes, c, seen[c], stream[c])
      BY <1>0 DEF FreshClient
    <3>3. Awaits(writes, c, seen[c], <<>>)
      BY <3>1, <3>2 DEF Awaits
    <3> QED
      BY <1>0, <2>1, <3>3
  <2> QED
    BY <1>0, <2>1, <2>2, <2>3 DEF FreshClient
<1> QED
  BY <1>3, <1>4

LEMMA FreshLeaves ==
    ASSUME Base, DupInv, NEW c \in Clients, Disconnect(c), Thins(writes', writes, Done')
    PROVE  FreshClient(c)'
<1>0. /\ stream \in [Clients -> Seq(Delivery)] /\ UNCHANGED <<log, seen, cursor>> /\ FreshClient(c)
      /\ writes \in Seq(Op)
  BY DEF Base, TypeInv, TypeOK, DupInv, Disconnect, runVars
<1>1. stream'[c] = <<>>
  BY <1>0 DEF Disconnect
<1>2. \A w \in DOMAIN writes' : c \notin writes'[w].targets
  <2>1. DOMAIN writes' = DOMAIN writes
        /\ \A i \in DOMAIN writes : writes'[i] = [writes[i] EXCEPT !.targets = @ \ {c}]
    BY DEF Disconnect
  <2>2. \A i \in DOMAIN writes : writes[i] \in Op
    BY <1>0
  <2> QED
    BY <2>1, <2>2 DEF Op, OpOf
<1>3. Fresh(stream'[c], seen'[c], log') /\ Awaits(writes', c, seen'[c], stream'[c])
  BY <1>1, <1>2 DEF Fresh, Awaits
<1> QED
  BY <1>0, <1>2, <1>3 DEF FreshClient

\* A new process knows nothing but the store.
LEMMA FreshStarts ==
    ASSUME Base, DupInv, InitializeStore
    PROVE  Rising(log') /\ InTurn(writes', log') /\ \A c \in Clients : FreshClient(c)'
<1>0. /\ writes = <<>> /\ proc # "up" /\ crashes \in Nat
      /\ UNCHANGED <<writes, stream, seen, cursor, conn, store>>
  BY DEF Base, Idle, TypeInv, TypeOK, InitializeStore, clientVars
<1>1. log' = <<>> \/ (CanSize /\ log' = store)
  BY DEF InitializeStore, Preloaded
<1>2. crashes = 0 => store = <<>>
  BY <1>0 DEF Base, FirstStart
<1>3. crashes # 0 => MaxCrashes # 0
  BY DEF Base, TypeInv, TypeOK
<1>4. log' # <<>> => /\ Rising(store) /\ log' = store
                     /\ \A c \in Clients : Older(seen[c], store, cursor[c])
  BY <1>0, <1>1, <1>2, <1>3 DEF DupInv, StoredInv
<1>5. Rising(log') /\ \A c \in Clients : Older(seen[c], log', cursor[c])
  BY <1>4 DEF Rising, Older
<1>6. InTurn(writes', log') /\ DOMAIN writes' = {}
  BY <1>0 DEF InTurn
<1>7. ASSUME NEW c \in Clients PROVE FreshClient(c)'
  <2>1. stream'[c] = <<>> /\ seen'[c] = seen[c] /\ cursor'[c] = cursor[c]
    BY <1>0 DEF Base, Idle
  <2>2. Fresh(stream'[c], seen'[c], log') /\ Awaits(writes', c, seen'[c], stream'[c])
    BY <1>6, <2>1 DEF Fresh, Awaits
  <2> QED
    BY <1>5, <1>6, <2>1, <2>2 DEF FreshClient
<1> QED
  BY <1>5, <1>6, <1>7

LEMMA FreshDies ==
    ASSUME Crash
    PROVE  Rising(log') /\ InTurn(writes', log') /\ \A c \in Clients : FreshClient(c)'
<1>1. /\ log' = <<>> /\ writes' = <<>> /\ DOMAIN writes' = {} /\ DOMAIN log' = {}
  BY DEF Crash
<1>2. ASSUME NEW c \in Clients PROVE FreshClient(c)'
  <2>1. stream'[c] = <<>> /\ DOMAIN stream'[c] = {}
    BY <1>2 DEF Crash
  <2> QED
    BY <1>1, <2>1 DEF FreshClient, Fresh, Awaits, Older
<1> QED
  BY <1>1, <1>2 DEF Rising, InTurn

LEMMA FinStep ==
    ASSUME Base, DupInv, [Next]_vars, ~Emit
    PROVE  FinInv'
<1>0. FinInv /\ Idle /\ TypeOK /\ held = {}
  BY DEF DupInv, Base, TypeInv
<1>1. Thins(writes', writes, Done')
  BY <1>0, QueueThins
<1>2. \A i \in DOMAIN writes' :
        \/ writes'[i].role # "emit" /\ (writes'[i].role \in {"flush", "finish"} => Done')
        \/ \E v \in DOMAIN writes : writes'[i].role = writes[v].role
  BY <1>1 DEF Thins, Enters, Same
<1>3. CASE Crash
  <2>1. ~finished' /\ ~Done' /\ writes' = <<>>
    BY <1>3 DEF Crash, Done
  <2> QED
    BY <2>1 DEF FinInv
<1>4. CASE \E outcome \in Outcomes : Finish(outcome)
  <2>1. PICK outcome \in Outcomes : Finish(outcome)
    BY <1>4
  <2>2. Done' /\ \A i \in DOMAIN writes : writes[i].role # "emit"
    BY <2>1 DEF Finish, Done, EmitsInFlight
  <2> QED
    BY <1>2, <2>2 DEF FinInv
<1>5. CASE ResumeHolder
  <2>1. 1 \in DOMAIN writes /\ Head(writes) = writes[1]
    BY <1>0, <1>5, TailMembers DEF ResumeHolder
  <2>2. status' = status /\ (finished' = finished \/ writes[1].role = "finish")
    BY <1>5, <2>1 DEF ResumeHolder
  <2>3. Done' <=> Done
    BY <2>2 DEF Done
  <2>4. finished' => Done'
    BY <1>0, <2>1, <2>2, <2>3 DEF FinInv
  <2> QED
    BY <1>0, <1>2, <2>3, <2>4 DEF FinInv
<1>6. CASE ~Crash /\ ~ResumeHolder /\ ~\E outcome \in Outcomes : Finish(outcome)
  <2>1. UNCHANGED <<status, finished>>
    BY <1>6 DEF Next, Run, Reader, Environment, InitializeStore, StoreCall, QueueInterruptMark,
       Subscribe, Receive, EndStream, Disconnect, DetachedCall, Interrupt, Cancel, CancelLate, Recover,
       vars, runVars
  <2>2. (Done' <=> Done) /\ (finished' <=> finished)
    BY <2>1 DEF Done
  <2> QED
    BY <1>0, <1>2, <2>2 DEF FinInv
<1> QED
  BY <1>3, <1>4, <1>5, <1>6

LEMMA DupStep ==
    ASSUME AppendsOnly, TrustReplay, RestartsInOrder, Base, BoundInv, DupInv, [Next]_vars
    PROVE  DupInv'
<1>0. TypeOK /\ held = {} /\ openSlot = 0 /\ FinInv /\ Idle
  BY DEF Base, TypeInv, DupInv
<1>1. CASE Emit
  BY <1>1, EmitKeepsOrder
<1>2. CASE ~Emit
  <2>1. Thins(writes', writes, Done')
    BY <1>0, <1>2, QueueThins
  <2>2. FinInv' /\ StoredInv'
    BY <1>2, FinStep, StoredStep
  <2>3. held' = {} /\ openSlot' = 0
    <3>1. CASE InitializeStore
      BY <1>0, <3>1 DEF InitializeStore
    <3>2. CASE Crash
      BY <3>2 DEF Crash
    <3> QED
      BY <1>0, <1>2, <3>1, <3>2, OthersKeepLog
  <2>4. Rising(log') /\ InTurn(writes', log') /\ \A c \in Clients : FreshClient(c)'
    <3>1. CASE InitializeStore
      BY <3>1, FreshStarts
    <3>2. CASE Crash
      BY <3>2, FreshDies
    <3>3. CASE ~InitializeStore /\ ~Crash
      <4>1. log' = log
        BY <1>2, <3>3, OthersKeepLog
      <4>2. Rising(log') /\ InTurn(writes', log')
        BY <2>1, <4>1, ThinsKeep DEF DupInv
      <4>3. ASSUME NEW c \in Clients PROVE FreshClient(c)'
        <5>0. FreshClient(c)
          BY DEF DupInv
        <5>1. conn[c] \in {"off", "ended"} =>
                 \A w \in DOMAIN writes' : writes'[w].role = "emit" => c \notin writes'[w].targets
          BY <2>1, <5>0, UntargetedStay DEF FreshClient
        <5>2. CASE ResumeHolder
          BY <2>1, <5>2, FreshResumes
        <5>3. CASE Interrupt
          <6>1. Deliver(Sentinel, Subscribers) /\ UNCHANGED <<seen, cursor, conn>>
            BY <5>3 DEF Interrupt
          <6>2. Sentinel.kind = "end" /\ Sentinel.events = {}
            BY DEF Sentinel
          <6> QED
            BY <2>1, <4>1, <6>1, <6>2, FreshDelivers
        <5>4. CASE Subscribe(c)
          BY <5>4, FreshSubscribes
        <5>5. CASE Receive(c)
          BY <5>5, FreshReceives
        <5>6. CASE Disconnect(c)
          BY <2>1, <5>6, FreshLeaves
        <5>7. CASE EndStream(c)
          <6>1. \A w \in DOMAIN writes' : writes'[w].role # "emit"
            <7>1. writes' = writes /\ Done
              BY <1>0, <5>7 DEF EndStream, storeVars, FinInv
            <7> QED
              BY <1>0, <7>1 DEF FinInv
          <6>2. seen'[c] = seen[c] /\ stream'[c] = stream[c] /\ cursor'[c] = cursor[c]
            BY <5>7 DEF EndStream
          <6> QED
            BY <2>1, <4>1, <6>1, <6>2, FreshStays
        <5>8. CASE /\ ~ResumeHolder /\ ~Interrupt /\ ~Subscribe(c) /\ ~Receive(c) /\ ~Disconnect(c)
                   /\ ~EndStream(c)
          <6>1. /\ seen'[c] = seen[c] /\ stream'[c] = stream[c] /\ cursor'[c] = cursor[c]
                /\ conn'[c] = conn[c]
            <7>1. /\ seen \in [Clients -> SUBSET Events] /\ stream \in [Clients -> Seq(Delivery)]
                  /\ cursor \in [Clients -> Nat]
                  /\ conn \in [Clients -> {"off", "on", "draining", "ended"}]
              BY <1>0 DEF TypeOK
            <7>2. CASE \E b \in Clients : Reader(b) \/ Disconnect(b)
              <8>1. PICK b \in Clients : Reader(b) \/ Disconnect(b)
                BY <7>2
              <8>2. b # c
                BY <5>8, <8>1 DEF Reader
              <8> QED
                BY <7>1, <8>1, <8>2 DEF Reader, Subscribe, Receive, EndStream, Disconnect
            <7>3. CASE ~\E b \in Clients : Reader(b) \/ Disconnect(b)
              BY <1>2, <3>3, <5>8, <7>3 DEF Next, Run, Environment, StoreCall, Finish,
                 QueueInterruptMark, DetachedCall, Cancel, CancelLate, Recover, vars, clientVars
            <7> QED
              BY <7>2, <7>3
          <6> QED
            BY <2>1, <4>1, <5>1, <6>1, FreshStays
        <5> QED
          BY <5>2, <5>3, <5>4, <5>5, <5>6, <5>7, <5>8
      <4> QED
        BY <4>2, <4>3
    <3> QED
      BY <3>1, <3>2, <3>3
  <2> QED
    BY <2>2, <2>3, <2>4 DEF DupInv
<1> QED
  BY <1>1, <1>2

\* With the default coalescer and clients that keep the cursor of what is replayed, no
\* event is put into a client's queue twice, nor once the client has it: whatever
\* connects, leaves, resubscribes, is cancelled, dies or is interrupted, as long as a
\* restart reads back, entirely and in order, what it finds in the store.
THEOREM NothingTwice ==
    ASSUME AppendsOnly, TrustReplay, RestartsInOrder
    PROVE  Spec => []NoDuplicates
<1>1. Init => Base /\ BoundInv /\ DupInv
  <2>1. Init => DupInv
    BY DEF Init, DupInv, Rising, InTurn, FinInv, Done, FreshClient, Older, Fresh, Awaits, StoredInv,
       Unsent
  <2> QED
    BY <2>1, InitBase, InitBound
<1>2. Base /\ BoundInv /\ DupInv /\ [Next]_vars => (Base /\ BoundInv /\ DupInv)'
  BY BaseStep, BoundStep, DupStep DEF Base
<1>3. Base /\ DupInv => NoDuplicates
  <2> SUFFICES ASSUME Base, DupInv, NEW c \in Clients, NEW i \in DOMAIN stream[c]
               PROVE  /\ stream[c][i].events \cap seen[c] = {}
                      /\ \A j \in 1 .. i - 1 : stream[c][i].events \cap stream[c][j].events = {}
    BY DEF NoDuplicates
  <2>1. /\ stream[c] \in Seq(Delivery) /\ seen[c] \subseteq Events
        /\ \A j \in DOMAIN stream[c] : stream[c][j].events \subseteq Events
    <3>1. stream[c] \in Seq(Delivery) /\ seen[c] \in SUBSET Events
      BY DEF Base, TypeInv, TypeOK
    <3>2. \A j \in DOMAIN stream[c] : stream[c][j] \in Delivery
      BY <3>1
    <3> QED
      BY <3>1, <3>2 DEF Delivery, Part
  <2>2. i \in Nat /\ \A j \in 1 .. i - 1 : j \in DOMAIN stream[c] /\ j < i
    BY <2>1
  <2>3. /\ Below(seen[c], stream[c][i].events)
        /\ \A j \in DOMAIN stream[c] : j < i => Below(stream[c][j].events, stream[c][i].events)
    BY DEF DupInv, FreshClient, Fresh
  <2>4. \A A, B : (A \subseteq Events /\ Below(A, B)) => B \cap A = {}
    <3>1. \A x \in Events : ~(x < x)
      BY DEF Events
    <3> QED
      BY <3>1 DEF Below
  <2> QED
    BY <2>1, <2>2, <2>3, <2>4
<1> QED
  BY <1>1, <1>2, <1>3, PTL DEF Spec
===============================================================================
