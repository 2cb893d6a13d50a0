--------------------------- MODULE CompactionProofs ---------------------------
(***************************************************************************)
(* Proofs about Compaction, for any histories, kinds of messages, sizes,   *)
(* policies and windows, and any number of summaries.                      *)
(***************************************************************************)
EXTENDS Compaction, SequenceTheorems, FiniteSetTheorems, WellFoundedInduction, TLAPS

\* A nonempty set of naturals has a least element, and a bounded one a greatest.
LEMMA LeastNatural ==
    ASSUME NEW S, S \subseteq Nat, S # {}
    PROVE  Min(S) \in S /\ \A y \in S : Min(S) <= y
<1> DEFINE R == {ss \in Nat \X Nat : ss[1] < ss[2]}
<1>1. IsWellFoundedOn(R, Nat)
  BY NatLessThanWellFounded DEF OpToRel
<1>2. PICK x \in S : \A y \in S : ~ <<y, x>> \in R
  BY <1>1, WFMin
<1>3. ASSUME NEW y \in S PROVE x <= y
  <2>1. ~ <<y, x>> \in R /\ x \in Nat /\ y \in Nat
    BY <1>2
  <2> QED
    BY <2>1
<1> QED
  BY <1>3 DEF Min

LEMMA GreatestNatural ==
    ASSUME NEW n \in Nat, NEW S, S \subseteq 0..n, S # {}
    PROVE  Max(S) \in S /\ \A y \in S : y <= Max(S)
<1> DEFINE T == {n - x : x \in S}
<1>1. T \subseteq Nat /\ T # {}
  <2>1. \A x \in S : x \in Nat /\ n - x \in Nat
    OBVIOUS
  <2> QED
    BY <2>1
<1>2. Min(T) \in T /\ \A y \in T : Min(T) <= y
  BY <1>1, LeastNatural
<1>3. PICK x \in S : Min(T) = n - x
  BY <1>2
<1>4. \A y \in S : n - x <= n - y
  BY <1>2, <1>3
<1>5. \A y \in S : x >= y
  BY <1>4
<1> QED
  BY <1>5 DEF Max

\* What holds of zero, and of each number below a bound with its predecessor, holds
\* up to the bound.
LEMMA UpTo ==
    ASSUME NEW n \in Nat, NEW S, 0 \in S, \A k \in 0..n : k \in S /\ k < n => k + 1 \in S
    PROVE  0..n \subseteq S
<1> DEFINE missing == {k \in 0..n : k \notin S}
<1> SUFFICES ASSUME missing # {} PROVE FALSE
  OBVIOUS
<1>1. missing \subseteq Nat
  OBVIOUS
<1>2. Min(missing) \in missing /\ \A k \in missing : Min(missing) <= k
  <2> HIDE DEF missing
  <2> QED
    BY <1>1, LeastNatural
<1>3. PICK k : k = Min(missing)
  OBVIOUS
<1>4. k \in 0..n /\ k \notin S /\ k # 0 /\ k - 1 \notin missing
  BY <1>2, <1>3
<1> QED
  BY <1>4
-------------------------------------------------------------------------------
\* The tail that is kept in full begins inside the history, and not among the
\* results of a turn: with anything else, with nothing, or with the whole history.
THEOREM TailBeginsWhole ==
    ASSUME NEW history \in Seq(Message), NEW start \in 0..Len(history)
    PROVE  LET aligned == AlignedStart(history, start)
           IN  /\ aligned \in 0..Len(history)
               /\ aligned \in 1..Len(history) - 1 => ~IsTool(history, aligned + 1)
<1> DEFINE n == Len(history)
           before == {i \in 1..start : ~IsTool(history, i)}
           after == {i \in start + 1..n : ~IsTool(history, i)}
<1>1. CASE start = 0 \/ start >= n \/ ~IsTool(history, start + 1)
  BY <1>1 DEF AlignedStart
<1>2. CASE /\ ~(start = 0 \/ start >= n \/ ~IsTool(history, start + 1))
           /\ before # {} /\ IsBatch(history, Max(before))
  <2>1. AlignedStart(history, start) = Max(before) - 1
    BY <1>2 DEF AlignedStart
  <2>2. Max(before) \in before
    <3>1. start \in Nat /\ before \subseteq 0..start /\ before # {}
      BY <1>2
    <3> HIDE DEF before
    <3> QED
      BY <3>1, GreatestNatural
  <2> QED
    BY <1>2, <2>1, <2>2
<1>3. CASE /\ ~(start = 0 \/ start >= n \/ ~IsTool(history, start + 1))
           /\ ~(before # {} /\ IsBatch(history, Max(before)))
  <2>1. AlignedStart(history, start) = Min(after \cup {n + 1}) - 1
    BY <1>3 DEF AlignedStart
  <2>2. Min(after \cup {n + 1}) \in after \cup {n + 1}
    <3> DEFINE ends == after \cup {n + 1}
    <3>1. ends \subseteq Nat /\ ends # {}
      OBVIOUS
    <3> HIDE DEF ends
    <3>2. Min(ends) \in ends
      BY <3>1, LeastNatural
    <3> QED
      BY <3>2 DEF ends
  <2> QED
    BY <1>3, <2>1, <2>2
<1> QED
  BY <1>1, <1>2, <1>3
-------------------------------------------------------------------------------
\* A record is named by its number: the numbers in the archive are given out one
\* by one, and the summary being made has the latest.
Numbered ==
    /\ \A r \in archive : r.id <= asked
    /\ \A r, s \in archive : r.id = s.id => r = s
    /\ job # NoPlan => asked > 0 /\ \A r \in archive : r.id < asked

IInv == TypeOK /\ Numbered

\* The judgment of a record looks at the history and the window only.
LEMMA SameJudgment ==
    ASSUME UNCHANGED <<messages, window>>, NEW r
    PROVE  WithinBounds(r)' <=> WithinBounds(r)
BY DEF WithinBounds, Combined, Highest, Trigger, TailOk, MinTail, UsableWindow

LEMMA PlannedEndType ==
    ASSUME messages \in Seq(Message)
    PROVE  PlannedEnd \in 0..Len(messages)
<1>1. ASSUME NEW overhead PROVE IdealEnd(overhead) \in 0..Len(messages)
  <2> DEFINE n == Len(messages)
             low == TargetLow
             high == Larger(low + 1, TargetHigh)
             last == IF n > Reserved THEN n - 1 - Reserved ELSE n - 1
             weight == Suffix(messages, "token")
             total(end) == overhead + weight[AlignedStart(messages, end)]
             ends == {end \in 0..last : TailOk(AlignedStart(messages, end))}
             inside == {end \in ends : low <= total(end) /\ total(end) <= high}
             below == {end \in ends : total(end) <= high}
             above == {end \in ends : low <= total(end)}
             best == IF inside # {} THEN Max(inside)
                     ELSE IF below # {} THEN Max(below)
                     ELSE IF above # {} THEN Max(above) ELSE 0
  <2>1. n \in Nat
    OBVIOUS
  <2>2. ends \subseteq 0..n
    <3>1. Reserved \in Nat
      BY PolicyAssumption
    <3> HIDE DEF n
    <3>2. \A end \in 0..last : end \in 0..n
      BY <2>1, <3>1
    <3> HIDE DEF last
    <3> QED
      BY <3>2
  <2>3. inside \subseteq 0..n /\ below \subseteq 0..n /\ above \subseteq 0..n
    BY <2>2
  <2> HIDE DEF inside, below, above, n
  <2>4. best \in 0..n
    <3>1. inside # {} => Max(inside) \in 0..n
      BY <2>1, <2>3, GreatestNatural
    <3>2. below # {} => Max(below) \in 0..n
      BY <2>1, <2>3, GreatestNatural
    <3>3. above # {} => Max(above) \in 0..n
      BY <2>1, <2>3, GreatestNatural
    <3> QED
      BY <2>1, <3>1, <3>2, <3>3
  <2> HIDE DEF best
  <2>5. AlignedStart(messages, best) \in 0..Len(messages)
    BY <2>4, TailBeginsWhole DEF n
  <2>6. IdealEnd(overhead) = AlignedStart(messages, best)
    BY DEF IdealEnd, best, inside, below, above, n
  <2> QED
    BY <2>5, <2>6
<1> DEFINE overhead == Overhead + IF ActiveRecord = NoRecord THEN 0 ELSE SummaryTokens(ActiveRecord)
<1>2. IdealEnd(overhead) \in 0..Len(messages)
  BY <1>1
<1> QED
  BY <1>2 DEF PlannedEnd

\* What a plan, a record and a message need of the constants.
LEMMA Sizes ==
    /\ MaxMessages \in Nat /\ MaxRecords \in Nat /\ MaxMade \in Nat
    /\ Windows \subseteq Nat /\ SummarySizes \subseteq Nat
    /\ \A kind \in Kinds : kind.role \in {"user", "assistant", "tool"}
BY PolicyAssumption, KindsAssumption

LEMMA MessageAt ==
    ASSUME NEW history \in Seq(Message), NEW i \in 1..Len(history)
    PROVE  history[i] \in Message
OBVIOUS

\* A transcript leaves out none or some of what is summarised, never all of it.
LEMMA SomethingIsRead ==
    ASSUME NEW end \in Nat \ {0} PROVE TranscriptCut(end) \in Nat /\ TranscriptCut(end) < end
<1> DEFINE weight == Suffix(messages, "char")
           fitting == {i \in 0..end - 1 : weight[i] - weight[end] <= MaxTranscript}
<1>1. fitting \subseteq Nat /\ \A i \in fitting : i < end
  OBVIOUS
<1> HIDE DEF fitting
<1>2. fitting # {} => Min(fitting) \in fitting
  BY <1>1, LeastNatural
<1>3. PICK cut : cut = TranscriptCut(end)
  OBVIOUS
<1>4. cut = IF fitting = {} THEN 0 ELSE Min(fitting)
  BY <1>3 DEF TranscriptCut, fitting
<1>5. cut = 0 \/ cut \in fitting
  BY <1>2, <1>4
<1>6. cut \in Nat /\ cut < end
  <2>1. end \in Nat /\ end # 0
    OBVIOUS
  <2>2. CASE cut = 0
    BY <2>1, <2>2
  <2>3. CASE cut \in fitting
    BY <1>1, <2>3
  <2> QED
    BY <1>5, <2>2, <2>3
<1> QED
  BY <1>3, <1>6

\* The part of the history that a plan is about.
LEMMA PartToSummarise ==
    ASSUME messages \in Seq(Message), NEW end \in 0..Len(messages), NEW part,
           part = SubSeq(Identities(messages), 1, end)
    PROVE  /\ part \in Seq(Nat) /\ Len(part) = end
           /\ \A i \in 1..end : part[i] = messages[i].id
<1>1. PICK ids : ids = Identities(messages)
  OBVIOUS
<1>2. ids \in Seq(Nat) /\ Len(ids) = Len(messages)
      /\ \A i \in 1..Len(messages) : ids[i] = messages[i].id
  <2>1. \A i \in 1..Len(messages) : messages[i].id \in Nat
    BY MessageAt DEF Message
  <2>2. ids = [i \in 1..Len(messages) |-> messages[i].id]
    BY <1>1 DEF Identities
  <2> QED
    BY <2>1, <2>2
<1>3. part = SubSeq(ids, 1, end) /\ end \in Nat /\ end <= Len(ids) /\ Len(messages) \in Nat
  BY <1>1, <1>2
<1>4. \A i \in 1..end : ids[i] \in Nat /\ ids[i] = messages[i].id
  BY <1>2, <1>3
<1>5. CASE end = 0
  <2>1. part = <<>>
    BY <1>3, <1>5, SubSeqProperties
  <2> QED
    BY <1>5, <2>1
<1>6. CASE end # 0
  <2>1. /\ end \in Int /\ 1 <= end /\ 1 \in 1..Len(ids) /\ end \in 1..Len(ids) /\ ids \in Seq(Nat)
        /\ \A i \in 1..end : ids[i] \in Nat
    BY <1>2, <1>3, <1>4, <1>6
  <2>2. /\ part \in Seq(Nat) /\ Len(part) = end - 1 + 1
        /\ \A i \in 1..end - 1 + 1 : part[i] = ids[1 + i - 1]
    BY ONLY <1>3, <2>1, SubSeqProperties
  <2>3. end - 1 + 1 = end /\ \A i \in 1..end : 1 + i - 1 = i
    BY <2>1
  <2> QED
    BY <1>4, <2>2, <2>3
<1> QED
  BY <1>5, <1>6

LEMMA InitIInv == Init => IInv
<1> SUFFICES ASSUME Init PROVE IInv
  OBVIOUS
<1>1. <<>> \in Seq(Message) /\ <<>> \in Seq(Nat) /\ Len(<<>>) = 0
  OBVIOUS
<1>2. NoPlan \in Plan
  BY <1>1 DEF NoPlan, Plan
<1>3. /\ messages = <<>> /\ made = 0 /\ archive = {} /\ active = 0 /\ job = NoPlan /\ asked = 0
      /\ window \in Windows /\ fresh = FALSE
  BY DEF Init
<1>4. TypeOK
  <2>1. messages \in Seq(Message) /\ Len(messages) <= MaxMessages
    BY <1>1, <1>3, Sizes
  <2>2. made \in 0..MaxMade /\ asked \in 0..MaxRecords /\ active \in 0..MaxRecords
    BY <1>3, Sizes
  <2>3. job \in Plan /\ archive \subseteq Record
    BY <1>2, <1>3
  <2> QED
    BY <1>3, <2>1, <2>2, <2>3 DEF TypeOK
<1>5. Numbered
  BY <1>3 DEF Numbered
<1> QED
  BY <1>4, <1>5 DEF IInv

LEMMA RepairStep == IInv /\ Repair => IInv'
<1> SUFFICES ASSUME IInv, Repair PROVE IInv'
  OBVIOUS
<1>1. CASE active' = 0 /\ archive' = archive
  BY <1>1, Sizes DEF Repair, IInv, TypeOK, Numbered
<1>2. ASSUME NEW chosen \in Longest,
             active' = chosen.id, archive' = PrunedAbove(archive, chosen.end)
      PROVE  IInv'
  <2>1. chosen \in archive /\ archive' \subseteq archive
    BY <1>2 DEF Longest, Candidates, PrunedAbove
  <2>2. chosen.id \in Nat
    BY <2>1 DEF IInv, TypeOK, Record
  <2> QED
    BY <1>2, <2>1, <2>2, Sizes DEF Repair, IInv, TypeOK, Numbered
<1> QED
  BY <1>1, <1>2 DEF Repair

LEMMA StartPlanStep == IInv /\ StartPlan => IInv'
<1> SUFFICES ASSUME IInv, StartPlan PROVE IInv'
  OBVIOUS
<1>1. PlannedEnd \in 0..Len(messages)
  BY PlannedEndType DEF IInv, TypeOK
<1>2. ActiveRecord # NoRecord => ActiveRecord \in archive
  BY DEF ActiveRecord
<1>3. job' \in Plan
  <2>1. PICK part : part = SubSeq(Identities(messages), 1, PlannedEnd)
    OBVIOUS
  <2>2. part \in Seq(Nat)
    BY <1>1, <2>1, PartToSummarise DEF IInv, TypeOK
  <2>3. PICK cut : cut = TranscriptCut(PlannedEnd)
    OBVIOUS
  <2>4. PlannedEnd \in Nat \ {0}
    BY <1>1 DEF StartPlan
  <2>5. cut \in Nat
    BY <2>3, <2>4, SomethingIsRead
  <2>6. PICK previous : previous = IF ActiveRecord = NoRecord THEN 0 ELSE ActiveRecord.size
    OBVIOUS
  <2>7. previous \in Nat
    BY <1>2, <2>6 DEF IInv, TypeOK, Record
  <2>8. job' = [end |-> PlannedEnd, previous |-> previous, of |-> part, cut |-> cut]
    BY <2>1, <2>3, <2>6 DEF StartPlan
  <2> QED
    BY <2>2, <2>4, <2>5, <2>7, <2>8 DEF Plan
<1>4. \A r \in archive : r.id \in Nat
  BY DEF IInv, TypeOK, Record
<1> QED
  BY <1>3, <1>4, Sizes DEF StartPlan, IInv, TypeOK, Numbered

LEMMA ActivateStep ==
    ASSUME IInv, NEW size \in SummarySizes, NEW prunes \in BOOLEAN, Activate(size, prunes)
    PROVE  IInv'
<1> DEFINE record == [id |-> asked, end |-> job.end, size |-> size, cut |-> job.cut,
                      of |-> job.of]
<1>1. job \in Plan
  BY DEF IInv, TypeOK
<1>5. asked \in Nat \ {0} /\ asked <= MaxRecords
  BY DEF Activate, IInv, TypeOK, Numbered
<1>6. record \in Record /\ record.id = asked
  <2>1. size \in Nat
    BY Sizes
  <2> QED
    BY <1>1, <1>5, <2>1 DEF Record, Plan
<1> HIDE DEF record
<1>7. archive' \subseteq archive \cup {record}
  BY DEF Activate, PrunedAbove, record
<1>8. /\ active' = asked /\ job' = NoPlan /\ fresh' = TRUE
      /\ UNCHANGED <<messages, made, asked, window>>
  BY DEF Activate
<1>9. \A r \in archive : r.id < asked
  BY DEF Activate, IInv, Numbered
<1>10. TypeOK'
  BY <1>5, <1>6, <1>7, <1>8, Sizes DEF IInv, TypeOK, NoPlan, Plan
<1>11. Numbered'
  <2>1. \A r \in archive : r.id \in Nat
    BY DEF IInv, TypeOK, Record
  <2> QED
    BY <1>5, <1>6, <1>7, <1>8, <1>9, <2>1 DEF IInv, Numbered
<1> QED
  BY <1>10, <1>11 DEF IInv

LEMMA GrowStep == ASSUME IInv, NEW kind \in Kinds, Grow(kind) PROVE IInv'
<1> DEFINE turn == IF kind.role = "tool" THEN messages[Max(OpenTurn)].id ELSE 0
<1>1. turn \in Nat
  <2>1. CASE kind.role = "tool"
    <3>1. messages \in Seq(Message) /\ Len(messages) \in Nat /\ DOMAIN messages = 1..Len(messages)
      BY DEF IInv, TypeOK
    <3>2. OpenTurn \subseteq 1..Len(messages)
      BY <3>1 DEF OpenTurn
    <3>3. OpenTurn # {}
      BY <2>1 DEF Grow
    <3> HIDE DEF OpenTurn
    <3>4. Max(OpenTurn) \in OpenTurn
      <4>1. OpenTurn \subseteq 0..Len(messages)
        BY <3>1, <3>2
      <4> QED
        BY <3>1, <3>3, <4>1, GreatestNatural
    <3>5. messages[Max(OpenTurn)] \in Message
      BY <3>1, <3>2, <3>4, MessageAt
    <3> QED
      BY <3>5 DEF Message
  <2> QED
    BY <2>1
<1> HIDE DEF turn
<1>2. messages' = Append(messages, [kind |-> kind, id |-> made + 1, turn |-> turn])
  BY DEF Grow, turn
<1>3. [kind |-> kind, id |-> made + 1, turn |-> turn] \in Message
  BY <1>1 DEF IInv, TypeOK, Message
<1>4. messages' \in Seq(Message) /\ Len(messages') = Len(messages) + 1
  BY <1>2, <1>3 DEF IInv, TypeOK
<1>5. Len(messages) \in Nat
  BY DEF IInv, TypeOK
<1>6. fresh' = FALSE /\ UNCHANGED <<archive, active, job, asked, window>>
  BY DEF Grow
<1>7. TypeOK'
  <2>1. made' \in 0..MaxMade /\ Len(messages) < MaxMessages
    BY Sizes DEF Grow, IInv, TypeOK
  <2>2. messages' \in Seq(Message) /\ Len(messages') <= MaxMessages
    BY <1>4, <1>5, <2>1, Sizes
  <2> QED
    BY <1>6, <2>1, <2>2 DEF IInv, TypeOK
<1>8. Numbered'
  BY <1>6 DEF IInv, Numbered
<1> QED
  BY <1>7, <1>8 DEF IInv

LEMMA EditStep == ASSUME IInv, NEW n \in 0..Len(messages) - 1, Edit(n) PROVE IInv'
<1>1. messages' \in Seq(Message) /\ Len(messages') = n
  BY DEF Edit, IInv, TypeOK
<1>2. fresh' = FALSE /\ UNCHANGED <<made, archive, active, job, asked, window>>
  BY DEF Edit
<1>3. n <= MaxMessages
  BY Sizes DEF IInv, TypeOK
<1>4. TypeOK'
  BY <1>1, <1>2, <1>3 DEF IInv, TypeOK
<1>5. Numbered'
  BY <1>2 DEF IInv, Numbered
<1> QED
  BY <1>4, <1>5 DEF IInv

LEMMA NextIInv == IInv /\ [Next]_vars => IInv'
<1> SUFFICES ASSUME IInv, [Next]_vars PROVE IInv'
  OBVIOUS
<1>1. CASE Abandon
  BY <1>1, Sizes DEF Abandon, IInv, TypeOK, Numbered, NoPlan, Plan
<1>2. ASSUME NEW w \in Windows, SwitchModel(w) PROVE IInv'
  BY <1>2 DEF SwitchModel, IInv, TypeOK, Numbered
<1>3. CASE UNCHANGED vars
  BY <1>3 DEF vars, IInv, TypeOK, Numbered
<1> QED
  BY <1>1, <1>2, <1>3, RepairStep, StartPlanStep, ActivateStep, GrowStep, EditStep DEF Next

LEMMA Invariance == Spec => []IInv
BY InitIInv, NextIInv, PTL DEF Spec

\* The type invariant: in particular, each summary is made from messages of the
\* history, wherever the plan's search ends.
THEOREM TypeCorrect == Spec => []TypeOK
<1>1. IInv => TypeOK
  BY DEF IInv
<1> QED
  BY <1>1, Invariance, PTL
-------------------------------------------------------------------------------
LEMMA RepairedInOrder == IInv /\ Repair => InOrder'
<1> SUFFICES ASSUME IInv, Repair PROVE InOrder'
  OBVIOUS
<1>1. UNCHANGED <<messages, window>>
  BY DEF Repair
<1>2. \A r \in archive : r.id # 0
  BY DEF IInv, TypeOK, Record
<1>3. CASE Candidates = {} /\ active' = 0 /\ archive' = archive
  <2>1. ActiveRecord' = NoRecord
    BY <1>2, <1>3 DEF ActiveRecord
  <2>2. Candidates' = {}
    <3>1. \A r \in archive' : WithinBounds(r)' <=> WithinBounds(r)
      BY <1>1, SameJudgment
    <3> QED
      BY <1>1, <1>3, <3>1 DEF Candidates
  <2> QED
    BY <1>3, <2>1, <2>2 DEF InOrder
<1>4. ASSUME NEW chosen \in Longest,
             active' = chosen.id, archive' = PrunedAbove(archive, chosen.end)
      PROVE  InOrder'
  <2>1. /\ chosen \in archive /\ chosen.end <= chosen.end
        /\ chosen.end < Len(messages) /\ WithinBounds(chosen)
    BY <1>4 DEF Longest, Candidates
  <2>2. chosen \in archive' /\ archive' \subseteq archive
    BY <1>4, <2>1 DEF PrunedAbove
  <2>3. ActiveRecord' = chosen
    BY <1>4, <2>1, <2>2 DEF ActiveRecord, IInv, Numbered
  <2>4. chosen # NoRecord
    BY <2>1, NoRecordAssumption DEF IInv, TypeOK
  <2>5. WithinBounds(chosen)'
    BY <1>1, <2>1, SameJudgment
  <2>6. WithinBounds(ActiveRecord)'
    BY <2>3, <2>5
  <2> QED
    BY <1>1, <2>1, <2>3, <2>4, <2>6 DEF InOrder
<1> QED
  BY <1>3, <1>4 DEF Repair

\* A repair settles, under every policy and window and for every history: the
\* record taken from the archive is the one get_active then returns, because its
\* number is its own, pruning what covers more spares it, and the active record is
\* judged as the archived ones are.
THEOREM RepairIsStable == Spec => RepairSettles
<1>1. IInv /\ [Next]_vars => [Repair => InOrder']_vars
  BY RepairedInOrder
<1> QED
  BY <1>1, Invariance, PTL DEF RepairSettles, Spec
-------------------------------------------------------------------------------
\* The recursion of FlattenSeq is a function: the first sequences, joined.
Joins(joined, seqs, n) ==
    \A i \in 1..n : joined[i] = IF i = 1 THEN seqs[i] ELSE joined[i - 1] \o seqs[i]

LEMMA JoinedExists ==
    ASSUME NEW T, NEW seqs \in Seq(Seq(T))
    PROVE  \E joined \in [1..Len(seqs) -> Seq(T)] : Joins(joined, seqs, Len(seqs))
<1> DEFINE n == Len(seqs)
           P(k) == \E joined \in [1..k -> Seq(T)] : Joins(joined, seqs, k)
           S == {k \in 0..n : P(k)}
<1>1. n \in Nat
  OBVIOUS
<1>2. 0 \in S
  <2>1. [i \in 1..0 |-> <<>>] \in [1..0 -> Seq(T)]
    OBVIOUS
  <2>2. \A joined : Joins(joined, seqs, 0)
    BY DEF Joins
  <2>3. P(0)
    BY <2>1, <2>2
  <2> HIDE DEF P
  <2> QED
    BY <1>1, <2>3
<1>3. ASSUME NEW k \in 0..n, k \in S, k < n PROVE k + 1 \in S
  <2>1. PICK joined \in [1..k -> Seq(T)] : Joins(joined, seqs, k)
    BY <1>3
  <2>2. seqs[k + 1] \in Seq(T) /\ k + 1 \in 0..n
    BY <1>3
  <2> DEFINE next == IF k = 0 THEN seqs[1] ELSE joined[k] \o seqs[k + 1]
             more == [i \in 1..k + 1 |-> IF i = k + 1 THEN next ELSE joined[i]]
  <2>3. next \in Seq(T)
    <3>1. CASE k = 0
      BY <2>2, <3>1
    <3>2. CASE k # 0
      <4>1. joined[k] \in Seq(T)
        BY <2>1, <3>2
      <4> QED
        BY <2>2, <3>2, <4>1
    <3> QED
      BY <3>1, <3>2
  <2>4. more \in [1..k + 1 -> Seq(T)]
    <3> HIDE DEF next
    <3> QED
      BY <2>1, <2>3
  <2>5. Joins(more, seqs, k + 1)
    <3> SUFFICES ASSUME NEW i \in 1..k + 1
                 PROVE  more[i] = IF i = 1 THEN seqs[i] ELSE more[i - 1] \o seqs[i]
      BY DEF Joins
    <3>1. CASE i = k + 1
      BY <3>1
    <3>2. CASE i # k + 1
      <4>1. i \in 1..k /\ more[i] = joined[i] /\ (i # 1 => more[i - 1] = joined[i - 1])
        BY <3>2
      <4>2. joined[i] = IF i = 1 THEN seqs[i] ELSE joined[i - 1] \o seqs[i]
        BY <2>1, <4>1 DEF Joins
      <4> HIDE DEF more
      <4> QED
        BY <4>1, <4>2
    <3> QED
      BY <3>1, <3>2
  <2> HIDE DEF more
  <2> QED
    BY <2>2, <2>4, <2>5
<1>4. 0..n \subseteq S
  <2> HIDE DEF S, n
  <2> QED
    BY <1>1, <1>2, <1>3, UpTo
<1> QED
  BY <1>1, <1>4

LEMMA FlattenJoins ==
    ASSUME NEW T, NEW seqs \in Seq(Seq(T)), Len(seqs) > 0
    PROVE  \E joined \in [1..Len(seqs) -> Seq(T)] :
              Joins(joined, seqs, Len(seqs)) /\ FlattenSeq(seqs) = joined[Len(seqs)]
<1> DEFINE body(f) == [i \in 1..Len(seqs) |-> IF i = 1 THEN seqs[i] ELSE f[i - 1] \o seqs[i]]
           flatten == CHOOSE f : f = body(f)
<1>1. PICK joined \in [1..Len(seqs) -> Seq(T)] : Joins(joined, seqs, Len(seqs))
  BY JoinedExists
<1>2. joined = body(joined)
  BY <1>1 DEF Joins
<1>3. flatten = body(flatten)
  BY <1>2
<1>4. FlattenSeq(seqs) = flatten[Len(seqs)]
  BY DEF FlattenSeq
<1> HIDE DEF flatten
<1>5. Joins(flatten, seqs, Len(seqs)) /\ DOMAIN flatten = 1..Len(seqs)
  BY <1>3 DEF Joins
<1>6. \A i \in 1..Len(seqs) : flatten[i] \in Seq(T)
  <2> DEFINE n == Len(seqs)
             S == {k \in 0..n : k = 0 \/ flatten[k] \in Seq(T)}
  <2>1. n \in Nat /\ 0 \in S
    OBVIOUS
  <2>2. ASSUME NEW k \in 0..n, k \in S, k < n PROVE k + 1 \in S
    <3>1. k + 1 \in 1..n /\ seqs[k + 1] \in Seq(T)
      BY <2>2
    <3>2. flatten[k + 1] = IF k = 0 THEN seqs[k + 1] ELSE flatten[k] \o seqs[k + 1]
      <4>1. (k + 1) - 1 = k /\ (k + 1 = 1 <=> k = 0)
        OBVIOUS
      <4>2. flatten[k + 1] =
              IF k + 1 = 1 THEN seqs[k + 1] ELSE flatten[(k + 1) - 1] \o seqs[k + 1]
        BY <1>5, <3>1 DEF Joins
      <4> HIDE DEF n
      <4> QED
        BY <4>1, <4>2
    <3>3. k = 0 \/ flatten[k] \in Seq(T)
      BY <2>2
    <3>4. flatten[k + 1] \in Seq(T)
      BY <3>1, <3>2, <3>3
    <3> QED
      BY <3>1, <3>4
  <2>3. 0..n \subseteq S
    <3> HIDE DEF S, n
    <3> QED
      BY <2>1, <2>2, UpTo
  <2> QED
    BY <2>3
<1>7. flatten = [i \in 1..Len(seqs) |-> flatten[i]]
  BY <1>3
<1>8. flatten \in [1..Len(seqs) -> Seq(T)]
  BY <1>6, <1>7
<1> QED
  BY <1>4, <1>5, <1>8

\* Where the sequences lie in what they are flattened to: the i-th one behind off[i - 1].
Laid(off, seqs, flat) ==
    /\ off \in [0..Len(seqs) -> Nat] /\ off[0] = 0 /\ off[Len(seqs)] = Len(flat)
    /\ \A a, b \in 0..Len(seqs) : a <= b => off[a] <= off[b]
    /\ \A i \in 1..Len(seqs) : off[i] = off[i - 1] + Len(seqs[i])
    /\ \A i \in 1..Len(seqs) : \A p \in off[i - 1] + 1..off[i] :
          flat[p] = seqs[i][p - off[i - 1]]
    /\ \A p \in 1..Len(flat) : \E i \in 1..Len(seqs) : off[i - 1] < p /\ p <= off[i]

LEMMA FlattenLaid ==
    ASSUME NEW T, NEW seqs \in Seq(Seq(T))
    PROVE  FlattenSeq(seqs) \in Seq(T) /\ \E off : Laid(off, seqs, FlattenSeq(seqs))
<1>1. CASE Len(seqs) = 0
  <2>1. FlattenSeq(seqs) = seqs
    BY <1>1 DEF FlattenSeq
  <2>2. seqs \in Seq(T)
    BY <1>1
  <2> DEFINE off == [i \in 0..0 |-> 0]
  <2>3. Laid(off, seqs, seqs)
    BY <1>1 DEF Laid
  <2> QED
    BY <2>1, <2>2, <2>3
<1>2. CASE Len(seqs) > 0
  <2> DEFINE n == Len(seqs)
  <2>1. PICK joined \in [1..n -> Seq(T)] :
            Joins(joined, seqs, n) /\ FlattenSeq(seqs) = joined[n]
    BY <1>2, FlattenJoins
  <2> DEFINE off == [i \in 0..n |-> IF i = 0 THEN 0 ELSE Len(joined[i])]
  <2>2. n \in Nat /\ n > 0 /\ off \in [0..n -> Nat] /\ off[0] = 0 /\ off[n] = Len(joined[n])
    <3>1. \A i \in 1..n : Len(joined[i]) \in Nat
      BY <2>1
    <3> QED
      BY <1>2, <3>1
  <2>3. \A i \in 1..n : /\ seqs[i] \in Seq(T) /\ Len(seqs[i]) \in Nat
                         /\ joined[i] \in Seq(T) /\ Len(joined[i]) = off[i]
    <3> SUFFICES ASSUME NEW i \in 1..n
                 PROVE  /\ seqs[i] \in Seq(T) /\ Len(seqs[i]) \in Nat
                        /\ joined[i] \in Seq(T) /\ Len(joined[i]) = off[i]
      OBVIOUS
    <3>1. seqs[i] \in Seq(T) /\ Len(seqs[i]) \in Nat
      OBVIOUS
    <3>2. joined[i] \in Seq(T)
      BY <2>1
    <3>3. i \in 0..n /\ i # 0
      OBVIOUS
    <3> QED
      BY <3>1, <3>2, <3>3
  <2> HIDE DEF off, n
  <2>4. ASSUME NEW k \in 0..n, k < n
        PROVE  /\ off[k + 1] = off[k] + Len(seqs[k + 1])
               /\ \A p \in 1..off[k] : k # 0 /\ joined[k + 1][p] = joined[k][p]
               /\ \A p \in off[k] + 1..off[k + 1] : joined[k + 1][p] = seqs[k + 1][p - off[k]]
    <3>1. k + 1 \in 1..n /\ (k + 1) - 1 = k /\ (k + 1 = 1 <=> k = 0)
      BY <2>2, <2>4
    <3>2. joined[k + 1] =
            IF k + 1 = 1 THEN seqs[k + 1] ELSE joined[(k + 1) - 1] \o seqs[k + 1]
      BY <2>1, <3>1 DEF Joins
    <3>3. joined[k + 1] = IF k = 0 THEN seqs[k + 1] ELSE joined[k] \o seqs[k + 1]
      BY <3>1, <3>2
    <3>4. CASE k = 0
      <4>1. joined[k + 1] = seqs[k + 1] /\ off[k] = 0 /\ off[k + 1] = Len(seqs[k + 1])
        BY <2>2, <2>3, <3>1, <3>3, <3>4
      <4> QED
        BY <2>3, <3>1, <4>1
    <3>5. CASE k # 0
      <4>1. joined[k + 1] = joined[k] \o seqs[k + 1]
        BY <3>3, <3>5
      <4>2. /\ joined[k] \in Seq(T) /\ Len(joined[k]) = off[k]
            /\ seqs[k + 1] \in Seq(T) /\ Len(joined[k + 1]) = off[k + 1]
        BY <2>3, <3>1, <3>5
      <4> DEFINE left == joined[k]
                 right == seqs[k + 1]
      <4>3. left \in Seq(T) /\ right \in Seq(T) /\ Len(left) = off[k]
        BY <4>2
      <4> HIDE DEF left, right
      <4>4. /\ Len(left \o right) = Len(left) + Len(right)
            /\ \A p \in 1..Len(left) : (left \o right)[p] = left[p]
            /\ \A p \in Len(left) + 1..Len(left) + Len(right) :
                  (left \o right)[p] = right[p - Len(left)]
        <5>1. Len(left) \in Nat /\ Len(right) \in Nat
          BY <4>3
        <5>2. \A p \in 1..Len(left) + Len(right) : (left \o right)[p] =
                  IF p <= Len(left) THEN left[p] ELSE right[p - Len(left)]
          BY <4>3, ConcatProperties
        <5>3. Len(left \o right) = Len(left) + Len(right)
          BY <4>3, ConcatProperties
        <5> QED
          BY <5>1, <5>2, <5>3
      <4>5. joined[k + 1] = left \o right
        BY <4>1 DEF left, right
      <4>6. off[k + 1] = off[k] + Len(right)
        BY <4>2, <4>3, <4>4, <4>5
      <4>7. /\ \A p \in 1..off[k] : joined[k + 1][p] = left[p]
            /\ \A p \in off[k] + 1..off[k + 1] : joined[k + 1][p] = right[p - off[k]]
        BY <4>3, <4>4, <4>5, <4>6
      <4> QED
        BY <3>5, <4>6, <4>7 DEF left, right
    <3> QED
      BY <3>4, <3>5
  <2>5. \A b \in 0..n : \A a \in 0..b : off[a] <= off[b]
    <3> DEFINE P(b) == \A a \in 0..b : off[a] <= off[b]
               S == {b \in 0..n : P(b)}
    <3>1. P(0)
      BY <2>2
    <3>2. ASSUME NEW k \in 0..n, P(k), k < n PROVE P(k + 1)
      <4>1. off[k] <= off[k + 1]
        <5>1. /\ k + 1 \in 1..n /\ k + 1 \in 0..n
              /\ off[k + 1] = off[k] + Len(seqs[k + 1])
          BY <2>2, <2>4, <3>2
        <5>2. Len(seqs[k + 1]) \in Nat /\ off[k] \in Nat
          BY <2>2, <2>3, <5>1
        <5> QED
          BY <5>1, <5>2
      <4>2. \A a \in 0..k + 1 : off[a] \in Nat /\ (a = k + 1 \/ a \in 0..k)
        BY <2>2, <3>2
      <4> QED
        BY <2>2, <3>2, <4>1, <4>2
    <3>3. 0..n \subseteq S
      <4> HIDE DEF P
      <4>1. 0 \in S /\ \A k \in 0..n : k \in S /\ k < n => k + 1 \in S
        BY <2>2, <3>1, <3>2
      <4> HIDE DEF S
      <4> QED
        BY <2>2, <4>1, UpTo
    <3> QED
      BY <3>3
  <2> DEFINE
       Within(k) == \A i \in 1..k : \A p \in off[i - 1] + 1..off[i] :
                        joined[k][p] = seqs[i][p - off[i - 1]]
       Covered(k) == \A p \in 1..off[k] : \E i \in 1..k : off[i - 1] < p /\ p <= off[i]
       P(k) == Within(k) /\ Covered(k)
       S == {k \in 0..n : P(k)}
  <2>6. P(0)
    BY <2>2
  <2>7. ASSUME NEW k \in 0..n, P(k), k < n PROVE P(k + 1)
    <3>1. Within(k + 1)
      <4> SUFFICES ASSUME NEW i \in 1..k + 1, NEW p \in off[i - 1] + 1..off[i]
                   PROVE  joined[k + 1][p] = seqs[i][p - off[i - 1]]
        OBVIOUS
      <4>1. CASE i = k + 1
        <5>1. i - 1 = k
          BY <4>1
        <5> QED
          BY <2>4, <2>7, <4>1, <5>1
      <4>2. CASE i \in 1..k
        <5>1. off[i] <= off[k] /\ off[i - 1] \in Nat /\ off[i] \in Nat /\ off[k] \in Nat
          BY <2>2, <2>5, <2>7, <4>2
        <5>2. p \in 1..off[k]
          BY <5>1
        <5>3. joined[k][p] = seqs[i][p - off[i - 1]]
          BY <2>7, <4>2
        <5> QED
          BY <2>4, <2>7, <5>2, <5>3
      <4> QED
        BY <4>1, <4>2
    <3>2. Covered(k + 1)
      <4> SUFFICES ASSUME NEW p \in 1..off[k + 1]
                   PROVE  \E i \in 1..k + 1 : off[i - 1] < p /\ p <= off[i]
        OBVIOUS
      <4>1. CASE p <= off[k]
        <5>1. off[k] \in Nat
          BY <2>2
        <5>2. PICK i \in 1..k : off[i - 1] < p /\ p <= off[i]
          BY <2>7, <4>1, <5>1
        <5> QED
          BY <5>2
      <4>2. CASE ~(p <= off[k])
        <5>1. off[k] \in Nat /\ (k + 1) - 1 = k /\ k + 1 \in 1..k + 1
          BY <2>2
        <5> QED
          BY <4>2, <5>1
      <4> QED
        BY <4>1, <4>2
    <3> QED
      BY <3>1, <3>2
  <2>8. 0..n \subseteq S
    <3> HIDE DEF P
    <3>1. 0 \in S /\ \A k \in 0..n : k \in S /\ k < n => k + 1 \in S
      BY <2>2, <2>6, <2>7
    <3> HIDE DEF S
    <3> QED
      BY <2>2, <3>1, UpTo
  <2>9. P(n)
    BY <2>2, <2>8
  <2>10. \A i \in 1..n : off[i] = off[i - 1] + Len(seqs[i])
    <3> SUFFICES ASSUME NEW i \in 1..n PROVE off[i] = off[i - 1] + Len(seqs[i])
      OBVIOUS
    <3>1. i - 1 \in 0..n /\ i - 1 < n /\ (i - 1) + 1 = i
      BY <2>2
    <3> QED
      BY <2>4, <3>1
  <2>11. Laid(off, seqs, joined[n])
    <3>1. \A a, b \in 0..n : a <= b => off[a] <= off[b]
      BY <2>5
    <3> QED
      BY <2>2, <2>9, <2>10, <3>1 DEF Laid, n
  <2>12. joined[n] \in Seq(T)
    BY <2>2, <2>3
  <2> QED
    BY <2>1, <2>11, <2>12
<1> QED
  BY <1>1, <1>2

-------------------------------------------------------------------------------

\* What a message looks like when it is sent, and what is sent besides messages.
IsBody(sent, message) ==
    \E size, args, images :
        sent = Wire(message.kind.role, size, args, images, message.id, message.turn)
IsNote(sent) == \E size, images : sent = Wire("system", size, 0, images, 0, 0)

LEMMA BodyFields ==
    ASSUME NEW sent, NEW message
    PROVE  /\ IsNote(sent) => sent.role = "system"
           /\ IsBody(sent, message) => /\ sent.role = message.kind.role
                                       /\ sent.id = message.id
                                       /\ sent.turn = message.turn
BY DEF IsNote, IsBody, Wire

\* Images that are left out change no more than a size.
LEMMA ElidedParts ==
    ASSUME NEW sent, NEW message, NEW x, NEW y
    PROVE  LET elided == [sent EXCEPT !.images = x, !.size = y]
           IN  /\ IsNote(sent) => IsNote(elided)
               /\ IsBody(sent, message) => IsBody(elided, message)
<1>1. ASSUME NEW role, NEW size, NEW args, NEW images, NEW id, NEW turn,
             sent = Wire(role, size, args, images, id, turn)
      PROVE  [sent EXCEPT !.images = x, !.size = y] = Wire(role, y, args, x, id, turn)
  <2>1. DOMAIN Wire(role, size, args, images, id, turn)
          = {"role", "size", "args", "images", "id", "turn"}
    BY DEF Wire
  <2>2. [sent EXCEPT !.images = x, !.size = y]
          = [f \in {"role", "size", "args", "images", "id", "turn"} |->
                IF f = "size" THEN y ELSE IF f = "images" THEN x ELSE sent[f]]
    BY <1>1, <2>1
  <2> QED
    BY <1>1, <2>2 DEF Wire
<1> QED
  BY <1>1 DEF IsNote, IsBody

LEMMA ElidedSeq ==
    ASSUME NEW wire
    PROVE  /\ DOMAIN ImagesElided(wire) = DOMAIN wire
           /\ ImagesElided(wire) = [p \in DOMAIN wire |-> ImagesElided(wire)[p]]
           /\ \A p \in DOMAIN wire : \A message :
                  /\ IsNote(wire[p]) => IsNote(ImagesElided(wire)[p])
                  /\ IsBody(wire[p], message) => IsBody(ImagesElided(wire)[p], message)
<1> DEFINE total == LET from[i \in 1..Len(wire) + 1] ==
                            IF i > Len(wire) THEN 0 ELSE from[i + 1] + wire[i].images
                    IN  from
           kept(i) == Min({wire[i].images, ImageKeep - Min({ImageKeep, total[i + 1]})})
           larger(i) == wire[i].size + (wire[i].images - kept(i)) * Notice
           elided(i) == [wire[i] EXCEPT !.images = kept(i), !.size = larger(i)]
<1>1. ImagesElided(wire) = [i \in DOMAIN wire |-> elided(i)]
  BY DEF ImagesElided
<1>2. ASSUME NEW p \in DOMAIN wire, NEW message
      PROVE  /\ IsNote(wire[p]) => IsNote(elided(p))
             /\ IsBody(wire[p], message) => IsBody(elided(p), message)
  <2> HIDE DEF kept, larger
  <2> QED
    BY ElidedParts
<1> HIDE DEF elided
<1> QED
  BY <1>1, <1>2

\* What one message becomes: itself, behind the note that only a user's may carry.
LEMMA SentParts ==
    ASSUME NEW history \in Seq(Message), NEW i \in 1..Len(history), NEW start, NEW injected
    PROVE  LET sent == Sent(history, i, start, injected)
           IN  \E body, note :
                  /\ IsBody(body, history[i]) /\ IsNote(note)
                  /\ \/ sent = <<body>>
                     \/ ~IsTool(history, i) /\ sent = <<note, body>>
<1> DEFINE kind == history[i].kind
           budget == IF i \in LatestUser(history, start)
                     THEN LatestUserBudget(history, start, injected) ELSE UserMax
           size == CASE kind.role = "user" -> UserText(kind, budget)
                     [] kind.role = "tool" -> ToolText(kind, Tier(history, i), TRUE)
                     [] OTHER -> kind.size
           args == MiddleOmitted(kind.args, ArgsMax)
           body == Wire(kind.role, size, args, kind.images, history[i].id, history[i].turn)
           note == System(kind.note)
<1>1. Sent(history, i, start, injected) =
        IF kind.role = "user" /\ kind.note > 0 THEN <<note, body>> ELSE <<body>>
  BY DEF Sent
<1> HIDE DEF size, args
<1>2. IsBody(body, history[i])
  BY DEF IsBody
<1>3. IsNote(note)
  BY DEF IsNote, System
<1>4. kind.role = "user" => ~IsTool(history, i)
  BY DEF IsTool
<1> HIDE DEF body, note, kind
<1> QED
  BY <1>1, <1>2, <1>3, <1>4
-------------------------------------------------------------------------------
\* Where the messages behind the first `start' lie in a request: each ends at its
\* place, and the rest is notes.
Placed(off, wire, history, start) ==
    LET n == Len(history)
    IN  /\ DOMAIN wire = 1..off[n]
        /\ off \in [start..n -> Nat]
        /\ \A a, b \in start..n : a <= b => off[a] <= off[b]
        /\ \A i \in start + 1..n :
              /\ off[i - 1] < off[i]
              /\ IsTool(history, i) => off[i] = off[i - 1] + 1
              /\ IsBody(wire[off[i]], history[i])
              /\ \A p \in off[i - 1] + 1..off[i] - 1 : IsNote(wire[p])
        /\ \A p \in 1..off[start] : IsNote(wire[p])
        /\ \A p \in off[start] + 1..off[n] :
              \E i \in start + 1..n : off[i - 1] < p /\ p <= off[i]

\* The same of the messages before images are left out: each one's parts end at its
\* place.
Segmented(off, flat, history, start, injected) ==
    LET n == Len(history)
    IN  /\ DOMAIN flat = 1..off[n]
        /\ off \in [start..n -> Nat] /\ off[start] = 0
        /\ \A a, b \in start..n : a <= b => off[a] <= off[b]
        /\ \A i \in start + 1..n :
              LET sent == Sent(history, i, start, injected)
              IN  /\ off[i] = off[i - 1] + Len(sent)
                  /\ \A m \in 1..Len(sent) : flat[off[i - 1] + m] = sent[m]
        /\ \A p \in 1..off[n] : \E i \in start + 1..n : off[i - 1] < p /\ p <= off[i]

Flat(history, start, injected) ==
    FlattenSeq([k \in 1..Len(history) - start |-> Sent(history, start + k, start, injected)])

LEMMA FlatSegmented ==
    ASSUME NEW history \in Seq(Message), NEW start \in 0..Len(history), NEW injected
    PROVE  /\ \E off : Segmented(off, Flat(history, start, injected), history, start, injected)
           /\ \E T : Flat(history, start, injected) \in Seq(T)
<1> DEFINE n == Len(history)
           count == n - start
           segment(k) == Sent(history, start + k, start, injected)
           segments == [k \in 1..count |-> segment(k)]
           T == {segment(k)[m] : k \in 1..count, m \in 1..2}
<1>1. n \in Nat /\ count \in Nat /\ start \in Nat /\ n = start + count
  OBVIOUS
<1>2. ASSUME NEW k \in 1..count
      PROVE  /\ segment(k) \in Seq(T)
             /\ Len(segment(k)) \in 1..2
  <2>1. start + k \in 1..Len(history)
    BY <1>1
  <2>2. PICK body, note :
           /\ IsBody(body, history[start + k]) /\ IsNote(note)
           /\ \/ segment(k) = <<body>>
              \/ ~IsTool(history, start + k) /\ segment(k) = <<note, body>>
    BY <2>1, SentParts
  <2>3. segment(k)[1] \in T /\ segment(k)[2] \in T
    <3> HIDE DEF segment
    <3> QED
      OBVIOUS
  <2> HIDE DEF segment, T
  <2>4. CASE segment(k) = <<body>>
    <3>1. body \in T
      BY <2>3, <2>4
    <3> QED
      BY <2>2, <2>4, <3>1
  <2>5. CASE ~IsTool(history, start + k) /\ segment(k) = <<note, body>>
    <3>1. body \in T /\ note \in T
      BY <2>3, <2>5
    <3> QED
      BY <2>2, <2>5, <3>1
  <2> QED
    BY <2>2, <2>4, <2>5
<1> HIDE DEF segment, T
<1>3. segments \in Seq(Seq(T)) /\ Len(segments) = count
  BY <1>1, <1>2
<1>4. \A k \in 1..count : segments[k] = segment(k)
  OBVIOUS
<1> HIDE DEF segments
<1>5. PICK flat : flat = Flat(history, start, injected)
  OBVIOUS
<1>6. flat = FlattenSeq(segments)
  BY <1>5 DEF Flat, segments, segment
<1>7. flat \in Seq(T)
  BY <1>3, <1>6, FlattenLaid
<1>8. PICK at : Laid(at, segments, flat)
  BY <1>3, <1>6, FlattenLaid
<1>9. /\ at \in [0..count -> Nat] /\ at[0] = 0 /\ at[count] = Len(flat)
      /\ \A a, b \in 0..count : a <= b => at[a] <= at[b]
  BY <1>3, <1>8 DEF Laid
<1>10. \A k \in 1..count : at[k] = at[k - 1] + Len(segment(k))
  BY <1>3, <1>4, <1>8 DEF Laid
<1>11. \A k \in 1..count : \A p \in at[k - 1] + 1..at[k] : flat[p] = segment(k)[p - at[k - 1]]
  BY <1>3, <1>4, <1>8 DEF Laid
<1>12. \A p \in 1..Len(flat) : \E k \in 1..count : at[k - 1] < p /\ p <= at[k]
  BY <1>3, <1>8 DEF Laid
<1> DEFINE off == [i \in start..n |-> at[i - start]]
<1>13. /\ off \in [start..n -> Nat] /\ off[start] = 0 /\ off[n] = at[count]
       /\ \A a, b \in start..n : a <= b => off[a] <= off[b]
  <2>1. \A i \in start..n : i - start \in 0..count /\ off[i] = at[i - start]
    BY <1>1
  <2>2. \A i \in start..n : off[i] \in Nat
    BY <1>9, <2>1
  <2>3. start - start = 0 /\ n - start = count /\ start \in start..n /\ n \in start..n
    BY <1>1
  <2>4. off[start] = 0 /\ off[n] = at[count]
    BY <1>9, <2>1, <2>3
  <2>5. ASSUME NEW a \in start..n, NEW b \in start..n, a <= b PROVE off[a] <= off[b]
    <3>1. a - start <= b - start /\ a - start \in 0..count /\ b - start \in 0..count
      BY <1>1, <2>5
    <3> QED
      BY <1>9, <2>1, <3>1
  <2> QED
    BY <2>2, <2>4, <2>5
<1>14. ASSUME NEW i \in start + 1..n
       PROVE  LET sent == Sent(history, i, start, injected)
              IN  /\ off[i] = off[i - 1] + Len(sent)
                  /\ \A m \in 1..Len(sent) : flat[off[i - 1] + m] = sent[m]
  <2> DEFINE k == i - start
  <2>1. /\ k \in 1..count /\ start + k = i /\ k - 1 \in 0..count
        /\ off[i] = at[k] /\ off[i - 1] = at[k - 1]
    BY <1>1
  <2> HIDE DEF k, off
  <2>2. PICK sent : sent = segment(k)
    OBVIOUS
  <2>3. sent = Sent(history, i, start, injected)
    BY <2>1, <2>2 DEF segment
  <2>4. at[k] = at[k - 1] + Len(sent) /\ Len(sent) \in Nat /\ at[k - 1] \in Nat
    <3>1. at[k] = at[k - 1] + Len(sent)
      BY <1>10, <2>1, <2>2
    <3>2. Len(sent) \in Nat
      BY <1>2, <2>1, <2>2
    <3>3. at[k - 1] \in Nat
      BY <1>9, <2>1
    <3> QED
      BY <3>1, <3>2, <3>3
  <2>5. ASSUME NEW m \in 1..Len(sent) PROVE flat[at[k - 1] + m] = sent[m]
    <3>1. PICK p : p = at[k - 1] + m
      OBVIOUS
    <3>2. p \in at[k - 1] + 1..at[k] /\ p - at[k - 1] = m
      BY <2>4, <3>1
    <3>3. flat[p] = segment(k)[p - at[k - 1]]
      BY <1>11, <2>1, <3>2
    <3> QED
      BY <2>2, <3>1, <3>2, <3>3
  <2> QED
    BY <2>1, <2>3, <2>4, <2>5
<1>15. ASSUME NEW p \in 1..off[n]
       PROVE  \E i \in start + 1..n : off[i - 1] < p /\ p <= off[i]
  <2>1. p \in 1..Len(flat)
    BY <1>9, <1>13
  <2>2. PICK k \in 1..count : at[k - 1] < p /\ p <= at[k]
    BY <1>12, <2>1
  <2>3. /\ start + k \in start + 1..n /\ off[start + k] = at[k]
        /\ off[(start + k) - 1] = at[k - 1]
    <3>1. /\ start + k \in start..n /\ (start + k) - 1 \in start..n
          /\ (start + k) - start = k /\ ((start + k) - 1) - start = k - 1
          /\ start + k \in start + 1..n
      BY <1>1
    <3> QED
      BY <3>1
  <2> QED
    BY <2>2, <2>3
<1>16. DOMAIN flat = 1..off[n]
  BY <1>7, <1>9, <1>13
<1> HIDE DEF off
<1>17. Segmented(off, flat, history, start, injected)
  BY <1>13, <1>14, <1>15, <1>16 DEF Segmented
<1> QED
  BY <1>5, <1>7, <1>17

LEMMA ExpandedPlaced ==
    ASSUME NEW history \in Seq(Message), NEW start \in 0..Len(history), NEW injected
    PROVE  /\ \E off : Placed(off, Expanded(history, start, injected), history, start)
           /\ \E T : Expanded(history, start, injected) \in Seq(T)
<1> DEFINE n == Len(history)
           flat == Flat(history, start, injected)
<1>1. PICK off : Segmented(off, flat, history, start, injected)
  BY FlatSegmented
<1>2. PICK wire : wire = Expanded(history, start, injected)
  OBVIOUS
<1>3. wire = ImagesElided(flat)
  BY <1>2 DEF Expanded, Flat
<1> HIDE DEF flat
<1>4. /\ off \in [start..n -> Nat] /\ off[start] = 0 /\ DOMAIN flat = 1..off[n]
      /\ \A a, b \in start..n : a <= b => off[a] <= off[b]
      /\ \A p \in 1..off[n] : \E i \in start + 1..n : off[i - 1] < p /\ p <= off[i]
  BY <1>1 DEF Segmented
<1>5. n \in Nat /\ start \in Nat /\ start \in start..n /\ n \in start..n
  OBVIOUS
<1>6. DOMAIN wire = 1..off[n] /\ wire = [p \in 1..off[n] |-> wire[p]]
  BY <1>3, <1>4, ElidedSeq
<1>7. \A p \in 1..off[n] : \A message :
         /\ IsNote(flat[p]) => IsNote(wire[p])
         /\ IsBody(flat[p], message) => IsBody(wire[p], message)
  BY <1>3, <1>4, ElidedSeq
<1>8. \E U : wire \in Seq(U)
  <2> DEFINE U == {wire[p] : p \in 1..off[n]}
  <2>1. PICK length \in Nat : length = off[n]
    BY <1>4, <1>5
  <2>2. wire = [p \in 1..length |-> wire[p]] /\ \A p \in 1..length : wire[p] \in U
    BY <1>6, <2>1
  <2> HIDE DEF U
  <2>3. wire \in [1..length -> U]
    BY <2>2
  <2>4. wire \in Seq(U)
    BY <2>3
  <2> QED
    BY <2>4
<1>9. ASSUME NEW i \in start + 1..n
      PROVE  /\ off[i - 1] < off[i]
             /\ IsTool(history, i) => off[i] = off[i - 1] + 1
             /\ IsBody(wire[off[i]], history[i])
             /\ \A p \in off[i - 1] + 1..off[i] - 1 : IsNote(wire[p])
  <2>1. PICK sent : sent = Sent(history, i, start, injected)
    OBVIOUS
  <2>2. /\ off[i] = off[i - 1] + Len(sent)
        /\ \A m \in 1..Len(sent) : flat[off[i - 1] + m] = sent[m]
    BY <1>1, <2>1 DEF Segmented
  <2>3. i \in 1..n /\ i \in start..n /\ i - 1 \in start..n /\ i <= n
    BY <1>5
  <2>4. off[i - 1] \in Nat /\ off[i] \in Nat /\ off[n] \in Nat /\ off[i] <= off[n]
    BY <1>4, <1>5, <2>3
  <2>5. PICK body, note :
           /\ IsBody(body, history[i]) /\ IsNote(note)
           /\ \/ sent = <<body>>
              \/ ~IsTool(history, i) /\ sent = <<note, body>>
    BY <2>1, <2>3, SentParts
  <2>6. CASE sent = <<body>>
    <3>1. off[i] = off[i - 1] + 1 /\ flat[off[i - 1] + 1] = body
      BY <2>2, <2>6
    <3>2. off[i] \in 1..off[n] /\ IsBody(flat[off[i]], history[i])
      BY <2>4, <2>5, <3>1
    <3>3. IsBody(wire[off[i]], history[i])
      BY <1>7, <3>2
    <3>4. off[i - 1] < off[i] /\ ~ \E p : p \in off[i - 1] + 1..off[i] - 1
      BY <2>4, <3>1
    <3> QED
      BY <3>1, <3>3, <3>4
  <2>7. CASE ~IsTool(history, i) /\ sent = <<note, body>>
    <3>1. /\ off[i] = off[i - 1] + 2
          /\ flat[off[i - 1] + 1] = note /\ flat[off[i - 1] + 2] = body
      BY <2>2, <2>7
    <3>2. off[i] \in 1..off[n] /\ off[i - 1] + 1 \in 1..off[n]
      BY <2>4, <3>1
    <3>3. IsBody(wire[off[i]], history[i]) /\ IsNote(wire[off[i - 1] + 1])
      BY <1>7, <2>5, <3>1, <3>2
    <3>4. \A p \in off[i - 1] + 1..off[i] - 1 : p = off[i - 1] + 1
      BY <2>4, <3>1
    <3>5. off[i - 1] < off[i]
      BY <2>4, <3>1
    <3> QED
      BY <2>7, <3>3, <3>4, <3>5
  <2> QED
    BY <2>5, <2>6, <2>7
<1>10. \A p \in 1..off[start] : IsNote(wire[p])
  BY <1>4
<1>11. \A p \in off[start] + 1..off[n] :
          \E i \in start + 1..n : off[i - 1] < p /\ p <= off[i]
  BY <1>4, <1>5
<1>12. Placed(off, wire, history, start)
  BY <1>4, <1>6, <1>9, <1>10, <1>11 DEF Placed
<1> QED
  BY <1>2, <1>8, <1>12

\* Notes in front move the messages.
LEMMA BehindNotes ==
    ASSUME NEW history, NEW start \in Nat, NEW T, NEW wire \in Seq(T), NEW off,
           Len(history) \in Nat, start <= Len(history),
           Placed(off, wire, history, start),
           NEW U, NEW notes \in Seq(U), \A p \in 1..Len(notes) : IsNote(notes[p])
    PROVE  \E moved : Placed(moved, notes \o wire, history, start)
<1> DEFINE n == Len(history)
           lead == Len(notes)
           all == notes \o wire
           moved == [i \in start..n |-> lead + off[i]]
<1>1. /\ n \in Nat /\ lead \in Nat /\ start \in start..n /\ n \in start..n
      /\ Len(wire) = off[n] /\ DOMAIN wire = 1..off[n]
  BY DEF Placed
<1>2. /\ off \in [start..n -> Nat]
      /\ \A a, b \in start..n : a <= b => off[a] <= off[b]
  BY DEF Placed
<1>3. /\ DOMAIN all = 1..lead + off[n]
      /\ \A p \in 1..lead : all[p] = notes[p]
      /\ \A p \in 1..off[n] : all[lead + p] = wire[p]
  <2> DEFINE S == T \cup U
  <2>1. wire \in Seq(S) /\ notes \in Seq(S)
    OBVIOUS
  <2> HIDE DEF S
  <2>2. /\ all \in Seq(S) /\ Len(all) = lead + off[n]
        /\ \A p \in 1..lead + off[n] :
              all[p] = IF p <= lead THEN notes[p] ELSE wire[p - lead]
    BY <1>1, <2>1, ConcatProperties
  <2>3. off[n] \in Nat
    BY <1>1, <1>2
  <2> HIDE DEF all, lead
  <2>4. DOMAIN all = 1..lead + off[n]
    BY <2>2
  <2>5. \A p \in 1..lead : all[p] = notes[p]
    BY <1>1, <2>2, <2>3
  <2>6. ASSUME NEW p \in 1..off[n] PROVE all[lead + p] = wire[p]
    <3>1. lead + p \in 1..lead + off[n] /\ ~(lead + p <= lead) /\ (lead + p) - lead = p
      BY <1>1, <2>3
    <3> QED
      BY <2>2, <3>1
  <2> QED
    BY <2>4, <2>5, <2>6
<1> HIDE DEF all
<1>4. /\ moved \in [start..n -> Nat] /\ \A i \in start..n : moved[i] = lead + off[i]
      /\ \A a, b \in start..n : a <= b => moved[a] <= moved[b]
  <2>1. \A i \in start..n : moved[i] = lead + off[i] /\ off[i] \in Nat
    BY <1>2
  <2>2. \A i \in start..n : moved[i] \in Nat
    BY <1>1, <2>1
  <2>3. \A a, b \in start..n : a <= b => moved[a] <= moved[b]
    BY <1>1, <1>2, <2>1
  <2> QED
    BY <2>1, <2>2, <2>3
<1> HIDE DEF moved, lead
<1>5. ASSUME NEW i \in start + 1..n
      PROVE  /\ moved[i - 1] < moved[i]
             /\ IsTool(history, i) => moved[i] = moved[i - 1] + 1
             /\ IsBody(all[moved[i]], history[i])
             /\ \A p \in moved[i - 1] + 1..moved[i] - 1 : IsNote(all[p])
  <2>1. /\ i \in start..n /\ i - 1 \in start..n
        /\ off[i] \in Nat /\ off[i - 1] \in Nat /\ off[n] \in Nat
        /\ off[i] <= off[n]
        /\ moved[i] = lead + off[i] /\ moved[i - 1] = lead + off[i - 1]
    <3>1. i \in start..n /\ i - 1 \in start..n /\ i <= n
      BY <1>1
    <3> QED
      BY <1>1, <1>2, <1>4, <3>1
  <2>2. /\ off[i - 1] < off[i]
        /\ IsTool(history, i) => off[i] = off[i - 1] + 1
        /\ IsBody(wire[off[i]], history[i])
        /\ \A p \in off[i - 1] + 1..off[i] - 1 : IsNote(wire[p])
    BY DEF Placed
  <2>3. IsBody(all[moved[i]], history[i])
    <3>1. off[i] \in 1..off[n]
      BY <2>1, <2>2
    <3> QED
      BY <1>3, <2>1, <2>2, <3>1
  <2>4. ASSUME NEW p \in moved[i - 1] + 1..moved[i] - 1 PROVE IsNote(all[p])
    <3>1. p \in (lead + off[i - 1]) + 1..(lead + off[i]) - 1
      BY <2>1
    <3>2. p - lead \in off[i - 1] + 1..off[i] - 1 /\ lead + (p - lead) = p
      <4>1. lead \in Nat /\ off[i] \in Nat /\ off[i - 1] \in Nat
        BY <1>1, <2>1
      <4>2. PICK a, b : a = off[i - 1] /\ b = off[i]
        OBVIOUS
      <4>3. p \in (lead + a) + 1..(lead + b) - 1 /\ a \in Nat /\ b \in Nat
        BY <3>1, <4>1, <4>2
      <4>4. p \in Int /\ lead + a < p /\ p < lead + b
        BY <4>1, <4>3
      <4>5. p - lead \in a + 1..b - 1 /\ lead + (p - lead) = p
        BY <4>1, <4>3, <4>4
      <4> QED
        BY <4>2, <4>5
    <3>3. p - lead \in 1..off[n]
      <4>1. PICK q : q = p - lead
        OBVIOUS
      <4>2. q \in off[i - 1] + 1..off[i] - 1
        BY <3>2, <4>1
      <4>3. q \in 1..off[n]
        BY <2>1, <4>2
      <4> QED
        BY <4>1, <4>3
    <3>4. IsNote(wire[p - lead]) /\ all[p] = wire[p - lead]
      BY <1>3, <2>2, <3>2, <3>3
    <3> QED
      BY <3>4
  <2> QED
    BY <1>1, <2>1, <2>2, <2>3, <2>4
<1>6. ASSUME NEW p \in 1..moved[start] PROVE IsNote(all[p])
  <2>1. moved[start] = lead + off[start] /\ off[start] \in Nat /\ off[n] \in Nat
        /\ off[start] <= off[n]
    BY <1>1, <1>2, <1>4
  <2>2. CASE p <= lead
    <3>1. p \in 1..lead
      BY <2>1, <2>2, <1>1
    <3> QED
      BY <1>3, <3>1 DEF lead
  <2>3. CASE ~(p <= lead)
    <3>1. p - lead \in 1..off[start] /\ p - lead \in 1..off[n] /\ lead + (p - lead) = p
      BY <1>1, <2>1, <2>3
    <3>2. IsNote(wire[p - lead])
      BY <3>1 DEF Placed
    <3> QED
      BY <1>3, <3>1, <3>2
  <2> QED
    BY <2>2, <2>3
<1>7. ASSUME NEW p \in moved[start] + 1..moved[n]
      PROVE  \E i \in start + 1..n : moved[i - 1] < p /\ p <= moved[i]
  <2>1. /\ moved[start] = lead + off[start] /\ off[start] \in Nat /\ off[n] \in Nat
        /\ moved[n] = lead + off[n]
    BY <1>1, <1>2, <1>4
  <2>2. p - lead \in off[start] + 1..off[n]
    BY <1>1, <2>1
  <2>3. PICK i \in start + 1..n : off[i - 1] < p - lead /\ p - lead <= off[i]
    BY <2>2 DEF Placed
  <2>4. i \in start..n /\ i - 1 \in start..n
    BY <1>1
  <2>5. /\ moved[i] = lead + off[i] /\ moved[i - 1] = lead + off[i - 1]
        /\ off[i] \in Nat /\ off[i - 1] \in Nat
    BY <1>2, <1>4, <2>4
  <2>6. moved[i - 1] < p /\ p <= moved[i]
    <3>1. PICK a, b : a = off[i - 1] /\ b = off[i]
      OBVIOUS
    <3>2. /\ a \in Nat /\ b \in Nat /\ a < p - lead /\ p - lead <= b
          /\ moved[i] = lead + b /\ moved[i - 1] = lead + a
      BY <2>3, <2>5, <3>1
    <3>3. p \in Int /\ lead \in Nat
      BY <1>1, <2>1
    <3> QED
      BY <3>2, <3>3
  <2> QED
    BY <2>6
<1>8. DOMAIN all = 1..moved[n]
  BY <1>1, <1>3, <1>4
<1>9. Placed(moved, all, history, start)
  BY <1>4, <1>5, <1>6, <1>7, <1>8 DEF Placed
<1> QED
  BY <1>9 DEF all

\* What a request sends in full begins behind this.
Kept(history, record) ==
    IF Usable(history, record) THEN AlignedStart(history, record.end) ELSE 0

LEMMA ProjectedPlaced ==
    ASSUME NEW history \in Seq(Message), NEW record, record # NoRecord => record.end \in Nat
    PROVE  /\ Kept(history, record) \in 0..Len(history)
           /\ \E off : Placed(off, Projected(history, record), history, Kept(history, record))
<1>1. Len(history) \in Nat /\ 0 \in 0..Len(history)
  OBVIOUS
<1>2. CASE ~Usable(history, record)
  BY <1>1, <1>2, ExpandedPlaced DEF Projected, Kept
<1>3. CASE Usable(history, record)
  <2> DEFINE start == AlignedStart(history, record.end)
             size == SummaryTag + record.size
             restored == Reinjected(history, record.end)
             notes == <<System(size)>>
                        \o (IF restored.picked = {} THEN <<>> ELSE <<System(restored.used)>>)
             tail == Expanded(history, start, size)
  <2>1. record.end \in 0..Len(history)
    BY <1>3 DEF Usable
  <2>2. start \in 0..Len(history) /\ Kept(history, record) = start
    BY <1>3, <2>1, TailBeginsWhole DEF Kept
  <2>3. Projected(history, record) = notes \o tail
    BY <1>3 DEF Projected
  <2>4. (\E off : Placed(off, tail, history, start)) /\ \E T : tail \in Seq(T)
    BY <2>2, ExpandedPlaced
  <2>5. (\E U : notes \in Seq(U)) /\ \A p \in 1..Len(notes) : IsNote(notes[p])
    <3>1. PICK a, b : a = System(size) /\ b = System(restored.used)
      OBVIOUS
    <3>2. IsNote(a) /\ IsNote(b)
      BY <3>1 DEF IsNote, System
    <3>3. notes = <<a>> \o <<>> \/ notes = <<a>> \o <<b>>
      BY <3>1
    <3>4. <<a>> \in Seq({a, b}) /\ <<b>> \in Seq({a, b}) /\ <<>> \in Seq({a, b})
      OBVIOUS
    <3> HIDE DEF notes
    <3>5. notes \in Seq({a, b})
      BY <3>3, <3>4, ConcatProperties
    <3> QED
      BY <3>2, <3>5
  <2> HIDE DEF start, notes, tail
  <2>6. \E off : Placed(off, notes \o tail, history, start)
    <3>1. start \in Nat /\ start <= Len(history)
      BY <1>1, <2>2
    <3> QED
      BY <1>1, <2>4, <2>5, <3>1, BehindNotes
  <2> QED
    BY <2>2, <2>3, <2>6
<1> QED
  BY <1>2, <1>3

-------------------------------------------------------------------------------
\* A result answers a batch of calls that it follows, with only results between.
TurnsInOrder(history) ==
    \A i \in 1..Len(history) : IsTool(history, i) =>
        \E b \in 1..i - 1 :
            /\ IsBatch(history, b) /\ history[i].turn = history[b].id
            /\ \A j \in b + 1..i : IsTool(history, j)

\* What a plan or a record stands for, and what an edit leaves of it: the messages it
\* was made for are in their places, up to where later ones were written over them.
Covers(record, history, last) ==
    /\ Len(record.of) = record.end /\ record.cut < record.end
    /\ \A k \in 1..record.end : record.of[k] <= last
    /\ \A i \in 1..Len(history) : i <= record.end =>
          \/ history[i].id = record.of[i]
          \/ \A k \in 1..record.end : record.of[k] < history[i].id

CoverInv ==
    /\ TurnsInOrder(messages)
    /\ \A i \in 1..Len(messages) : messages[i].id <= made
    /\ \A r \in archive : Covers(r, messages, made)
    /\ job # NoPlan => Covers(job, messages, made)

\* Without orphans, what is kept in full begins no later than what is summarised ends.
LEMMA KeptReachesBack ==
    ASSUME NEW history \in Seq(Message), NEW start \in 0..Len(history), TurnsInOrder(history)
    PROVE  AlignedStart(history, start) <= start
<1> DEFINE before == {i \in 1..start : ~IsTool(history, i)}
<1>1. CASE start = 0 \/ start >= Len(history) \/ ~IsTool(history, start + 1)
  BY <1>1 DEF AlignedStart
<1>2. CASE ~(start = 0 \/ start >= Len(history) \/ ~IsTool(history, start + 1))
  <2>1. start + 1 \in 1..Len(history) /\ (start + 1) - 1 = start
    BY <1>2
  <2>2. PICK b \in 1..start :
            IsBatch(history, b) /\ \A j \in b + 1..start + 1 : IsTool(history, j)
    BY <1>2, <2>1 DEF TurnsInOrder
  <2>3. b \in before
    BY <2>2 DEF IsBatch, IsTool
  <2>4. \A i \in before : i <= b
    BY <2>2
  <2>5. Max(before) \in before /\ b <= Max(before)
    <3>1. start \in Nat /\ before \subseteq 0..start /\ before # {}
      BY <2>3
    <3> HIDE DEF before
    <3> QED
      BY <2>3, <3>1, GreatestNatural
  <2>6. Max(before) = b
    BY <2>2, <2>4, <2>5
  <2>7. AlignedStart(history, start) = Max(before) - 1
    BY <1>2, <2>2, <2>3, <2>6 DEF AlignedStart
  <2> QED
    BY <2>2, <2>6, <2>7
<1> QED
  BY <1>1, <1>2

\* Both facts say nothing of what comes after.
LEMMA PrefixKeeps ==
    ASSUME NEW longer \in Seq(Message), NEW shorter \in Seq(Message),
           Len(shorter) <= Len(longer),
           \A i \in 1..Len(shorter) : shorter[i] = longer[i]
    PROVE  /\ TurnsInOrder(longer) => TurnsInOrder(shorter)
           /\ \A r, last : Covers(r, longer, last) => Covers(r, shorter, last)
<1>1. Len(shorter) \in Nat /\ Len(longer) \in Nat
  OBVIOUS
<1>2. ASSUME TurnsInOrder(longer) PROVE TurnsInOrder(shorter)
  <2> SUFFICES ASSUME NEW i \in 1..Len(shorter), IsTool(shorter, i)
               PROVE  \E b \in 1..i - 1 :
                        /\ IsBatch(shorter, b) /\ shorter[i].turn = shorter[b].id
                        /\ \A j \in b + 1..i : IsTool(shorter, j)
    BY DEF TurnsInOrder
  <2>1. i \in 1..Len(longer) /\ IsTool(longer, i) /\ shorter[i] = longer[i]
    BY <1>1 DEF IsTool
  <2>2. PICK b \in 1..i - 1 :
            /\ IsBatch(longer, b) /\ longer[i].turn = longer[b].id
            /\ \A j \in b + 1..i : IsTool(longer, j)
    BY <1>2, <2>1 DEF TurnsInOrder
  <2>3. b \in 1..Len(shorter) /\ \A j \in b + 1..i : j \in 1..Len(shorter)
    BY <1>1, <2>2
  <2>4. IsBatch(shorter, b) /\ shorter[i].turn = shorter[b].id
    BY <2>1, <2>2, <2>3 DEF IsBatch
  <2>5. \A j \in b + 1..i : IsTool(shorter, j)
    BY <2>2, <2>3 DEF IsTool
  <2> QED
    BY <2>4, <2>5
<1>3. ASSUME NEW r, NEW last, Covers(r, longer, last) PROVE Covers(r, shorter, last)
  <2>1. \A i \in 1..Len(shorter) : i \in 1..Len(longer) /\ shorter[i] = longer[i]
    BY <1>1
  <2> QED
    BY <1>3, <2>1 DEF Covers
<1> QED
  BY <1>2, <1>3

LEMMA StartPlanCovers == IInv /\ CoverInv /\ StartPlan => CoverInv'
<1> SUFFICES ASSUME IInv, CoverInv, StartPlan PROVE CoverInv'
  OBVIOUS
<1>1. PICK end, part, cut : /\ end = PlannedEnd /\ cut = TranscriptCut(end)
                            /\ part = SubSeq(Identities(messages), 1, end)
  OBVIOUS
<1>2. messages \in Seq(Message) /\ Len(messages) \in Nat /\ end \in 0..Len(messages)
  BY <1>1, PlannedEndType DEF IInv, TypeOK
<1>3. end \in Nat \ {0}
  BY <1>1, <1>2 DEF StartPlan
<1>4. cut \in Nat /\ cut < end
  BY <1>1, <1>3, SomethingIsRead
<1>5. part \in Seq(Nat) /\ Len(part) = end /\ \A i \in 1..end : part[i] = messages[i].id
  BY <1>1, <1>2, PartToSummarise
<1>6. /\ job'.end = end /\ job'.of = part /\ job'.cut = cut
      /\ UNCHANGED <<messages, made, archive>>
  BY <1>1 DEF StartPlan
<1>7. \A i \in 1..Len(messages) : messages[i].id <= made
  BY DEF CoverInv
<1>8. \A k \in 1..end : part[k] <= made
  <2>1. \A k \in 1..end : k \in 1..Len(messages)
    BY <1>2
  <2> QED
    BY <1>5, <1>7, <2>1
<1>9. Covers(job', messages, made)
  <2>1. \A i \in 1..Len(messages) : i <= end => i \in 1..end
    BY <1>2
  <2> QED
    BY <1>4, <1>5, <1>6, <1>8, <2>1 DEF Covers
<1> QED
  BY <1>6, <1>9 DEF CoverInv

LEMMA ActivateCovers ==
    ASSUME IInv, CoverInv, NEW size \in SummarySizes, NEW prunes \in BOOLEAN,
           Activate(size, prunes)
    PROVE  CoverInv'
<1> DEFINE record == [id |-> asked, end |-> job.end, size |-> size, cut |-> job.cut,
                      of |-> job.of]
<1>1. /\ archive' \subseteq archive \cup {record}
      /\ job # NoPlan /\ job' = NoPlan /\ UNCHANGED <<messages, made>>
  BY DEF Activate, PrunedAbove
<1>2. Covers(record, messages, made)
  <2>1. record.end = job.end /\ record.cut = job.cut /\ record.of = job.of
    OBVIOUS
  <2>2. Covers(job, messages, made)
    BY <1>1 DEF CoverInv
  <2> HIDE DEF record
  <2> QED
    BY <2>1, <2>2 DEF Covers
<1> HIDE DEF record
<1> QED
  BY <1>1, <1>2 DEF CoverInv

LEMMA GrowCovers ==
    ASSUME IInv, CoverInv, NEW kind \in Kinds, Grow(kind) PROVE CoverInv'
<1> DEFINE turn == IF kind.role = "tool" THEN messages[Max(OpenTurn)].id ELSE 0
           message == [kind |-> kind, id |-> made + 1, turn |-> turn]
<1>1. messages \in Seq(Message) /\ Len(messages) \in Nat /\ IInv'
  BY GrowStep DEF IInv, TypeOK
<1>2. /\ messages' \in Seq(Message) /\ messages' = Append(messages, message)
      /\ made' = made + 1 /\ made \in Nat /\ UNCHANGED <<archive, job>>
  BY <1>1, Sizes DEF Grow, IInv, TypeOK
<1>0. message.id = made + 1
  OBVIOUS
<1> HIDE DEF message
<1>3. /\ Len(messages') = Len(messages) + 1
      /\ \A i \in 1..Len(messages) : messages'[i] = messages[i]
      /\ messages'[Len(messages) + 1] = message
  BY <1>1, <1>2
<1>4. ASSUME NEW r, Covers(r, messages, made), r.of \in Seq(Nat), r.end \in Nat
      PROVE  Covers(r, messages', made')
  <2>1. /\ Len(r.of) = r.end /\ r.cut < r.end /\ \A k \in 1..r.end : r.of[k] \in Nat
        /\ \A k \in 1..r.end : r.of[k] <= made
        /\ \A i \in 1..Len(messages) : i <= r.end =>
              \/ messages[i].id = r.of[i]
              \/ \A k \in 1..r.end : r.of[k] < messages[i].id
    <3>1. \A k \in 1..r.end : r.of[k] \in Nat
      BY <1>4 DEF Covers
    <3> QED
      BY <1>4, <3>1 DEF Covers
  <2>2. \A k \in 1..r.end : r.of[k] <= made' /\ r.of[k] < message.id
    BY <1>0, <1>2, <2>1
  <2>3. ASSUME NEW i \in 1..Len(messages'), i <= r.end
        PROVE  \/ messages'[i].id = r.of[i]
               \/ \A k \in 1..r.end : r.of[k] < messages'[i].id
    <3>1. i \in 1..Len(messages) \/ i = Len(messages) + 1
      BY <1>1, <1>3
    <3>2. CASE i \in 1..Len(messages)
      BY <1>3, <2>1, <2>3, <3>2
    <3>3. CASE i = Len(messages) + 1
      BY <1>3, <2>2, <3>3
    <3> QED
      BY <3>1, <3>2, <3>3
  <2> QED
    BY <2>1, <2>2, <2>3 DEF Covers
<1>6. \A i \in 1..Len(messages') : messages'[i].id <= made'
  <2>1. \A i \in 1..Len(messages) : messages[i].id <= made /\ messages[i].id \in Nat
    <3>1. \A i \in 1..Len(messages) : messages[i].id \in Nat
      BY <1>1, MessageAt DEF Message
    <3> QED
      BY <3>1 DEF CoverInv
  <2>2. ASSUME NEW i \in 1..Len(messages') PROVE messages'[i].id <= made'
    <3>1. i \in 1..Len(messages) \/ i = Len(messages) + 1
      BY <1>1, <1>3
    <3>2. CASE i \in 1..Len(messages)
      BY <1>2, <1>3, <2>1, <3>2
    <3>3. CASE i = Len(messages) + 1
      BY <1>0, <1>2, <1>3, <3>3
    <3> QED
      BY <3>1, <3>2, <3>3
  <2> QED
    BY <2>2
<1>7. \A r \in archive' : Covers(r, messages', made')
  <2>1. \A r \in archive : Covers(r, messages, made) /\ r.of \in Seq(Nat) /\ r.end \in Nat
    BY DEF IInv, TypeOK, CoverInv, Record
  <2> QED
    BY <1>2, <1>4, <2>1
<1>8. job' # NoPlan => Covers(job', messages', made')
  <2>1. job.of \in Seq(Nat) /\ job.end \in Nat
    BY DEF IInv, TypeOK, Plan
  <2>2. job # NoPlan => Covers(job, messages, made)
    BY DEF CoverInv
  <2> QED
    BY <1>2, <1>4, <2>1, <2>2
<1>5. TurnsInOrder(messages')
  <2> SUFFICES ASSUME NEW i \in 1..Len(messages'), IsTool(messages', i)
               PROVE  \E b \in 1..i - 1 :
                        /\ IsBatch(messages', b) /\ messages'[i].turn = messages'[b].id
                        /\ \A j \in b + 1..i : IsTool(messages', j)
    BY DEF TurnsInOrder
  <2>1. CASE i \in 1..Len(messages)
    <3>1. IsTool(messages, i)
      BY <1>3, <2>1 DEF IsTool
    <3>2. PICK b \in 1..i - 1 :
              /\ IsBatch(messages, b) /\ messages[i].turn = messages[b].id
              /\ \A j \in b + 1..i : IsTool(messages, j)
      BY <2>1, <3>1 DEF CoverInv, TurnsInOrder
    <3>3. b \in 1..Len(messages) /\ \A j \in b + 1..i : j \in 1..Len(messages)
      BY <1>1, <2>1, <3>2
    <3>4. IsBatch(messages', b) /\ messages'[i].turn = messages'[b].id
      BY <1>3, <2>1, <3>2, <3>3 DEF IsBatch
    <3>5. \A j \in b + 1..i : IsTool(messages', j)
      BY <1>3, <3>2, <3>3 DEF IsTool
    <3> QED
      BY <3>4, <3>5
  <2>2. CASE i = Len(messages) + 1
    <3>1. messages'[i] = message /\ kind.role = "tool"
      BY <1>3, <2>2 DEF IsTool, message
    <3>2. OpenTurn # {} /\ OpenTurn \subseteq 0..Len(messages)
      <4>1. DOMAIN messages = 1..Len(messages)
        BY <1>1
      <4> QED
        <5>1. OpenTurn # {}
          BY <3>1 DEF Grow
        <5>2. OpenTurn \subseteq 1..Len(messages)
          BY <4>1 DEF OpenTurn
        <5> QED
          BY <5>1, <5>2
    <3>3. PICK b : b = Max(OpenTurn) /\ b \in OpenTurn
      <4> HIDE DEF OpenTurn
      <4> QED
        BY <1>1, <3>2, GreatestNatural
    <3>4. /\ b \in 1..Len(messages) /\ IsBatch(messages, b)
          /\ \A j \in b + 1..Len(messages) : IsTool(messages, j)
      BY <1>1, <3>3 DEF OpenTurn
    <3>5. message.turn = messages[b].id
      BY <3>1, <3>3 DEF message
    <3>6. b \in 1..i - 1 /\ IsBatch(messages', b) /\ messages'[i].turn = messages'[b].id
      BY <1>1, <1>3, <2>2, <3>1, <3>4, <3>5 DEF IsBatch
    <3>7. ASSUME NEW j \in b + 1..i PROVE IsTool(messages', j)
      <4>1. CASE j = i
        BY <4>1
      <4>2. CASE j # i
        <5>1. j \in b + 1..Len(messages) /\ j \in 1..Len(messages)
          BY <1>1, <2>2, <3>4, <4>2
        <5> QED
          BY <1>3, <3>4, <5>1 DEF IsTool
      <4> QED
        BY <4>1, <4>2
    <3> QED
      BY <3>6, <3>7
  <2>3. i \in 1..Len(messages) + 1
    BY <1>3
  <2> QED
    BY <1>1, <2>1, <2>2, <2>3
<1> QED
  BY <1>5, <1>6, <1>7, <1>8 DEF CoverInv

LEMMA EditCovers ==
    ASSUME IInv, CoverInv, NEW n \in 0..Len(messages) - 1, Edit(n) PROVE CoverInv'
<1>1. messages \in Seq(Message) /\ Len(messages) \in Nat
  BY DEF IInv, TypeOK
<1>2. /\ messages' \in Seq(Message) /\ Len(messages') = n /\ n <= Len(messages)
      /\ \A i \in 1..n : i \in 1..Len(messages) /\ messages'[i] = messages[i]
      /\ UNCHANGED <<made, archive, job>>
  BY <1>1 DEF Edit
<1>3. /\ TurnsInOrder(messages')
      /\ \A r, last : Covers(r, messages, last) => Covers(r, messages', last)
  BY <1>1, <1>2, PrefixKeeps DEF CoverInv
<1>4. \A i \in 1..Len(messages') : messages'[i].id <= made'
  BY <1>2 DEF CoverInv
<1> QED
  BY <1>2, <1>3, <1>4 DEF CoverInv

LEMMA NextCovers == IInv /\ CoverInv /\ [Next]_vars => CoverInv'
<1> SUFFICES ASSUME IInv, CoverInv, [Next]_vars PROVE CoverInv'
  OBVIOUS
<1>1. ASSUME UNCHANGED <<messages, made>>, archive' \subseteq archive,
             job' = job \/ job' = NoPlan
      PROVE  CoverInv'
  BY <1>1 DEF CoverInv
<1>2. CASE Repair
  <2>1. UNCHANGED <<messages, made, job>> /\ archive' \subseteq archive
    BY <1>2 DEF Repair, PrunedAbove
  <2> QED
    BY <1>1, <2>1
<1>3. CASE Abandon \/ UNCHANGED vars
  BY <1>1, <1>3 DEF Abandon, vars
<1>4. ASSUME NEW w \in Windows, SwitchModel(w) PROVE CoverInv'
  BY <1>1, <1>4 DEF SwitchModel
<1> QED
  BY <1>2, <1>3, <1>4, StartPlanCovers, ActivateCovers, GrowCovers, EditCovers DEF Next

LEMMA InitCovers == Init => CoverInv
BY DEF Init, CoverInv, TurnsInOrder

LEMMA CoverInvariance == Spec => [](IInv /\ CoverInv)
BY InitIInv, NextIInv, InitCovers, NextCovers, PTL DEF Spec

LEMMA ActiveIsArchived ==
    ASSUME IInv
    PROVE  ActiveRecord # NoRecord =>
              ActiveRecord \in archive /\ ActiveRecord \in Record /\ ActiveRecord.end \in Nat
<1>1. ActiveRecord # NoRecord => ActiveRecord \in archive
  BY DEF ActiveRecord
<1> HIDE DEF ActiveRecord
<1> QED
  BY <1>1 DEF IInv, TypeOK, Record

LEMMA NothingIsLost == IInv /\ CoverInv => NothingLost
<1> SUFFICES ASSUME IInv, CoverInv, NEW i \in DOMAIN messages
             PROVE  \/ \E k \in DOMAIN ToSend : ToSend[k].id = messages[i].id
                    \/ /\ ActiveRecord # NoRecord
                       /\ ActiveRecord.cut < ActiveRecord.end
                       /\ \/ messages[i].id \in ToSet(ActiveRecord.of)
                          \/ /\ i <= ActiveRecord.end /\ ActiveRecord.end <= Len(messages)
                             /\ \A k \in DOMAIN ActiveRecord.of :
                                   ActiveRecord.of[k] < messages[i].id
  BY DEF NothingLost
<1> DEFINE n == Len(messages)
           start == Kept(messages, ActiveRecord)
<1>1. messages \in Seq(Message) /\ n \in Nat /\ i \in 1..n
  BY DEF IInv, TypeOK
<1>2. PICK record : record = ActiveRecord
  OBVIOUS
<1>3. record # NoRecord =>
         /\ record \in Record /\ record.end \in Nat /\ record.of \in Seq(Nat)
         /\ Covers(record, messages, made)
  BY <1>2, ActiveIsArchived DEF CoverInv, Record
<1>4. PICK wire : wire = ToSend
  OBVIOUS
<1>5. start \in 0..n /\ \E off : Placed(off, wire, messages, start)
  BY <1>1, <1>2, <1>3, <1>4, ProjectedPlaced DEF ToSend
<1>6. CASE i > start
  <2>1. PICK off : Placed(off, wire, messages, start)
    BY <1>5
  <2>2. i \in start + 1..n /\ i \in start..n /\ i - 1 \in start..n /\ n \in start..n /\ i <= n
    BY <1>1, <1>5, <1>6
  <2>3. /\ off[i - 1] < off[i] /\ IsBody(wire[off[i]], messages[i])
        /\ off[i] \in Nat /\ off[i - 1] \in Nat /\ off[n] \in Nat /\ off[i] <= off[n]
        /\ DOMAIN wire = 1..off[n]
    BY <2>1, <2>2 DEF Placed
  <2>4. off[i] \in DOMAIN wire /\ wire[off[i]].id = messages[i].id
    BY <2>3, BodyFields
  <2> QED
    BY <1>4, <2>4
<1>7. CASE ~(i > start)
  <2>1. i <= start /\ start # 0
    BY <1>1, <1>5, <1>7
  <2>2. Usable(messages, record) /\ start = AlignedStart(messages, record.end)
    BY <1>2, <2>1 DEF Kept
  <2>3. record # NoRecord /\ record.end \in 0..n
    BY <1>1, <1>3, <2>2 DEF Usable
  <2>4. start <= record.end
    BY <1>1, <2>2, <2>3, KeptReachesBack DEF CoverInv
  <2>5. i \in 1..record.end
    BY <1>1, <1>5, <2>1, <2>3, <2>4
  <2>6. DOMAIN record.of = 1..record.end /\ record.cut < record.end /\ record.end <= n
        /\ i <= record.end
    BY <1>3, <2>3, <2>5 DEF Covers
  <2>7. \/ messages[i].id = record.of[i]
        \/ \A k \in 1..record.end : record.of[k] < messages[i].id
    BY <1>1, <1>3, <2>3, <2>6 DEF Covers
  <2> QED
    BY <1>2, <2>3, <2>5, <2>6, <2>7 DEF ToSet
<1> QED
  BY <1>6, <1>7

\* Nothing is lost, however long the history, wherever the summaries end, and however
\* often the history is edited while a summary is made or in use, but for what was
\* written over an edited part under a record that outlived the edit.  A plan holds
\* what it is about from the start, a transcript never leaves all of it out, whatever
\* is written later has a later identity, and without orphaned results the tail that
\* is kept in full begins no later than the summary ends.
THEOREM EveryMessageReaches == Spec => []NothingLost
BY CoverInvariance, NothingIsLost, PTL

LEMMA TurnsAreWhole == IInv /\ CoverInv => TurnsWhole
<1> SUFFICES ASSUME IInv, CoverInv, NEW k \in DOMAIN ToSend, ToSend[k].role = "tool"
             PROVE  \E j \in 1..k - 1 :
                        /\ ToSend[j].id = ToSend[k].turn
                        /\ \A l \in j + 1..k : ToSend[l].role = "tool"
  BY DEF TurnsWhole
<1> DEFINE n == Len(messages)
           start == Kept(messages, ActiveRecord)
<1>1. messages \in Seq(Message) /\ n \in Nat
  BY DEF IInv, TypeOK
<1>2. PICK record : record = ActiveRecord
  OBVIOUS
<1>3. record # NoRecord => record.end \in Nat
  BY <1>2, ActiveIsArchived
<1>4. PICK wire : wire = ToSend
  OBVIOUS
<1>5. start \in 0..n /\ \E off : Placed(off, wire, messages, start)
  BY <1>1, <1>2, <1>3, <1>4, ProjectedPlaced DEF ToSend
<1>6. start \in 1..n - 1 => ~IsTool(messages, start + 1)
  <2>1. ASSUME start # 0 PROVE record.end \in 0..n /\ start = AlignedStart(messages, record.end)
    BY <1>1, <1>2, <1>3, <2>1 DEF Kept, Usable
  <2>2. \A end \in 0..n : LET aligned == AlignedStart(messages, end)
                          IN  aligned \in 1..n - 1 => ~IsTool(messages, aligned + 1)
    BY <1>1, TailBeginsWhole
  <2> HIDE DEF start, n
  <2> QED
    BY <2>1, <2>2
<1> HIDE DEF start
<1>7. PICK off : Placed(off, wire, messages, start)
  BY <1>5
<1>8. /\ DOMAIN wire = 1..off[n] /\ k \in 1..off[n]
      /\ \A a \in start..n : off[a] \in Nat
      /\ \A a, b \in start..n : a <= b => off[a] <= off[b]
  BY <1>4, <1>7 DEF Placed
<1>9. \A i \in start + 1..n :
          /\ off[i - 1] < off[i]
          /\ IsTool(messages, i) => off[i] = off[i - 1] + 1
          /\ wire[off[i]].role = messages[i].kind.role
          /\ wire[off[i]].id = messages[i].id
          /\ wire[off[i]].turn = messages[i].turn
          /\ \A p \in off[i - 1] + 1..off[i] - 1 : wire[p].role = "system"
  <2> SUFFICES ASSUME NEW i \in start + 1..n
               PROVE  /\ off[i - 1] < off[i]
                      /\ IsTool(messages, i) => off[i] = off[i - 1] + 1
                      /\ wire[off[i]].role = messages[i].kind.role
                      /\ wire[off[i]].id = messages[i].id
                      /\ wire[off[i]].turn = messages[i].turn
                      /\ \A p \in off[i - 1] + 1..off[i] - 1 : wire[p].role = "system"
    OBVIOUS
  <2>1. /\ off[i - 1] < off[i]
        /\ IsTool(messages, i) => off[i] = off[i - 1] + 1
        /\ IsBody(wire[off[i]], messages[i])
        /\ \A p \in off[i - 1] + 1..off[i] - 1 : IsNote(wire[p])
    BY <1>7 DEF Placed
  <2>2. /\ wire[off[i]].role = messages[i].kind.role
        /\ wire[off[i]].id = messages[i].id
        /\ wire[off[i]].turn = messages[i].turn
    BY <2>1, BodyFields
  <2>3. \A p \in off[i - 1] + 1..off[i] - 1 : wire[p].role = "system"
    BY <2>1, BodyFields
  <2> QED
    BY <2>1, <2>2, <2>3
<1>10. \A p \in 1..off[start] : wire[p].role = "system"
  BY <1>7, BodyFields DEF Placed
<1>11. \A p \in off[start] + 1..off[n] :
          \E i \in start + 1..n : off[i - 1] < p /\ p <= off[i]
  BY <1>7 DEF Placed
<1>12. wire[k].role = "tool"
  BY <1>4
<1>13. \A i \in start + 1..n : i \in start..n /\ i - 1 \in start..n /\ i \in 1..n
  BY <1>1, <1>5
<1>14. PICK i \in start + 1..n : k = off[i] /\ IsTool(messages, i)
  <2>1. ~(k \in 1..off[start])
    BY <1>10, <1>12
  <2>2. start \in start..n /\ n \in start..n
    BY <1>1, <1>5
  <2>3. k \in off[start] + 1..off[n]
    BY <1>8, <2>1, <2>2
  <2>4. PICK i \in start + 1..n : off[i - 1] < k /\ k <= off[i]
    BY <1>11, <2>3
  <2>5. off[i - 1] \in Nat /\ off[i] \in Nat /\ k \in Nat
    BY <1>8, <1>13, <2>2
  <2>6. ~(k \in off[i - 1] + 1..off[i] - 1)
    BY <1>9, <1>12, <2>4
  <2>7. k = off[i]
    BY <2>4, <2>5, <2>6
  <2> QED
    BY <1>9, <1>12, <2>7 DEF IsTool
<1>15. PICK b \in 1..i - 1 :
            /\ IsBatch(messages, b) /\ messages[i].turn = messages[b].id
            /\ \A j \in b + 1..i : IsTool(messages, j)
  BY <1>13, <1>14 DEF CoverInv, TurnsInOrder
<1>16. b \in start + 1..n
  <2>1. CASE b <= start
    <3>1. start \in 1..n - 1 /\ start + 1 \in b + 1..i
      BY <1>1, <1>5, <1>13, <2>1
    <3> QED
      BY <1>6, <1>15, <3>1
  <2> QED
    BY <1>1, <1>5, <1>13, <2>1
<1>17. /\ off[b] \in Nat /\ off[b - 1] \in Nat /\ off[i] \in Nat /\ off[i - 1] \in Nat
       /\ off[b - 1] < off[b] /\ off[b] <= off[i - 1] /\ off[i - 1] < off[i]
  BY <1>8, <1>9, <1>13, <1>16
<1>18. off[b] \in 1..k - 1 /\ wire[off[b]].id = wire[k].turn
  BY <1>9, <1>14, <1>15, <1>16, <1>17
<1>19. ASSUME NEW l \in off[b] + 1..k PROVE wire[l].role = "tool"
  <2>1. start \in start..n /\ n \in start..n /\ off[start] <= off[b]
    BY <1>1, <1>5, <1>8, <1>13, <1>16
  <2>2. l \in off[start] + 1..off[n]
    <3>1. off[start] \in Nat /\ off[n] \in Nat
      BY <1>8, <2>1
    <3>2. k \in Nat /\ k <= off[n]
      BY <1>8, <3>1
    <3>3. PICK low, from, top : low = off[start] /\ from = off[b] /\ top = off[n]
      OBVIOUS
    <3>4. /\ low \in Nat /\ from \in Nat /\ top \in Nat /\ low <= from /\ k <= top
          /\ l \in from + 1..k
      BY <1>17, <2>1, <3>1, <3>2, <3>3
    <3>5. l \in low + 1..top
      BY <3>2, <3>4
    <3> QED
      BY <3>3, <3>5
  <2>3. PICK m \in start + 1..n : off[m - 1] < l /\ l <= off[m]
    BY <1>11, <2>2
  <2>4. off[m] \in Nat /\ off[m - 1] \in Nat /\ l \in Nat /\ k \in Nat
    BY <1>8, <1>13, <1>17
  <2>5. ~(m <= b)
    <3>1. m <= b => off[m] <= off[b]
      BY <1>8, <1>13, <1>16
    <3> QED
      BY <1>17, <2>3, <2>4, <3>1
  <2>6. ~(m > i)
    <3>1. m > i => off[i] <= off[m - 1]
      BY <1>8, <1>13, <1>14
    <3> QED
      BY <1>14, <1>17, <2>3, <2>4, <3>1
  <2>7. IsTool(messages, m)
    <3>1. m \in b + 1..i
      BY <1>13, <2>5, <2>6
    <3> QED
      BY <1>15, <3>1
  <2>8. l = off[m]
    BY <1>9, <2>3, <2>4, <2>7
  <2> QED
    BY <1>9, <2>7, <2>8 DEF IsTool
<1> QED
  BY <1>4, <1>18, <1>19

\* Each result that is sent follows its calls: where the kept part begins, the batch
\* of its first results is kept with them, and a note goes only before a user's
\* message, never between calls and results.
THEOREM ResultsBehindBatches == Spec => []TurnsWhole
BY CoverInvariance, TurnsAreWhole, PTL

-------------------------------------------------------------------------------
(* Sums                                                                    *)

LEMMA EstimateType ==
    /\ \A chars \in Nat : EstimateTokens(chars) \in Nat
    /\ EstimateTokens(0) = 0
<1>1. PICK ratio \in Nat \ {0} : ratio = CharsPerToken
  BY RatioAssumption
<1>2. \A chars \in Nat : (chars + ratio - 1) \div ratio \in Nat
  OBVIOUS
<1>3. (0 + ratio - 1) \div ratio = 0
  OBVIOUS
<1> QED
  BY <1>1, <1>2, <1>3 DEF EstimateTokens

LEMMA LesserOfTwo ==
    ASSUME NEW a \in Nat, NEW b \in Nat
    PROVE  Min({a, b}) = IF a <= b THEN a ELSE b
<1>1. Min({a, b}) \in {a, b} /\ \A y \in {a, b} : Min({a, b}) <= y
  <2> DEFINE S == {a, b}
  <2>1. S \subseteq Nat /\ S # {}
    OBVIOUS
  <2> HIDE DEF S
  <2>2. Min(S) \in S /\ \A y \in S : Min(S) <= y
    BY <2>1, LeastNatural
  <2> QED
    BY <2>2 DEF S
<1> QED
  BY <1>1

\* The sums of the first weights.
Sums(f, w, n) ==
    f \in [0..n -> Nat] /\ f[0] = 0 /\ \A i \in 1..n : f[i] = f[i - 1] + w[i]

LEMMA SumsExist ==
    ASSUME NEW n \in Nat, NEW w, \A i \in 1..n : w[i] \in Nat
    PROVE  \E f : Sums(f, w, n)
<1> DEFINE P(k) == \E f : Sums(f, w, k)
           S == {k \in 0..n : P(k)}
<1>1. P(0)
  <2>1. Sums([i \in 0..0 |-> 0], w, 0)
    BY DEF Sums
  <2> QED
    BY <2>1
<1>2. ASSUME NEW k \in 0..n, P(k), k < n PROVE P(k + 1)
  <2>1. PICK f : Sums(f, w, k)
    BY <1>2
  <2> DEFINE g == [i \in 0..k + 1 |-> IF i = k + 1 THEN f[k] + w[k + 1] ELSE f[i]]
  <2>2. w[k + 1] \in Nat
    BY <1>2
  <2>3. f \in [0..k -> Nat] /\ f[0] = 0 /\ \A i \in 1..k : f[i] = f[i - 1] + w[i]
    BY <2>1 DEF Sums
  <2>4. g \in [0..k + 1 -> Nat] /\ g[0] = 0
    BY <2>2, <2>3
  <2>5. ASSUME NEW i \in 1..k + 1 PROVE g[i] = g[i - 1] + w[i]
    <3>1. CASE i = k + 1
      <4>1. i - 1 = k /\ k \in 0..k + 1 /\ k # k + 1 /\ k + 1 \in 0..k + 1
        BY <3>1
      <4> QED
        BY <3>1, <4>1
    <3>2. CASE i # k + 1
      <4>1. i \in 1..k /\ i \in 0..k + 1 /\ i - 1 \in 0..k + 1 /\ i - 1 # k + 1
        BY <3>2
      <4> QED
        BY <2>3, <3>2, <4>1
    <3> QED
      BY <3>1, <3>2
  <2> HIDE DEF g
  <2>6. Sums(g, w, k + 1)
    BY <2>4, <2>5 DEF Sums
  <2> QED
    BY <2>6
<1>3. 0..n \subseteq S
  <2> HIDE DEF P
  <2>1. 0 \in S /\ \A k \in 0..n : k \in S /\ k < n => k + 1 \in S
    BY <1>1, <1>2
  <2> HIDE DEF S
  <2> QED
    BY <2>1, UpTo
<1> QED
  BY <1>3

LEMMA SumsGrow ==
    ASSUME NEW n \in Nat, NEW w, \A i \in 1..n : w[i] \in Nat, NEW f, Sums(f, w, n)
    PROVE  \A b \in 0..n : \A a \in 0..b : f[a] <= f[b]
<1> DEFINE P(b) == \A a \in 0..b : f[a] <= f[b]
           S == {b \in 0..n : P(b)}
<1>1. f \in [0..n -> Nat] /\ \A i \in 1..n : f[i] = f[i - 1] + w[i]
  BY DEF Sums
<1>2. P(0)
  BY <1>1
<1>3. ASSUME NEW k \in 0..n, P(k), k < n PROVE P(k + 1)
  <2>1. k + 1 \in 1..n /\ (k + 1) - 1 = k
    BY <1>3
  <2>2. f[k + 1] = f[k] + w[k + 1] /\ w[k + 1] \in Nat /\ f[k] \in Nat
    BY <1>1, <2>1
  <2>3. \A a \in 0..k + 1 : f[a] \in Nat /\ (a = k + 1 \/ a \in 0..k)
    BY <1>1, <1>3
  <2> QED
    BY <1>3, <2>2, <2>3
<1>4. 0..n \subseteq S
  <2> HIDE DEF P
  <2>1. 0 \in S /\ \A k \in 0..n : k \in S /\ k < n => k + 1 \in S
    BY <1>2, <1>3
  <2> HIDE DEF S
  <2> QED
    BY <2>1, UpTo
<1> QED
  BY <1>4
-------------------------------------------------------------------------------
\* The weight of a set of positions: the sum up to the bound, the others weighing nothing.
Only(w, S, n) == [i \in 1..n |-> IF i \in S THEN w[i] ELSE 0]
Total(w, S, n) == (CHOOSE f : Sums(f, Only(w, S, n), n))[n]

LEMMA OnlySums ==
    ASSUME NEW n \in Nat, NEW S \in SUBSET (1..n), NEW w, \A i \in S : w[i] \in Nat
    PROVE  /\ \A i \in 1..n : Only(w, S, n)[i] \in Nat
           /\ Sums(CHOOSE f : Sums(f, Only(w, S, n), n), Only(w, S, n), n)
<1>1. \A i \in 1..n : Only(w, S, n)[i] \in Nat
  BY DEF Only
<1>2. \E f : Sums(f, Only(w, S, n), n)
  BY <1>1, SumsExist
<1> QED
  BY <1>1, <1>2

LEMMA TotalType ==
    ASSUME NEW n \in Nat, NEW S \in SUBSET (1..n), NEW w, \A i \in S : w[i] \in Nat
    PROVE  Total(w, S, n) \in Nat
<1>1. PICK f : f = CHOOSE g : Sums(g, Only(w, S, n), n)
  OBVIOUS
<1>2. Sums(f, Only(w, S, n), n)
  BY <1>1, OnlySums
<1>3. n \in 0..n
  OBVIOUS
<1> QED
  BY <1>1, <1>2, <1>3 DEF Total, Sums

LEMMA TotalOfNone ==
    ASSUME NEW n \in Nat, NEW w PROVE Total(w, {}, n) = 0
<1>1. PICK f : f = CHOOSE g : Sums(g, Only(w, {}, n), n)
  OBVIOUS
<1>2. Sums(f, Only(w, {}, n), n)
  BY <1>1, OnlySums
<1>3. f \in [0..n -> Nat] /\ f[0] = 0 /\ \A i \in 1..n : f[i] = f[i - 1] + 0
  BY <1>2 DEF Sums, Only
<1> DEFINE S == {k \in 0..n : f[k] = 0}
<1>4. 0 \in S
  BY <1>3
<1>5. ASSUME NEW k \in 0..n, k \in S, k < n PROVE k + 1 \in S
  <2>1. k + 1 \in 1..n /\ k + 1 \in 0..n /\ (k + 1) - 1 = k /\ f[k] = 0
    BY <1>5
  <2>2. f[k + 1] = 0
    BY <1>3, <2>1
  <2> QED
    BY <2>1, <2>2
<1>6. 0..n \subseteq S
  <2> HIDE DEF S
  <2> QED
    BY <1>4, <1>5, UpTo
<1>7. f[n] = 0
  BY <1>6
<1> QED
  BY <1>1, <1>7 DEF Total

LEMMA TotalTakesOut ==
    ASSUME NEW n \in Nat, NEW S \in SUBSET (1..n), NEW w, \A i \in S : w[i] \in Nat,
           NEW x \in S
    PROVE  Total(w, S, n) = w[x] + Total(w, S \ {x}, n)
<1> DEFINE rest == S \ {x}
<1>1. PICK f : f = CHOOSE g : Sums(g, Only(w, S, n), n)
  OBVIOUS
<1>2. PICK h : h = CHOOSE g : Sums(g, Only(w, rest, n), n)
  OBVIOUS
<1>3. Sums(f, Only(w, S, n), n)
  BY <1>1, OnlySums
<1>4. Sums(h, Only(w, rest, n), n)
  <2>1. rest \in SUBSET (1..n) /\ \A i \in rest : w[i] \in Nat
    OBVIOUS
  <2> HIDE DEF rest
  <2> QED
    BY <1>2, <2>1, OnlySums
<1>5. /\ f \in [0..n -> Nat] /\ f[0] = 0
      /\ \A i \in 1..n : f[i] = f[i - 1] + IF i \in S THEN w[i] ELSE 0
  BY <1>3 DEF Sums, Only
<1>6. /\ h \in [0..n -> Nat] /\ h[0] = 0
      /\ \A i \in 1..n : h[i] = h[i - 1] + IF i \in rest THEN w[i] ELSE 0
  BY <1>4 DEF Sums, Only
<1> DEFINE P(k) == f[k] = h[k] + IF x <= k THEN w[x] ELSE 0
           T == {k \in 0..n : P(k)}
<1>7. x \in 1..n /\ w[x] \in Nat
  OBVIOUS
<1>8. P(0)
  BY <1>5, <1>6, <1>7
<1>9. ASSUME NEW k \in 0..n, P(k), k < n PROVE P(k + 1)
  <2>1. k + 1 \in 1..n /\ (k + 1) - 1 = k /\ f[k] \in Nat /\ h[k] \in Nat
    BY <1>5, <1>6, <1>9
  <2>2. /\ f[k + 1] = f[k] + IF k + 1 \in S THEN w[k + 1] ELSE 0
        /\ h[k + 1] = h[k] + IF k + 1 \in rest THEN w[k + 1] ELSE 0
    BY <1>5, <1>6, <2>1
  <2>3. CASE k + 1 = x
    <3>1. f[k + 1] = f[k] + w[x] /\ h[k + 1] = h[k] + 0 /\ ~(x <= k) /\ x <= k + 1
      BY <2>1, <2>2, <2>3
    <3> QED
      BY <1>7, <1>9, <2>1, <3>1
  <2>4. CASE k + 1 # x
    <3>1. (x <= k + 1 <=> x <= k) /\ (k + 1 \in S <=> k + 1 \in rest)
      BY <1>7, <2>1, <2>4
    <3>2. k + 1 \in S => w[k + 1] \in Nat
      OBVIOUS
    <3> HIDE DEF rest
    <3> QED
      BY <1>7, <1>9, <2>1, <2>2, <3>1, <3>2
  <2> QED
    BY <2>3, <2>4
<1>10. 0..n \subseteq T
  <2> HIDE DEF P
  <2>1. 0 \in T /\ \A k \in 0..n : k \in T /\ k < n => k + 1 \in T
    BY <1>8, <1>9
  <2> HIDE DEF T
  <2> QED
    BY <2>1, UpTo
<1>11. f[n] = h[n] + w[x] /\ h[n] \in Nat
  BY <1>6, <1>7, <1>10
<1> QED
  BY <1>1, <1>2, <1>7, <1>11 DEF Total

\* The recursion of MapThenSumSet, over the subsets of a set of positions.
Recurs(iter, w, S) ==
    iter = [s \in SUBSET S |->
               IF s = {} THEN 0
               ELSE w[CHOOSE x \in s : TRUE] + iter[s \ {CHOOSE x \in s : TRUE}]]

LEMMA TotalRecurs ==
    ASSUME NEW n \in Nat, NEW S \in SUBSET (1..n), NEW w, \A i \in S : w[i] \in Nat
    PROVE  Recurs([s \in SUBSET S |-> Total(w, s, n)], w, S)
<1> DEFINE iter == [s \in SUBSET S |-> Total(w, s, n)]
<1>1. ASSUME NEW s \in SUBSET S
      PROVE  iter[s] = IF s = {} THEN 0
                       ELSE w[CHOOSE x \in s : TRUE] + iter[s \ {CHOOSE x \in s : TRUE}]
  <2>1. CASE s = {}
    BY <2>1, TotalOfNone
  <2>2. CASE s # {}
    <3>1. PICK x \in s : x = CHOOSE y \in s : TRUE
      BY <2>2
    <3>2. s \in SUBSET (1..n) /\ (\A i \in s : w[i] \in Nat) /\ s \ {x} \in SUBSET S
      OBVIOUS
    <3>3. Total(w, s, n) = w[x] + Total(w, s \ {x}, n)
      BY <3>2, TotalTakesOut
    <3> QED
      BY <2>2, <3>1, <3>2, <3>3
  <2> QED
    BY <2>1, <2>2
<1> HIDE DEF iter
<1>2. iter = [s \in SUBSET S |-> iter[s]]
  BY DEF iter
<1>3. Recurs(iter, w, S)
  BY <1>1, <1>2 DEF Recurs
<1> QED
  BY <1>3 DEF iter

LEMMA RecursTotal ==
    ASSUME NEW n \in Nat, NEW S \in SUBSET (1..n), NEW w, \A i \in S : w[i] \in Nat,
           NEW iter, Recurs(iter, w, S)
    PROVE  iter[S] = Total(w, S, n)
<1> DEFINE P(k) == \A s \in SUBSET S : Cardinality(s) <= k => iter[s] = Total(w, s, n)
           T == {k \in 0..n : P(k)}
<1>1. ASSUME NEW s \in SUBSET S
      PROVE  iter[s] = IF s = {} THEN 0
                       ELSE w[CHOOSE x \in s : TRUE] + iter[s \ {CHOOSE x \in s : TRUE}]
  BY DEF Recurs
<1>2. IsFiniteSet(1..n) /\ Cardinality(1..n) = n
  BY FS_Interval
<1>3. \A s \in SUBSET S : /\ IsFiniteSet(s) /\ Cardinality(s) \in Nat /\ Cardinality(s) <= n
                          /\ (Cardinality(s) = 0 <=> s = {})
  <2> SUFFICES ASSUME NEW s \in SUBSET S
               PROVE  /\ IsFiniteSet(s) /\ Cardinality(s) \in Nat /\ Cardinality(s) <= n
                      /\ (Cardinality(s) = 0 <=> s = {})
    OBVIOUS
  <2>1. s \in SUBSET (1..n)
    OBVIOUS
  <2>2. IsFiniteSet(s) /\ Cardinality(s) <= n
    BY <1>2, <2>1, FS_Subset
  <2> QED
    BY <2>2, FS_CardinalityType, FS_EmptySet
<1>4. ASSUME NEW s \in SUBSET S, s = {} PROVE iter[s] = Total(w, s, n)
  <2>1. iter[s] = 0
    BY <1>1, <1>4
  <2> QED
    BY <1>4, <2>1, TotalOfNone
<1>5. P(0)
  BY <1>3, <1>4
<1>6. ASSUME NEW k \in 0..n, P(k), k < n PROVE P(k + 1)
  <2> SUFFICES ASSUME NEW s \in SUBSET S, Cardinality(s) <= k + 1, s # {}
               PROVE  iter[s] = Total(w, s, n)
    BY <1>4
  <2>1. PICK x \in s : x = CHOOSE y \in s : TRUE
    OBVIOUS
  <2>2. s \in SUBSET (1..n) /\ (\A i \in s : w[i] \in Nat) /\ s \ {x} \in SUBSET S
    OBVIOUS
  <2>3. Total(w, s, n) = w[x] + Total(w, s \ {x}, n)
    BY <2>2, TotalTakesOut
  <2>4. Cardinality(s \ {x}) <= k
    <3>1. Cardinality(s \ {x}) = Cardinality(s) - 1
      BY <1>3, FS_RemoveElement
    <3> QED
      BY <1>3, <3>1
  <2>5. iter[s \ {x}] = Total(w, s \ {x}, n)
    BY <1>6, <2>2, <2>4
  <2>6. iter[s] = w[x] + iter[s \ {x}]
    BY <1>1, <2>1
  <2> QED
    BY <2>3, <2>5, <2>6
<1>7. 0..n \subseteq T
  <2> HIDE DEF P
  <2>1. 0 \in T /\ \A k \in 0..n : k \in T /\ k < n => k + 1 \in T
    BY <1>5, <1>6
  <2> HIDE DEF T
  <2> QED
    BY <2>1, UpTo
<1>8. P(n)
  BY <1>7
<1> QED
  BY <1>3, <1>8

-------------------------------------------------------------------------------
\* The weight of what follows, by the recursion of Suffix.
Follows(total, w, n) ==
    total = [i \in 0..n |-> IF i = n THEN 0 ELSE total[i + 1] + w[i + 1]]

LEMMA FollowsExists ==
    ASSUME NEW n \in Nat, NEW w, \A i \in 1..n : w[i] \in Nat
    PROVE  \E total : Follows(total, w, n)
<1>1. PICK f : Sums(f, w, n)
  BY SumsExist
<1>2. f \in [0..n -> Nat] /\ \A i \in 1..n : f[i] = f[i - 1] + w[i]
  BY <1>1 DEF Sums
<1> DEFINE total == [i \in 0..n |-> f[n] - f[i]]
<1>3. ASSUME NEW i \in 0..n PROVE total[i] = IF i = n THEN 0 ELSE total[i + 1] + w[i + 1]
  <2>1. f[n] \in Nat /\ f[i] \in Nat /\ total[i] = f[n] - f[i]
    BY <1>2
  <2>2. CASE i = n
    BY <2>1, <2>2
  <2>3. CASE i # n
    <3>1. i + 1 \in 1..n /\ i + 1 \in 0..n /\ (i + 1) - 1 = i
      BY <2>3
    <3>2. f[i + 1] = f[i] + w[i + 1] /\ f[i + 1] \in Nat /\ total[i + 1] = f[n] - f[i + 1]
      BY <1>2, <3>1
    <3>3. w[i + 1] \in Nat
      BY <3>1
    <3> HIDE DEF total
    <3> QED
      BY <2>1, <2>3, <3>2, <3>3
  <2> QED
    BY <2>2, <2>3
<1>4. total = [i \in 0..n |-> total[i]]
  OBVIOUS
<1> HIDE DEF total
<1>5. total = [i \in 0..n |-> IF i = n THEN 0 ELSE total[i + 1] + w[i + 1]]
  BY <1>3, <1>4
<1> QED
  BY <1>5 DEF Follows

LEMMA FollowsSums ==
    ASSUME NEW n \in Nat, NEW w, \A i \in 1..n : w[i] \in Nat, NEW f, Sums(f, w, n),
           NEW total, Follows(total, w, n)
    PROVE  \A i \in 0..n : total[i] \in Nat /\ total[i] + f[i] = f[n]
<1>1. f \in [0..n -> Nat] /\ \A i \in 1..n : f[i] = f[i - 1] + w[i]
  BY DEF Sums
<1>2. \A i \in 0..n : total[i] = IF i = n THEN 0 ELSE total[i + 1] + w[i + 1]
  BY DEF Follows
<1> DEFINE P(k) == total[n - k] \in Nat /\ total[n - k] + f[n - k] = f[n]
           S == {k \in 0..n : P(k)}
<1>3. P(0)
  <2>1. n - 0 = n /\ n \in 0..n
    OBVIOUS
  <2>2. total[n] = 0 /\ f[n] \in Nat
    BY <1>1, <1>2, <2>1
  <2> QED
    BY <2>1, <2>2
<1>4. ASSUME NEW k \in 0..n, P(k), k < n PROVE P(k + 1)
  <2>1. PICK i \in 0..n : i = n - (k + 1)
    BY <1>4
  <2>2. i + 1 = n - k /\ i # n /\ i + 1 \in 1..n /\ i + 1 \in 0..n /\ (i + 1) - 1 = i
    BY <1>4, <2>1
  <2>3. total[i] = total[i + 1] + w[i + 1] /\ f[i + 1] = f[i] + w[i + 1]
    BY <1>1, <1>2, <2>2
  <2>4. /\ f[i] \in Nat /\ f[i + 1] \in Nat /\ w[i + 1] \in Nat /\ f[n] \in Nat
        /\ total[i + 1] \in Nat /\ total[i + 1] + f[i + 1] = f[n]
    <3>1. f[i] \in Nat /\ f[i + 1] \in Nat /\ w[i + 1] \in Nat /\ f[n] \in Nat
      BY <1>1, <2>2
    <3>2. total[i + 1] \in Nat /\ total[i + 1] + f[i + 1] = f[n]
      <4>1. PICK j : j = n - k
        OBVIOUS
      <4>2. total[j] \in Nat /\ total[j] + f[j] = f[n]
        BY <1>4, <4>1
      <4> QED
        BY <2>2, <4>1, <4>2
    <3> QED
      BY <3>1, <3>2
  <2>5. total[i] \in Nat /\ total[i] + f[i] = f[n]
    BY <2>3, <2>4
  <2> QED
    BY <2>1, <2>5
<1>5. 0..n \subseteq S
  <2> HIDE DEF P
  <2>1. 0 \in S /\ \A k \in 0..n : k \in S /\ k < n => k + 1 \in S
    BY <1>3, <1>4
  <2> HIDE DEF S
  <2> QED
    BY <2>1, UpTo
<1> SUFFICES ASSUME NEW i \in 0..n PROVE total[i] \in Nat /\ total[i] + f[i] = f[n]
  OBVIOUS
<1>6. n - i \in 0..n /\ n - (n - i) = i
  OBVIOUS
<1>7. P(n - i)
  BY <1>5, <1>6
<1> QED
  BY <1>6, <1>7
-------------------------------------------------------------------------------
(* Weights of messages                                                     *)

LEMMA LengthTypes ==
    /\ \A chars \in Nat, max \in Nat : MiddleOmitted(chars, max) \in Nat
    /\ \A chars \in Nat, max \in Nat, end \in Nat : SoftTrimmed(chars, max, end) \in Nat
<1>1. Notice \in Nat /\ LeastKept \in Nat
  BY SizesAssumption
<1>2. \A chars \in Nat, max \in Nat : MiddleOmitted(chars, max) \in Nat
  BY <1>1 DEF MiddleOmitted
<1>3. ASSUME NEW chars \in Nat, NEW max \in Nat, NEW end \in Nat
      PROVE  SoftTrimmed(chars, max, end) \in Nat
  <2> DEFINE kept == Min({2 * end, max - Notice})
  <2>1. max + Notice \in Nat
    BY <1>1
  <2>2. CASE max < Notice + LeastKept
    BY <2>1, <2>2 DEF SoftTrimmed
  <2>3. CASE ~(max < Notice + LeastKept)
    <3>1. 2 * end \in Nat /\ max - Notice \in Nat
      BY <1>1, <2>3
    <3>2. kept \in Nat
      BY <3>1, LesserOfTwo
    <3> HIDE DEF kept
    <3>3. kept + Notice \in Nat
      BY <1>1, <3>2
    <3> QED
      BY <2>1, <3>3 DEF SoftTrimmed, kept
  <2> QED
    BY <2>2, <2>3
<1> QED
  BY <1>2, <1>3

LEMMA KindTypes ==
    ASSUME NEW kind \in Kinds
    PROVE  /\ kind.role \in {"user", "assistant", "tool"}
           /\ kind.size \in Nat /\ kind.args \in Nat /\ kind.images \in Nat /\ kind.note \in Nat
           /\ kind.exempt \in BOOLEAN
BY KindsAssumption

LEMMA TextTypes ==
    ASSUME NEW kind \in Kinds
    PROVE  /\ \A max \in Nat : UserText(kind, max) \in Nat
           /\ \A tier, named : ToolText(kind, tier, named) \in Nat
<1>1. kind.size \in Nat
  BY KindTypes
<1>2. /\ ToolMax \in Nat /\ ToolEnd \in Nat /\ ToolFullMax \in Nat /\ Notice \in Nat
  BY SizesAssumption
<1>3. \A max \in Nat : UserText(kind, max) \in Nat
  BY <1>1, LengthTypes DEF UserText
<1>4. /\ SoftTrimmed(kind.size, ToolFullMax, ToolFullMax) \in Nat
      /\ SoftTrimmed(kind.size, ToolMax, ToolEnd) \in Nat
  BY <1>1, <1>2, LengthTypes
<1>5. \A tier, named : ToolText(kind, tier, named) \in Nat
  BY <1>1, <1>2, <1>4 DEF ToolText
<1> QED
  BY <1>3, <1>5

LEMMA WeightType ==
    ASSUME NEW history \in Seq(Message), NEW i \in 1..Len(history), NEW unit
    PROVE  Weight(history, i, unit) \in Nat
<1>1. PICK kind \in Kinds : kind = history[i].kind
  BY MessageAt DEF Message
<1>2. /\ kind.role \in {"user", "assistant", "tool"}
      /\ kind.size \in Nat /\ kind.args \in Nat /\ kind.images \in Nat /\ kind.note \in Nat
  BY KindTypes
<1>3. UserMax \in Nat /\ ArgsMax \in Nat /\ ImageTokens \in Nat
  BY SizesAssumption
<1>4. \A chars \in Nat : Weigh(chars, unit) \in Nat
  BY EstimateType DEF Weigh
<1>5. ImageWeight(kind.images, unit) \in Nat
  BY <1>2, <1>3 DEF ImageWeight
<1>6. /\ Weigh(UserText(kind, UserMax), unit) \in Nat /\ Weigh(kind.note, unit) \in Nat
      /\ Weigh(kind.size, unit) \in Nat
      /\ Weigh(MiddleOmitted(kind.args, ArgsMax), unit) \in Nat
      /\ Weigh(ToolText(kind, Tier(history, i), FALSE), unit) \in Nat
  BY <1>2, <1>3, <1>4, TextTypes, LengthTypes
<1> DEFINE images == ImageWeight(kind.images, unit)
<1>7. Weight(history, i, unit) =
        CASE kind.role = "user" ->
               Weigh(UserText(kind, UserMax), unit) + images + Weigh(kind.note, unit)
          [] kind.role = "assistant" ->
               Weigh(kind.size, unit) + images + Weigh(MiddleOmitted(kind.args, ArgsMax), unit)
          [] OTHER -> Weigh(ToolText(kind, Tier(history, i), FALSE), unit)
  BY <1>1 DEF Weight
<1> HIDE DEF images
<1>8. images \in Nat
  BY <1>5 DEF images
<1>9. CASE kind.role = "user"
  BY <1>6, <1>7, <1>8, <1>9
<1>10. CASE kind.role = "assistant"
  BY <1>6, <1>7, <1>8, <1>10
<1>11. CASE kind.role = "tool"
  BY <1>6, <1>7, <1>11
<1> QED
  BY <1>2, <1>9, <1>10, <1>11

LEMMA SuffixFollows ==
    ASSUME NEW history \in Seq(Message), NEW unit, NEW w,
           w = [i \in 1..Len(history) |-> Weight(history, i, unit)]
    PROVE  Follows(Suffix(history, unit), w, Len(history))
<1> DEFINE n == Len(history)
           body(total) == [i \in 0..n |->
                              IF i = n THEN 0 ELSE total[i + 1] + Weight(history, i + 1, unit)]
           suffix == CHOOSE total : total = body(total)
<1>1. n \in Nat /\ \A i \in 1..n : w[i] \in Nat /\ w[i] = Weight(history, i, unit)
  BY WeightType
<1>2. Suffix(history, unit) = suffix
  BY DEF Suffix
<1>3. ASSUME NEW total PROVE total = body(total) <=> Follows(total, w, n)
  <2>1. ASSUME NEW i \in 0..n
        PROVE  (IF i = n THEN 0 ELSE total[i + 1] + Weight(history, i + 1, unit))
                 = (IF i = n THEN 0 ELSE total[i + 1] + w[i + 1])
    <3>1. i # n => i + 1 \in 1..n
      BY <1>1
    <3> QED
      BY <1>1, <3>1
  <2>2. body(total) = [i \in 0..n |-> IF i = n THEN 0 ELSE total[i + 1] + w[i + 1]]
    BY <2>1
  <2> QED
    BY <2>2 DEF Follows
<1>4. \E total : total = body(total)
  BY <1>1, <1>3, FollowsExists
<1>5. suffix = body(suffix)
  BY <1>4
<1> QED
  BY <1>2, <1>3, <1>5

\* Each message is at one position or at two, which weigh what the message does.
Regroups(off, w, v, lead, start, n) ==
    /\ off \in [start..n -> Nat] /\ off[start] = 0
    /\ \A i \in start..n : off[i] <= off[n]
    /\ \A p \in 1..lead + off[n] : w[p] \in Nat
    /\ \A i \in 1..n : v[i] \in Nat
    /\ \A i \in start + 1..n :
          \/ off[i] = off[i - 1] + 1 /\ w[lead + off[i]] = v[i]
          \/ /\ off[i] = off[i - 1] + 2
             /\ w[lead + off[i] - 1] + w[lead + off[i]] = v[i]

\* Weights by position then add up to weights by message.
LEMMA Regroup ==
    ASSUME NEW n \in Nat, NEW start \in 0..n, NEW lead \in Nat, NEW off, NEW w, NEW v,
           Regroups(off, w, v, lead, start, n),
           NEW f, Sums(f, w, lead + off[n]), NEW g, Sums(g, v, n)
    PROVE  f[lead + off[n]] + g[start] = g[n] + f[lead]
<1>0. /\ off \in [start..n -> Nat] /\ off[start] = 0
      /\ \A i \in start..n : off[i] <= off[n]
      /\ \A p \in 1..lead + off[n] : w[p] \in Nat
      /\ \A i \in 1..n : v[i] \in Nat
      /\ \A i \in start + 1..n :
            \/ off[i] = off[i - 1] + 1 /\ w[lead + off[i]] = v[i]
            \/ /\ off[i] = off[i - 1] + 2
               /\ w[lead + off[i] - 1] + w[lead + off[i]] = v[i]
  BY DEF Regroups
<1> DEFINE P(k) == f[lead + off[start + k]] + g[start] = g[start + k] + f[lead]
           count == n - start
           S == {k \in 0..count : P(k)}
<1>1. count \in Nat /\ start + count = n /\ start + 0 = start /\ start \in Nat
  OBVIOUS
<1>2. /\ f \in [0..lead + off[n] -> Nat]
      /\ \A p \in 1..lead + off[n] : f[p] = f[p - 1] + w[p]
  BY DEF Sums
<1>3. g \in [0..n -> Nat] /\ \A i \in 1..n : g[i] = g[i - 1] + v[i]
  BY DEF Sums
<1>4. \A i \in start..n : off[i] \in Nat /\ off[i] <= off[n]
  BY <1>0
<1>5. P(0)
  <2>1. f[lead] \in Nat /\ g[start] \in Nat
    BY <1>0, <1>1, <1>2, <1>3, <1>4
  <2>2. lead + off[start + 0] = lead
    BY <1>0, <1>1
  <2> QED
    BY <1>1, <2>1, <2>2
<1>6. ASSUME NEW k \in 0..count, P(k), k < count PROVE P(k + 1)
  <2>1. PICK i : i = start + (k + 1)
    OBVIOUS
  <2>2. /\ i \in start + 1..n /\ i \in start..n /\ i - 1 \in start..n /\ i - 1 = start + k
        /\ i \in 1..n /\ i - 1 \in 0..n /\ start \in 0..n
    BY <1>1, <1>6, <2>1
  <2>3. PICK a, b : a = off[i - 1] /\ b = off[i]
    OBVIOUS
  <2>4. a \in Nat /\ b \in Nat /\ b <= off[n] /\ off[n] \in Nat
    BY <1>4, <2>2, <2>3
  <2>5. /\ g[i] = g[i - 1] + v[i] /\ g[i] \in Nat /\ g[i - 1] \in Nat /\ v[i] \in Nat
        /\ g[start] \in Nat
    BY <1>0, <1>3, <2>2
  <2>6. f[lead + a] + g[start] = g[i - 1] + f[lead]
    BY <1>6, <2>2, <2>3
  <2>7. f[lead + b] = f[lead + a] + v[i] /\ f[lead + a] \in Nat
    <3>1. \/ b = a + 1 /\ w[lead + b] = v[i]
          \/ b = a + 2 /\ w[lead + b - 1] + w[lead + b] = v[i]
      BY <1>0, <2>2, <2>3
    <3>2. CASE b = a + 1 /\ w[lead + b] = v[i]
      <4>1. /\ lead + b \in 1..lead + off[n] /\ lead + a \in 0..lead + off[n]
            /\ (lead + b) - 1 = lead + a
        BY <2>4, <3>2
      <4>2. f[lead + b] = f[lead + a] + w[lead + b] /\ f[lead + a] \in Nat
        BY <1>2, <4>1
      <4> QED
        BY <3>2, <4>2
    <3>3. CASE b = a + 2 /\ w[lead + b - 1] + w[lead + b] = v[i]
      <4>1. PICK q : q = lead + b - 1
        OBVIOUS
      <4>2. /\ lead + b \in 1..lead + off[n] /\ q \in 1..lead + off[n]
            /\ lead + a \in 0..lead + off[n] /\ (lead + b) - 1 = q /\ q - 1 = lead + a
        BY <2>4, <3>3, <4>1
      <4>3. /\ f[lead + b] = f[q] + w[lead + b] /\ f[q] = f[lead + a] + w[q]
            /\ f[lead + a] \in Nat /\ w[q] \in Nat /\ w[lead + b] \in Nat
        BY <1>0, <1>2, <4>2
      <4>4. w[q] + w[lead + b] = v[i]
        BY <3>3, <4>1
      <4> QED
        BY <4>3, <4>4
    <3> QED
      BY <3>1, <3>2, <3>3
  <2>8. f[lead] \in Nat
    BY <1>2, <2>4
  <2>9. f[lead + b] + g[start] = g[i] + f[lead]
    <3>1. PICK fa, fb, fl, gs, gi, gj, vi :
             /\ fa = f[lead + a] /\ fb = f[lead + b] /\ fl = f[lead]
             /\ gs = g[start] /\ gi = g[i] /\ gj = g[i - 1] /\ vi = v[i]
      OBVIOUS
    <3>2. /\ fa \in Nat /\ fl \in Nat /\ gs \in Nat /\ gi \in Nat /\ gj \in Nat /\ vi \in Nat
          /\ gi = gj + vi /\ fa + gs = gj + fl /\ fb = fa + vi
      BY <2>5, <2>6, <2>7, <2>8, <3>1
    <3>3. fb + gs = gi + fl
      BY <3>2
    <3> QED
      BY <3>1, <3>3
  <2> QED
    BY <2>1, <2>3, <2>9
<1>7. 0..count \subseteq S
  <2> HIDE DEF P, count
  <2>1. 0 \in S /\ \A k \in 0..count : k \in S /\ k < count => k + 1 \in S
    BY <1>1, <1>5, <1>6
  <2> HIDE DEF S
  <2> QED
    BY <1>1, <2>1, UpTo
<1>8. P(count)
  <2> HIDE DEF P, count
  <2>1. count \in 0..count
    BY <1>1
  <2> QED
    BY <1>7, <2>1
<1> QED
  BY <1>1, <1>8

-------------------------------------------------------------------------------
(* One ruler                                                               *)

\* Only an assistant calls tools, and a result is sent as text (tool_text_for_tier).
CarriedByRole ==
    \A kind \in Kinds : /\ kind.role # "assistant" => kind.args = 0
                        /\ kind.role = "tool" => kind.images = 0

\* The latest user message is never cut shorter than the others: the policy keeps
\* user_latest_msg_min_chars = 4000 of it, and user_msg_soft_trim_max_chars = 600 of
\* the others.
LatestGetsMore == UserMax <= LatestUserMin

LEMMA BudgetFloor ==
    ASSUME NEW history \in Seq(Message), NEW start \in 0..Len(history), NEW injected \in Nat
    PROVE  /\ LatestUserBudget(history, start, injected) \in Nat
           /\ LatestUserMin <= LatestUserBudget(history, start, injected)
<1> DEFINE n == Len(history)
           others == {i \in start + 1..n : i \notin LatestUser(history, start)}
           w == [i \in 1..n |-> Weight(history, i, "char")]
           sum == MapThenSumSet(LAMBDA i : Weight(history, i, "char"), others)
           body(iter) == [s \in SUBSET others |->
               IF s = {} THEN 0
               ELSE Weight(history, CHOOSE x \in s : TRUE, "char")
                      + iter[s \ {CHOOSE x \in s : TRUE}]]
           iter == CHOOSE f : f = body(f)
<1>1. n \in Nat /\ others \in SUBSET (1..n) /\ \A i \in 1..n : w[i] \in Nat
  BY WeightType
<1>2. sum = iter[others]
  BY DEF MapThenSumSet, MapThenFoldSet
<1>3. ASSUME NEW f PROVE f = body(f) <=> Recurs(f, w, others)
  <2>1. ASSUME NEW s \in SUBSET others, s # {}
        PROVE  Weight(history, CHOOSE x \in s : TRUE, "char") = w[CHOOSE x \in s : TRUE]
    <3>1. (CHOOSE x \in s : TRUE) \in 1..n
      BY <1>1, <2>1
    <3> QED
      BY <3>1
  <2> HIDE DEF w, others
  <2>2. body(f) = [s \in SUBSET others |->
               IF s = {} THEN 0
               ELSE w[CHOOSE x \in s : TRUE] + f[s \ {CHOOSE x \in s : TRUE}]]
    BY <2>1
  <2> QED
    BY <2>2 DEF Recurs
<1>4. \A i \in others : w[i] \in Nat
  BY <1>1
<1> HIDE DEF others, w, n, body
<1>5. \E f : f = body(f)
  BY <1>1, <1>3, <1>4, TotalRecurs
<1>6. Recurs(iter, w, others)
  BY <1>3, <1>5
<1>7. sum = Total(w, others, n)
  BY <1>1, <1>2, <1>4, <1>6, RecursTotal
<1>8. sum \in Nat
  BY <1>1, <1>4, <1>7, TotalType
<1>9. SafetyChars \in Nat /\ LatestUserMin \in Nat /\ HardMaxChars \in Nat
  BY SizesAssumption
<1> DEFINE spent == injected + SafetyChars + sum
<1>10. LatestUserBudget(history, start, injected) =
         IF spent + LatestUserMin >= HardMaxChars THEN LatestUserMin ELSE HardMaxChars - spent
  BY DEF LatestUserBudget, others, n
<1> HIDE DEF sum
<1>11. spent \in Nat
  BY <1>8, <1>9
<1> HIDE DEF spent
<1> QED
  BY <1>9, <1>10, <1>11

\* What a message that is sent weighs by the judgment's ruler.
WireWeight(sent) ==
    EstimateTokens(sent.size) + EstimateTokens(sent.args) + ImageWeight(sent.images, "token")

LEMMA WireWeightIs ==
    ASSUME NEW role, NEW size \in Nat, NEW args \in Nat, NEW images \in Nat, NEW id, NEW turn
    PROVE  LET sent == Wire(role, size, args, images, id, turn)
           IN  /\ WireWeight(sent) = EstimateTokens(size) + EstimateTokens(args)
                                       + ImageWeight(images, "token")
               /\ WireWeight(sent) \in Nat /\ sent.images = images /\ sent.size = size
<1>1. ImageTokens \in Nat
  BY SizesAssumption
<1>2. ImageWeight(images, "token") \in Nat
  BY <1>1 DEF ImageWeight
<1>3. EstimateTokens(size) \in Nat /\ EstimateTokens(args) \in Nat
  BY EstimateType
<1>4. LET sent == Wire(role, size, args, images, id, turn)
      IN  sent.size = size /\ sent.args = args /\ sent.images = images
  BY DEF Wire
<1> QED
  BY <1>2, <1>3, <1>4 DEF WireWeight

\* But for what Unruled names, a message weighs as much as it does to the judgment.
LEMMA SentWeighs ==
    ASSUME CarriedByRole, LatestGetsMore,
           NEW history \in Seq(Message), NEW start \in 0..Len(history), NEW injected \in Nat,
           NEW i \in start + 1..Len(history),
           IsTool(history, i) => ~history[i].kind.exempt,
           i \in LatestUser(history, start) =>
              history[i].kind.exempt \/ history[i].kind.size <= UserMax
    PROVE  LET sent == Sent(history, i, start, injected)
               weight == Weight(history, i, "token")
               images == history[i].kind.images
           IN  /\ \A m \in 1..Len(sent) :
                     /\ WireWeight(sent[m]) \in Nat /\ sent[m].images \in Nat
                     /\ sent[m].size \in Nat
               /\ \/ /\ Len(sent) = 1
                     /\ WireWeight(sent[1]) = weight /\ sent[1].images = images
                  \/ /\ Len(sent) = 2
                     /\ WireWeight(sent[1]) + WireWeight(sent[2]) = weight
                     /\ sent[1].images + sent[2].images = images
<1>1. PICK kind \in Kinds : kind = history[i].kind
  <2>1. i \in 1..Len(history)
    OBVIOUS
  <2> QED
    BY <2>1, MessageAt DEF Message
<1>2. /\ kind.role \in {"user", "assistant", "tool"} /\ kind.exempt \in BOOLEAN
      /\ kind.size \in Nat /\ kind.args \in Nat /\ kind.images \in Nat /\ kind.note \in Nat
  BY KindTypes
<1> DEFINE tier == Tier(history, i)
           budget == IF i \in LatestUser(history, start)
                     THEN LatestUserBudget(history, start, injected) ELSE UserMax
           size == CASE kind.role = "user" -> UserText(kind, budget)
                     [] kind.role = "tool" -> ToolText(kind, tier, TRUE)
                     [] OTHER -> kind.size
           args == MiddleOmitted(kind.args, ArgsMax)
           body == Wire(kind.role, size, args, kind.images, history[i].id, history[i].turn)
           note == System(kind.note)
           images == ImageWeight(kind.images, "token")
           weight == Weight(history, i, "token")
<1>3. Sent(history, i, start, injected) =
        IF kind.role = "user" /\ kind.note > 0 THEN <<note, body>> ELSE <<body>>
  BY <1>1 DEF Sent
<1>4. weight =
        CASE kind.role = "user" ->
               EstimateTokens(UserText(kind, UserMax)) + images + EstimateTokens(kind.note)
          [] kind.role = "assistant" ->
               EstimateTokens(kind.size) + images + EstimateTokens(args)
          [] OTHER -> EstimateTokens(ToolText(kind, tier, FALSE))
  BY <1>1 DEF Weight, Weigh
<1> HIDE DEF tier
<1>5. UserMax \in Nat /\ LatestUserMin \in Nat /\ ArgsMax \in Nat /\ ImageTokens \in Nat
  BY SizesAssumption
<1>6. budget \in Nat
  BY <1>5, BudgetFloor
<1>7. kind.role = "user" => UserText(kind, budget) = UserText(kind, UserMax)
  <2>1. CASE i \in LatestUser(history, start) /\ ~kind.exempt
    <3>1. kind.size <= UserMax /\ UserMax <= budget
      <4>1. LatestUserMin <= budget
        BY <2>1, BudgetFloor
      <4> HIDE DEF budget
      <4> QED
        BY <1>1, <1>5, <1>6, <2>1, <4>1 DEF LatestGetsMore
    <3> HIDE DEF budget
    <3>2. kind.size <= budget
      BY <1>2, <1>5, <1>6, <3>1
    <3> QED
      BY <3>1, <3>2 DEF UserText, MiddleOmitted
  <2>2. CASE kind.exempt
    BY <2>2 DEF UserText
  <2>3. CASE i \notin LatestUser(history, start)
    BY <2>3
  <2> QED
    BY <2>1, <2>2, <2>3
<1> HIDE DEF budget
<1>8. kind.role = "tool" => ToolText(kind, tier, TRUE) = ToolText(kind, tier, FALSE)
  BY <1>1 DEF ToolText, IsTool
<1>9. size \in Nat
  BY <1>2, <1>6, TextTypes
<1>10. args \in Nat /\ (kind.role # "assistant" => args = 0)
  <2>1. kind.role # "assistant" => kind.args = 0
    BY DEF CarriedByRole
  <2> QED
    <3>1. args \in Nat
      BY <1>2, <1>5, LengthTypes
    <3>2. MiddleOmitted(0, ArgsMax) = 0
      BY <1>5 DEF MiddleOmitted
    <3> QED
      BY <2>1, <3>1, <3>2
<1>11. images \in Nat /\ (kind.role = "tool" => images = 0)
  <2>1. kind.role = "tool" => kind.images = 0
    BY DEF CarriedByRole
  <2> QED
    BY <1>2, <1>5, <2>1 DEF ImageWeight
<1> HIDE DEF args
<1>12. /\ EstimateTokens(0) = 0
       /\ EstimateTokens(size) \in Nat /\ EstimateTokens(args) \in Nat
       /\ EstimateTokens(kind.note) \in Nat
  BY <1>2, <1>9, <1>10, EstimateType
<1>13. /\ WireWeight(body) = EstimateTokens(size) + EstimateTokens(args) + images
       /\ WireWeight(body) \in Nat /\ body.images = kind.images /\ body.size = size
  <2> HIDE DEF size
  <2> QED
    BY <1>2, <1>9, <1>10, WireWeightIs
<1>14. /\ WireWeight(note) = EstimateTokens(kind.note)
       /\ note.images = 0 /\ note.size = kind.note
  <2>1. ImageWeight(0, "token") = 0
    BY <1>5 DEF ImageWeight
  <2>2. /\ WireWeight(note) = EstimateTokens(kind.note) + EstimateTokens(0)
                                + ImageWeight(0, "token")
        /\ note.images = 0 /\ note.size = kind.note
    BY <1>2, WireWeightIs DEF System
  <2> QED
    BY <1>12, <2>1, <2>2
<1>15. WireWeight(body) + (IF kind.role = "user" THEN EstimateTokens(kind.note) ELSE 0) = weight
  <2>1. CASE kind.role = "user"
    <3>1. size = UserText(kind, UserMax)
      BY <1>7, <2>1
    <3> HIDE DEF size, images, body, weight
    <3> QED
      BY <1>4, <1>10, <1>11, <1>12, <1>13, <2>1, <3>1
  <2>2. CASE kind.role = "assistant"
    <3>1. size = kind.size
      BY <2>2
    <3> HIDE DEF size, images, body, weight
    <3> QED
      BY <1>4, <1>11, <1>12, <1>13, <2>2, <3>1
  <2>3. CASE kind.role = "tool"
    <3>1. size = ToolText(kind, tier, FALSE)
      BY <1>8, <2>3
    <3> HIDE DEF size, images, body, weight
    <3> QED
      <4>1. WireWeight(body) = EstimateTokens(size) + 0 + 0
        BY <1>10, <1>11, <1>12, <1>13, <2>3
      <4>2. weight = EstimateTokens(size)
        BY <1>4, <2>3, <3>1
      <4> QED
        BY <1>12, <2>3, <4>1, <4>2
  <2> QED
    BY <1>2, <2>1, <2>2, <2>3
<1> HIDE DEF body, note, size, images, weight
<1>16. CASE kind.role = "user" /\ kind.note > 0
  <2>1. PICK sent : sent = <<note, body>>
    OBVIOUS
  <2>2. Len(sent) = 2 /\ sent[1] = note /\ sent[2] = body
    BY <2>1
  <2>3. WireWeight(note) + WireWeight(body) = weight /\ note.images + body.images = kind.images
    BY <1>2, <1>12, <1>13, <1>14, <1>15, <1>16
  <2>4. \A m \in 1..Len(sent) : /\ WireWeight(sent[m]) \in Nat /\ sent[m].images \in Nat
                                /\ sent[m].size \in Nat
    <3>1. WireWeight(note) \in Nat /\ note.images \in Nat /\ note.size \in Nat
      BY <1>2, <1>12, <1>14
    <3>2. WireWeight(body) \in Nat /\ body.images \in Nat /\ body.size \in Nat
      BY <1>2, <1>9, <1>13
    <3> QED
      BY ONLY <2>2, <3>1, <3>2
  <2>5. Sent(history, i, start, injected) = sent
    BY <1>3, <1>16, <2>1
  <2> QED
    BY <1>1, <2>2, <2>3, <2>4, <2>5 DEF weight
<1>17. CASE ~(kind.role = "user" /\ kind.note > 0)
  <2>1. PICK sent : sent = <<body>>
    OBVIOUS
  <2>2. Len(sent) = 1 /\ sent[1] = body
    BY <2>1
  <2>3. WireWeight(body) = weight
    <3>1. CASE kind.role = "user"
      <4>1. kind.note = 0
        BY <1>2, <1>17, <3>1
      <4> QED
        BY <1>12, <1>13, <1>15, <3>1, <4>1
    <3>2. CASE kind.role # "user"
      BY <1>13, <1>15, <3>2
    <3> QED
      BY <3>1, <3>2
  <2>4. \A m \in 1..Len(sent) : /\ WireWeight(sent[m]) \in Nat /\ sent[m].images \in Nat
                                /\ sent[m].size \in Nat
    BY <1>2, <1>9, <1>13, <2>2
  <2>5. Sent(history, i, start, injected) = sent
    BY <1>3, <1>17, <2>1
  <2> QED
    BY <1>1, <1>13, <2>2, <2>3, <2>4, <2>5 DEF weight
<1> QED
  BY <1>16, <1>17

IsWire(sent) ==
    \E role, size, args, images, id, turn : sent = Wire(role, size, args, images, id, turn)

\* While there are no more images than are kept, nothing is left out.
LEMMA NothingElided ==
    ASSUME NEW T, NEW wire \in Seq(T), NEW w, NEW f,
           \A p \in 1..Len(wire) : /\ IsWire(wire[p]) /\ w[p] = wire[p].images
                                   /\ wire[p].images \in Nat /\ wire[p].size \in Nat,
           Sums(f, w, Len(wire)), f[Len(wire)] <= ImageKeep
    PROVE  \A p \in 1..Len(wire) : WireWeight(ImagesElided(wire)[p]) = WireWeight(wire[p])
<1> DEFINE n == Len(wire)
           body(from) == [i \in 1..n + 1 |->
                             IF i > n THEN 0 ELSE from[i + 1] + wire[i].images]
           total == CHOOSE from : from = body(from)
           kept(i) == Min({wire[i].images, ImageKeep - Min({ImageKeep, total[i + 1]})})
           larger(i) == wire[i].size + (wire[i].images - kept(i)) * Notice
           elided(i) == [wire[i] EXCEPT !.images = kept(i), !.size = larger(i)]
<1>1. n \in Nat /\ DOMAIN wire = 1..n /\ ImageKeep \in Nat /\ Notice \in Nat
  BY SizesAssumption
<1>2. ImagesElided(wire) = [i \in DOMAIN wire |-> elided(i)]
  BY DEF ImagesElided
<1>3. \E from : from = body(from)
  <2>1. PICK t : Follows(t, w, n)
    <3>1. \A p \in 1..n : w[p] \in Nat
      OBVIOUS
    <3> QED
      BY <1>1, <3>1, FollowsExists
  <2> DEFINE from == [i \in 1..n + 1 |-> t[i - 1]]
  <2>2. ASSUME NEW i \in 1..n + 1
        PROVE  from[i] = IF i > n THEN 0 ELSE from[i + 1] + wire[i].images
    <3>1. i - 1 \in 0..n /\ (i - 1) + 1 = i /\ (i - 1 = n <=> i > n)
      BY <1>1
    <3>2. t[i - 1] = IF i - 1 = n THEN 0 ELSE t[(i - 1) + 1] + w[(i - 1) + 1]
      BY <2>1, <3>1 DEF Follows
    <3>3. CASE i > n
      BY <3>1, <3>2, <3>3
    <3>4. CASE ~(i > n)
      <4>1. i + 1 \in 1..n + 1 /\ (i + 1) - 1 = i /\ w[i] = wire[i].images
        BY <1>1, <3>4
      <4>2. from[i + 1] = t[i] /\ from[i] = t[i - 1]
        BY <4>1
      <4> HIDE DEF from
      <4> QED
        BY <3>1, <3>2, <3>4, <4>1, <4>2
    <3> QED
      BY <3>3, <3>4
  <2>3. from = [i \in 1..n + 1 |-> from[i]]
    OBVIOUS
  <2> HIDE DEF from
  <2>4. from = body(from)
    BY <2>2, <2>3
  <2> QED
    BY <2>4
<1>4. total = body(total)
  BY <1>3
<1> HIDE DEF total
<1>5. \A i \in 0..n : total[i + 1] \in Nat /\ total[i + 1] + f[i] = f[n]
  <2> DEFINE t == [i \in 0..n |-> total[i + 1]]
  <2>1. ASSUME NEW i \in 0..n PROVE t[i] = IF i = n THEN 0 ELSE t[i + 1] + w[i + 1]
    <3>1. i + 1 \in 1..n + 1 /\ (i + 1 > n <=> i = n)
      <4> HIDE DEF n
      <4>1. i \in Nat /\ i <= n
        BY <1>1
      <4> QED
        BY <1>1, <4>1
    <3>2. total[i + 1] = IF i + 1 > n THEN 0 ELSE total[(i + 1) + 1] + wire[i + 1].images
      BY <1>4, <3>1
    <3>3. i # n => i + 1 \in 0..n /\ w[i + 1] = wire[i + 1].images
      BY <1>1, <3>1
    <3> QED
      BY <3>1, <3>2, <3>3
  <2>2. t = [i \in 0..n |-> t[i]]
    OBVIOUS
  <2> HIDE DEF t
  <2>3. Follows(t, w, n)
    BY <2>1, <2>2 DEF Follows
  <2>4. \A p \in 1..n : w[p] \in Nat
    OBVIOUS
  <2>5. n \in Nat /\ Sums(f, w, n)
    BY <1>1
  <2>6. \A i \in 0..n : t[i] \in Nat /\ t[i] + f[i] = f[n]
    BY ONLY <2>3, <2>4, <2>5, FollowsSums
  <2> QED
    BY <2>6 DEF t
<1>6. ASSUME NEW p \in 1..n PROVE kept(p) = wire[p].images
  <2>1. /\ f \in [0..n -> Nat] /\ f[p] = f[p - 1] + w[p] /\ w[p] = wire[p].images
        /\ wire[p].images \in Nat
    BY DEF Sums
  <2>2. p \in 0..n /\ p - 1 \in 0..n /\ n \in 0..n
    BY <1>1
  <2>3. f[p] \in Nat /\ f[p - 1] \in Nat /\ f[n] \in Nat /\ f[p] <= f[n]
    <3>1. \A q \in 1..n : w[q] \in Nat
      OBVIOUS
    <3>2. f[p] <= f[n]
      BY <1>1, <2>2, <3>1, SumsGrow
    <3> QED
      BY <2>1, <2>2, <3>2
  <2>4. PICK rest : rest = total[p + 1]
    OBVIOUS
  <2>5. rest \in Nat /\ rest + f[p] = f[n]
    BY <1>5, <2>2, <2>4
  <2>6. rest \in Nat /\ rest + wire[p].images <= ImageKeep
    <3>1. f[n] <= ImageKeep
      OBVIOUS
    <3>2. PICK a, b, c, d : a = f[p - 1] /\ b = f[p] /\ c = f[n] /\ d = wire[p].images
      OBVIOUS
    <3>3. /\ a \in Nat /\ b \in Nat /\ c \in Nat /\ d \in Nat
          /\ b = a + d /\ rest + b = c /\ c <= ImageKeep
      BY <2>1, <2>3, <2>5, <3>1, <3>2
    <3> QED
      <4>1. rest \in Nat /\ ImageKeep \in Nat
        BY <1>1, <2>5
      <4>2. rest + d <= ImageKeep
        BY <3>3, <4>1
      <4> QED
        BY <3>2, <4>1, <4>2
  <2>7. Min({ImageKeep, rest}) = rest
    <3>1. ImageKeep \in Nat /\ rest \in Nat /\ rest <= ImageKeep
      BY <1>1, <2>1, <2>6
    <3> QED
      BY ONLY <3>1, LesserOfTwo
  <2>8. ImageKeep - rest \in Nat /\ wire[p].images <= ImageKeep - rest
    BY <1>1, <2>1, <2>6
  <2>9. Min({wire[p].images, ImageKeep - rest}) = wire[p].images
    <3>1. PICK a, b : a = wire[p].images /\ b = ImageKeep - rest
      OBVIOUS
    <3>2. a \in Nat /\ b \in Nat /\ a <= b
      BY <2>1, <2>8, <3>1
    <3>3. Min({a, b}) = a
      BY ONLY <3>2, LesserOfTwo
    <3> QED
      BY <3>1, <3>3
  <2> QED
    BY <2>4, <2>7, <2>9
<1> HIDE DEF kept
<1>7. ASSUME NEW p \in 1..n PROVE WireWeight(elided(p)) = WireWeight(wire[p])
  <2>1. kept(p) = wire[p].images /\ wire[p].images \in Nat /\ wire[p].size \in Nat
    BY <1>6
  <2>2. larger(p) = wire[p].size
    <3>1. wire[p].images - kept(p) = 0
      BY <2>1
    <3>2. 0 * Notice = 0
      BY <1>1
    <3>3. (wire[p].images - kept(p)) * Notice = 0
      BY <3>1, <3>2
    <3> QED
      BY <2>1, <3>3
  <2>3. PICK role, size, args, images, id, turn :
            wire[p] = Wire(role, size, args, images, id, turn)
    BY DEF IsWire
  <2> HIDE DEF larger
  <2>4. DOMAIN wire[p] = {"role", "size", "args", "images", "id", "turn"}
    BY <2>3 DEF Wire
  <2>5. /\ elided(p).size = wire[p].size /\ elided(p).images = wire[p].images
        /\ elided(p).args = wire[p].args
    BY <2>1, <2>2, <2>4
  <2> HIDE DEF elided
  <2> QED
    BY <2>5 DEF WireWeight
<1> HIDE DEF elided
<1> QED
  BY <1>1, <1>2, <1>7

\* Where nothing is treated differently: no exempt results, a latest user message that
\* is not too long, and no more images than are kept.
Ruled(history, start) ==
    /\ \A i \in start + 1..Len(history) : IsTool(history, i) => ~history[i].kind.exempt
    /\ \A i \in LatestUser(history, start) :
          history[i].kind.exempt \/ history[i].kind.size <= UserMax
    /\ MapThenSumSet(LAMBDA i : history[i].kind.images, start + 1..Len(history)) <= ImageKeep

LEMMA ImagesTotal ==
    ASSUME NEW history \in Seq(Message), NEW start \in 0..Len(history), NEW w,
           w = [i \in 1..Len(history) |-> history[i].kind.images]
    PROVE  /\ \A i \in 1..Len(history) : w[i] \in Nat
           /\ MapThenSumSet(LAMBDA i : history[i].kind.images, start + 1..Len(history))
                = Total(w, start + 1..Len(history), Len(history))
<1> DEFINE n == Len(history)
           S == start + 1..n
           body(iter) == [s \in SUBSET S |->
               IF s = {} THEN 0
               ELSE history[CHOOSE x \in s : TRUE].kind.images
                      + iter[s \ {CHOOSE x \in s : TRUE}]]
           iter == CHOOSE f : f = body(f)
<1>1. n \in Nat /\ S \in SUBSET (1..n)
  OBVIOUS
<1>2. \A i \in 1..n : w[i] \in Nat
  <2> SUFFICES ASSUME NEW i \in 1..n PROVE history[i].kind.images \in Nat
    OBVIOUS
  <2>1. history[i].kind \in Kinds
    BY MessageAt DEF Message
  <2> QED
    BY <2>1, KindTypes
<1>3. MapThenSumSet(LAMBDA i : history[i].kind.images, S) = iter[S]
  BY DEF MapThenSumSet, MapThenFoldSet
<1>4. ASSUME NEW f PROVE f = body(f) <=> Recurs(f, w, S)
  <2>1. ASSUME NEW s \in SUBSET S, s # {}
        PROVE  history[CHOOSE x \in s : TRUE].kind.images = w[CHOOSE x \in s : TRUE]
    <3>1. (CHOOSE x \in s : TRUE) \in 1..n
      BY <1>1, <2>1
    <3> QED
      BY <3>1
  <2> HIDE DEF S
  <2>2. body(f) = [s \in SUBSET S |->
               IF s = {} THEN 0
               ELSE w[CHOOSE x \in s : TRUE] + f[s \ {CHOOSE x \in s : TRUE}]]
    BY <2>1
  <2> QED
    BY <2>2 DEF Recurs
<1>5. \A i \in S : w[i] \in Nat
  BY <1>1, <1>2
<1> HIDE DEF S, n, body
<1>6. \E f : f = body(f)
  BY <1>1, <1>4, <1>5, TotalRecurs
<1>7. Recurs(iter, w, S)
  BY <1>4, <1>6
<1>8. iter[S] = Total(w, S, n)
  BY <1>1, <1>5, <1>7, RecursTotal
<1> QED
  BY <1>2, <1>3, <1>8 DEF S, n

LEMMA WireTokensSum ==
    ASSUME NEW n \in Nat, NEW wire, DOMAIN wire = 1..n, NEW w,
           \A p \in 1..n : WireWeight(wire[p]) \in Nat /\ w[p] = WireWeight(wire[p])
    PROVE  \E f : Sums(f, w, n) /\ WireTokens(wire) = f[n]
<1> DEFINE S == 1..n
           term(p) == EstimateTokens(wire[p].size) + EstimateTokens(wire[p].args)
                        + ImageWeight(wire[p].images, "token")
           body(iter) == [s \in SUBSET S |->
               IF s = {} THEN 0
               ELSE term(CHOOSE x \in s : TRUE) + iter[s \ {CHOOSE x \in s : TRUE}]]
           iter == CHOOSE f : f = body(f)
<1>1. WireTokens(wire) = iter[S]
  BY DEF WireTokens, MapThenSumSet, MapThenFoldSet
<1>2. \A p \in S : term(p) = w[p] /\ w[p] \in Nat
  BY DEF WireWeight
<1> HIDE DEF term
<1>3. ASSUME NEW f PROVE f = body(f) <=> Recurs(f, w, S)
  <2>1. ASSUME NEW s \in SUBSET S, s # {}
        PROVE  term(CHOOSE x \in s : TRUE) = w[CHOOSE x \in s : TRUE]
    <3>1. (CHOOSE x \in s : TRUE) \in S
      BY <2>1
    <3> QED
      BY <1>2, <3>1
  <2> HIDE DEF S
  <2>2. body(f) = [s \in SUBSET S |->
               IF s = {} THEN 0
               ELSE w[CHOOSE x \in s : TRUE] + f[s \ {CHOOSE x \in s : TRUE}]]
    BY <2>1
  <2> QED
    BY <2>2 DEF Recurs
<1>4. S \in SUBSET (1..n) /\ \A p \in S : w[p] \in Nat
  BY <1>2
<1> HIDE DEF body
<1>5. \E f : f = body(f)
  <2> HIDE DEF S
  <2> QED
    BY <1>3, <1>4, TotalRecurs
<1>6. Recurs(iter, w, S)
  BY <1>3, <1>5
<1>7. iter[S] = Total(w, S, n)
  <2> HIDE DEF S, iter
  <2> QED
    BY <1>4, <1>6, RecursTotal
<1>8. PICK f : f = CHOOSE g : Sums(g, Only(w, S, n), n)
  OBVIOUS
<1>9. Sums(f, Only(w, S, n), n)
  <2> HIDE DEF S
  <2> QED
    BY <1>4, <1>8, OnlySums
<1>10. \A p \in 1..n : Only(w, S, n)[p] = w[p]
  BY DEF Only
<1>11. Sums(f, w, n)
  BY <1>9, <1>10 DEF Sums
<1>12. Total(w, S, n) = f[n]
  BY <1>8 DEF Total
<1> QED
  BY <1>1, <1>7, <1>11, <1>12

\* A kept part without exceptions, sent, weighs what the judgment takes it to weigh.
Weighed(off, wire, history, start) ==
    LET n == Len(history)
    IN  /\ off \in [start..n -> Nat] /\ off[start] = 0 /\ DOMAIN wire = 1..off[n]
        /\ \A i \in start..n : off[i] <= off[n]
        /\ \A p \in 1..off[n] : WireWeight(wire[p]) \in Nat
        /\ \A i \in start + 1..n :
              \/ /\ off[i] = off[i - 1] + 1
                 /\ WireWeight(wire[off[i]]) = Weight(history, i, "token")
              \/ /\ off[i] = off[i - 1] + 2
                 /\ WireWeight(wire[off[i] - 1]) + WireWeight(wire[off[i]])
                      = Weight(history, i, "token")

LEMMA ExpandedWeighs ==
    ASSUME CarriedByRole, LatestGetsMore,
           NEW history \in Seq(Message), NEW start \in 0..Len(history), NEW injected \in Nat,
           Ruled(history, start)
    PROVE  \E off : Weighed(off, Expanded(history, start, injected), history, start)
<1> DEFINE n == Len(history)
<1>1. PICK flat : flat = Flat(history, start, injected)
  OBVIOUS
<1>2. PICK off : Segmented(off, flat, history, start, injected)
  BY <1>1, FlatSegmented
<1>3. PICK T : flat \in Seq(T)
  BY <1>1, FlatSegmented
<1>4. PICK wire : wire = Expanded(history, start, injected)
  OBVIOUS
<1>5. wire = ImagesElided(flat)
  BY <1>1, <1>4 DEF Expanded, Flat
<1>6. /\ off \in [start..n -> Nat] /\ off[start] = 0 /\ DOMAIN flat = 1..off[n]
      /\ \A a, b \in start..n : a <= b => off[a] <= off[b]
      /\ \A p \in 1..off[n] : \E i \in start + 1..n : off[i - 1] < p /\ p <= off[i]
  BY <1>2 DEF Segmented
<1>7. n \in Nat /\ start \in Nat /\ start \in start..n /\ n \in start..n /\ start \in 0..n
  OBVIOUS
<1>8. /\ Len(flat) = off[n] /\ off[n] \in Nat /\ DOMAIN wire = 1..off[n]
      /\ \A i \in start..n : off[i] <= off[n]
  <2>1. off[n] \in Nat /\ \A i \in start..n : i <= n
    BY <1>6, <1>7
  <2>2. Len(flat) = off[n]
    BY <1>3, <1>6, <2>1
  <2> QED
    BY <1>5, <1>6, <1>7, <2>1, <2>2, ElidedSeq
<1>9. ASSUME NEW i \in start + 1..n
      PROVE  /\ \A p \in off[i - 1] + 1..off[i] :
                   /\ WireWeight(flat[p]) \in Nat /\ flat[p].images \in Nat
                   /\ flat[p].size \in Nat /\ IsWire(flat[p])
             /\ \/ /\ off[i] = off[i - 1] + 1
                   /\ WireWeight(flat[off[i]]) = Weight(history, i, "token")
                   /\ flat[off[i]].images = history[i].kind.images
                \/ /\ off[i] = off[i - 1] + 2
                   /\ WireWeight(flat[off[i] - 1]) + WireWeight(flat[off[i]])
                        = Weight(history, i, "token")
                   /\ flat[off[i] - 1].images + flat[off[i]].images = history[i].kind.images
  <2>1. PICK sent : sent = Sent(history, i, start, injected)
    OBVIOUS
  <2>2. /\ off[i] = off[i - 1] + Len(sent)
        /\ \A m \in 1..Len(sent) : flat[off[i - 1] + m] = sent[m]
    BY <1>2, <2>1 DEF Segmented
  <2>3. PICK a : a = off[i - 1]
    OBVIOUS
  <2>4. a \in Nat /\ i \in 1..n
    <3>1. i - 1 \in start..n /\ i \in 1..n
      BY <1>7
    <3> QED
      BY <1>6, <2>3, <3>1
  <2>5. /\ \A m \in 1..Len(sent) :
              /\ WireWeight(sent[m]) \in Nat /\ sent[m].images \in Nat
              /\ sent[m].size \in Nat
        /\ \/ /\ Len(sent) = 1
              /\ WireWeight(sent[1]) = Weight(history, i, "token")
              /\ sent[1].images = history[i].kind.images
           \/ /\ Len(sent) = 2
              /\ WireWeight(sent[1]) + WireWeight(sent[2]) = Weight(history, i, "token")
              /\ sent[1].images + sent[2].images = history[i].kind.images
    BY <2>1, SentWeighs DEF Ruled
  <2>6. \A m \in 1..Len(sent) : IsWire(sent[m])
    <3>1. PICK body, note :
             /\ IsBody(body, history[i]) /\ IsNote(note)
             /\ \/ sent = <<body>>
                \/ ~IsTool(history, i) /\ sent = <<note, body>>
      BY <2>1, <2>4, SentParts
    <3>2. IsWire(body) /\ IsWire(note)
      BY <3>1 DEF IsBody, IsNote, IsWire
    <3> QED
      BY <3>1, <3>2
  <2>7. ASSUME NEW p \in a + 1..off[i]
        PROVE  /\ WireWeight(flat[p]) \in Nat /\ flat[p].images \in Nat
               /\ flat[p].size \in Nat /\ IsWire(flat[p])
    <3>1. PICK m : m = p - a
      OBVIOUS
    <3>2. m \in 1..Len(sent) /\ p = a + m
      <4>1. PICK b, len : b = off[i] /\ len = Len(sent)
        OBVIOUS
      <4>2. b = a + len /\ (len = 1 \/ len = 2)
        BY <2>2, <2>3, <2>5, <4>1
      <4>3. p \in a + 1..b
        BY <4>1
      <4>4. m \in 1..len /\ p = a + m
        BY <2>4, <3>1, <4>2, <4>3
      <4> QED
        BY <4>1, <4>4
    <3>3. flat[p] = sent[m]
      BY <2>2, <2>3, <3>2
    <3> QED
      BY <2>5, <2>6, <3>2, <3>3
  <2>8. CASE Len(sent) = 1
    <3>1. off[i] = a + 1 /\ flat[a + 1] = sent[1]
      BY <2>2, <2>3, <2>8
    <3> QED
      BY <2>3, <2>5, <2>7, <2>8, <3>1
  <2>9. CASE Len(sent) = 2
    <3>1. off[i] = a + 2 /\ (a + 2) - 1 = a + 1 /\ flat[a + 1] = sent[1] /\ flat[a + 2] = sent[2]
      BY <2>2, <2>3, <2>4, <2>9
    <3> QED
      BY <2>3, <2>5, <2>7, <2>9, <3>1
  <2> QED
    BY <2>5, <2>8, <2>9
<1>10. \A p \in 1..off[n] : /\ WireWeight(flat[p]) \in Nat /\ flat[p].images \in Nat
                            /\ flat[p].size \in Nat /\ IsWire(flat[p])
  <2> SUFFICES ASSUME NEW p \in 1..off[n]
               PROVE  /\ WireWeight(flat[p]) \in Nat /\ flat[p].images \in Nat
                      /\ flat[p].size \in Nat /\ IsWire(flat[p])
    OBVIOUS
  <2>1. PICK i \in start + 1..n : off[i - 1] < p /\ p <= off[i]
    BY <1>6
  <2>2. i - 1 \in start..n /\ i \in start..n
    BY <1>7
  <2>3. off[i - 1] \in Nat /\ off[i] \in Nat
    BY <1>6, <2>2
  <2>4. p \in off[i - 1] + 1..off[i]
    BY <2>1, <2>3
  <2> QED
    BY <1>9, <2>4
<1> DEFINE images == [p \in 1..off[n] |-> flat[p].images]
           shown == [i \in 1..n |-> history[i].kind.images]
           tail == start + 1..n
<1>11. PICK f : Sums(f, images, off[n])
  BY <1>8, <1>10, SumsExist
<1>12. f[off[n]] <= ImageKeep
  <2>1. /\ \A i \in 1..n : shown[i] \in Nat
        /\ Total(shown, tail, n) <= ImageKeep
    BY ImagesTotal DEF Ruled
  <2>2. tail \in SUBSET (1..n) /\ \A i \in tail : shown[i] \in Nat
    BY <1>7, <2>1
  <2>3. PICK g : g = CHOOSE h : Sums(h, Only(shown, tail, n), n)
    OBVIOUS
  <2>4. Sums(g, Only(shown, tail, n), n) /\ \A i \in 1..n : Only(shown, tail, n)[i] \in Nat
    <3> HIDE DEF shown, tail
    <3> QED
      BY <1>7, <2>2, <2>3, OnlySums
  <2>5. g[n] <= ImageKeep
    BY <2>1, <2>3 DEF Total
  <2>6. \A i \in start + 1..n : Only(shown, tail, n)[i] = history[i].kind.images
    BY <1>7 DEF Only
  <2> DEFINE v == Only(shown, tail, n)
  <2> HIDE DEF v, shown, tail
  <2>7. \A i \in start + 1..n :
           \/ off[i] = off[i - 1] + 1 /\ images[0 + off[i]] = v[i]
           \/ /\ off[i] = off[i - 1] + 2
              /\ images[0 + off[i] - 1] + images[0 + off[i]] = v[i]
    <3> SUFFICES ASSUME NEW i \in start + 1..n
                 PROVE  \/ off[i] = off[i - 1] + 1 /\ images[0 + off[i]] = v[i]
                        \/ /\ off[i] = off[i - 1] + 2
                           /\ images[0 + off[i] - 1] + images[0 + off[i]] = v[i]
      OBVIOUS
    <3>1. i - 1 \in start..n /\ i \in start..n
      BY <1>7
    <3>2. PICK a, b : a = off[i - 1] /\ b = off[i]
      OBVIOUS
    <3>3. a \in Nat /\ b \in Nat /\ b <= off[n]
      BY <1>6, <1>8, <3>1, <3>2
    <3>4. v[i] = history[i].kind.images
      BY <2>6 DEF v
    <3>5. \/ b = a + 1 /\ flat[b].images = v[i]
          \/ b = a + 2 /\ flat[b - 1].images + flat[b].images = v[i]
      BY <1>9, <3>2, <3>4
    <3>6. b \in 1..off[n] /\ 0 + b = b /\ (b = a + 2 => b - 1 \in 1..off[n])
      BY <1>8, <3>3, <3>5
    <3>7. images[b] = flat[b].images /\ (b = a + 2 => images[b - 1] = flat[b - 1].images)
      BY <3>6
    <3> HIDE DEF images
    <3> QED
      BY <3>2, <3>5, <3>6, <3>7
  <2>8. f[0 + off[n]] + g[start] = g[n] + f[0]
    <3>1. 0 + off[n] = off[n] /\ \A p \in 1..off[n] : images[p] \in Nat
      BY <1>8, <1>10
    <3>2. \A i \in 1..n : v[i] \in Nat
      BY <2>4 DEF v
    <3>3. Sums(g, v, n)
      BY <2>4 DEF v
    <3>4. off \in [start..n -> Nat] /\ off[start] = 0
      BY <1>6
    <3>5. Sums(f, images, 0 + off[n]) /\ \A p \in 1..0 + off[n] : images[p] \in Nat
      BY <1>11, <3>1
    <3>6. 0 \in Nat /\ n \in Nat /\ start \in 0..n
      BY <1>7
    <3>7. \A i \in start..n : off[i] <= off[n]
      BY <1>8
    <3>8. PICK lead : lead = 0
      OBVIOUS
    <3> HIDE DEF images, n
    <3>9. lead \in Nat /\ \A p \in 1..lead + off[n] : images[p] \in Nat
      BY <3>5, <3>8
    <3>10. Sums(f, images, lead + off[n])
      BY <3>5, <3>8
    <3>11. \A i \in start + 1..n :
              \/ off[i] = off[i - 1] + 1 /\ images[lead + off[i]] = v[i]
              \/ /\ off[i] = off[i - 1] + 2
                 /\ images[lead + off[i] - 1] + images[lead + off[i]] = v[i]
      BY <2>7, <3>8
    <3>12. Regroups(off, images, v, lead, start, n)
      BY <3>2, <3>4, <3>7, <3>9, <3>11 DEF Regroups
    <3>13. f[lead + off[n]] + g[start] = g[n] + f[lead]
      BY <3>3, <3>6, <3>9, <3>10, <3>12, Regroup
    <3> QED
      BY <3>8, <3>13
  <2>9. g[start] \in Nat /\ g[n] \in Nat /\ f[0] = 0 /\ f[off[n]] \in Nat /\ 0 + off[n] = off[n]
    <3>1. g \in [0..n -> Nat] /\ start \in 0..n /\ n \in 0..n
      BY <1>7, <2>4 DEF Sums
    <3>2. f \in [0..off[n] -> Nat] /\ f[0] = 0 /\ off[n] \in 0..off[n]
      BY <1>8, <1>11 DEF Sums
    <3> QED
      BY <1>8, <3>1, <3>2
  <2>10. ImageKeep \in Nat
    BY SizesAssumption
  <2> QED
    BY <2>5, <2>8, <2>9, <2>10
<1>13. \A p \in 1..off[n] : WireWeight(wire[p]) = WireWeight(flat[p])
  <2>1. \A p \in 1..Len(flat) : /\ IsWire(flat[p]) /\ images[p] = flat[p].images
                                /\ flat[p].images \in Nat /\ flat[p].size \in Nat
    BY <1>8, <1>10
  <2>2. Sums(f, images, Len(flat)) /\ f[Len(flat)] <= ImageKeep
    BY <1>8, <1>11, <1>12
  <2> HIDE DEF images
  <2> QED
    BY <1>3, <1>5, <1>8, <2>1, <2>2, NothingElided
<1>14. ASSUME NEW i \in start + 1..n
       PROVE  \/ /\ off[i] = off[i - 1] + 1
                 /\ WireWeight(wire[off[i]]) = Weight(history, i, "token")
              \/ /\ off[i] = off[i - 1] + 2
                 /\ WireWeight(wire[off[i] - 1]) + WireWeight(wire[off[i]])
                      = Weight(history, i, "token")
  <2>1. i - 1 \in start..n /\ i \in start..n
    BY <1>7
  <2>2. PICK a, b : a = off[i - 1] /\ b = off[i]
    OBVIOUS
  <2>3. a \in Nat /\ b \in Nat /\ b <= off[n]
    BY <1>6, <1>8, <2>1, <2>2
  <2>4. \/ b = a + 1 /\ WireWeight(flat[b]) = Weight(history, i, "token")
        \/ /\ b = a + 2
           /\ WireWeight(flat[b - 1]) + WireWeight(flat[b]) = Weight(history, i, "token")
    BY <1>9, <2>2
  <2>5. b \in 1..off[n] /\ (b = a + 2 => b - 1 \in 1..off[n])
    BY <1>8, <2>3, <2>4
  <2> QED
    BY <1>13, <2>2, <2>4, <2>5
<1>15. \A p \in 1..off[n] : WireWeight(wire[p]) \in Nat
  BY <1>10, <1>13
<1>16. Weighed(off, wire, history, start)
  BY <1>6, <1>8, <1>14, <1>15 DEF Weighed
<1> QED
  BY <1>4, <1>16

\* A request that begins with a front and goes on with a tail.
Behind(wire, lead, tail, length) ==
    /\ DOMAIN wire = 1..lead + length
    /\ \A p \in 1..lead : WireWeight(wire[p]) \in Nat
    /\ \A p \in 1..length : wire[lead + p] = tail[p]
\* It weighs as much as the front and the rest.
Adds(wire, lead, rest) ==
    \E f : /\ f[0] = 0 /\ f[lead] \in Nat
           /\ \A p \in 1..lead : f[p] = f[p - 1] + WireWeight(wire[p])
           /\ WireTokens(wire) = f[lead] + rest

\* Sent behind others, the kept part adds what the judgment counts for it.
LEMMA TailAdds ==
    ASSUME NEW history \in Seq(Message), NEW start \in 0..Len(history),
           NEW off, NEW tail, Weighed(off, tail, history, start),
           NEW lead \in Nat, NEW wire, Behind(wire, lead, tail, off[Len(history)])
    PROVE  Adds(wire, lead, Suffix(history, "token")[start])
<1>0. /\ DOMAIN wire = 1..lead + off[Len(history)]
      /\ \A p \in 1..lead : WireWeight(wire[p]) \in Nat
      /\ \A p \in 1..off[Len(history)] : wire[lead + p] = tail[p]
  BY DEF Behind
<1>1. PICK n : n = Len(history)
  OBVIOUS
<1>2. n \in Nat /\ start \in 0..n /\ n \in start..n /\ n \in 0..n
  BY <1>1
<1>3. /\ off \in [start..n -> Nat] /\ off[start] = 0
      /\ \A i \in start..n : off[i] <= off[n]
      /\ \A p \in 1..off[n] : WireWeight(tail[p]) \in Nat
      /\ \A i \in start + 1..n :
            \/ /\ off[i] = off[i - 1] + 1
               /\ WireWeight(tail[off[i]]) = Weight(history, i, "token")
            \/ /\ off[i] = off[i - 1] + 2
               /\ WireWeight(tail[off[i] - 1]) + WireWeight(tail[off[i]])
                    = Weight(history, i, "token")
  BY <1>1 DEF Weighed
<1>4. PICK length : length = lead + off[n]
  OBVIOUS
<1>5. length \in Nat /\ off[n] \in Nat /\ DOMAIN wire = 1..length
  BY <1>0, <1>1, <1>2, <1>3, <1>4
<1>6. PICK w : w = [p \in 1..length |-> WireWeight(wire[p])]
  OBVIOUS
<1>7. \A p \in 1..off[n] : lead + p \in 1..length /\ w[lead + p] = WireWeight(tail[p])
  <2> SUFFICES ASSUME NEW p \in 1..off[n]
               PROVE  lead + p \in 1..length /\ w[lead + p] = WireWeight(tail[p])
    OBVIOUS
  <2>1. lead + p \in 1..length
    BY <1>4, <1>5
  <2>2. wire[lead + p] = tail[p]
    BY <1>0, <1>1
  <2> QED
    BY <1>6, <2>1, <2>2
<1>8. \A p \in 1..length : WireWeight(wire[p]) \in Nat /\ w[p] = WireWeight(wire[p])
  <2> SUFFICES ASSUME NEW p \in 1..length
               PROVE  WireWeight(wire[p]) \in Nat /\ w[p] = WireWeight(wire[p])
    OBVIOUS
  <2>1. w[p] = WireWeight(wire[p])
    BY <1>6
  <2>2. CASE p <= lead
    BY <1>0, <2>1, <2>2
  <2>3. CASE ~(p <= lead)
    <3>1. p - lead \in 1..off[n] /\ lead + (p - lead) = p
      BY <1>4, <1>5, <2>3
    <3> QED
      BY <1>3, <1>7, <2>1, <3>1
  <2> QED
    BY <2>2, <2>3
<1>9. PICK f : Sums(f, w, length) /\ WireTokens(wire) = f[length]
  BY <1>5, <1>8, WireTokensSum
<1>10. PICK v : v = [i \in 1..n |-> Weight(history, i, "token")]
  OBVIOUS
<1>11. \A i \in 1..n : v[i] \in Nat /\ v[i] = Weight(history, i, "token")
  BY <1>1, <1>10, WeightType
<1>12. Follows(Suffix(history, "token"), v, n)
  BY <1>1, <1>10, SuffixFollows
<1>13. PICK g : Sums(g, v, n)
  BY <1>2, <1>11, SumsExist
<1>14. PICK rest : rest = Suffix(history, "token")[start]
  OBVIOUS
<1>15. rest \in Nat /\ rest + g[start] = g[n]
  <2>1. PICK total : total = Suffix(history, "token")
    OBVIOUS
  <2>2. Follows(total, v, n)
    BY <1>12, <2>1
  <2>3. \A i \in 1..n : v[i] \in Nat
    BY <1>11
  <2>5. n \in Nat /\ Sums(g, v, n)
    BY <1>2, <1>13
  <2>4. \A i \in 0..n : total[i] \in Nat /\ total[i] + g[i] = g[n]
    BY ONLY <2>2, <2>3, <2>5, FollowsSums
  <2> QED
    BY <1>2, <1>14, <2>1, <2>4
<1>16. ASSUME NEW i \in start + 1..n
       PROVE  \/ off[i] = off[i - 1] + 1 /\ w[lead + off[i]] = v[i]
              \/ /\ off[i] = off[i - 1] + 2
                 /\ w[lead + off[i] - 1] + w[lead + off[i]] = v[i]
  <2>1. i - 1 \in start..n /\ i \in start..n /\ i \in 1..n
    BY <1>2
  <2>2. PICK a, b : a = off[i - 1] /\ b = off[i]
    OBVIOUS
  <2>3. a \in Nat /\ b \in Nat /\ b <= off[n]
    BY <1>3, <2>1, <2>2
  <2>4. v[i] = Weight(history, i, "token")
    BY <1>11, <2>1
  <2>5. \/ b = a + 1 /\ WireWeight(tail[b]) = v[i]
        \/ b = a + 2 /\ WireWeight(tail[b - 1]) + WireWeight(tail[b]) = v[i]
    BY <1>3, <2>2, <2>4
  <2>6. CASE b = a + 1 /\ WireWeight(tail[b]) = v[i]
    <3>1. b \in 1..off[n]
      BY <1>5, <2>3, <2>6
    <3> QED
      BY <1>7, <2>2, <2>6, <3>1
  <2>7. CASE b = a + 2 /\ WireWeight(tail[b - 1]) + WireWeight(tail[b]) = v[i]
    <3>1. b \in 1..off[n] /\ b - 1 \in 1..off[n] /\ lead + (b - 1) = lead + b - 1
      BY <1>5, <2>3, <2>7
    <3>2. w[lead + b] = WireWeight(tail[b]) /\ w[lead + b - 1] = WireWeight(tail[b - 1])
      BY <1>7, <3>1
    <3> QED
      BY <2>2, <2>7, <3>2
  <2> QED
    BY <2>5, <2>6, <2>7
<1>17. Regroups(off, w, v, lead, start, n)
  <2>1. \A p \in 1..lead + off[n] : w[p] \in Nat
    BY <1>4, <1>8
  <2> QED
    BY <1>3, <1>11, <1>16, <2>1 DEF Regroups
<1>18. f[length] + g[start] = g[n] + f[lead]
  <2>1. Sums(f, w, lead + off[n])
    BY <1>4, <1>9
  <2>2. n \in Nat /\ start \in 0..n /\ lead \in Nat /\ Sums(g, v, n)
    BY <1>2, <1>13
  <2>3. f[lead + off[n]] + g[start] = g[n] + f[lead]
    BY ONLY <1>17, <2>1, <2>2, Regroup
  <2> QED
    BY <1>4, <2>3
<1>19. /\ f[0] = 0 /\ f[lead] \in Nat /\ f[length] \in Nat
       /\ \A p \in 1..lead : f[p] = f[p - 1] + WireWeight(wire[p])
  <2>1. f \in [0..length -> Nat] /\ f[0] = 0 /\ \A p \in 1..length : f[p] = f[p - 1] + w[p]
    BY <1>9 DEF Sums
  <2>2. lead \in 0..length /\ length \in 0..length /\ \A p \in 1..lead : p \in 1..length
    BY <1>4, <1>5
  <2> QED
    BY <1>8, <2>1, <2>2
<1>20. g[start] \in Nat /\ g[n] \in Nat
  BY <1>2, <1>13 DEF Sums
<1>21. f[length] = f[lead] + rest
  <2>1. PICK x, y, s, t : x = f[length] /\ y = f[lead] /\ s = g[start] /\ t = g[n]
    OBVIOUS
  <2>2. /\ x \in Nat /\ y \in Nat /\ s \in Nat /\ t \in Nat /\ rest \in Nat
        /\ x + s = t + y /\ rest + s = t
    BY <1>15, <1>18, <1>19, <1>20, <2>1
  <2>3. x = y + rest
    BY ONLY <2>2
  <2> QED
    BY <2>1, <2>3
<1> QED
  BY <1>9, <1>14, <1>19, <1>21 DEF Adds

\* The request's front is the summary alone when nothing is restored.
LEMMA FrontAlone ==
    ASSUME NEW T, NEW tail \in Seq(T), NEW note
    PROVE  LET wire == <<note>> \o <<>> \o tail
           IN  /\ DOMAIN wire = 1..1 + Len(tail) /\ wire[1] = note
               /\ \A p \in 1..Len(tail) : wire[1 + p] = tail[p]
<1> DEFINE U == T \cup {note}
           front == <<note>> \o <<>>
           wire == front \o tail
<1>1. <<note>> \in Seq(U) /\ <<>> \in Seq(U) /\ Len(<<note>>) = 1 /\ Len(<<>>) = 0
      /\ <<note>>[1] = note
  OBVIOUS
<1>2. tail \in Seq(U) /\ Len(tail) \in Nat
  OBVIOUS
<1>3. front \in Seq(U) /\ Len(front) = 1 /\ front[1] = note
  <2> HIDE DEF U
  <2>1. /\ front \in Seq(U) /\ Len(front) = Len(<<note>>) + Len(<<>>)
        /\ \A p \in 1..Len(<<note>>) + Len(<<>>) :
              front[p] = IF p <= Len(<<note>>) THEN <<note>>[p] ELSE <<>>[p - Len(<<note>>)]
    BY <1>1, ConcatProperties
  <2> HIDE DEF front
  <2>2. Len(front) = 1 /\ 1 \in 1..Len(<<note>>) + Len(<<>>) /\ 1 <= Len(<<note>>)
    BY <1>1, <2>1
  <2> QED
    BY <1>1, <2>1, <2>2
<1> HIDE DEF U, front
<1>4. /\ wire \in Seq(U) /\ Len(wire) = 1 + Len(tail)
      /\ \A p \in 1..1 + Len(tail) :
            wire[p] = IF p <= 1 THEN front[p] ELSE tail[p - 1]
  <2>1. /\ wire \in Seq(U) /\ Len(wire) = Len(front) + Len(tail)
        /\ \A p \in 1..Len(front) + Len(tail) :
              wire[p] = IF p <= Len(front) THEN front[p] ELSE tail[p - Len(front)]
    BY <1>2, <1>3, ConcatProperties
  <2>2. Len(front) = 1
    BY <1>3
  <2> HIDE DEF wire
  <2> QED
    BY <2>1, <2>2
<1> HIDE DEF wire
<1>5. DOMAIN wire = 1..1 + Len(tail) /\ wire[1] = note
  <2>1. 1 \in 1..1 + Len(tail) /\ DOMAIN wire = 1..Len(wire)
    BY <1>2, <1>4
  <2> QED
    BY <1>3, <1>4, <2>1
<1>6. ASSUME NEW p \in 1..Len(tail) PROVE wire[1 + p] = tail[p]
  <2>1. 1 + p \in 1..1 + Len(tail) /\ ~(1 + p <= 1) /\ (1 + p) - 1 = p
    BY <1>2
  <2> QED
    BY <1>4, <2>1
<1> QED
  BY <1>5, <1>6 DEF front, wire

LEMMA RulersMeet ==
    ASSUME CarriedByRole, LatestGetsMore, IInv, CoverInv PROVE OneRuler
<1>1. PICK record : record = ActiveRecord
  OBVIOUS
<1> DEFINE n == Len(messages)
           end == IF record = NoRecord THEN 0 ELSE record.end
           start == AlignedStart(messages, end)
           summary == IF record = NoRecord THEN 0 ELSE SummaryTokens(record)
<1> SUFFICES ASSUME InOrder, ~Unruled(start)
             PROVE  WireTokens(ToSend) = summary + Suffix(messages, "token")[start]
  BY <1>1 DEF OneRuler
<1>2. messages \in Seq(Message) /\ n \in Nat /\ 0 \in 0..n /\ TurnsInOrder(messages)
  BY DEF IInv, TypeOK, CoverInv
<1>3. record # NoRecord => /\ record.end \in Nat /\ record.size \in Nat
                           /\ record.end < n
  BY <1>1, ActiveIsArchived DEF Record, InOrder
<1>4. end \in 0..n
  BY <1>2, <1>3
<1>5. start \in 0..n /\ start \in Nat /\ start <= end
  <2> HIDE DEF end
  <2> QED
    BY <1>2, <1>4, TailBeginsWhole, KeptReachesBack
<1> HIDE DEF start
<1>6. Ruled(messages, start)
  <2>1. \A i \in start + 1..n : IsTool(messages, i) => ~messages[i].kind.exempt
    BY DEF Unruled, Tools
  <2>2. \A i \in LatestUser(messages, start) :
           messages[i].kind.exempt \/ messages[i].kind.size <= UserMax
    <3> SUFFICES ASSUME NEW i \in LatestUser(messages, start), ~messages[i].kind.exempt
                 PROVE  messages[i].kind.size <= UserMax
      OBVIOUS
    <3>1. messages[i] \in Message
      BY <1>2, <1>5 DEF LatestUser
    <3>2. messages[i].kind.size \in Nat /\ UserMax \in Nat
      <4>1. messages[i].kind.size \in Nat
        BY <3>1, KindTypes DEF Message
      <4> QED
        BY <4>1, SizesAssumption
    <3>3. ~(messages[i].kind.size > UserMax)
      BY DEF Unruled
    <3> QED
      BY <3>2, <3>3
  <2>3. PICK sum : sum = MapThenSumSet(LAMBDA i : messages[i].kind.images, start + 1..n)
    OBVIOUS
  <2>4. PICK w : w = [i \in 1..n |-> messages[i].kind.images]
    OBVIOUS
  <2>5. (\A i \in 1..n : w[i] \in Nat) /\ sum = Total(w, start + 1..n, n)
    BY <1>2, <1>5, <2>3, <2>4, ImagesTotal
  <2>6. sum \in Nat
    <3>1. start + 1..n \in SUBSET (1..n) /\ \A i \in start + 1..n : w[i] \in Nat
      BY <1>5, <2>5
    <3> QED
      BY <1>2, <2>5, <3>1, TotalType
  <2>7. ~(ImageKeep < sum) /\ ImageKeep \in Nat
    BY <2>3, SizesAssumption DEF Unruled
  <2>8. sum <= ImageKeep
    BY <2>6, <2>7
  <2> QED
    BY <2>1, <2>2, <2>3, <2>8 DEF Ruled
<1>7. record # NoRecord => Reinjected(messages, record.end).picked = {}
  BY <1>1 DEF Unruled
<1>8. SummaryTag \in Nat
  BY SizesAssumption
<1>9. ASSUME NEW injected \in Nat
      PROVE  \E off, T, tail :
                /\ tail = Expanded(messages, start, injected) /\ tail \in Seq(T)
                /\ Weighed(off, tail, messages, start) /\ Len(tail) = off[n]
  <2>1. PICK off : Weighed(off, Expanded(messages, start, injected), messages, start)
    BY <1>2, <1>5, <1>6, ExpandedWeighs
  <2>2. PICK tail : tail = Expanded(messages, start, injected)
    OBVIOUS
  <2>3. PICK T : tail \in Seq(T)
    BY <1>2, <1>5, <2>2, ExpandedPlaced
  <2>4. DOMAIN tail = 1..off[n] /\ off[n] \in Nat
    BY <1>2, <1>5, <2>1, <2>2 DEF Weighed
  <2>5. Len(tail) = off[n]
    BY <2>3, <2>4
  <2> QED
    BY <2>1, <2>2, <2>3, <2>5
<1>10. CASE record = NoRecord
  <2>1. start = 0 /\ summary = 0
    BY <1>5, <1>10
  <2>2. ToSend = Expanded(messages, start, 0)
    BY <1>1, <1>10, <2>1 DEF ToSend, Projected, Usable
  <2>3. PICK off, T, tail :
            /\ tail = ToSend /\ tail \in Seq(T)
            /\ Weighed(off, tail, messages, start) /\ Len(tail) = off[n]
    BY <1>9, <2>2
  <2>4. off[n] \in Nat
    BY <2>3
  <2>5. Behind(tail, 0, tail, off[n])
    BY <2>3, <2>4 DEF Behind
  <2>6. Adds(tail, 0, Suffix(messages, "token")[start])
    BY <1>2, <1>5, <2>3, <2>5, TailAdds
  <2> QED
    BY <2>1, <2>3, <2>6 DEF Adds
<1>11. CASE record # NoRecord
  <2>1. PICK note, injected : injected = SummaryTag + record.size /\ note = System(injected)
    OBVIOUS
  <2>2. injected \in Nat /\ WireWeight(note) = summary /\ WireWeight(note) \in Nat
    <3>1. injected \in Nat
      BY <1>3, <1>8, <1>11, <2>1
    <3>2. PICK a : a = EstimateTokens(injected)
      OBVIOUS
    <3>3. a \in Nat /\ EstimateTokens(0) = 0 /\ ImageWeight(0, "token") = 0
      <4>1. ImageTokens \in Nat
        BY SizesAssumption
      <4>2. 0 * ImageTokens = 0
        BY <4>1
      <4> QED
        BY <3>1, <3>2, <4>2, EstimateType DEF ImageWeight
    <3>4. WireWeight(note) = a + 0 + 0
      BY <2>1, <3>1, <3>2, <3>3, WireWeightIs DEF System
    <3>5. summary = a
      BY <1>11, <2>1, <3>2 DEF SummaryTokens
    <3> QED
      BY <3>1, <3>3, <3>4, <3>5
  <2>3. PICK off, T, tail :
            /\ tail = Expanded(messages, start, injected) /\ tail \in Seq(T)
            /\ Weighed(off, tail, messages, start) /\ Len(tail) = off[n]
    BY <1>9, <2>2
  <2>4. ToSend = <<note>> \o <<>> \o tail
    <3>1. Usable(messages, record)
      BY <1>3, <1>11 DEF Usable
    <3> QED
      BY <1>1, <1>7, <1>11, <2>1, <2>3, <3>1 DEF ToSend, Projected, start
  <2>5. PICK wire : wire = ToSend
    OBVIOUS
  <2>6. /\ DOMAIN wire = 1..1 + off[n] /\ wire[1] = note
        /\ \A p \in 1..off[n] : wire[1 + p] = tail[p]
    BY <2>3, <2>4, <2>5, FrontAlone
  <2>7. PICK lead : lead = 1
    OBVIOUS
  <2>8. PICK f : /\ f[0] = 0 /\ f[1] = f[1 - 1] + WireWeight(wire[1])
                 /\ WireTokens(wire) = f[1] + Suffix(messages, "token")[start]
    <3>1. lead \in Nat /\ Behind(wire, lead, tail, off[n])
      BY <2>2, <2>6, <2>7 DEF Behind
    <3>2. messages \in Seq(Message) /\ start \in 0..n /\ Weighed(off, tail, messages, start)
      BY <1>2, <1>5, <2>3
    <3>3. Adds(wire, lead, Suffix(messages, "token")[start])
      BY <3>1, <3>2, TailAdds
    <3> QED
      BY <2>7, <3>3 DEF Adds
  <2>9. f[1] = summary
    BY <2>2, <2>6, <2>8
  <2> QED
    BY <2>5, <2>8, <2>9
<1> QED
  BY <1>10, <1>11

\* The judgment of a summary and the request that is sent come to the same weight,
\* for every history: what is restored, exempt, beyond the images that are kept or
\* longer in the latest user message apart.
THEOREM RulersAgree == ASSUME CarriedByRole, LatestGetsMore PROVE Spec => []OneRuler
<1>1. IInv /\ CoverInv => OneRuler
  BY RulersMeet
<1> QED
  BY <1>1, CoverInvariance, PTL
===============================================================================
