------------------------------ MODULE Compaction ------------------------------
(***************************************************************************)
(* The summaries of one session's history: when one is made, which one is  *)
(* in use, and what a request sends because of it (engine/compaction.py,   *)
(* seams/compaction_store.py).                                             *)
(*                                                                         *)
(* The repository leaves the loop around these functions to the product    *)
(* and says how it must go: repair before using or judging the active      *)
(* record and apply the outcome, plan, summarise in the background, store  *)
(* the record.  That loop is external here, and so are the model that      *)
(* writes the summary and the switch to a model with another window.  The  *)
(* session grows and is edited at any time: an edit cuts the messages and  *)
(* nothing else, so that a record, or a summary being made, may stand for  *)
(* messages that are gone.                                                 *)
(***************************************************************************)
EXTENDS Projection

CONSTANTS
    MaxMessages,        \* bound: messages in the history at a time
    MaxMade,            \* bound: messages ever made
    MaxRecords,         \* bound: summaries ever asked for
    Windows,            \* usable windows of the models, in tokens; 0: unknown
    SummarySizes,       \* lengths of the summaries the model writes
    Overhead,           \* tokens of the system prompt and the tool schemas
    MaxTokens,          \* verbatim_max_tokens_abs
    MinTokens,          \* verbatim_min_tokens
    MinTailTokens,      \* verbatim_min_tail_tokens_abs
    MinTailMessages,    \* verbatim_min_tail_messages
    Reserved,           \* reserved_tail_messages
    SmallWindow,        \* small_window_floor_tokens
    LeastMargin,        \* what a target must clear the tail's floor by
    MaxTranscript,      \* max_transcript_chars
    LeastSummary,       \* floor of the quality gate
    LeastRecord         \* a shorter summary is not taken from the archive

ASSUME PolicyAssumption ==
    {MaxMessages, MaxMade, MaxRecords, Overhead, MaxTokens, MinTokens, MinTailTokens,
     MinTailMessages, Reserved, SmallWindow, LeastMargin, MaxTranscript, LeastSummary,
     LeastRecord} \cup Windows \cup SummarySizes \subseteq Nat

VARIABLES
    messages,   \* Session.messages
    made,       \* messages made so far
    archive,    \* CompactionStore: the archived records
    active,     \* CompactionStore: the id of the active record, 0 if none
    job,        \* the plan that is being carried out
    asked,      \* summaries asked for so far
    window,     \* window_usable of the model in use
    fresh       \* history: nothing was added, removed or switched since a summary was stored

vars == <<messages, made, archive, active, job, asked, window, fresh>>
-------------------------------------------------------------------------------
\* A record and, as history, the identities of the messages its summary stands for; the
\* first `cut' of them were left out of what the summariser read, and it was told.
Record == [id: Nat \ {0}, end: Nat, size: Nat, cut: Nat, of: Seq(Nat)]
ASSUME NoRecordAssumption == NoRecord \notin Record

\* What a plan fixes: the end, the previous summary's length, and the messages to be
\* summarised, which are read before the summary is asked for.
Plan == [end: Nat, previous: Nat, of: Seq(Nat), cut: Nat]
NoPlan == [end |-> 0, previous |-> 0, of |-> <<>>, cut |-> 0]

Identities(history) == [i \in DOMAIN history |-> history[i].id]
Larger(a, b) == IF a >= b THEN a ELSE b
Percent(n, w) == (w * n) \div 100
-------------------------------------------------------------------------------
(* Thresholds, in tokens                                                   *)

UsableWindow == IF window >= SmallWindow THEN window ELSE 0

Trigger == Larger(1, IF UsableWindow > 0 THEN Percent(66, UsableWindow) ELSE MaxTokens)
Highest == Larger(Trigger, MinTokens + 1)

MinTail == IF UsableWindow = 0 THEN MinTailTokens
           ELSE Min({MinTailTokens, Percent(25, UsableWindow)})

TargetHigh ==
    LET wanted == Larger(1, Percent(33, UsableWindow))
        floor == MinTail + Larger(LeastMargin, MinTail \div 2)
    IN  IF UsableWindow = 0 THEN Trigger ELSE Larger(wanted, floor)
TargetLow ==
    IF UsableWindow = 0 THEN MinTokens ELSE TargetHigh - Larger(1, TargetHigh \div 4)

\* tail_verbatim_constraints_met: the tail keeps its floors, or the whole history
\* if that has less.
TailOk(start) ==
    LET weight == Suffix(messages, "token")
    IN  /\ Len(messages) - start >= Min({MinTailMessages, Len(messages)})
        /\ weight[start] >= Min({MinTail, weight[0]})

\* What a request would weigh with this record.
Combined(record) ==
    Overhead + SummaryTokens(record)
        + Suffix(messages, "token")[AlignedStart(messages, record.end)]

WithinBounds(record) ==
    /\ MinTokens <= Combined(record) /\ Combined(record) <= Highest
    /\ TailOk(AlignedStart(messages, record.end))
-------------------------------------------------------------------------------
(* Repair                                                                  *)

ActiveRecord ==
    IF \E r \in archive : r.id = active THEN CHOOSE r \in archive : r.id = active
    ELSE NoRecord

CandidatesWithoutTail ==
    {r \in archive : r.end < Len(messages) /\ r.size >= LeastRecord /\ Combined(r) <= Highest}
\* try_rehome_from_archive: the records that would do; the longest is taken.
Candidates ==
    {r \in archive : r.end < Len(messages) /\ r.size >= LeastRecord /\ WithinBounds(r)}
Longest == {r \in Candidates : \A s \in Candidates : s.end <= r.end}

\* repair_active has nothing to do.
InOrder ==
    IF ActiveRecord = NoRecord THEN active = 0 /\ Candidates = {}
    ELSE ActiveRecord.end < Len(messages) /\ WithinBounds(ActiveRecord)

PrunedAbove(records, cap) == {r \in records : r.end <= cap}

RepairUncleared ==
    /\ ~InOrder
    /\ \/ /\ Candidates = {}
          /\ active' = NoRecord
          /\ UNCHANGED archive
       \/ \E chosen \in Longest :
            /\ active' = chosen.id
            /\ archive' = PrunedAbove(archive, chosen.end)
    /\ UNCHANGED <<messages, made, job, asked, window, fresh>>
\* The outcome of repair_active, applied to the store.
Repair ==
    /\ ~InOrder
    /\ \/ /\ Candidates = {}
          /\ active' = 0
          /\ UNCHANGED archive
       \/ \E chosen \in Longest :
            /\ active' = chosen.id
            /\ archive' = PrunedAbove(archive, chosen.end)
    /\ UNCHANGED <<messages, made, job, asked, window, fresh>>
-------------------------------------------------------------------------------
(* Planning                                                                *)

\* compute_ideal_covers_exclusive_end: the largest end whose total falls into the
\* target, or else does not exceed it, or else is not below it.
IdealEnd(overhead) ==
    LET n == Len(messages)
        low == TargetLow
        high == Larger(low + 1, TargetHigh)
        last == IF n > Reserved THEN n - 1 - Reserved ELSE n - 1
        weight == Suffix(messages, "token")
        total(end) == overhead + weight[AlignedStart(messages, end)]
        ends == {end \in 0..last : TailOk(AlignedStart(messages, end))}
        inside == {end \in ends : low <= total(end) /\ total(end) <= high}
        below == {end \in ends : total(end) <= high}
        above == {end \in ends : low <= total(end)}
        best == IF inside # {} THEN Max(inside)
                ELSE IF below # {} THEN Max(below)
                ELSE IF above # {} THEN Max(above) ELSE 0
    IN  AlignedStart(messages, best)

\* plan_new_compaction.  The overhead counts the summary in use, not the one to
\* come.
PlannedEnd ==
    LET previous == IF ActiveRecord = NoRecord THEN 0 ELSE ActiveRecord.end
        overhead == Overhead + IF ActiveRecord = NoRecord THEN 0 ELSE SummaryTokens(ActiveRecord)
        end == IdealEnd(overhead)
    IN  IF \/ Len(messages) < 2
           \/ overhead + Suffix(messages, "token")[previous] <= Trigger
           \/ end <= previous \/ end >= Len(messages)
        THEN 0 ELSE end

\* build_from_scratch_transcript: what does not fit is cut at the earliest end.
\* When not even the last message fits, everything is sent.
TranscriptCut(end) ==
    LET weight == Suffix(messages, "char")
        fitting == {i \in 0..end - 1 : weight[i] - weight[end] <= MaxTranscript}
    IN  IF fitting = {} THEN 0 ELSE Min(fitting)

StartPlan ==
    /\ job = NoPlan /\ asked < MaxRecords
    /\ InOrder
    /\ PlannedEnd > 0
    /\ job' = [end |-> PlannedEnd,
               previous |-> IF ActiveRecord = NoRecord THEN 0 ELSE ActiveRecord.size,
               of |-> SubSeq(Identities(messages), 1, PlannedEnd),
               cut |-> TranscriptCut(PlannedEnd)]
    /\ asked' = asked + 1
    /\ UNCHANGED <<messages, made, archive, active, window, fresh>>

\* quality_gate_check: the length floor; other degenerations are an answer of the
\* model like any other.
PassesGate(size, previous) == size >= Larger(LeastSummary, Percent(40, previous))

\* The summary arrives and is stored, whatever became of the history meanwhile:
\* append_and_activate, which may also prune.
Activate(size, prunes) ==
    LET record == [id |-> asked, end |-> job.end, size |-> size, cut |-> job.cut, of |-> job.of]
        records == archive \cup {record}
    IN  /\ job # NoPlan
        /\ PassesGate(size, job.previous)
        /\ archive' = IF prunes THEN PrunedAbove(records, record.end) ELSE records
        /\ active' = record.id
        /\ job' = NoPlan
        /\ fresh' = TRUE
        /\ UNCHANGED <<messages, made, asked, window>>

\* The model failed, its summary did not pass the gate, or the process died.
Abandon ==
    /\ job # NoPlan
    /\ job' = NoPlan
    /\ UNCHANGED <<messages, made, archive, active, asked, window, fresh>>
-------------------------------------------------------------------------------
(* The session, the user and the model in use                              *)

\* The calls at the end of the history that are not all answered yet.
OpenTurn ==
    {i \in DOMAIN messages :
        /\ IsBatch(messages, i)
        /\ \A j \in i + 1..Len(messages) : IsTool(messages, j)
        /\ Len(messages) - i < messages[i].kind.calls}

\* A run appends: a result only to its turn, a reply only when no call is open.
Grow(kind) ==
    /\ Len(messages) < MaxMessages /\ made < MaxMade
    /\ kind.role = "tool" => OpenTurn # {}
    /\ kind.role = "assistant" => OpenTurn = {}
    /\ messages' = Append(messages,
                          [kind |-> kind, id |-> made + 1,
                           turn |-> IF kind.role = "tool" THEN messages[Max(OpenTurn)].id ELSE 0])
    /\ made' = made + 1
    /\ fresh' = FALSE
    /\ UNCHANGED <<archive, active, job, asked, window>>

\* The user goes back to a message.
Edit(n) ==
    /\ messages' = SubSeq(messages, 1, n)
    /\ fresh' = FALSE
    /\ UNCHANGED <<made, archive, active, job, asked, window>>

SwitchModel(w) ==
    /\ w # window
    /\ window' = w
    /\ fresh' = FALSE
    /\ UNCHANGED <<messages, made, archive, active, job, asked>>
-------------------------------------------------------------------------------
Init ==
    /\ messages = <<>> /\ made = 0
    /\ archive = {} /\ active = 0
    /\ job = NoPlan /\ asked = 0
    /\ window \in Windows /\ fresh = FALSE

Next ==
    \/ Repair
    \/ StartPlan
    \/ \E size \in SummarySizes, prunes \in BOOLEAN : Activate(size, prunes)
    \/ Abandon
    \/ \E kind \in Kinds : Grow(kind)
    \/ \E n \in 0..Len(messages) - 1 : Edit(n)
    \/ \E w \in Windows : SwitchModel(w)

Spec == Init /\ [][Next]_vars
-------------------------------------------------------------------------------
(* Properties                                                              *)

\* The type invariant.
TypeOK ==
    /\ messages \in Seq(Message) /\ Len(messages) <= MaxMessages
    /\ made \in 0..MaxMade /\ asked \in 0..MaxRecords
    /\ archive \subseteq Record /\ active \in 0..MaxRecords
    /\ job \in Plan
    /\ window \in Windows /\ fresh \in BOOLEAN

ToSend == Projected(messages, ActiveRecord)

\* Whatever happened to the history, the archive and the model in use since a
\* summary was made: a message is sent itself, or the summary that is sent stands for
\* it, and was made from a part of what it stands for at least.  Only what was written
\* over an edited part, after the summary was planned, can be hidden by a record that
\* outlived the edit, and only while the history reaches the record's end.
NothingLost ==
    LET wire == ToSend
        HiddenBy(record, i) ==
            /\ i <= record.end /\ record.end <= Len(messages)
            /\ \A k \in DOMAIN record.of : record.of[k] < messages[i].id
    IN  \A i \in DOMAIN messages :
            \/ \E k \in DOMAIN wire : wire[k].id = messages[i].id
            \/ /\ ActiveRecord # NoRecord
               /\ ActiveRecord.cut < ActiveRecord.end
               /\ messages[i].id \in ToSet(ActiveRecord.of) \/ HiddenBy(ActiveRecord, i)

\* Providers reject a tool result that does not follow its calls: wherever a
\* summary ends, a result is sent behind its batch, with only other results of
\* the batch in between.
TurnsWhole ==
    LET wire == ToSend
    IN  \A k \in DOMAIN wire : wire[k].role = "tool" =>
            \E j \in 1..k - 1 :
                /\ wire[j].id = wire[k].turn
                /\ \A l \in j + 1..k : wire[l].role = "tool"

\* What the two sides are known to treat differently: restored results, exempt
\* tools, images beyond those that are kept, and the latest user message, which is
\* sent with more of its text than the judgment counts.
Unruled(start) ==
    \/ ActiveRecord # NoRecord /\ Reinjected(messages, ActiveRecord.end).picked # {}
    \/ \E i \in Tools(messages, start, Len(messages)) : messages[i].kind.exempt
    \/ \E i \in LatestUser(messages, start) :
            ~messages[i].kind.exempt /\ messages[i].kind.size > UserMax
    \/ ImageKeep < MapThenSumSet(LAMBDA i : messages[i].kind.images, start + 1..Len(messages))

\* One ruler: but for those, the repair that judges the active record and the
\* request that is sent come to the same weight, so that neither undoes what the
\* other decided.
OneRuler ==
    LET end == IF ActiveRecord = NoRecord THEN 0 ELSE ActiveRecord.end
        start == AlignedStart(messages, end)
        summary == IF ActiveRecord = NoRecord THEN 0 ELSE SummaryTokens(ActiveRecord)
    IN  InOrder => \/ Unruled(start)
                   \/ WireTokens(ToSend) = summary + Suffix(messages, "token")[start]

\* A repair settles: run again it would change nothing, and the record it leaves
\* active is in the archive.  The choice from the archive and the judgment of the
\* active record are separate code that must agree.
RepairSettles == [][Repair => InOrder']_vars

\* After a summary has been stored, the total has to climb back before the next
\* one is made: without a new message, or another model, none is.
NoOscillation == [][StartPlan => ~fresh]_vars
================================================================================
