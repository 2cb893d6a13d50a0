------------------------------ MODULE Projection ------------------------------
(***************************************************************************)
(* How a history is weighed and how it is sent: the pure functions of      *)
(* engine/compaction.py that the compaction judgment and the projection    *)
(* share.                                                                  *)
(*                                                                         *)
(* A message is of a kind, which gives its role and the sizes, in          *)
(* characters, of what it carries, and whether trims spare it; a tool      *)
(* result knows the message whose calls it answers.  Text itself is never  *)
(* looked at: of a trim only the length that is left counts.  The switches *)
(* of ProjectionConfig are at their defaults: grading on, every soft trim  *)
(* on.                                                                     *)
(***************************************************************************)
EXTENDS Naturals, Sequences, FiniteSets, FiniteSetsExt, SequencesExt

CONSTANTS
    Kinds,              \* the kinds of messages
    NoRecord,           \* stands for the absence of a summary
    CharsPerToken,      \* latin_chars_per_token, margins included
    ImageTokens,        \* image_tokens
    Notice,             \* length of the text that replaces what a trim omits
    LeastKept,          \* a trim that would keep less keeps the head alone
    ToolMax,            \* tool_soft_trim_max_chars
    ToolEnd,            \* tool_soft_trim_head_chars, and ..._tail_chars
    ToolFullMax,        \* proj_recent_tool_full_max_chars
    FullCount,          \* proj_recent_tool_full_count
    StubAfter,          \* proj_tool_stub_after_count
    StubMin,            \* proj_tool_stub_min_chars
    ImageKeep,          \* proj_recent_image_keep
    UserMax,            \* user_msg_soft_trim_max_chars
    LatestUserMin,      \* user_latest_msg_min_chars
    ArgsMax,            \* toolcall_args_soft_trim_max_chars
    HardMaxChars,       \* verbatim_hard_max_chars
    SafetyChars,        \* safety_chars of the latest user's budget
    SummaryTag,         \* length of SUMMARY_SYSTEM_TAG
    ReinjectCount,      \* reinject_tool_results_count
    ReinjectBudget,     \* reinject_budget_chars
    ReinjectMin,        \* a shorter result is not worth restoring
    Label               \* length of a restored result's label and heading

ASSUME SizesAssumption ==
    {Notice, LeastKept, ToolMax, ToolEnd, ToolFullMax, FullCount, StubAfter, StubMin,
     ImageTokens, ImageKeep, UserMax, LatestUserMin, ArgsMax, HardMaxChars, SafetyChars,
     SummaryTag, ReinjectCount, ReinjectBudget, ReinjectMin, Label} \subseteq Nat
ASSUME RatioAssumption == CharsPerToken \in Nat \ {0}
ASSUME KindsAssumption ==
    Kinds \subseteq [role: {"user", "assistant", "tool"}, size: Nat, args: Nat, calls: Nat,
                     images: Nat, note: Nat, exempt: BOOLEAN]
-------------------------------------------------------------------------------
\* A message: its kind, its identity, and the message whose call it answers.
Message == [kind: Kinds, id: Nat, turn: Nat]

IsTool(history, i) == history[i].kind.role = "tool"
IsBatch(history, i) == history[i].kind.role = "assistant" /\ history[i].kind.calls > 0
Tools(history, from, end) == {i \in from + 1..end : IsTool(history, i)}

AlignedBehindCalls(history, start) ==
    LET before == {i \in 1..start : ~IsTool(history, i)}
    IN  IF start = 0 \/ start >= Len(history) \/ ~IsTool(history, start + 1) THEN start
        ELSE Max(before)
\* The end of the part that is not kept in full, moved so that what is kept does
\* not begin among a turn's results: back to the turn's calls or, when there are
\* none, over the orphans.
AlignedStart(history, start) ==
    LET n == Len(history)
        before == {i \in 1..start : ~IsTool(history, i)}
        after == {i \in start + 1..n : ~IsTool(history, i)}
    IN  IF start = 0 \/ start >= n \/ ~IsTool(history, start + 1) THEN start
        ELSE IF before # {} /\ IsBatch(history, Max(before)) THEN Max(before) - 1
        ELSE Min(after \cup {n + 1}) - 1
-------------------------------------------------------------------------------
(* The ruler                                                               *)

EstimateTokens(chars) == (chars + CharsPerToken - 1) \div CharsPerToken
Weigh(chars, unit) == IF unit = "token" THEN EstimateTokens(chars) ELSE chars
ImageWeight(images, unit) == IF unit = "token" THEN images * ImageTokens ELSE 0

\* Head and tail with a notice in place of the middle.
MiddleOmitted(chars, max) ==
    IF max = 0 \/ chars <= max THEN chars
    ELSE IF max < Notice + LeastKept THEN max + Notice
    ELSE max

\* The same for a tool result, whose head and tail have sizes of their own.
SoftTrimmed(chars, max, end) ==
    LET kept == Min({2 * end, max - Notice})
    IN  IF chars <= max THEN chars
        ELSE IF max < Notice + LeastKept \/ kept = 0 \/ kept >= chars THEN max + Notice
        ELSE kept + Notice

\* Tool results are graded from the end of the whole history.
Tier(history, i) ==
    LET seen == Cardinality(Tools(history, i, Len(history)))
    IN  IF seen < FullCount THEN "full"
        ELSE IF StubAfter > 0 /\ seen >= StubAfter THEN "stub" ELSE "std"

\* What is left of a tool result.  Only a caller that knows the tool's name finds
\* out that the tool is exempt.
ToolText(kind, tier, named) ==
    IF named /\ kind.exempt THEN kind.size
    ELSE CASE tier = "full" -> SoftTrimmed(kind.size, ToolFullMax, ToolFullMax)
           [] tier = "stub" /\ kind.size > StubMin -> Notice
           [] OTHER -> SoftTrimmed(kind.size, ToolMax, ToolEnd)

\* A notification (isMeta) is never trimmed.
UserText(kind, max) == IF kind.exempt THEN kind.size ELSE MiddleOmitted(kind.size, max)

WeightUntrimmed(history, i, unit) ==
    LET kind == history[i].kind
        images == ImageWeight(kind.images, unit)
    IN  CASE kind.role = "user" ->
                 Weigh(UserText(kind, UserMax), unit) + images + Weigh(kind.note, unit)
          [] kind.role = "assistant" ->
                 Weigh(kind.size, unit) + images + Weigh(kind.args, unit)
          [] OTHER -> Weigh(ToolText(kind, Tier(history, i), FALSE), unit)
\* projection_char_weight: what the judgment takes a message to weigh.
Weight(history, i, unit) ==
    LET kind == history[i].kind
        images == ImageWeight(kind.images, unit)
    IN  CASE kind.role = "user" ->
                 Weigh(UserText(kind, UserMax), unit) + images + Weigh(kind.note, unit)
          [] kind.role = "assistant" ->
                 Weigh(kind.size, unit) + images + Weigh(MiddleOmitted(kind.args, ArgsMax), unit)
          [] OTHER -> Weigh(ToolText(kind, Tier(history, i), FALSE), unit)

\* suffix_l1_totals: the weight of what follows the first i messages.
Suffix(history, unit) ==
    LET total[i \in 0..Len(history)] ==
            IF i = Len(history) THEN 0 ELSE total[i + 1] + Weight(history, i + 1, unit)
    IN  total

SummaryTokens(record) == EstimateTokens(SummaryTag + record.size)
-------------------------------------------------------------------------------
(* What is sent                                                            *)

\* The last user message that is kept, and the characters it may have: what the
\* rest leaves of the hard cap, but never less than its floor.
LatestUser(history, start) ==
    {i \in start + 1..Len(history) :
        /\ history[i].kind.role = "user"
        /\ \A j \in i + 1..Len(history) : history[j].kind.role # "user"}

LatestUserBudget(history, start, injected) ==
    LET others == {i \in start + 1..Len(history) : i \notin LatestUser(history, start)}
        spent == injected + SafetyChars
                     + MapThenSumSet(LAMBDA i : Weight(history, i, "char"), others)
    IN  IF spent + LatestUserMin >= HardMaxChars THEN LatestUserMin ELSE HardMaxChars - spent

Wire(role, size, args, images, id, turn) ==
    [role |-> role, size |-> size, args |-> args, images |-> images, id |-> id, turn |-> turn]
System(size) == Wire("system", size, 0, 0, 0, 0)

\* expand_canonical_to_llm_messages, one message: a user's metadata goes first.
Sent(history, i, start, injected) ==
    LET message == history[i]
        kind == message.kind
        budget == IF i \in LatestUser(history, start)
                  THEN LatestUserBudget(history, start, injected) ELSE UserMax
        size == CASE kind.role = "user" -> UserText(kind, budget)
                  [] kind.role = "tool" -> ToolText(kind, Tier(history, i), TRUE)
                  [] OTHER -> kind.size
        body == Wire(kind.role, size, MiddleOmitted(kind.args, ArgsMax), kind.images,
                     message.id, message.turn)
    IN  IF kind.role = "user" /\ kind.note > 0 THEN <<System(kind.note), body>>
        ELSE <<body>>

\* Images are kept from the end; of an older one a line of text remains.
ImagesElided(wire) ==
    LET total == LET from[i \in 1..Len(wire) + 1] ==
                         IF i > Len(wire) THEN 0 ELSE from[i + 1] + wire[i].images
                 IN  from
        kept(i) == Min({wire[i].images, ImageKeep - Min({ImageKeep, total[i + 1]})})
    IN  [i \in DOMAIN wire |->
            [wire[i] EXCEPT !.images = kept(i),
                            !.size = @ + (wire[i].images - kept(i)) * Notice]]

Expanded(history, start, injected) ==
    ImagesElided(FlattenSeq([k \in 1..Len(history) - start |->
                                Sent(history, start + k, start, injected)]))

\* gather_recent_tool_results_for_reinject: from the end of what is summarised
\* backwards, the first results that are long enough, while the budget lasts.
Reinjected(history, end) ==
    LET room == Min({end, Len(history)})
        scan[i \in 0..room] ==
            IF i = room
            THEN [picked |-> {}, used |-> 0, open |-> ReinjectCount > 0 /\ ReinjectBudget > 0]
            ELSE LET s == scan[i + 1]
                     text == SoftTrimmed(history[i + 1].kind.size, ToolMax, ToolEnd)
                 IN  IF ~s.open \/ ~IsTool(history, i + 1) \/ text < ReinjectMin THEN s
                     ELSE IF s.used + text + Label > ReinjectBudget THEN [s EXCEPT !.open = FALSE]
                     ELSE [picked |-> s.picked \cup {i + 1}, used |-> s.used + text + Label,
                           open |-> Cardinality(s.picked) + 1 < ReinjectCount]
    IN  scan[0]

UsableUnchecked(history, record) == record # NoRecord
Usable(history, record) == record # NoRecord /\ record.end <= Len(history)

\* build_llm_messages_with_context_projection: the summary, the restored results,
\* and the rest of the history; all of it when there is no usable summary.
Projected(history, record) ==
    IF ~Usable(history, record) THEN Expanded(history, 0, 0)
    ELSE LET start == AlignedStart(history, record.end)
             restored == Reinjected(history, record.end)
         IN  <<System(SummaryTag + record.size)>>
                 \o (IF restored.picked = {} THEN <<>> ELSE <<System(restored.used)>>)
                 \o Expanded(history, start, SummaryTag + record.size)

\* What a request weighs by the judgment's ruler, laid on what is sent.
WireTokens(wire) ==
    MapThenSumSet(LAMBDA i : EstimateTokens(wire[i].size) + EstimateTokens(wire[i].args)
                                 + ImageWeight(wire[i].images, "token"), DOMAIN wire)
================================================================================
