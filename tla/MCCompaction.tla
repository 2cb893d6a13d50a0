----------------------------- MODULE MCCompaction -----------------------------
(***************************************************************************)
(* Compaction with kinds of messages for TLC.                              *)
(***************************************************************************)
EXTENDS Compaction

Plain(role, size) == [role |-> role, size |-> size, args |-> 0, calls |-> 0, images |-> 0,
                      note |-> 0, exempt |-> FALSE]

Question == [Plain("user", 4) EXCEPT !.images = 1, !.note = 1]
Paste == Plain("user", 12)
Reminder == [Plain("user", 9) EXCEPT !.exempt = TRUE]
Batch == [Plain("assistant", 1) EXCEPT !.args = 6, !.calls = 2]
Line == Plain("tool", 2)
Output == Plain("tool", 20)
Document == [Plain("tool", 10) EXCEPT !.exempt = TRUE]

MixedKinds == {Question, Paste, Reminder, Batch, Line, Output, Document}
================================================================================
