---------------------------- MODULE EventBroadcast ----------------------------
(***************************************************************************)
(* What a run promises its subscribers, without connections, queues, locks *)
(* or a store: there is one history of events, and every reader reads it   *)
(* from its beginning, in its order, each event once.                      *)
(***************************************************************************)
EXTENDS Naturals

CONSTANT Readers

VARIABLES
    published,   \* length of the history
    taken        \* per reader: the events it has read

Init ==
    /\ published = 0
    /\ taken = [r \in Readers |-> {}]

Publish ==
    /\ published' = published + 1
    /\ UNCHANGED taken

\* A reader that has read the first k events reads the next one.
Read(r) ==
    \E k \in 0 .. published - 1 :
        /\ taken[r] = 1 .. k
        /\ taken' = [taken EXCEPT ![r] = 1 .. k + 1]
        /\ UNCHANGED published

Next == Publish \/ \E r \in Readers : Read(r)

Spec == Init /\ [][Next]_<<published, taken>>
===============================================================================
