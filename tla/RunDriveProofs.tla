---------------------------- MODULE RunDriveProofs ----------------------------
(***************************************************************************)
(* Proofs about RunDrive, for any number of runs, messages, steps, calls,  *)
(* attempts, rescues and process deaths.                                   *)
(*                                                                         *)
(* The state of the step is kept once, for whichever run is at work.  That *)
(* is sound because of Owner: a run at work is the session's current run   *)
(* and not over, so `start' refuses every other one.  On it rest all the   *)
(* facts about the step.                                                   *)
(***************************************************************************)
EXTENDS RunDrive, TLAPS

\* The task has been created and has not come to Run.finish.
Working == {"created", "opening", "failing", "finalizing"} \cup InLoop

\* Runs that recovery may take up are neither over nor at work.
Supervised ==
    /\ \A r \in Runs : pc[r] \in {"new", "down", "resuming"} => r \notin done
    /\ \A r \in Runs : status[r] = "running" => pc[r] # "new" /\ r \notin done
    /\ \A r \in listed : pc[r] = "down"

Owner == \A r \in Runs : pc[r] \in Working => current = r /\ r \notin done

\* What holds of the step s when run r, at work, is at a place: a call in hand is one
\* of the batch; who backs off has an attempt left; something was begun under a stop
\* only if there is one, and nothing where something is about to begin; the client
\* has nothing of the step when its request goes out, and the stream's text after.
Sound(r, place, s) ==
    /\ place \in {"gated", "executing"} => s.todo > 0
    /\ place = "backoff" => s.attempt < MaxAttempts
    /\ s.begun > 0 => r \in flag
    /\ place \in {"planning", "request", "gated"} => s.begun = 0
    /\ place \in {"created", "opening", "head", "planning", "request", "backoff"} => s.shown = 0
    /\ place = "stream" => s.acc.text = s.shown

StepSound == \A r \in Runs : pc[r] \in Working => Sound(r, pc[r], step)

IInv == TypeOK /\ Supervised /\ Owner /\ StepSound /\ StopObeyed
-------------------------------------------------------------------------------
LEMMA Bounds ==
    /\ MaxText \in Nat /\ MaxRescues \in Nat /\ MaxCrashes \in Nat
    /\ MaxCalls \in Nat /\ MaxCalls > 0 /\ MaxAttempts \in Nat /\ MaxAttempts > 0
BY BoundsAssumption

LEMMA BlankIsStep == Blank \in Step /\ Blank.begun = 0 /\ Blank.shown = 0
BY BoundsAssumption DEF Blank, Step, Nothing, Output

LEMMA InitIInv == Init => IInv
BY NoneAssumption, BoundsAssumption, BlankIsStep
   DEF Init, IInv, TypeOK, Supervised, Owner, StepSound, StopObeyed, Tails, Places, Working, InLoop

\* A run at work goes from one place to another: what it leaves of the step is all
\* that has to be looked at.
LEMMA AtWork ==
    ASSUME IInv, NEW r \in Runs, pc[r] \in Working, NEW place \in Working, Goto(r, place),
           step' \in Step, step'.begun <= 1, Sound(r, place, step'),
           UNCHANGED <<done, flag, pool, current>>, cut' \subseteq Runs, UNCHANGED outside,
           tail' \in Tails, stored' \in Tails, inbox' \in [Messages -> {"new", "step", "turn", "gone"}]
    PROVE  IInv'
<1> USE DEF IInv, outside
<1>1. pc \in [Runs -> Places] /\ pc' = [pc EXCEPT ![r] = place]
  BY DEF Goto, TypeOK
<1>2. Working \subseteq Places
  BY DEF Working, Places
<1>3. pc' \in [Runs -> Places] /\ pc'[r] = place /\ \A s \in Runs \ {r} : pc'[s] = pc[s]
  BY <1>1, <1>2
<1>4. TypeOK'
  BY <1>3 DEF TypeOK
<1>5. place \notin {"new", "down", "resuming"} /\ pc[r] \notin {"new", "down", "resuming"}
  BY DEF Working, InLoop
<1>6. Supervised'
  BY <1>3, <1>5 DEF Supervised, TypeOK
<1>7. Owner'
  BY <1>3 DEF Owner
<1>8. \A s \in Runs \ {r} : pc[s] \notin Working
  BY DEF Owner
<1>9. StepSound'
  <2> SUFFICES ASSUME NEW s \in Runs, pc'[s] \in Working PROVE Sound(s, pc[s], step)'
    BY DEF StepSound, Working, InLoop
  <2>1. s = r
    BY <1>3, <1>8
  <2> QED
    BY <2>1, <1>3 DEF Sound
<1>10. QED
  BY <1>4, <1>6, <1>7, <1>9 DEF StopObeyed

\* The step as it is, and as the helpers make it, is a step.
LEMMA StepTyped ==
    ASSUME IInv, NEW r \in Runs
    PROVE  /\ pc \in [Runs -> Places] /\ step \in Step /\ step.begun \in {0, 1}
           /\ tail \in Tails /\ stored \in Tails
           /\ inbox \in [Messages -> {"new", "step", "turn", "gone"}]
           /\ pc[r] \in Working => Sound(r, pc[r], step)
BY DEF IInv, TypeOK, Step, StopObeyed, StepSound

LEMMA NextStepSound ==
    ASSUME IInv, NEW r \in Runs, pc[r] \in Working, NextStep(r), UNCHANGED <<registry, outside>>,
           tail' \in Tails, stored' \in Tails,
           inbox' \in [Messages -> {"new", "step", "turn", "gone"}]
    PROVE  IInv'
<1>1. step' \in Step /\ step'.begun = step.begun /\ step'.shown = 0
  BY StepTyped, BlankIsStep DEF NextStep, Step, Blank, Nothing
<1>2. Sound(r, "head", step') /\ step'.begun <= 1
  BY <1>1, StepTyped DEF Sound
<1>3. QED
  BY <1>1, <1>2, AtWork DEF NextStep, registry, outside, IInv, TypeOK, Working, InLoop

LEMMA EndSound ==
    ASSUME IInv, NEW r \in Runs, pc[r] \in Working, End(r),
           UNCHANGED <<done, flag, pool, current>>, cut' \subseteq Runs,
           UNCHANGED <<outside, history>>
    PROVE  IInv'
<1>1. Sound(r, "finalizing", step') /\ step' \in Step /\ step'.begun <= 1
  BY BlankIsStep DEF End, Sound
<1>2. QED
  BY <1>1, AtWork, StepTyped DEF End, history, Working

LEMMA NextIInv == IInv /\ [Next]_vars => IInv'
<1> SUFFICES ASSUME IInv, [Next]_vars PROVE IInv'
  OBVIOUS
<1> USE Bounds DEF registry, outside, history
<1>1. ASSUME NEW r \in Runs, Start(r) PROVE IInv'
  <2>1. /\ ~Busy /\ r \notin done /\ Goto(r, "created") /\ current' = r /\ pool' = pool \cup {r}
        /\ step' \in Step /\ step'.begun = 0 /\ step'.shown = 0 /\ tail' = stored
        /\ UNCHANGED <<done, flag, cut, outside, stored, inbox>>
    BY <1>1, BlankIsStep DEF Start, Launch, Step, Blank, Nothing, IInv, Supervised
  <2>2. /\ pc' \in [Runs -> Places] /\ pc'[r] = "created"
        /\ \A s \in Runs \ {r} : pc'[s] = pc[s] /\ pc[s] \notin Working
    BY <2>1, NoneAssumption DEF Goto, IInv, TypeOK, Owner, Busy, Done, Places
  <2>3. TypeOK' /\ Supervised' /\ pc[r] # "down"
    BY <1>1, <2>1, <2>2 DEF IInv, TypeOK, Supervised, Start
  <2>4. Owner' /\ StepSound' /\ StopObeyed'
    BY <2>1, <2>2 DEF Owner, StepSound, StopObeyed, Sound
  <2> QED
    BY <2>3, <2>4 DEF IInv
<1>2. ASSUME NEW r \in Runs, Begin(r) PROVE IInv'
  BY <1>2 DEF Begin, IInv, TypeOK, Supervised, Owner, StepSound, StopObeyed, Sound, Working, Places, InLoop, Goto
<1>3. ASSUME NEW r \in Runs, Open(r) PROVE IInv'
  BY <1>3 DEF Open, IInv, TypeOK, Supervised, Owner, StepSound, StopObeyed, Sound, Working, Places, InLoop, Goto, Tails
<1>4. ASSUME NEW r \in Runs, Guard(r) PROVE IInv'
  <2>1. CASE r \in flag
    BY <1>4, <2>1, EndSound DEF Guard, Working, InLoop, IInv, TypeOK
  <2>2. CASE r \notin flag
    <3>1. Sound(r, "head", step) /\ step \in Step /\ step.begun \in {0, 1}
      BY <1>4, StepTyped DEF Guard, Working, InLoop
    <3>2. Sound(r, "planning", step') /\ step' = step
      BY <1>4, <2>2, <3>1 DEF Guard, Sound
    <3> QED
      BY <1>4, <2>2, <3>1, <3>2, AtWork, StepTyped DEF Guard, Working, InLoop, IInv, TypeOK
  <2> QED
    BY <2>1, <2>2
<1>5. ASSUME NEW r \in Runs, Plan(r) PROVE IInv'
  <2>1. Sound(r, "planning", step) /\ step \in Step /\ pc[r] \in Working
    BY <1>5, StepTyped DEF Plan, Working, InLoop
  <2>2. UNCHANGED <<done, flag, cut, pool, current>> /\ UNCHANGED <<outside, history>> /\ cut \subseteq Runs
    BY <1>5 DEF Plan, IInv, TypeOK
  <2>3. CASE End(r)
    BY <1>5, <2>1, <2>3, EndSound DEF Plan, IInv, TypeOK
  <2>4. ASSUME NEW n \in 1..MaxCalls, Goto(r, "tools"),
               step' = [step EXCEPT !.nth = "later", !.todo = n]
        PROVE  IInv'
    <3>1. n \in 0..MaxCalls
      OBVIOUS
    <3>2. step' \in Step
      BY <2>1, <2>4, <3>1, Zenon DEF Step
    <3>3. step'.begun = 0 /\ Sound(r, "tools", step')
      BY <2>1, <2>4 DEF Step, Sound
    <3> QED
      BY <2>1, <2>2, <2>4, <3>2, <3>3, AtWork, StepTyped DEF Working, InLoop
  <2>5. ASSUME Goto(r, "request"),
               step' = [step EXCEPT !.nth = "later", !.attempt = 1,
                                    !.rescue = IF @ = "armed" THEN "applied" ELSE @]
        PROVE  IInv'
    <3>1. 1 \in 0..MaxAttempts
      OBVIOUS
    <3>2. step' \in Step
      BY <2>1, <2>5, <3>1, Zenon DEF Step
    <3>3. step'.begun = 0 /\ Sound(r, "request", step')
      BY <2>1, <2>5 DEF Step, Sound
    <3> QED
      BY <2>1, <2>2, <2>5, <3>2, <3>3, AtWork, StepTyped DEF Working, InLoop
  <2> QED
    BY <1>5, <2>3, <2>4, <2>5, Zenon DEF Plan
<1>6. ASSUME NEW r \in Runs, Answer(r) PROVE IInv'
  <2>1. Sound(r, "planning", step) /\ step \in Step /\ pc[r] \in Working /\ step.begun \in {0, 1}
    BY <1>6, StepTyped DEF Answer, Working, InLoop
  <2>2. 1 \in 0..MaxAttempts
    BY <1>6, <2>1, BlankIsStep DEF Answer, Step, Output, Nothing, Sound
  <2>3. step' = [step EXCEPT !.nth = "later", !.attempt = 1]
    BY <1>6 DEF Answer
  <2>4. step' \in Step
    BY <2>1, <2>2, <2>3, Zenon DEF Step
  <2>5. step'.begun <= 1 /\ Sound(r, "request", step')
    BY <1>6, <2>1, <2>2, <2>3 DEF Answer, Step, Output, Nothing, Sound
  <2> QED
    BY <1>6, <2>1, <2>4, <2>5, AtWork, StepTyped DEF Answer, Working, InLoop, Tails, IInv, TypeOK
<1>7. ASSUME NEW r \in Runs, Send(r) PROVE IInv'
  <2>1. Sound(r, "request", step) /\ step \in Step /\ pc[r] \in Working /\ step.begun \in {0, 1}
    BY <1>7, StepTyped DEF Send, Working, InLoop
  <2>2. Begun(r) \in {0, 1} /\ Begun(r) \in Nat /\ (Begun(r) > 0 => r \in flag) /\ Nothing \in Output
    BY <1>7, <2>1, BlankIsStep DEF Send, Step, Output, Nothing, Sound, Begun
  <2>3. step' = [step EXCEPT !.acc = Nothing, !.begun = Begun(r)]
    BY <1>7 DEF Send
  <2>4. step' \in Step
    BY <2>1, <2>2, <2>3, Zenon DEF Step
  <2>5. step'.begun <= 1 /\ Sound(r, "stream", step')
    BY <2>1, <2>2, <2>3 DEF Step, Nothing, Sound
  <2> QED
    BY <1>7, <2>1, <2>4, <2>5, AtWork, StepTyped DEF Send, Working, InLoop, Tails, IInv, TypeOK
<1>8. ASSUME NEW r \in Runs, Chunk(r) PROVE IInv'
  <2>1. Sound(r, "stream", step) /\ step \in Step /\ pc[r] \in Working /\ step.begun \in {0, 1}
    BY <1>8, StepTyped DEF Chunk, Working, InLoop
  <2>2. CASE End(r)
    BY <1>8, <2>1, <2>2, EndSound DEF Chunk, IInv, TypeOK
  <2>3. CASE r \notin flag
    <3>1. step' \in Step /\ step'.begun = step.begun /\ step'.acc.text = step'.shown
      <4>1. CASE step.acc.text < MaxText /\ step' = [step EXCEPT !.acc.text = @ + 1, !.shown = @ + 1]
        <5>1. step.acc.text + 1 \in 0..MaxText /\ step.shown + 1 \in Nat
          BY <2>1, <4>1 DEF Step, Output
        <5>2. step' \in Step
          BY <2>1, <4>1, <5>1, Zenon DEF Step, Output
        <5> QED
          BY <2>1, <4>1, <5>2 DEF Step, Output, Sound
      <4>2. CASE step' = [step EXCEPT !.acc.think = TRUE]
        BY <2>1, <4>2 DEF Step, Output, Sound
      <4>3. CASE step.acc.calls < MaxCalls /\ step' = [step EXCEPT !.acc.calls = @ + 1]
        <5>1. step.acc.calls + 1 \in 0..MaxCalls
          BY <2>1, <4>3 DEF Step, Output
        <5>2. step' \in Step
          BY <2>1, <4>3, <5>1, Zenon DEF Step, Output
        <5> QED
          BY <2>1, <4>3, <5>2 DEF Step, Output, Sound
      <4> QED
        BY <1>8, <2>3, <4>1, <4>2, <4>3, Zenon DEF Chunk
    <3>2. pc' = pc /\ Goto(r, "stream") /\ Sound(r, "stream", step')
      BY <1>8, <2>1, <2>3, <3>1 DEF Chunk, Goto, IInv, TypeOK, Sound
    <3> QED
      BY <1>8, <2>1, <3>1, <3>2, AtWork, StepTyped DEF Chunk, Working, InLoop, IInv, TypeOK
  <2> QED
    BY <1>8, <2>2, <2>3 DEF Chunk
<1>9. ASSUME NEW r \in Runs, Arm(r) PROVE IInv'
  <2>1. Sound(r, "stream", step) /\ step \in Step /\ pc[r] \in Working /\ step.begun \in {0, 1}
    BY <1>9, StepTyped DEF Arm, Working, InLoop
  <2>2. Nothing \in Output /\ step.rescues + 1 \in 0..MaxRescues
    BY <1>9, <2>1, BlankIsStep DEF Arm, Step, Output, Nothing, Sound, Rescuable
  <2>3. step' = [step EXCEPT !.acc = Nothing, !.rescue = "armed", !.rescues = @ + 1]
    BY <1>9 DEF Arm
  <2>4. step' \in Step
    BY <2>1, <2>2, <2>3, Zenon DEF Step
  <2>5. step'.begun <= 1 /\ Sound(r, "judging", step')
    BY <2>1, <2>2, <2>3 DEF Step, Sound
  <2> QED
    BY <1>9, <2>1, <2>4, <2>5, AtWork, StepTyped DEF Arm, Working, InLoop, Tails, IInv, TypeOK
<1>10. ASSUME NEW r \in Runs, Land(r) PROVE IInv'
  <2>1. Sound(r, "stream", step) /\ step \in Step /\ pc[r] \in Working /\ step.begun \in {0, 1}
    BY <1>10, StepTyped DEF Land, Working, InLoop
  <2>2. /\ step' \in Step /\ step'.begun = step.begun
        /\ Sound(r, "tools", step') /\ Sound(r, "judging", step')
    <3>1. Nothing \in Output /\ 0 \in 0..MaxAttempts /\ 0 \in Nat /\ step.acc.calls \in 0..MaxCalls
      BY <2>1 DEF Nothing, Output, Step
    <3>2. step' = [step EXCEPT !.acc = Nothing, !.shown = 0, !.attempt = 0, !.rescue = "none",
                               !.todo = step.acc.calls]
      BY <1>10 DEF Land
    <3>3. step' \in Step
      BY <2>1, <3>1, <3>2, Zenon DEF Step
    <3> QED
      BY <2>1, <3>2, <3>3 DEF Step, Sound
  <2>3. tail' \in Tails /\ stored' \in Tails
    BY <1>10, StepTyped DEF Land, Reply, Tails
  <2>4. Goto(r, "tools") \/ Goto(r, "judging")
    BY <1>10 DEF Land
  <2> QED
    BY <1>10, <2>1, <2>2, <2>3, <2>4, AtWork, StepTyped DEF Land, Working, InLoop, IInv, TypeOK
<1>11. ASSUME NEW r \in Runs, Retry(r) PROVE IInv'
  BY <1>11 DEF Retry, IInv, TypeOK, Supervised, Owner, StepSound, StopObeyed, Sound, Working, Places, InLoop, Goto, Step
<1>12. ASSUME NEW r \in Runs, Resend(r) PROVE IInv'
  <2>1. Sound(r, "backoff", step) /\ step \in Step /\ pc[r] \in Working /\ step.begun \in {0, 1}
    BY <1>12, StepTyped DEF Resend, Working, InLoop
  <2>2. CASE r \in flag
    BY <1>12, <2>1, <2>2, EndSound DEF Resend, IInv, TypeOK
  <2>3. CASE r \notin flag
    <3>1. step' \in Step /\ step'.begun = 0 /\ Sound(r, "request", step') /\ Goto(r, "request")
      BY <1>12, <2>1, <2>3 DEF Resend, Step, Sound
    <3> QED
      BY <1>12, <2>1, <3>1, AtWork, StepTyped DEF Resend, Working, InLoop, IInv, TypeOK
  <2> QED
    BY <2>2, <2>3
<1>13. ASSUME NEW r \in Runs, Call(r) PROVE IInv'
  <2>1. Sound(r, "tools", step) /\ step \in Step /\ pc[r] \in Working /\ step.begun \in {0, 1}
    BY <1>13, StepTyped DEF Call, Working, InLoop
  <2>2. CASE step.todo > 0 /\ r \in flag
    BY <1>13, <2>1, <2>2, EndSound DEF Call, IInv, TypeOK
  <2>3. CASE ~(step.todo > 0 /\ r \in flag)
    <3> DEFINE place == IF step.todo = 0 THEN "boundary" ELSE "gated"
    <3>1. step' = step /\ Sound(r, place, step') /\ Goto(r, place)
      BY <1>13, <2>1, <2>3 DEF Call, Step, Sound
    <3> QED
      BY <1>13, <2>1, <3>1, AtWork, StepTyped DEF Call, Working, InLoop, IInv, TypeOK
  <2> QED
    BY <2>2, <2>3
<1>14. ASSUME NEW r \in Runs, Gate(r) PROVE IInv'
  <2>1. Sound(r, "gated", step) /\ step \in Step /\ pc[r] \in Working /\ step.begun \in {0, 1}
    BY <1>14, StepTyped DEF Gate, Working, InLoop
  <2>2. CASE Suspend(r)
    BY <1>14, <2>1, <2>2, EndSound DEF Gate, Suspend, IInv, TypeOK
  <2>3. CASE Answered(r)
    <3>1. step' \in Step /\ step'.begun = step.begun /\ Sound(r, "tools", step')
      BY <2>1, <2>3 DEF Answered, Step, Sound
    <3> QED
      BY <1>14, <2>1, <2>3, <3>1, AtWork, StepTyped
         DEF Gate, Answered, Working, InLoop, Tails, IInv, TypeOK
  <2>4. CASE Goto(r, "executing") /\ step' = [step EXCEPT !.begun = Begun(r)] /\ UNCHANGED <<tail, stored>>
    <3>1. step' \in Step /\ step'.begun <= 1 /\ Sound(r, "executing", step')
      BY <2>1, <2>4 DEF Begun, Step, Sound
    <3> QED
      BY <1>14, <2>1, <2>4, <3>1, AtWork, StepTyped DEF Gate, Working, InLoop, IInv, TypeOK
  <2> QED
    BY <1>14, <2>2, <2>3, <2>4 DEF Gate
<1>15. ASSUME NEW r \in Runs, Return(r) PROVE IInv'
  <2>1. Sound(r, "executing", step) /\ step \in Step /\ pc[r] \in Working /\ step.begun \in {0, 1}
    BY <1>15, StepTyped DEF Return, Working, InLoop
  <2>2. CASE Suspend(r)
    BY <1>15, <2>1, <2>2, EndSound DEF Return, Suspend, IInv, TypeOK
  <2>3. CASE Answered(r)
    <3>1. step' \in Step /\ step'.begun = step.begun /\ Sound(r, "tools", step')
      BY <2>1, <2>3 DEF Answered, Step, Sound
    <3> QED
      BY <1>15, <2>1, <2>3, <3>1, AtWork, StepTyped
         DEF Return, Answered, Working, InLoop, Tails, IInv, TypeOK
  <2> QED
    BY <1>15, <2>2, <2>3 DEF Return
<1>16. ASSUME NEW r \in Runs, Boundary(r) PROVE IInv'
  <2>1. tail' \in Tails /\ stored' \in Tails /\ inbox' \in [Messages -> {"new", "step", "turn", "gone"}]
    BY <1>16, StepTyped DEF Boundary, Arrive, Tails
  <2> QED
    BY <1>16, <2>1, NextStepSound DEF Boundary, Working, InLoop
<1>17. ASSUME NEW r \in Runs, Judge(r) PROVE IInv'
  <2>1. CASE End(r) /\ UNCHANGED history
    BY <1>17, <2>1, EndSound DEF Judge, Working, InLoop, IInv, TypeOK
  <2>2. CASE NextStep(r) /\ (UNCHANGED history \/ Arrive(Polled("turn")))
    <3>1. tail' \in Tails /\ stored' \in Tails /\ inbox' \in [Messages -> {"new", "step", "turn", "gone"}]
      BY <2>2, StepTyped DEF Arrive, Tails
    <3> QED
      BY <1>17, <2>2, <3>1, NextStepSound DEF Judge, Working, InLoop
  <2> QED
    BY <1>17, <2>1, <2>2 DEF Judge
<1>18. ASSUME NEW r \in Runs, Raise(r) PROVE IInv'
  BY <1>18, BlankIsStep DEF Raise, IInv, TypeOK, Supervised, Owner, StepSound, StopObeyed, Sound, Working, Places, InLoop, Goto
<1>19. ASSUME NEW r \in Runs, Report(r) PROVE IInv'
  BY <1>19, BlankIsStep DEF Report, End, IInv, TypeOK, Supervised, Owner, StepSound, StopObeyed, Sound, Working, Places, InLoop, Goto
<1>20. ASSUME NEW r \in Runs, Finish(r) PROVE IInv'
  BY <1>20, BlankIsStep DEF Finish, IInv, TypeOK, Supervised, Owner, StepSound, StopObeyed, Sound, Working, Places, InLoop, Goto
<1>21. ASSUME NEW r \in Runs, Settle(r) PROVE IInv'
  BY <1>21 DEF Settle, IInv, TypeOK, Supervised, Owner, StepSound, StopObeyed, Sound, Working, Places, InLoop, Goto, Leave
<1>22. ASSUME NEW r \in Runs, Recover(r) PROVE IInv'
  BY <1>22 DEF Recover, IInv, TypeOK, Supervised, Owner, StepSound, StopObeyed, Sound, Working, Places, InLoop, Goto
<1>23. ASSUME NEW r \in Runs, Resume(r) PROVE IInv'
  <2>1. /\ ~Busy /\ r \notin done /\ Goto(r, "created") /\ current' = r /\ pool' = pool \cup {r}
        /\ step' \in Step /\ step'.begun = 0 /\ step'.shown = 0 /\ tail' = stored
        /\ UNCHANGED <<done, flag, cut, outside, stored, inbox>>
    BY <1>23, BlankIsStep DEF Resume, Launch, Step, Blank, Nothing, IInv, Supervised
  <2>2. /\ pc' \in [Runs -> Places] /\ pc'[r] = "created"
        /\ \A s \in Runs \ {r} : pc'[s] = pc[s] /\ pc[s] \notin Working
    BY <2>1, NoneAssumption DEF Goto, IInv, TypeOK, Owner, Busy, Done, Places
  <2>3. TypeOK' /\ Supervised' /\ pc[r] # "down"
    BY <1>23, <2>1, <2>2 DEF IInv, TypeOK, Supervised, Resume
  <2>4. Owner' /\ StepSound' /\ StopObeyed'
    BY <2>1, <2>2 DEF Owner, StepSound, StopObeyed, Sound
  <2> QED
    BY <2>3, <2>4 DEF IInv
<1>24. ASSUME NEW r \in Runs, Refuse(r) PROVE IInv'
  BY <1>24 DEF Refuse, IInv, TypeOK, Supervised, Owner, StepSound, StopObeyed, Sound, Working, Places, InLoop, Goto
<1>25. ASSUME NEW r \in Runs, Watch(r) PROVE IInv'
  BY <1>25 DEF Watch, IInv, TypeOK, Supervised, Owner, StepSound, StopObeyed, Sound, Working, Places, InLoop, Goto, SetFlag
<1>26. ASSUME NEW r \in Runs, Cancel(r) PROVE IInv'
  <2>1. CASE pc[r] = "created" /\ Goto(r, "over") /\ UNCHANGED <<step, pool, current>>
    BY <1>26, <2>1 DEF Cancel, IInv, TypeOK, Supervised, Owner, StepSound, StopObeyed, Sound, Working, Places, InLoop, Goto
  <2>2. CASE pc[r] \in {"opening", "failing", "finalizing"} /\ Leave(r) /\ UNCHANGED step
    BY <1>26, <2>2 DEF Cancel, Leave, IInv, TypeOK, Supervised, Owner, StepSound, StopObeyed, Sound, Working, Places, InLoop, Goto
  <2>3. CASE pc[r] \in InLoop /\ End(r) /\ UNCHANGED <<pool, current>>
    <3>1. cut' \subseteq Runs
      BY <1>26 DEF Cancel, IInv, TypeOK
    <3> QED
      BY <1>26, <2>3, <3>1, EndSound DEF Cancel, Working
  <2> QED
    BY <1>26, <2>1, <2>2, <2>3 DEF Cancel
<1>27. ASSUME NEW r \in Runs, Stop(r) PROVE IInv'
  BY <1>27 DEF Stop, IInv, TypeOK, Supervised, Owner, StepSound, StopObeyed, Sound, Working, Places, InLoop, Goto, SetFlag
<1>28. ASSUME NEW r \in Runs, RequestStop(r) PROVE IInv'
  BY <1>28 DEF RequestStop, IInv, TypeOK, Supervised, Owner, StepSound, StopObeyed, Sound, Working, Places, InLoop, Goto
<1>29. ASSUME NEW m \in Messages, NEW when \in {"step", "turn"}, Deliver(m, when) PROVE IInv'
  BY <1>29 DEF Deliver, IInv, TypeOK, Supervised, Owner, StepSound, StopObeyed, Sound, Working, Places, InLoop, Goto
<1>30. ASSUME Crash PROVE IInv'
  BY <1>30, BlankIsStep DEF Crash, Done, IInv, TypeOK, Supervised, Owner, StepSound, StopObeyed, Sound, Working, Places, InLoop, Goto
<1>31. ASSUME UNCHANGED vars PROVE IInv'
  BY <1>31 DEF vars, IInv, TypeOK, Supervised, Owner, StepSound, StopObeyed, Sound, Working, Places, InLoop, Goto
<1>32. QED
  BY <1>1, <1>2, <1>3, <1>4, <1>5, <1>6, <1>7, <1>8, <1>9, <1>10, <1>11, <1>12, <1>13, <1>14, <1>15, <1>16, <1>17, <1>18, <1>19, <1>20, <1>21, <1>22, <1>23, <1>24, <1>25, <1>26, <1>27, <1>28, <1>29, <1>30, <1>31
     DEF Next, TaskStep
-------------------------------------------------------------------------------
LEMMA Invariant == Spec => []IInv
BY InitIInv, NextIInv, PTL DEF Spec

\* Every reachable state is well typed (drive, loop, run_step, RunPool).
THEOREM TypeCorrect == Spec => []TypeOK
BY Invariant, PTL DEF IInv

\* A stop is obeyed at the next checkpoint, however large the batch, however many the
\* retries, and whichever way the stop came (run_step, stream_llm, loop).
THEOREM StopIsObeyed == Spec => []StopObeyed
BY Invariant, PTL DEF IInv

\* What the client is shown of a step is what is kept of it, after any number of
\* attempts (stream_llm, consume_stream).
THEOREM ShownKept == Spec => []ShownIsKept
<1>1. IInv => ShownIsKept
  BY DEF IInv, StepSound, Sound, ShownIsKept, Working, InLoop
<1> QED
  BY <1>1, Invariant, PTL

\* With any number of messages: those for the turn wait for its end, and a run that
\* concludes leaves none behind (pending_step_input, should_continue, poll).
THEOREM MessagesServed == Spec => InboxServed
<1>1. ASSUME IInv, NEW r \in Runs, Boundary(r), NEW m \in Messages, inbox[m] = "turn"
      PROVE  inbox'[m] = "turn"
  BY <1>1 DEF Boundary, Arrive, Polled
<1>2. ASSUME IInv, NEW r \in Runs, Judge(r), pc'[r] = "finalizing", NEW m \in Messages
      PROVE  inbox[m] \notin {"step", "turn"}
  <2>1. ~NextStep(r)
    BY <1>2 DEF NextStep, Goto, IInv, TypeOK
  <2> QED
    BY <1>2, <2>1 DEF Judge, Polled
<1>3. IInv => InboxServed!1
  BY <1>1, <1>2
<1> QED
  BY <1>3, Invariant, PTL DEF InboxServed

\* With any number of rescues: one that is due is made before the run may conclude, and
\* a turn without anything to see is kept only when no rescue is left, or when the
\* rescue brought nothing itself (arm_reply_rescue, absorb_reply_rescue).
THEOREM RescueFirst == Spec => NotSilent
<1>1. ASSUME IInv, NEW r \in Runs, Land(r), tail' = "mute", tail # "mute", step.rescue # "applied"
      PROVE  step.rescues = MaxRescues
  <2>1. step \in Step /\ step.acc \in Output /\ step.rescues \in 0..MaxRescues
    BY <1>1, StepTyped DEF Step
  <2>2. Silent
    BY <1>1, <2>1 DEF Land, Reply, Silent, Output
  <2> QED
    BY <1>1, <2>1, <2>2, Bounds DEF Land, Rescuable
<1>2. ASSUME IInv, NEW r \in Runs, Judge(r), pc'[r] = "finalizing"
      PROVE  step.rescue # "armed"
  <2>1. ~NextStep(r)
    BY <1>2 DEF NextStep, Goto, IInv, TypeOK
  <2> QED
    BY <1>2, <2>1 DEF Judge
<1>3. IInv => NotSilent!1
  BY <1>1, <1>2
<1> QED
  BY <1>3, Invariant, PTL DEF NotSilent
===============================================================================
