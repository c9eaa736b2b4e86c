--------------------------- MODULE TemporalProofs ---------------------------
(***************************************************************************)
(* Theorems about the supervised run: what a lost answer or a decision     *)
(* beside the workflow can do to it, and that nothing else can.            *)
(***************************************************************************)
EXTENDS Temporal, TLAPS

\* A request is only open for an action that is still to come.
Typed == TypeOK /\ (request # "none" => done < Gates)

\* A grant not yet recorded by a workflow that took up its signal.
Owed == stage = "recording" /\ (awaited = None \/ pc[awaited] # "decided")

Unit(b) == IF b THEN 1 ELSE 0

\* The server waits for an attempt of the activity of its stage.
AwaitedOfStage ==
    awaited # None =>
        \/ stage = "executing" /\ ~Deciding(awaited)
        \/ stage = "recording" /\ (pc[awaited] = "free" \/ Deciding(awaited))

\* The grants heard of, the flag and the approval being recorded were each
\* signalled.
SignalsCover == grants + Unit(approved) + Unit(Owed) <= signals + unheard

\* While nobody else decides, an awaited execute_run that has asked still finds
\* its request, and what it answers is a pause or the end of the run.
AnswersSettle ==
    Undisturbed /\ awaited # None =>
        /\ pc[awaited] = "reload" => request = "asked"
        /\ pc[awaited] = "answer" => status[awaited] \in {"completed", "paused"}

\* An answer of completion, heard or not, is true.
CompletionsTrue ==
    \A a \in Attempts : pc[a] = "answer" /\ status[a] = "completed" => finished

Inv ==
    /\ Typed
    /\ AwaitedOfStage
    /\ SignalsCover
    /\ AnswersSettle
    /\ CompletionsTrue
    /\ ReturnsWhenDone

USE DEF run, worker, workflow, ledger, Goto, Retry, Fault, Deciding, Unhear, Release, Driving,
        Answer

-----------------------------------------------------------------------------
LEMMA TypedInit == Init => Typed
<1> SUFFICES ASSUME Init PROVE Typed
  OBVIOUS
<1> USE TemporalAssumption DEF Init, Statuses, Requests
<1>1. pc \in [Attempts -> {"free", "acquire", "drive", "reload", "answer",
                          "decide", "decided"}]
  OBVIOUS
<1>2. status \in [Attempts -> Statuses]
  OBVIOUS
<1>3. /\ done \in 0..Gates /\ signals \in Nat /\ faults \in Nat
      /\ grants \in Nat /\ unheard \in Nat /\ others \in Nat
      /\ request # "none" => done < Gates
  OBVIOUS
<1>4. finished \in BOOLEAN /\ approved \in BOOLEAN
  BY Zenon
<1>5. /\ request \in Requests /\ outcome \in Statuses
      /\ lease \in Attempts \cup {None, Gone} /\ awaited \in Attempts \cup {None}
      /\ stage \in {"executing", "waiting", "recording", "returned"}
  OBVIOUS
<1> QED
  BY <1>1, <1>2, <1>3, <1>4, <1>5, Zenon DEF Typed, TypeOK

LEMMA TypedNext == Typed /\ [Next]_vars => Typed'
<1> SUFFICES ASSUME Typed, [Next]_vars PROVE Typed'
  OBVIOUS
<1> USE TemporalAssumption DEF Typed, TypeOK, Statuses, Requests
<1>1. CASE Signal
  BY <1>1 DEF Signal
<1>2. CASE Wake
  BY <1>2 DEF Wake
<1>3. CASE GiveUp
  BY <1>3 DEF GiveUp
<1>4. CASE Lapse
  BY <1>4 DEF Lapse
<1>5. ASSUME NEW a \in Attempts, Schedule(a) PROVE Typed'
  BY <1>5 DEF Schedule
<1>6. ASSUME NEW a \in Attempts, Acquire(a) PROVE Typed'
  BY <1>6 DEF Acquire
<1>7. ASSUME NEW a \in Attempts, Ask(a) PROVE Typed'
  BY <1>7 DEF Ask
<1>8. ASSUME NEW a \in Attempts, Act(a) PROVE Typed'
  BY <1>8 DEF Act
<1>9. ASSUME NEW a \in Attempts, Conclude(a) PROVE Typed'
  BY <1>9 DEF Conclude
<1>10. ASSUME NEW a \in Attempts, Pause(a) PROVE Typed'
  BY <1>10 DEF Pause, Status
<1>11. ASSUME NEW a \in Attempts, Raise(a) PROVE Typed'
  BY <1>11 DEF Raise
<1>12. ASSUME NEW a \in Attempts, Decide(a) PROVE Typed'
  BY <1>12 DEF Decide
<1>13. ASSUME NEW a \in Attempts, Complete(a) PROVE Typed'
  BY <1>13 DEF Complete, Follow
<1>14. ASSUME NEW a \in Attempts, Die(a) PROVE Typed'
  BY <1>14 DEF Die
<1>15. CASE Intervene
  BY <1>15 DEF Intervene
<1>16. CASE UNCHANGED vars
  BY <1>16 DEF vars
<1> QED
  BY <1>1, <1>2, <1>3, <1>4, <1>5, <1>6, <1>7, <1>8, <1>9, <1>10, <1>11, <1>12,
     <1>13, <1>14, <1>15, <1>16 DEF Next, Execute

\* The types of the run, the attempts and the workflow; in particular no more
\* actions are done than the run has.
THEOREM TypeCorrect == Spec => []TypeOK
<1>1. Typed => TypeOK
  BY DEF Typed
<1> QED
  BY TypedInit, TypedNext, <1>1, PTL DEF Spec

-----------------------------------------------------------------------------
LEMMA InvInit == Init => Inv
<1> SUFFICES ASSUME Init PROVE Inv
  OBVIOUS
<1>1. Typed
  BY TypedInit
<1> QED
  BY <1>1, TemporalAssumption
  DEF Init, Inv, AwaitedOfStage, SignalsCover, AnswersSettle, CompletionsTrue,
      ReturnsWhenDone, Owed, Unit

LEMMA InvNext == Inv /\ [Next]_vars => Inv'
<1> SUFFICES ASSUME Inv, [Next]_vars PROVE Inv'
  OBVIOUS
<1>0. Typed'
  BY TypedNext DEF Inv
<1> DEFINE Rest == /\ AwaitedOfStage /\ SignalsCover /\ AnswersSettle
                   /\ CompletionsTrue /\ ReturnsWhenDone
<1> SUFFICES Rest'
  BY <1>0 DEF Inv
<1> USE TemporalAssumption, <1>0
    DEF Inv, Typed, TypeOK, Statuses, Requests, AwaitedOfStage,
        SignalsCover, AnswersSettle, CompletionsTrue, Undisturbed, ReturnsWhenDone, Owed, Unit
<1>1. CASE Signal
  BY <1>1 DEF Signal
<1>2. CASE Wake
  BY <1>2 DEF Wake
<1>3. CASE GiveUp
  BY <1>3 DEF GiveUp
<1>4. CASE Lapse
  BY <1>4 DEF Lapse
<1>5. ASSUME NEW a \in Attempts, Schedule(a) PROVE Rest'
  BY <1>5 DEF Schedule
<1>6. ASSUME NEW a \in Attempts, Acquire(a) PROVE Rest'
  BY <1>6 DEF Acquire
<1>7. ASSUME NEW a \in Attempts, Ask(a) PROVE Rest'
  BY <1>7 DEF Ask
<1>8. ASSUME NEW a \in Attempts, Act(a) PROVE Rest'
  BY <1>8 DEF Act
<1>9. ASSUME NEW a \in Attempts, Conclude(a) PROVE Rest'
  BY <1>9 DEF Conclude
<1>10. ASSUME NEW a \in Attempts, Pause(a) PROVE Rest'
  BY <1>10 DEF Pause, Status
<1>11. ASSUME NEW a \in Attempts, Raise(a) PROVE Rest'
  BY <1>11 DEF Raise
<1>12. ASSUME NEW a \in Attempts, Decide(a) PROVE Rest'
  <2>1. awaited = a => stage = "recording"
    BY <1>12 DEF Decide
  <2>2. CASE request = "asked"
    <3>1. AwaitedOfStage' /\ CompletionsTrue'
      BY <1>12, <2>1, <2>2 DEF Decide
    <3>2. SignalsCover'
      BY <1>12, <2>1, <2>2 DEF Decide
    <3>3. AnswersSettle' /\ ReturnsWhenDone'
      BY <1>12, <2>1, <2>2 DEF Decide
    <3> QED
      BY <3>1, <3>2, <3>3
  <2>3. CASE request # "asked"
    <3>1. AwaitedOfStage' /\ CompletionsTrue'
      BY <1>12, <2>1, <2>3 DEF Decide
    <3>2. SignalsCover'
      BY <1>12, <2>1, <2>3 DEF Decide
    <3>3. AnswersSettle' /\ ReturnsWhenDone'
      BY <1>12, <2>1, <2>3 DEF Decide
    <3> QED
      BY <3>1, <3>2, <3>3
  <2> QED
    BY <2>2, <2>3
<1>13. ASSUME NEW a \in Attempts, Complete(a) PROVE Rest'
  BY <1>13 DEF Complete, Follow
<1>14. ASSUME NEW a \in Attempts, Die(a) PROVE Rest'
  BY <1>14 DEF Die
<1>15. CASE Intervene
  BY <1>15 DEF Intervene
<1>16. CASE UNCHANGED vars
  BY <1>16 DEF vars
<1> QED
  BY <1>1, <1>2, <1>3, <1>4, <1>5, <1>6, <1>7, <1>8, <1>9, <1>10, <1>11, <1>12,
     <1>13, <1>14, <1>15, <1>16 DEF Next, Execute

LEMMA InvAlways == Spec => []Inv
BY InvInit, InvNext, PTL DEF Spec

\* One approval opens a second gate only where a record_approval took effect
\* whose answer was lost, for any number of attempts, gates, faults and decisions
\* beside the workflow.
THEOREM SignalsPay == Spec => []OneGrantPerSignal
<1>1. Inv => OneGrantPerSignal
  BY DEF Inv, Typed, TypeOK, SignalsCover, Unit, OneGrantPerSignal
<1> QED
  BY InvAlways, <1>1, PTL

\* A workflow returns from a run that is not over only where a decision other
\* than its own was taken, or one of its own whose answer was lost.
THEOREM ReturnsSettled == Spec => []ReturnsWhenDone
<1>1. Inv => ReturnsWhenDone
  BY DEF Inv
<1> QED
  BY InvAlways, <1>1, PTL
=============================================================================
