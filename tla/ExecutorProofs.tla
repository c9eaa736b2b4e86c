--------------------------- MODULE ExecutorProofs ---------------------------
(***************************************************************************)
(* Executing a step of either kind, for any policies, batch and pool, any  *)
(* models, routes, prices, answers and budgets.                            *)
(*                                                                         *)
(* Attempts under a tool policy: Inv tells where the attempts of a call    *)
(* that leaves timeouts alone may be alive.  Model steps: a provider that  *)
(* was asked under a key remembers it (Charging); what is recorded of an   *)
(* answer makes the engine's sums those of the provider's bill (Records,   *)
(* Within); the slots of a stream hold the calls of its answer (SlotsOK),  *)
(* and a listener's last deltas are its text (HeardOK).                    *)
(***************************************************************************)
EXTENDS Executor, FiniteSetTheorems, WellFoundedInduction, TLAPS

\* A step of the executor is one of its tools or one of its model.
LEMMA ToolsAndModel == ExecutorSpec => Spec /\ ModelSpec
<1>1. ExecutorInit => Init /\ ModelInit
  BY DEF ExecutorInit
<1>2. [ExecutorNext]_all => [Next]_vars /\ [ModelNext]_modelVars
  BY DEF ExecutorNext, all
<1> QED
  BY <1>1, <1>2, PTL DEF ExecutorSpec, Spec, ModelSpec

-----------------------------------------------------------------------------
(* Attempts under a tool policy.                                           *)

\* The calls whose policy leaves timeouts alone.
Plain == {c \in Calls : "timeout" \notin Policy[c].retryOn}

\* An attempt of a plain call that is alive is its latest, in one place; none
\* is alive before the first attempt or while the call waits for the next.
LatestOnly ==
    \A c \in Plain :
        /\ \A j \in Alive(c) : j = Job(c) /\ ~(j \in queued /\ j \in running)
        /\ pc[c] \in {"vet", "sleep"} => Alive(c) = {}

\* A call that waits for another attempt has one left.
Spending ==
    \A c \in Calls :
        /\ pc[c] = "sleep" => attempt[c] < Policy[c].retries
        /\ attempt[c] <= Policy[c].retries
        /\ content[c] \in Policy[c].retryOn => attempt[c] = Policy[c].retries

Inv == TypeOK /\ LatestOnly /\ Spending


LEMMA PolicyType ==
    ASSUME NEW c \in Calls
    PROVE  /\ Policy[c].retries \in Nat
           /\ Policy[c].retryOn \subseteq Categories
           /\ Policy[c].async \in BOOLEAN
  BY PolicyAssumption

LEMMA JobType ==
    ASSUME TypeOK, NEW c \in Calls
    PROVE  Job(c) \in Jobs /\ Job(c).call = c /\ Job(c).n = attempt[c]
  BY DEF TypeOK, Job, Jobs

LEMMA InitInv == Init => Inv
<1> SUFFICES ASSUME Init PROVE Inv
  OBVIOUS
<1>1. TypeOK
  BY DEF Init, TypeOK, Contents
<1>2. LatestOnly
  BY DEF Init, LatestOnly, Alive
<1>3. Spending
  BY PolicyType DEF Init, Spending, Categories
<1> QED
  BY <1>1, <1>2, <1>3 DEF Inv

\* What a failure or an answer does to the call's own variables.
LEMMA FailSettles ==
    ASSUME Inv, NEW c \in Calls, pc[c] = "wait", NEW k \in Categories, Fail(c, k),
           UNCHANGED attempt
    PROVE  /\ pc' \in [Calls -> {"vet", "wait", "sleep", "screen", "done"}]
           /\ content' \in [Calls -> Contents]
           /\ \A x \in Calls : pc'[x] \in {"screen", "done"} <=> content'[x] # "none"
           /\ \A x \in Calls : x # c => pc'[x] = pc[x] /\ content'[x] = content[x]
           /\ pc'[c] \in {"sleep", "screen", "done"}
           /\ pc'[c] = "sleep" => k \in Policy[c].retryOn
           /\ Spending'
<1>1. /\ pc \in [Calls -> {"vet", "wait", "sleep", "screen", "done"}]
      /\ content \in [Calls -> Contents]
      /\ \A x \in Calls : pc[x] \in {"screen", "done"} <=> content[x] # "none"
      /\ content[c] = "none"
  BY DEF Inv, TypeOK
<1>2. k \in Contents /\ k # "none" /\ "raised" \in Contents
  BY DEF Contents, Categories
<1>3. "raised" \notin Policy[c].retryOn
  BY PolicyType DEF Categories
<1>4. attempt[c] \in Nat /\ Policy[c].retries \in Nat /\ attempt[c] <= Policy[c].retries
  BY PolicyType DEF Inv, TypeOK, Spending
<1>5. CASE Retries(c, k) /\ Goto(c, "sleep") /\ UNCHANGED content
  BY <1>1, <1>4, <1>5 DEF Retries, Goto, Inv, Spending
<1>6. CASE Answer(c, "raised", "done")
  BY <1>1, <1>2, <1>3, <1>4, <1>6 DEF Answer, Goto, Inv, Spending
<1>7. CASE ~Retries(c, k) /\ Answer(c, k, "screen")
  <2>1. k \in Policy[c].retryOn => attempt[c] = Policy[c].retries
    BY <1>4, <1>7 DEF Retries
  <2> QED
    BY <1>1, <1>2, <1>4, <1>7, <2>1 DEF Answer, Goto, Inv, Spending
<1> QED
  BY <1>5, <1>6, <1>7 DEF Fail

\* Attempts that end or are withdrawn leave no more than there were.
LEMMA FewerAlive ==
    ASSUME Inv, UNCHANGED attempt, queued' \subseteq queued, running' \subseteq running,
           \A c \in Plain : pc'[c] \in {"vet", "sleep"} => pc[c] = pc'[c] \/ Alive(c)' = {}
    PROVE  LatestOnly'
  BY DEF Inv, LatestOnly, Alive, Job

\* Each step keeps the invariant.
LEMMA VetInv == ASSUME Inv, NEW c \in Calls, Vet(c) PROVE Inv'
<1>1. Job(c) \in Jobs /\ Job(c).call = c
  BY JobType DEF Inv
<1>2. TypeOK'
  BY <1>1 DEF Vet, Submit, Answer, Goto, Inv, TypeOK, Contents
<1>3. LatestOnly'
  <2>1. \A x \in Calls : x # c => pc'[x] = pc[x]
    BY DEF Vet, Answer, Goto, Inv, TypeOK
  <2>2. pc'[c] \in {"wait", "done"}
    BY DEF Vet, Answer, Goto, Inv, TypeOK
  <2>3. CASE UNCHANGED <<queued, running>>
    BY <2>1, <2>2, <2>3, FewerAlive DEF Vet, Plain
  <2>4. CASE Submit(Job(c))
    <3>1. c \in Plain => Alive(c) = {}
      BY DEF Vet, Inv, LatestOnly
    <3>2. \A x \in Calls : x # c => Alive(x)' = Alive(x)
      BY <1>1, <2>4 DEF Submit, Alive
    <3>3. c \in Plain => Alive(c)' = {Job(c)} /\ ~(Job(c) \in queued' /\ Job(c) \in running')
      BY <1>1, <2>4, <3>1 DEF Submit, Alive
    <3>4. \A x \in Calls : x # c => \A j \in Alive(x) :
             (j \in queued' <=> j \in queued) /\ (j \in running' <=> j \in running)
      BY <1>1, <2>4 DEF Submit, Alive
    <3>5. \A x \in Calls : Job(x)' = Job(x)
      BY DEF Vet, Job
    <3> QED
      BY <2>1, <2>2, <3>2, <3>3, <3>4, <3>5 DEF Inv, LatestOnly, Plain
  <2> QED
    BY <2>3, <2>4 DEF Vet
<1>4. Spending'
  <2>1. "refused" \notin Policy[c].retryOn /\ "raised" \notin Policy[c].retryOn
    BY PolicyType DEF Categories
  <2> QED
    BY <2>1 DEF Vet, Answer, Goto, Inv, TypeOK, Spending
<1> QED
  BY <1>2, <1>3, <1>4 DEF Inv

LEMMA EndInv ==
    ASSUME Inv, NEW c \in Calls, pc[c] = "wait", Job(c) \in running,
           running' = running \ {Job(c)}, UNCHANGED <<attempt, queued, batch>>,
           NEW k \in Categories, Fail(c, k)
    PROVE  Inv'
<1>1. TypeOK'
  BY FailSettles DEF Inv, TypeOK
<1>2. c \in Plain => Alive(c)' = {}
  BY DEF Inv, LatestOnly, Alive
<1>3. \A x \in Calls : x # c => pc'[x] = pc[x]
  BY FailSettles
<1>4. LatestOnly'
  BY <1>2, <1>3, FewerAlive DEF Plain
<1> QED
  BY <1>1, <1>4, FailSettles DEF Inv

LEMMA ReturnInv == ASSUME Inv, NEW c \in Calls, Return(c) PROVE Inv'
<1>1. CASE Answer(c, "ok", "screen")
  <2>1. TypeOK'
    BY <1>1 DEF Return, Answer, Goto, Inv, TypeOK, Contents
  <2>2. LatestOnly'
    <3>1. \A x \in Calls : x # c => pc'[x] = pc[x]
      BY <1>1 DEF Answer, Goto, Inv, TypeOK
    <3>2. pc'[c] = "screen"
      BY <1>1 DEF Answer, Goto, Inv, TypeOK
    <3> QED
      BY <3>1, <3>2, FewerAlive DEF Return, Plain
  <2>3. "ok" \notin Policy[c].retryOn
    BY PolicyType DEF Categories
  <2>4. Spending'
    BY <1>1, <2>3 DEF Return, Answer, Goto, Inv, TypeOK, Spending
  <2> QED
    BY <2>1, <2>2, <2>4 DEF Inv
<1>2. CASE \E k \in Raises \cup {"validation"} : Fail(c, k)
  <2>1. PICK k \in Raises \cup {"validation"} : Fail(c, k)
    BY <1>2
  <2>2. k \in Categories
    BY <2>1, PolicyAssumption DEF Categories
  <2> QED
    BY <2>1, <2>2, EndInv DEF Return
<1> QED
  BY <1>1, <1>2 DEF Return

LEMMA RaiseInv == ASSUME Inv, NEW c \in Calls, Raise(c) PROVE Inv'
<1>1. PICK k \in Raises : Fail(c, k)
  BY DEF Raise
<1>2. k \in Categories
  BY PolicyAssumption
<1> QED
  BY <1>1, <1>2, EndInv DEF Raise

\* A thread may outlive the timeout of a plain call, but no attempt follows.
LEMMA TimeOutInv == ASSUME Inv, NEW c \in Calls, TimeOut(c) PROVE Inv'
<1>1. pc[c] = "wait" /\ Fail(c, "timeout") /\ "timeout" \in Categories
  BY DEF TimeOut, Categories
<1>2. queued' \subseteq queued /\ running' \subseteq running
  BY DEF TimeOut, Abandon
<1>3. TypeOK'
  BY <1>1, <1>2, FailSettles DEF TimeOut, Inv, TypeOK
<1>4. \A x \in Calls : x # c => pc'[x] = pc[x]
  BY <1>1, FailSettles DEF TimeOut
<1>5. c \in Plain => pc'[c] \notin {"vet", "sleep"}
  BY <1>1, FailSettles DEF TimeOut, Plain
<1>6. LatestOnly'
  BY <1>2, <1>4, <1>5, FewerAlive DEF TimeOut, Plain
<1> QED
  BY <1>1, <1>3, <1>6, FailSettles DEF TimeOut, Inv

LEMMA WakeInv == ASSUME Inv, NEW c \in Calls, Wake(c) PROVE Inv'
<1> DEFINE next == [call |-> c, n |-> attempt[c] + 1]
<1>1. attempt[c] \in Nat /\ Policy[c].retries \in Nat /\ attempt[c] < Policy[c].retries
  BY PolicyType DEF Wake, Inv, TypeOK, Spending
<1>2. next \in Jobs /\ next.call = c
  BY <1>1 DEF Jobs
<1>3. attempt' = [attempt EXCEPT ![c] = attempt[c] + 1] /\ attempt' \in [Calls -> Nat]
  BY <1>1 DEF Wake, Inv, TypeOK
<1>4. Submit(next) /\ pc[c] = "sleep" /\ content' = content /\ batch' = batch
  BY DEF Wake
<1>5. pc' = [pc EXCEPT ![c] = "wait"]
  BY DEF Wake, Goto
<1> HIDE DEF next
<1>6. TypeOK'
  BY <1>2, <1>3, <1>4, <1>5 DEF Submit, Inv, TypeOK
<1>7. \A x \in Calls : x # c => attempt'[x] = attempt[x] /\ pc'[x] = pc[x]
  BY <1>3, <1>5 DEF Inv, TypeOK
<1>8. LatestOnly'
  <2>1. c \in Plain => Alive(c) = {}
    BY <1>4 DEF Inv, LatestOnly
  <2>2. \A x \in Calls : x # c => Alive(x)' = Alive(x) /\ Job(x)' = Job(x)
    BY <1>2, <1>4, <1>7 DEF Submit, Alive, Job
  <2>3. Job(c)' = next
    BY <1>3 DEF Job, next, Inv, TypeOK
  <2>4. c \in Plain => Alive(c)' = {next} /\ ~(next \in queued' /\ next \in running')
    BY <1>2, <1>4, <2>1 DEF Submit, Alive
  <2>5. \A x \in Calls : x # c => \A j \in Alive(x) :
           (j \in queued' <=> j \in queued) /\ (j \in running' <=> j \in running)
    BY <1>2, <1>4 DEF Submit, Alive
  <2>6. pc'[c] = "wait"
    BY <1>5 DEF Inv, TypeOK
  <2> QED
    BY <1>7, <2>2, <2>3, <2>4, <2>5, <2>6 DEF Inv, LatestOnly, Plain
<1>9. Spending'
  <2>1. content[c] = "none"
    BY <1>4 DEF Inv, TypeOK
  <2>2. "none" \notin Policy[c].retryOn
    BY PolicyType DEF Categories
  <2>3. attempt'[c] = attempt[c] + 1 /\ pc'[c] = "wait"
    BY <1>3, <1>5 DEF Inv, TypeOK
  <2>4. attempt'[c] <= Policy[c].retries
    BY <1>1, <2>3
  <2> QED
    BY <1>4, <1>7, <2>1, <2>2, <2>3, <2>4 DEF Inv, Spending
<1> QED
  BY <1>6, <1>8, <1>9 DEF Inv

LEMMA ScreenInv == ASSUME Inv, NEW c \in Calls, Screen(c) PROVE Inv'
<1>1. TypeOK'
  BY DEF Screen, Answer, Goto, Inv, TypeOK, Contents
<1>2. LatestOnly'
  <2>1. \A x \in Calls : pc'[x] = pc[x] \/ pc'[x] = "done"
    BY DEF Screen, Answer, Goto, Inv, TypeOK
  <2> QED
    BY <2>1, FewerAlive DEF Screen, Plain
<1>3. Spending'
  <2>1. "result_blocked" \notin Policy[c].retryOn /\ "raised" \notin Policy[c].retryOn
    BY PolicyType DEF Categories
  <2> QED
    BY <2>1 DEF Screen, Answer, Goto, Inv, TypeOK, Spending
<1> QED
  BY <1>1, <1>2, <1>3 DEF Inv

LEMMA PoolInv ==
    ASSUME Inv, NEW j, (j \in queued /\ Start(j)) \/ (j \in running /\ Drop(j))
    PROVE  Inv'
<1>1. TypeOK' /\ Spending'
  BY DEF Start, Drop, Inv, TypeOK, Spending
<1>2. CASE j \in queued /\ Start(j)
  <2>1. queued' = queued \ {j} /\ running' = running \cup {j} /\ j \in queued
    BY <1>2 DEF Start
  <2>2. \A c \in Calls : Alive(c)' = Alive(c) /\ Job(c)' = Job(c)
    BY <1>2, <2>1 DEF Start, Alive, Job
  <2>3. \A c \in Plain : \A i \in Alive(c) : ~(i \in queued' /\ i \in running')
    BY <2>1 DEF Inv, LatestOnly
  <2>4. LatestOnly'
    BY <1>2, <2>2, <2>3 DEF Start, Inv, LatestOnly, Plain
  <2> QED
    BY <1>1, <2>4 DEF Inv
<1>3. CASE j \in running /\ Drop(j)
  <2>1. LatestOnly'
    BY <1>3, FewerAlive DEF Drop
  <2> QED
    BY <1>1, <2>1 DEF Inv
<1> QED
  BY <1>2, <1>3

LEMMA BatchInv == ASSUME Inv, File \/ Appended \/ Cancel PROVE Inv'
<1>1. StoreJob \in Jobs /\ \A c \in Calls : StoreJob.call # c
  BY PolicyAssumption DEF StoreJob, Jobs
<1>2. CASE File
  <2>1. TypeOK' /\ Spending'
    BY <1>1, <1>2 DEF File, Inv, TypeOK, Spending
  <2>2. \A c \in Calls : Alive(c)' = Alive(c)
    BY <1>1, <1>2 DEF File, Alive
  <2>3. \A c \in Calls : \A j \in Alive(c) :
           (j \in queued' <=> j \in queued) /\ (j \in running' <=> j \in running)
    BY <1>1, <1>2 DEF File, Alive
  <2>4. LatestOnly'
    BY <1>2, <2>2, <2>3 DEF File, Inv, LatestOnly, Plain, Job
  <2> QED
    BY <2>1, <2>4 DEF Inv
<1>3. CASE Appended
  BY <1>3, FewerAlive DEF Appended, Inv, TypeOK, Spending
<1>4. CASE Cancel
  <2>1. TypeOK'
    BY <1>4 DEF Cancel, Threads, Inv, TypeOK, Contents
  <2>2. LatestOnly'
    BY <1>4, FewerAlive DEF Cancel, Threads, Plain
  <2>3. \A c \in Calls : "cancelled" \notin Policy[c].retryOn
    BY PolicyType DEF Categories
  <2>4. Spending'
    BY <1>4, <2>3 DEF Cancel, Inv, TypeOK, Spending
  <2> QED
    BY <2>1, <2>2, <2>4 DEF Inv
<1> QED
  BY <1>2, <1>3, <1>4

LEMMA NextInv == Inv /\ [Next]_vars => Inv'
<1> SUFFICES ASSUME Inv, [Next]_vars PROVE Inv'
  OBVIOUS
<1>1. CASE UNCHANGED vars
  BY <1>1 DEF vars, Inv, TypeOK, LatestOnly, Alive, Job, Spending
<1> QED
  BY <1>1, VetInv, ReturnInv, RaiseInv, TimeOutInv, WakeInv, ScreenInv, PoolInv, BatchInv
  DEF Next

LEMMA InvHolds == ExecutorSpec => []Inv
<1>1. Spec => []Inv
  BY InitInv, NextInv, PTL DEF Spec
<1> QED
  BY <1>1, ToolsAndModel, PTL

\* The dispatch keeps its types, and a call is answered when it is done.
THEOREM TypeCorrect == ExecutorSpec => []TypeOK
<1>1. Inv => TypeOK
  BY DEF Inv
<1> QED
  BY <1>1, InvHolds, PTL

\* run_tool never has two attempts of a call under way unless its policy
\* retries timeouts, although wait_for leaves a timed-out thread running.
THEOREM NoOverlap == ExecutorSpec => []OneAttemptAtATime
<1>1. Inv => OneAttemptAtATime
  BY DEF Inv, LatestOnly, OneAttemptAtATime, Plain
<1> QED
  BY <1>1, InvHolds, PTL

\* run_tool makes no attempt beyond its retries, and reports a failure that it
\* retries only when they are spent.
THEOREM RetriesSpent == ExecutorSpec => []GivesUpWhenSpent
<1>1. Inv => GivesUpWhenSpent
  BY DEF Inv, Spending, GivesUpWhenSpent
<1> QED
  BY <1>1, InvHolds, PTL

-----------------------------------------------------------------------------
(* Model steps.                                                            *)

IsSequence(s) == s \in Seq({s[n] : n \in DOMAIN s})

\* A step in hand is one of the run's, asked for within its budget; what was
\* recorded has an answer it was read from.
StepsOK ==
    /\ route \in [Steps -> Models]
    /\ listening \in BOOLEAN
    /\ at \in {"loop", "asked", "answering", "sleep", "failed", "stopped"}
    /\ tries \in Nat
    /\ charged \in [Steps -> Nat] /\ failed \in [Steps -> Nat]
    /\ IsSequence(decisions) /\ IsSequence(answers) /\ Len(answers) = Len(decisions)
    /\ Len(decisions) <= StepLimit
    /\ at \in {"asked", "answering", "sleep", "failed"} => Current \in Steps
    /\ at = "answering" => reply \in Answers[Model]

\* What is appended to a sequence.
LEMMA AppendedTo ==
    ASSUME NEW s, IsSequence(s), NEW e
    PROVE  /\ IsSequence(Append(s, e))
           /\ Len(s) \in Nat /\ DOMAIN s = 1..Len(s)
           /\ Len(Append(s, e)) = Len(s) + 1
           /\ \A n \in 1..(Len(s) + 1) : Append(s, e)[n] = IF n <= Len(s) THEN s[n] ELSE e
<1> DEFINE S == {s[n] : n \in DOMAIN s} \cup {e}
           t == Append(s, e)
<1>1. s \in Seq(S) /\ e \in S
  <2>1. s \in Seq({s[n] : n \in DOMAIN s})
    BY DEF IsSequence
  <2> QED BY <2>1
<1> HIDE DEF S
<1>2. /\ Len(s) \in Nat /\ DOMAIN s = 1..Len(s)
      /\ Len(t) = Len(s) + 1 /\ DOMAIN t = 1..(Len(s) + 1)
      /\ \A n \in 1..(Len(s) + 1) : t[n] = IF n <= Len(s) THEN s[n] ELSE e
  BY <1>1
<1>3. t \in Seq({t[n] : n \in DOMAIN t})
  <2> DEFINE T == {t[n] : n \in DOMAIN t}
  <2>1. t \in Seq(S)
    BY <1>1
  <2>2. \A n \in 1..Len(t) : t[n] \in T
    BY <1>2
  <2> HIDE DEF t, T
  <2>3. t \in Seq(T)
    BY <2>1, <2>2
  <2> QED BY <2>3 DEF T
<1> QED BY <1>2, <1>3 DEF IsSequence

LEMMA InitSteps == ModelInit => StepsOK
<1> SUFFICES ASSUME ModelInit PROVE StepsOK
  OBVIOUS
<1>1. IsSequence(<<>>) /\ Len(<<>>) = 0
  <2>1. {<<>>[n] : n \in DOMAIN <<>>} = {}
    OBVIOUS
  <2>2. <<>> \in Seq({})
    OBVIOUS
  <2> QED BY <2>1, <2>2 DEF IsSequence
<1>2. route \in [Steps -> Models] /\ StepLimit \in Nat
  BY ModelAssumption DEF ModelInit, Steps
<1> QED BY <1>1, <1>2 DEF ModelInit, StepsOK

LEMMA StepsKept == StepsOK /\ [ModelNext]_modelVars => StepsOK'
<1> SUFFICES ASSUME StepsOK, [ModelNext]_modelVars PROVE StepsOK'
  OBVIOUS
<1> USE DEF StepsOK
<1>0. StepLimit \in Nat
  BY ModelAssumption
<1>1. CASE Ask
  BY <1>1 DEF Ask, Current
<1>2. CASE Stop
  BY <1>2 DEF Stop
<1>3. CASE Hear
  BY <1>3 DEF Hear, Current, Model
<1>4. CASE Record
  <2>1. /\ at = "answering" /\ at' = "loop" /\ tries' = 0
        /\ decisions' = Append(decisions, [model |-> Model, response |-> Read,
                                           usage |-> UsageOf(Model, reply.usage)])
        /\ answers' = Append(answers, reply)
        /\ UNCHANGED <<route, listening, served, charged, failed, resumes>>
    BY <1>4 DEF Record, Leave
  <2>2. /\ IsSequence(decisions') /\ IsSequence(answers')
        /\ Len(decisions') = Len(decisions) + 1 /\ Len(answers') = Len(answers) + 1
    BY <2>1, AppendedTo
  <2>3. Len(decisions) + 1 <= StepLimit
    BY <1>0, <2>1 DEF Current, Steps
  <2> QED BY <2>1, <2>2, <2>3
<1>5. CASE Lose
  BY <1>5 DEF Lose, Current
<1>6. CASE GiveUp
  <2>1. Current \in Steps
    BY <1>6 DEF GiveUp
  <2>2. failed' = [failed EXCEPT ![Current] = @ + 1] /\ failed' \in [Steps -> Nat]
    BY <1>6, <2>1 DEF GiveUp
  <2> HIDE DEF StepsOK
  <2>3. /\ at' = "failed" /\ tries' = 0 /\ Current' = Current
        /\ UNCHANGED <<route, listening, decisions, answers, charged>>
    BY <1>6 DEF GiveUp, Leave, Current
  <2> QED BY <2>1, <2>2, <2>3 DEF StepsOK
<1>7. CASE Retry
  BY <1>7 DEF Retry, Current
<1>8. CASE Resume
  BY <1>8 DEF Resume, Leave
<1>9. ASSUME NEW a \in Answers[Model], at = "asked", Serve(a) PROVE StepsOK'
  <2>1. Current \in Steps /\ Current' = Current /\ Model' = Model
    BY <1>9 DEF Serve, Current, Model
  <2>2. charged' \in [Steps -> Nat]
    BY <1>9, <2>1 DEF Serve
  <2>3. /\ at' = "answering" /\ reply' = a
        /\ UNCHANGED <<route, listening, tries, decisions, answers, failed>>
    BY <1>9 DEF Serve
  <2> QED BY <1>9, <2>1, <2>2, <2>3
<1>10. ASSUME NEW i, Fragment(i) PROVE StepsOK'
  BY <1>10 DEF Fragment, Current, Model
<1>11. CASE UNCHANGED modelVars
  BY <1>11 DEF modelVars, callVars, Current, Model
<1> QED BY <1>1, <1>2, <1>3, <1>4, <1>5, <1>6, <1>7, <1>8, <1>9, <1>10, <1>11 DEF ModelNext

\* A provider that was asked under a key remembers it.
Charging ==
    \A s \in Steps : Adapter[route[s]] = "openai" =>
        /\ charged[s] <= 1 + failed[s]
        /\ charged[s] = 1 + failed[s] => \E held \in served : held.key = <<s, failed[s]>>

LEMMA InitCharging == ModelInit => Charging
BY DEF ModelInit, Charging

LEMMA ChargingKept == StepsOK /\ Charging /\ [ModelNext]_modelVars => Charging'
<1> SUFFICES ASSUME StepsOK, Charging, [ModelNext]_modelVars PROVE Charging'
  OBVIOUS
<1>1. ASSUME UNCHANGED <<route, charged, failed, served>> PROVE Charging'
  BY <1>1 DEF Charging
<1>2. CASE GiveUp
  <2>1. /\ Current \in Steps /\ failed' = [failed EXCEPT ![Current] = @ + 1]
        /\ UNCHANGED <<route, charged, served>>
        /\ charged \in [Steps -> Nat] /\ failed \in [Steps -> Nat]
    BY <1>2 DEF GiveUp, StepsOK
  <2>2. ASSUME NEW s \in Steps, Adapter[route[s]] = "openai"
        PROVE  /\ charged[s] <= 1 + failed'[s]
               /\ charged[s] = 1 + failed'[s] => \E held \in served : held.key = <<s, failed'[s]>>
    <3>1. CASE s = Current
      BY <2>1, <2>2, <3>1 DEF Charging
    <3>2. CASE s # Current
      BY <2>1, <2>2, <3>2 DEF Charging
    <3> QED BY <3>1, <3>2
  <2> QED BY <2>1, <2>2 DEF Charging
<1>3. ASSUME NEW a \in Answers[Model], at = "asked", Serve(a) PROVE Charging'
  <2>1. /\ Current \in Steps /\ UNCHANGED <<route, failed>>
        /\ charged \in [Steps -> Nat] /\ failed \in [Steps -> Nat]
    BY <1>3 DEF Serve, StepsOK
  <2>2. CASE UNCHANGED <<served, charged>>
    BY <1>1, <2>1, <2>2
  <2>3. CASE ~UNCHANGED <<served, charged>>
    <3>1. /\ ~\E held \in served : held.key = Key
          /\ served' = served \cup {[key |-> Key, answer |-> a]}
          /\ charged' = [charged EXCEPT ![Current] = @ + 1]
      BY <1>3, <2>3 DEF Serve
    <3>2. ASSUME NEW s \in Steps, Adapter[route[s]] = "openai"
          PROVE  /\ charged'[s] <= 1 + failed[s]
                 /\ charged'[s] = 1 + failed[s] => \E held \in served' : held.key = <<s, failed[s]>>
      <4>1. CASE s = Current
        <5>1. Key = <<s, failed[s]>>
          BY <4>1 DEF Key
        <5>2. charged[s] <= 1 + failed[s] /\ charged[s] # 1 + failed[s]
          BY <3>1, <3>2, <5>1 DEF Charging
        <5>3. charged'[s] = charged[s] + 1 /\ charged[s] \in Nat /\ failed[s] \in Nat
          BY <2>1, <3>1, <4>1
        <5>4. charged'[s] <= 1 + failed[s]
          BY <5>2, <5>3
        <5>5. \E held \in served' : held.key = <<s, failed[s]>>
          <6> DEFINE new == [key |-> Key, answer |-> a]
          <6>1. new \in served' /\ new.key = Key
            BY <3>1
          <6> QED BY <5>1, <6>1
        <5> QED BY <5>4, <5>5
      <4>2. CASE s # Current
        <5>1. charged'[s] = charged[s] /\ served \subseteq served'
          BY <2>1, <3>1, <4>2
        <5> QED BY <3>2, <5>1 DEF Charging
      <4> QED BY <4>1, <4>2
    <3> QED BY <2>1, <3>2 DEF Charging
  <2> QED BY <2>2, <2>3
<1> QED BY <1>1, <1>2, <1>3 DEF ModelNext, Ask, Stop, Hear, Record, Lose, Retry, Resume, Fragment,
           modelVars

-----------------------------------------------------------------------------
(* Sums.  The two folds take the elements in orders of their own; what     *)
(* they add up is the number of units there are.                           *)

Units(f, s) == UNION {{i} \X (1..f[i]) : i \in s}

Amount(f, s) == Cardinality(Units(f, s))

LEMMA UnitsFinite ==
    ASSUME NEW D, IsFiniteSet(D), NEW f, \A i \in D : f[i] \in Nat, NEW s \in SUBSET D
    PROVE  /\ IsFiniteSet(Units(f, s)) /\ Amount(f, s) \in Nat
           /\ s = {} => Amount(f, s) = 0
<1> DEFINE parts == {{i} \X (1..f[i]) : i \in s}
<1>1. IsFiniteSet(s)
  BY FS_Subset
<1>2. IsFiniteSet(parts)
  <2> DEFINE g == [i \in s |-> {i} \X (1..f[i])]
  <2>1. parts = {g[i] : i \in s}
    OBVIOUS
  <2>2. g \in Surjection(s, parts)
    BY DEF Surjection
  <2> HIDE DEF g, parts
  <2> QED BY <1>1, <2>2, FS_Surjection
<1>3. \A p \in parts : IsFiniteSet(p)
  <2> SUFFICES ASSUME NEW i \in s PROVE IsFiniteSet({i} \X (1..f[i]))
    OBVIOUS
  <2>1. f[i] \in Int
    OBVIOUS
  <2>2. IsFiniteSet({i})
    BY FS_Singleton
  <2>3. IsFiniteSet(1..f[i])
    BY <2>1, FS_Interval
  <2> QED BY <2>2, <2>3, FS_Product
<1>4. IsFiniteSet(UNION parts)
  <2> HIDE DEF parts
  <2> QED BY <1>2, <1>3, FS_UNION
<1>5. IsFiniteSet(Units(f, s)) /\ Amount(f, s) \in Nat
  BY <1>4, FS_CardinalityType DEF Units, Amount
<1>6. ASSUME s = {} PROVE Amount(f, s) = 0
  <2>1. Units(f, s) = {}
    BY <1>6 DEF Units
  <2> QED BY <2>1, FS_EmptySet DEF Amount
<1> QED BY <1>5, <1>6

LEMMA AmountAdds ==
    ASSUME NEW D, IsFiniteSet(D), NEW f, \A i \in D : f[i] \in Nat, NEW s \in SUBSET D, NEW x \in s
    PROVE  Amount(f, s) = f[x] + Amount(f, s \ {x})
<1> DEFINE A == {x} \X (1..f[x])
           B == Units(f, s \ {x})
<1>1. Units(f, s) = A \cup B /\ A \cap B = {}
  BY DEF Units
<1>2. IsFiniteSet(A) /\ Cardinality(A) = f[x]
  <2>1. f[x] \in Nat /\ IsFiniteSet({x}) /\ Cardinality({x}) = 1
    BY FS_Singleton
  <2>2. IsFiniteSet(1..f[x]) /\ Cardinality(1..f[x]) = f[x]
    BY <2>1, FS_Interval
  <2>3. IsFiniteSet(A) /\ Cardinality(A) = 1 * f[x]
    BY <2>1, <2>2, FS_Product
  <2> QED BY <2>1, <2>3
<1>3. IsFiniteSet(B) /\ Cardinality(B) \in Nat /\ f[x] \in Nat
  BY UnitsFinite DEF Amount
<1> HIDE DEF A, B
<1>4. Cardinality(A \cup B) = Cardinality(A) + Cardinality(B) - Cardinality(A \cap B)
  BY <1>2, <1>3, FS_Union
<1>5. Cardinality(A \cap B) = 0
  BY <1>1, FS_EmptySet
<1>6. Cardinality(A \cup B) = f[x] + Cardinality(B)
  BY <1>2, <1>3, <1>4, <1>5
<1> QED BY <1>1, <1>6 DEF Amount, B

\* A function on the parts of D that adds up one element at a time, the one
\* that next tells, counts the units.
LEMMA CountsUnits ==
    ASSUME NEW D, IsFiniteSet(D), NEW f, NEW g, g[{}] = Amount(f, {}),
           NEW next, \A s \in SUBSET D : s # {} => next[s] \in s,
           \A s \in SUBSET D : s # {} /\ g[s \ {next[s]}] = Amount(f, s \ {next[s]})
                                => g[s] = Amount(f, s)
    PROVE  g[D] = Amount(f, D)
<1> DEFINE T == {s \in SUBSET D : g[s] # Amount(f, s)}
<1> SUFFICES ASSUME T # {} PROVE FALSE
  OBVIOUS
<1>1. T \subseteq FiniteSubsetsOf(D)
  BY FS_FiniteSubsetsOfFinite
<1>2. PICK s \in T : \A r \in T : ~(<<r, s>> \in StrictSubsetOrdering(D))
  <2> HIDE DEF T
  <2> QED BY <1>1, FS_StrictSubsetOrderingWellFounded, WFMin
<1>3. s \in SUBSET D /\ s # {} /\ g[s] # Amount(f, s)
  OBVIOUS
<1> DEFINE r == s \ {next[s]}
<1>4. r \in SUBSET D /\ <<r, s>> \in StrictSubsetOrdering(D)
  BY <1>3 DEF StrictSubsetOrdering
<1>5. g[r] = Amount(f, r)
  <2>1. r \notin T
    <3> HIDE DEF r, T
    <3> QED BY <1>2, <1>4
  <2> QED BY <1>4, <2>1
<1>6. next[s] \in s /\ g[s] = Amount(f, s)
  <2> HIDE DEF T
  <2> QED BY <1>3, <1>5
<1> QED BY <1>3, <1>6

LEMMA MaxIn ==
    ASSUME NEW n \in Nat, NEW s \in SUBSET (1..n), s # {}
    PROVE  Max(s) \in s
<1> DEFINE bounds == {m \in Nat : \A i \in s : i <= m}
<1>1. n \in bounds
  OBVIOUS
<1>2. PICK m \in bounds : \A k \in bounds : ~(<<k, m>> \in OpToRel(<, Nat))
  <2>1. n \in bounds /\ bounds \subseteq Nat
    BY <1>1
  <2> HIDE DEF bounds
  <2> QED BY <2>1, NatLessThanWellFounded, WFMin
<1>3. m \in s
  <2> SUFFICES ASSUME m \notin s PROVE FALSE
    OBVIOUS
  <2>0. PICK i : i \in s
    OBVIOUS
  <2>1. m # 0
    BY <2>0
  <2>2. m - 1 \in bounds
    BY <2>1
  <2>3. <<m - 1, m>> \in OpToRel(<, Nat)
    BY <2>1 DEF OpToRel
  <2> QED BY <1>2, <2>2, <2>3
<1>4. m \in s /\ \A i \in s : m >= i
  BY <1>3
<1> QED BY <1>4 DEF Max

LEMMA TotalIsAmount ==
    ASSUME NEW n \in Nat, NEW f, DOMAIN f = 1..n, \A i \in 1..n : f[i] \in Nat
    PROVE  Total(f) = Amount(f, 1..n)
<1> DEFINE D == 1..n
           G(g) == g = [s \in SUBSET D |-> IF s = {} THEN 0 ELSE g[s \ {Max(s)}] + f[Max(s)]]
           iter == CHOOSE g : G(g)
           h == [s \in SUBSET D |-> Amount(f, s)]
           next == [s \in SUBSET D |-> Max(s)]
<1>1. Total(f) = iter[D]
  BY DEF Total, FoldLeft, MapThenFoldSet
<1>2. IsFiniteSet(D) /\ (\A s \in SUBSET D : s # {} => Max(s) \in s)
  <2>1. IsFiniteSet(D)
    BY FS_Interval
  <2> QED BY <2>1, MaxIn
<1>3. ASSUME NEW s \in SUBSET D
      PROVE  /\ s = {} => Amount(f, s) = 0
             /\ s # {} => Amount(f, s) = Amount(f, s \ {Max(s)}) + f[Max(s)]
  <2>0. IsFiniteSet(D) /\ (\A i \in D : f[i] \in Nat) /\ s \in SUBSET D
    BY <1>2
  <2>1. s = {} => Amount(f, s) = 0
    <3> HIDE DEF D
    <3> QED BY <2>0, UnitsFinite
  <2>2. ASSUME s # {} PROVE Amount(f, s) = Amount(f, s \ {Max(s)}) + f[Max(s)]
    <3>1. PICK x : x = Max(s)
      OBVIOUS
    <3>2. x \in s /\ s \ {x} \in SUBSET D /\ f[x] \in Nat
      BY <1>2, <2>2, <3>1
    <3> HIDE DEF D
    <3>3. Amount(f, s) = f[x] + Amount(f, s \ {x})
      BY <2>0, <3>2, AmountAdds
    <3>4. Amount(f, s \ {x}) \in Nat
      BY <2>0, <3>2, UnitsFinite
    <3> QED BY <3>1, <3>2, <3>3, <3>4
  <2> QED BY <2>1, <2>2
<1>4. G(h)
  BY <1>3
<1>5. G(iter)
  <2> HIDE DEF G, h
  <2> QED BY <1>4
<1>6. iter[D] = Amount(f, D)
  <2>1. iter = [s \in SUBSET D |-> IF s = {} THEN 0 ELSE iter[s \ {Max(s)}] + f[Max(s)]]
    BY <1>5
  <2> HIDE DEF iter, G
  <2>2. iter[{}] = Amount(f, {})
    BY <1>3, <2>1
  <2>3. \A s \in SUBSET D : s # {} => next[s] \in s
    BY <1>2
  <2>4. \A s \in SUBSET D : s # {} /\ iter[s \ {next[s]}] = Amount(f, s \ {next[s]})
                             => iter[s] = Amount(f, s)
    BY <1>3, <2>1
  <2> HIDE DEF next, D
  <2> QED BY <1>2, <2>2, <2>3, <2>4, CountsUnits
<1> QED BY <1>1, <1>6

\* The element that a fold over a set takes next.
Some(s) == CHOOSE x \in s : TRUE

LEMMA OverallIsAmount ==
    ASSUME NEW n \in Nat, NEW f, DOMAIN f = 1..n, \A i \in 1..n : f[i] \in Nat
    PROVE  Overall(f, n) = Amount(f, 1..n)
<1> DEFINE D == 1..n
           G(g) == g = [s \in SUBSET D |-> IF s = {} THEN 0 ELSE f[Some(s)] + g[s \ {Some(s)}]]
           iter == CHOOSE g : G(g)
           h == [s \in SUBSET D |-> Amount(f, s)]
           next == [s \in SUBSET D |-> Some(s)]
<1>1. Overall(f, n) = iter[D]
  BY DEF Some, Overall, FoldFunctionOnSet, MapThenFoldSet
<1>2. IsFiniteSet(D) /\ (\A s \in SUBSET D : s # {} => Some(s) \in s)
  <2>1. IsFiniteSet(D)
    BY FS_Interval
  <2> QED BY <2>1 DEF Some
<1>3. ASSUME NEW s \in SUBSET D
      PROVE  /\ s = {} => Amount(f, s) = 0
             /\ s # {} => Amount(f, s) = f[Some(s)] + Amount(f, s \ {Some(s)})
  <2>0. IsFiniteSet(D) /\ (\A i \in D : f[i] \in Nat) /\ s \in SUBSET D
    BY <1>2
  <2>1. s = {} => Amount(f, s) = 0
    <3> HIDE DEF D
    <3> QED BY <2>0, UnitsFinite
  <2>2. ASSUME s # {} PROVE Amount(f, s) = f[Some(s)] + Amount(f, s \ {Some(s)})
    <3>1. PICK x : x = Some(s)
      OBVIOUS
    <3>2. x \in s /\ s \ {x} \in SUBSET D /\ f[x] \in Nat
      BY <1>2, <2>2, <3>1
    <3> HIDE DEF D
    <3>3. Amount(f, s) = f[x] + Amount(f, s \ {x})
      BY <2>0, <3>2, AmountAdds
    <3>4. Amount(f, s \ {x}) \in Nat
      BY <2>0, <3>2, UnitsFinite
    <3> QED BY <3>1, <3>2, <3>3, <3>4
  <2> QED BY <2>1, <2>2
<1>4. G(h)
  BY <1>3
<1>5. G(iter)
  <2> HIDE DEF G, h
  <2> QED BY <1>4
<1>6. iter[D] = Amount(f, D)
  <2>1. iter = [s \in SUBSET D |-> IF s = {} THEN 0 ELSE f[Some(s)] + iter[s \ {Some(s)}]]
    BY <1>5
  <2> HIDE DEF iter, G
  <2>2. iter[{}] = Amount(f, {})
    BY <1>3, <2>1
  <2>3. \A s \in SUBSET D : s # {} => next[s] \in s
    BY <1>2
  <2>4. \A s \in SUBSET D : s # {} /\ iter[s \ {next[s]}] = Amount(f, s \ {next[s]})
                             => iter[s] = Amount(f, s)
    BY <1>3, <2>1
  <2> HIDE DEF next, D
  <2> QED BY <1>2, <2>2, <2>3, <2>4, CountsUnits
<1> QED BY <1>1, <1>6

-----------------------------------------------------------------------------
(* The budget.                                                             *)

\* What was recorded of an answer.
Records ==
    \A n \in 1..Len(decisions) :
        /\ answers[n] \in Answers[route[n]]
        /\ decisions[n].model = route[n]
        /\ decisions[n].usage = UsageOf(route[n], answers[n].usage)

LEMMA InitRecords == ModelInit => Records
BY DEF ModelInit, Records

LEMMA RecordsKept == StepsOK /\ Records /\ [ModelNext]_modelVars => Records'
<1> SUFFICES ASSUME StepsOK, Records, [ModelNext]_modelVars PROVE Records'
  OBVIOUS
<1>1. ASSUME UNCHANGED <<route, decisions, answers>> PROVE Records'
  BY <1>1 DEF Records
<1>2. CASE Record
  <2>1. /\ decisions' = Append(decisions, [model |-> Model, response |-> Read,
                                           usage |-> UsageOf(Model, reply.usage)])
        /\ answers' = Append(answers, reply) /\ route' = route
        /\ Model = route[Len(decisions) + 1] /\ reply \in Answers[Model]
    BY <1>2 DEF Record, StepsOK, Model, Current
  <2>2. /\ Len(decisions) \in Nat /\ Len(answers) = Len(decisions)
        /\ Len(decisions') = Len(decisions) + 1
        /\ \A n \in 1..(Len(decisions) + 1) :
              /\ decisions'[n] = IF n <= Len(decisions) THEN decisions[n]
                                 ELSE [model |-> Model, response |-> Read,
                                       usage |-> UsageOf(Model, reply.usage)]
              /\ answers'[n] = IF n <= Len(decisions) THEN answers[n] ELSE reply
    BY <2>1, AppendedTo DEF StepsOK
  <2>3. ASSUME NEW n \in 1..(Len(decisions) + 1)
        PROVE  /\ answers'[n] \in Answers[route[n]]
               /\ decisions'[n].model = route[n]
               /\ decisions'[n].usage = UsageOf(route[n], answers'[n].usage)
    <3>1. CASE n <= Len(decisions)
      BY <2>2, <3>1 DEF Records
    <3>2. CASE ~(n <= Len(decisions))
      <4>1. n = Len(decisions) + 1
        BY <2>2, <3>2
      <4> QED BY <2>1, <2>2, <3>2, <4>1
    <3> QED BY <3>1, <3>2
  <2> QED BY <2>1, <2>2, <2>3 DEF Records
<1> QED BY <1>1, <1>2 DEF ModelNext, Ask, Stop, Hear, GiveUp, Lose, Retry, Resume, Fragment,
           Serve, modelVars

\* The recorded decisions say of a step what its provider would bill.
LEMMA RecordedUsage ==
    ASSUME StepsOK, Records, NEW n \in 1..Len(decisions)
    PROVE  /\ TokensOf(decisions[n]) = Processed(n) /\ Processed(n) \in Nat
           /\ decisions[n].usage.told = answers[n].usage.told
           /\ (answers[n].usage.told => route[n] \in DOMAIN Prices) =>
                CostOf(decisions[n]) = Bill(n) /\ Bill(n) \in Nat
<1> DEFINE u == answers[n].usage
           v == decisions[n].usage
           m == route[n]
           beside == IF Adapter[m] = "anthropic" THEN u.written + u.cached ELSE 0
<1>1. m \in Models /\ answers[n] \in Answers[m]
  BY ModelAssumption DEF StepsOK, Records, Steps
<1>2. /\ u \in [told : BOOLEAN, prompt : Nat, written : Nat, cached : Nat, output : Nat]
      /\ Adapter[m] = "openai" => u.cached <= u.prompt /\ u.written = 0
      /\ Adapter[m] \in {"anthropic", "openai"}
  BY <1>1, AnswersAssumption, ModelAssumption
<1>3. /\ decisions[n].model = m
      /\ v = [told   |-> u.told,
              input  |-> IF Adapter[m] = "openai" THEN u.prompt - u.cached ELSE u.prompt,
              output |-> u.output, write |-> u.written, read |-> u.cached]
  <2>1. decisions[n].model = m /\ v = UsageOf(m, u)
    BY DEF Records
  <2> HIDE DEF u, m, v
  <2>2. CASE Adapter[m] = "openai"
    BY <1>2, <2>1, <2>2 DEF UsageOf, UsageFrom
  <2>3. CASE Adapter[m] # "openai"
    BY <2>1, <2>3 DEF UsageOf, UsageApart
  <2> QED BY <2>1, <2>2, <2>3 DEF v
<1>4. /\ u.prompt \in Nat /\ u.written \in Nat /\ u.cached \in Nat /\ u.output \in Nat
  BY <1>2
<1>5. /\ Processed(n) = IF u.told THEN u.prompt + u.output + beside ELSE 0
      /\ TokensOf(decisions[n]) = IF v.told THEN v.input + v.output + v.write + v.read ELSE 0
  BY DEF Processed, TokensOf
<1>6. /\ v.told = u.told /\ v.output = u.output /\ v.write = u.written /\ v.read = u.cached
      /\ v.input = IF Adapter[m] = "openai" THEN u.prompt - u.cached ELSE u.prompt
  BY <1>3
<1>7. v.input \in Nat /\ v.input + u.written + u.cached = u.prompt + beside
  <2> HIDE DEF u, m, v
  <2>1. CASE Adapter[m] = "openai"
    BY <1>2, <1>4, <1>6, <2>1
  <2>2. CASE Adapter[m] = "anthropic"
    BY <1>2, <1>4, <1>6, <2>2
  <2> QED BY <1>2, <2>1, <2>2
<1>8. TokensOf(decisions[n]) = Processed(n) /\ Processed(n) \in Nat
  <2>1. beside \in Nat
    <3> HIDE DEF u, m
    <3> QED BY <1>4
  <2>2. CASE u.told
    <3>1. /\ Processed(n) = u.prompt + u.output + beside
          /\ TokensOf(decisions[n]) = v.input + u.output + u.written + u.cached
      BY <1>5, <1>6, <2>2
    <3>2. \A i, p, o, w, c, b \in Nat :
             i + w + c = p + b => i + o + w + c = p + o + b /\ p + o + b \in Nat
      OBVIOUS
    <3>3. PICK i \in Nat, p \in Nat, o \in Nat, w \in Nat, c \in Nat, b \in Nat :
             /\ i = v.input /\ p = u.prompt /\ o = u.output /\ w = u.written
             /\ c = u.cached /\ b = beside
      BY <1>4, <1>7, <2>1
    <3> HIDE DEF u, m, v, beside
    <3>4. /\ Processed(n) = p + o + b /\ TokensOf(decisions[n]) = i + o + w + c
          /\ i + w + c = p + b
      BY <1>7, <3>1, <3>3
    <3> QED BY <3>2, <3>4
  <2>3. CASE ~u.told
    BY <1>5, <1>6, <2>3
  <2> QED BY <2>2, <2>3
<1>9. ASSUME u.told, m \in DOMAIN Prices PROVE CostOf(decisions[n]) = Bill(n) /\ Bill(n) \in Nat
  <2> DEFINE p == Prices[m]
  <2>1. p \in [input : Nat, output : Nat, write : Nat, read : Nat]
    BY <1>9, ModelAssumption
  <2>2. p.input \in Nat /\ p.output \in Nat /\ p.write \in Nat /\ p.read \in Nat
    BY <2>1
  <2>3. Processed(n) - u.output - u.written - u.cached = v.input
    <3>1. beside \in Nat
      <4> HIDE DEF u, m
      <4> QED BY <1>4
    <3>2. Processed(n) = u.prompt + u.output + beside
      BY <1>5, <1>9
    <3>3. PICK i \in Nat, x \in Nat, o \in Nat, w \in Nat, c \in Nat, b \in Nat :
             /\ i = v.input /\ x = u.prompt /\ o = u.output /\ w = u.written
             /\ c = u.cached /\ b = beside
      BY <1>4, <1>7, <3>1
    <3> HIDE DEF u, m, v, beside
    <3>4. Processed(n) = x + o + b /\ i + w + c = x + b
      BY <1>7, <3>2, <3>3
    <3>5. Processed(n) - o - w - c = i
      BY <3>4
    <3> QED BY <3>3, <3>5
  <2>4. Bill(n) = v.input * p.input + u.output * p.output + u.written * p.write
                    + u.cached * p.read
    BY <1>9, <2>3 DEF Bill
  <2>5. CostOf(decisions[n]) = v.input * p.input + u.output * p.output + u.written * p.write
                                 + u.cached * p.read
    BY <1>3, <1>6, <1>9 DEF CostOf
  <2> HIDE DEF p, u, v, m
  <2>6. /\ v.input * p.input \in Nat /\ u.output * p.output \in Nat
        /\ u.written * p.write \in Nat /\ u.cached * p.read \in Nat
    <3>1. \A a, b \in Nat : a * b \in Nat
      OBVIOUS
    <3> QED BY <1>4, <1>7, <2>2, <3>1
  <2> QED BY <2>4, <2>5, <2>6
<1>10. ASSUME ~u.told PROVE CostOf(decisions[n]) = Bill(n) /\ Bill(n) \in Nat
  BY <1>6, <1>10 DEF CostOf, Bill
<1> QED BY <1>6, <1>8, <1>9, <1>10

\* The engine's budget check is the accounting of the provider.
LEMMA RefusedIsUsedUp ==
    ASSUME StepsOK, Records
    PROVE  Refused(decisions) <=> UsedUp(Len(decisions))
<1> DEFINE n == Len(decisions)
           P == [i \in 1..n |-> Processed(i)]
           B == [i \in 1..n |-> Bill(i)]
           T == [i \in DOMAIN decisions |-> TokensOf(decisions[i])]
           C == [i \in DOMAIN decisions |-> CostOf(decisions[i])]
<1>1. n \in Nat /\ DOMAIN decisions = 1..n
  BY DEF StepsOK, IsSequence
<1>2. T = P /\ \A i \in 1..n : P[i] \in Nat
  BY <1>1, RecordedUsage
<1>3. Total(T) = Overall(P, n)
  <2>1. DOMAIN P = 1..n
    OBVIOUS
  <2> HIDE DEF P, T, n
  <2> QED BY <1>1, <1>2, <2>1, TotalIsAmount, OverallIsAmount
<1>4. Unenforceable(decisions) <=>
         \E i \in 1..n : answers[i].usage.told /\ route[i] \notin DOMAIN Prices
  BY <1>1, RecordedUsage DEF Unenforceable, Records
<1>5. ASSUME ~Unenforceable(decisions) PROVE Total(C) = Overall(B, n)
  <2>1. C = B /\ \A i \in 1..n : B[i] \in Nat
    BY <1>1, <1>4, <1>5, RecordedUsage
  <2>2. DOMAIN B = 1..n
    OBVIOUS
  <2> HIDE DEF B, C, n
  <2> QED BY <1>1, <2>1, <2>2, TotalIsAmount, OverallIsAmount
<1>6. Refused(decisions) <=> \/ Total(T) >= MaxTokens \/ Unenforceable(decisions)
                             \/ ~Unenforceable(decisions) /\ Total(C) >= MaxUsd
  BY DEF Refused, Exceeded, TokensExceeded
<1>7. UsedUp(n) <=> \/ Overall(P, n) >= MaxTokens \/ Unenforceable(decisions)
                    \/ Overall(B, n) >= MaxUsd
  BY <1>4 DEF UsedUp
<1> HIDE DEF P, B, T, C
<1> QED BY <1>3, <1>5, <1>6, <1>7

LEMMA UsedUpKept ==
    ASSUME NEW n, route' = route, \A i \in 1..n : answers'[i] = answers[i]
    PROVE  UsedUp(n)' <=> UsedUp(n)
<1>1. \A i \in 1..n : Processed(i)' = Processed(i) /\ Bill(i)' = Bill(i)
  BY DEF Processed, Bill
<1>2. [i \in 1..n |-> Processed(i)]' = [i \in 1..n |-> Processed(i)]
  BY <1>1
<1>3. [i \in 1..n |-> Bill(i)]' = [i \in 1..n |-> Bill(i)]
  BY <1>1
<1> DEFINE P == [i \in 1..n |-> Processed(i)]
           B == [i \in 1..n |-> Bill(i)]
<1>4. P' = P /\ B' = B
  BY <1>2, <1>3
<1>5. UsedUp(n) <=> \/ Overall(P, n) >= MaxTokens
                    \/ \E i \in 1..n : answers[i].usage.told /\ route[i] \notin DOMAIN Prices
                    \/ Overall(B, n) >= MaxUsd
  BY DEF UsedUp
<1>6. UsedUp(n)' <=> \/ Overall(P', n) >= MaxTokens
                     \/ \E i \in 1..n : answers'[i].usage.told /\ route'[i] \notin DOMAIN Prices
                     \/ Overall(B', n) >= MaxUsd
  BY DEF UsedUp
<1> HIDE DEF P, B
<1> QED BY <1>4, <1>5, <1>6

Within ==
    /\ at \in {"asked", "answering", "sleep", "failed"} => ~UsedUp(Len(decisions))
    /\ at = "stopped" => UsedUp(Len(decisions))
    /\ \A n \in 1..Len(decisions) : ~UsedUp(n - 1)

LEMMA InitWithin == ModelInit => Within
BY DEF ModelInit, Within

LEMMA WithinKept == StepsOK /\ Records /\ Within /\ [ModelNext]_modelVars => Within'
<1> SUFFICES ASSUME StepsOK, Records, Within, [ModelNext]_modelVars PROVE Within'
  OBVIOUS
<1>1. ASSUME UNCHANGED <<route, decisions, answers>>,
             at' \in {"asked", "answering", "sleep", "failed"} => ~UsedUp(Len(decisions)),
             at' = "stopped" => UsedUp(Len(decisions))
      PROVE  Within'
  <2>1. \A n : UsedUp(n)' <=> UsedUp(n)
    BY <1>1, UsedUpKept
  <2>2. \A n \in 1..Len(decisions) : ~UsedUp(n - 1)
    BY DEF Within
  <2>3. PICK n : n = Len(decisions)
    OBVIOUS
  <2>4. at' \in {"asked", "answering", "sleep", "failed"} => ~UsedUp(n)'
    BY <1>1, <2>1, <2>3
  <2>5. at' = "stopped" => UsedUp(n)'
    BY <1>1, <2>1, <2>3
  <2>6. ASSUME NEW k \in 1..n PROVE ~UsedUp(k - 1)'
    BY <2>1, <2>2, <2>3
  <2>7. Len(decisions)' = n
    BY <1>1, <2>3
  <2> QED BY <2>4, <2>5, <2>6, <2>7 DEF Within
<1>2. CASE Ask
  <2>1. at = "loop" /\ at' = "asked" /\ ~UsedUp(Len(decisions))
        /\ UNCHANGED <<route, decisions, answers>>
    BY <1>2, RefusedIsUsedUp DEF Ask
  <2> QED BY <1>1, <2>1
<1>3. CASE Stop
  <2>1. at' = "stopped" /\ UsedUp(Len(decisions)) /\ UNCHANGED <<route, decisions, answers>>
    BY <1>3, RefusedIsUsedUp DEF Stop
  <2> QED BY <1>1, <2>1
<1>4. CASE Resume
  <2>1. at' = "loop" /\ UNCHANGED <<route, decisions, answers>>
    BY <1>4 DEF Resume
  <2> QED BY <1>1, <2>1
<1>5. ASSUME NEW a, (at = "asked" /\ Serve(a)) \/ Hear \/ Lose \/ GiveUp \/ Retry
                    \/ \E i : Fragment(i)
      PROVE  Within'
  <2>1. /\ at \in {"asked", "answering", "sleep"}
        /\ at' \in {"asked", "answering", "sleep", "failed"}
        /\ UNCHANGED <<route, decisions, answers>>
    BY <1>5 DEF Serve, Hear, Lose, GiveUp, Retry, Fragment
  <2>2. ~UsedUp(Len(decisions))
    BY <2>1 DEF Within
  <2> QED BY <1>1, <2>1, <2>2
<1>6. CASE Record
  <2>1. at = "answering" /\ at' = "loop" /\ route' = route
        /\ answers' = Append(answers, reply) /\ Len(decisions') = Len(decisions) + 1
    BY <1>6, AppendedTo DEF Record, StepsOK
  <2>2. PICK k : k = Len(decisions)
    OBVIOUS
  <2>3. k \in Nat /\ \A i \in 1..k : answers'[i] = answers[i]
    BY <2>1, <2>2, AppendedTo DEF StepsOK
  <2>4. ASSUME NEW n \in 1..(k + 1) PROVE ~UsedUp(n - 1)'
    <3>1. PICK m : m = n - 1
      OBVIOUS
    <3>2. m \in 0..k
      BY <2>3, <3>1
    <3>3. ~UsedUp(m)
      <4>1. CASE m = k
        BY <2>1, <2>2, <4>1 DEF Within
      <4>2. CASE m # k
        <5>1. n \in 1..k
          BY <2>3, <3>1, <3>2, <4>2
        <5> QED BY <2>2, <3>1, <5>1 DEF Within
      <4> QED BY <4>1, <4>2
    <3>4. \A i \in 1..m : answers'[i] = answers[i]
      BY <2>3, <3>2
    <3>5. ~UsedUp(m)'
      BY <2>1, <3>3, <3>4, UsedUpKept
    <3> QED BY <3>1, <3>5
  <2>5. Len(decisions)' = k + 1
    BY <2>1, <2>2
  <2> QED BY <2>1, <2>4, <2>5 DEF Within
<1>7. CASE UNCHANGED modelVars
  <2>1. UNCHANGED <<route, decisions, answers, at>>
    BY <1>7 DEF modelVars, callVars
  <2> QED BY <1>1, <2>1 DEF Within
<1> QED BY <1>2, <1>3, <1>4, <1>5, <1>6, <1>7 DEF ModelNext

-----------------------------------------------------------------------------
(* Streams.                                                                *)

LEMMA InOrderOfInterval ==
    ASSUME NEW N \in Nat
    PROVE  InOrder(1..N) = [i \in 1..N |-> i]
<1>1. Cardinality(1..N) = N
  BY FS_Interval
<1>2. ASSUME NEW n \in 1..N PROVE Cardinality({m \in 1..N : m < n}) = n - 1
  <2>1. {m \in 1..N : m < n} = 1..(n - 1)
    OBVIOUS
  <2>2. Cardinality(1..(n - 1)) = n - 1
    BY FS_Interval
  <2> QED BY <2>1, <2>2
<1>3. ASSUME NEW i \in 1..N
      PROVE  (CHOOSE n \in 1..N : Cardinality({m \in 1..N : m < n}) = i - 1) = i
  <2>1. \A n \in 1..N : Cardinality({m \in 1..N : m < n}) = i - 1 <=> n = i
    BY <1>2
  <2>2. (CHOOSE n \in 1..N : Cardinality({m \in 1..N : m < n}) = i - 1)
          = CHOOSE n \in 1..N : n = i
    BY <2>1
  <2> QED BY <2>2
<1> QED BY <1>1, <1>3 DEF InOrder

LEMMA UsesLength ==
    ASSUME NEW m \in Models, NEW a \in Answers[m]
    PROVE  \E N \in Nat : DOMAIN Uses(a.blocks) = 1..N
<1> DEFINE kept == {n \in DOMAIN a.blocks : a.blocks[n].type \in {"tool_use"}}
           N == Cardinality(kept)
<1>1. a.blocks \in Seq(Range(a.blocks))
  BY AnswersAssumption
<1>2. IsFiniteSet(kept)
  <2>1. Len(a.blocks) \in Nat /\ DOMAIN a.blocks = 1..Len(a.blocks)
    BY <1>1
  <2>2. IsFiniteSet(1..Len(a.blocks)) /\ kept \subseteq 1..Len(a.blocks)
    BY <2>1, FS_Interval
  <2> HIDE DEF kept
  <2> QED BY <2>2, FS_Subset
<1>3. N \in Nat
  <2> HIDE DEF kept
  <2> QED BY <1>2, FS_CardinalityType
<1>4. DOMAIN Uses(a.blocks) = 1..N
  BY DEF Uses, OfType, InOrder
<1> QED BY <1>3, <1>4

\* The slots hold what has come of the calls of the answer, one for each.
SlotsOK ==
    /\ at # "answering" => said = <<>> /\ slots = <<>>
    /\ IsSequence(slots)
    /\ \A n \in DOMAIN slots :
          /\ slots[n] = [index |-> slots[n].index, id |-> slots[n].id, raw |-> slots[n].raw]
          /\ slots[n].index \in DOMAIN Uses(reply.blocks)
          /\ slots[n].id = Uses(reply.blocks)[slots[n].index].id
    /\ \A n, m \in DOMAIN slots : slots[n].index = slots[m].index => n = m

\* Whatever way the fragments came, the calls are those of the message.
LEMMA AssembledAsAnswered ==
    ASSUME StepsOK, SlotsOK, at = "answering", listening, Delivered,
           Adapter[Model] = "openai"
    PROVE  Assembled(said, slots) = FromChoice(reply)
<1> DEFINE uses == Uses(reply.blocks)
           S == {p.index : p \in Range(slots)}
           slot(n) == CHOOSE p \in Range(slots) : p.index = n
<1>1. PICK N \in Nat : DOMAIN uses = 1..N
  <2>1. Model \in Models /\ reply \in Answers[Model]
    BY DEF StepsOK, Model, Steps
  <2> QED BY <2>1, UsesLength
<1>2. /\ said = TextOf(reply.blocks)
      /\ \A i \in 1..N : \E n \in DOMAIN slots : slots[n].index = i /\ slots[n].raw = uses[i].body
  BY <1>1 DEF Delivered, SlotOf
<1>3. Range(slots) = {slots[n] : n \in DOMAIN slots}
  BY DEF Range
<1>4. ASSUME NEW i \in 1..N PROVE slot(i).id = uses[i].id /\ slot(i).raw = uses[i].body
  <2>1. PICK n \in DOMAIN slots : slots[n].index = i /\ slots[n].raw = uses[i].body
    BY <1>2
  <2>2. slots[n].id = uses[i].id
    BY <2>1 DEF SlotsOK
  <2>3. slots[n] \in Range(slots) /\ \A p \in Range(slots) : p.index = i => p = slots[n]
    BY <1>3, <2>1 DEF SlotsOK
  <2>4. slot(i) = slots[n]
    BY <2>1, <2>3
  <2> HIDE DEF slot
  <2> QED BY <2>1, <2>2, <2>4
<1>5. S = 1..N
  <2>1. S = {slots[n].index : n \in DOMAIN slots}
    BY <1>3
  <2>2. \A n \in DOMAIN slots : slots[n].index \in 1..N
    BY <1>1 DEF SlotsOK
  <2> HIDE DEF S
  <2> QED BY <1>2, <2>1, <2>2
<1>6. InOrder(S) = [i \in 1..N |-> i]
  <2> HIDE DEF S
  <2> QED BY <1>5, InOrderOfInterval
<1> DEFINE calls == [i \in DOMAIN InOrder(S) |->
                        [id |-> slot(InOrder(S)[i]).id,
                         arguments |-> ParseArguments(slot(InOrder(S)[i]).raw)]]
<1>7. calls = [i \in 1..N |-> [id |-> uses[i].id, arguments |-> ParseArguments(uses[i].body)]]
  <2> HIDE DEF S, slot, uses
  <2> QED BY <1>4, <1>6
<1>8. Assembled(said, slots) = Response(said, calls, <<>>)
  BY DEF Assembled
<1>9. FromChoice(reply) = Response(TextOf(reply.blocks),
          [i \in 1..N |-> [id |-> uses[i].id, arguments |-> ParseArguments(uses[i].body)]], <<>>)
  BY <1>1 DEF FromChoice
<1> HIDE DEF calls, uses
<1> QED BY <1>2, <1>7, <1>8, <1>9

LEMMA InitSlots == ModelInit => SlotsOK
<1>1. IsSequence(<<>>) /\ DOMAIN <<>> = {}
  BY DEF IsSequence
<1> QED BY <1>1 DEF ModelInit, SlotsOK

LEMMA SlotsKept == StepsOK /\ SlotsOK /\ [ModelNext]_modelVars => SlotsOK'
<1> SUFFICES ASSUME StepsOK, SlotsOK, [ModelNext]_modelVars PROVE SlotsOK'
  OBVIOUS
<1>0. IsSequence(<<>>) /\ DOMAIN <<>> = {}
  BY DEF IsSequence
<1>1. ASSUME said' = <<>>, slots' = <<>> PROVE SlotsOK'
  BY <1>0, <1>1 DEF SlotsOK
<1>2. ASSUME UNCHANGED <<said, slots, at, reply>> PROVE SlotsOK'
  BY <1>2 DEF SlotsOK
<1>3. ASSUME at # "answering", UNCHANGED <<said, slots>> PROVE SlotsOK'
  BY <1>1, <1>3 DEF SlotsOK
<1>4. CASE Record \/ Lose \/ GiveUp \/ Resume
  BY <1>1, <1>4 DEF Record, Lose, GiveUp, Resume, Leave, Hush
<1>5. CASE Ask \/ Stop \/ Retry
  BY <1>3, <1>5 DEF Ask, Stop, Retry
<1>6. ASSUME NEW a, at = "asked", Serve(a) PROVE SlotsOK'
  BY <1>3, <1>6 DEF Serve
<1>7. CASE Hear
  BY <1>7 DEF Hear, SlotsOK
<1>8. ASSUME NEW i, Fragment(i) PROVE SlotsOK'
  <2>1. /\ at = "answering" /\ at' = at /\ reply' = reply /\ said' = said
        /\ i \in DOMAIN Uses(reply.blocks)
    BY <1>8 DEF Fragment
  <2> DEFINE use == Uses(reply.blocks)[i]
             new == [index |-> i, id |-> use.id, raw |-> <<>>]
  <2>2. CASE SlotOf(i) = {} /\ slots' = Append(slots, new)
    <3>1. /\ IsSequence(slots') /\ Len(slots) \in Nat /\ DOMAIN slots = 1..Len(slots)
          /\ Len(slots') = Len(slots) + 1
          /\ \A n \in 1..(Len(slots) + 1) :
                slots'[n] = IF n <= Len(slots) THEN slots[n] ELSE new
      BY <2>2, AppendedTo DEF SlotsOK
    <3>2. DOMAIN slots' = 1..(Len(slots) + 1)
      BY <3>1 DEF IsSequence
    <3>3. /\ new.index = i /\ new.id = use.id
          /\ new = [index |-> new.index, id |-> new.id, raw |-> new.raw]
      OBVIOUS
    <3>4. \A n \in DOMAIN slots : slots[n].index # i
      BY <2>2 DEF SlotOf
    <3> HIDE DEF new
    <3>5. ASSUME NEW n \in DOMAIN slots'
          PROVE  /\ slots'[n] = [index |-> slots'[n].index, id |-> slots'[n].id,
                                 raw |-> slots'[n].raw]
                 /\ slots'[n].index \in DOMAIN Uses(reply.blocks)
                 /\ slots'[n].id = Uses(reply.blocks)[slots'[n].index].id
      <4>1. CASE n <= Len(slots)
        BY <3>1, <3>2, <4>1 DEF SlotsOK
      <4>2. CASE ~(n <= Len(slots))
        BY <2>1, <3>1, <3>2, <3>3, <4>2
      <4> QED BY <4>1, <4>2
    <3>6. ASSUME NEW n \in DOMAIN slots', NEW m \in DOMAIN slots', slots'[n].index = slots'[m].index
          PROVE  n = m
      <4>1. CASE n <= Len(slots) /\ m <= Len(slots)
        BY <3>1, <3>2, <3>6, <4>1 DEF SlotsOK
      <4>2. CASE ~(n <= Len(slots) /\ m <= Len(slots))
        <5>1. n = Len(slots) + 1 \/ m = Len(slots) + 1
          BY <3>1, <3>2, <4>2
        <5>2. \A k \in 1..Len(slots) : slots'[k].index # i
          BY <3>1, <3>4
        <5>3. slots'[Len(slots) + 1].index = i
          BY <3>1, <3>3
        <5> QED BY <3>1, <3>2, <3>6, <5>1, <5>2, <5>3
      <4> QED BY <4>1, <4>2
    <3> QED BY <2>1, <3>1, <3>5, <3>6 DEF SlotsOK
  <2>3. ASSUME NEW k \in SlotOf(i), slots' = [slots EXCEPT ![k].raw = Append(@, use.body[Len(@) + 1])]
        PROVE  SlotsOK'
    <3>1. k \in DOMAIN slots /\ slots[k].index = i
      BY DEF SlotOf
    <3>2. PICK raw : raw = Append(slots[k].raw, use.body[Len(slots[k].raw) + 1])
      OBVIOUS
    <3>3. /\ DOMAIN slots' = DOMAIN slots
          /\ slots'[k] = [index |-> slots[k].index, id |-> slots[k].id, raw |-> raw]
          /\ \A n \in DOMAIN slots : n # k => slots'[n] = slots[n]
      <4>1. slots = [n \in DOMAIN slots |-> slots[n]]
        BY DEF SlotsOK, IsSequence
      <4>2. slots[k] = [index |-> slots[k].index, id |-> slots[k].id, raw |-> slots[k].raw]
        BY <3>1 DEF SlotsOK
      <4>3. slots' = [slots EXCEPT ![k] = [slots[k] EXCEPT !.raw = raw]]
        BY <2>3, <3>2
      <4>4. [slots[k] EXCEPT !.raw = raw] = [index |-> slots[k].index, id |-> slots[k].id, raw |-> raw]
        BY <4>2
      <4> QED BY <3>1, <4>1, <4>3, <4>4
    <3>4. IsSequence(slots')
      <4>1. slots \in Seq({slots[n] : n \in DOMAIN slots})
        BY DEF SlotsOK, IsSequence
      <4>2. Len(slots) \in Nat /\ DOMAIN slots = 1..Len(slots)
        BY <4>1
      <4> DEFINE T == {slots'[n] : n \in DOMAIN slots'}
      <4>3. PICK N \in Nat : DOMAIN slots = 1..N
        BY <4>2
      <4>4. slots' = [n \in 1..N |-> slots'[n]]
        BY <2>3, <3>1, <4>3
      <4>5. slots' \in [1..N -> T]
        BY <4>4
      <4> HIDE DEF T
      <4>6. slots' \in Seq(T)
        BY <4>5
      <4> QED BY <4>6 DEF IsSequence, T
    <3>5. ASSUME NEW n \in DOMAIN slots
          PROVE  /\ slots'[n] = [index |-> slots'[n].index, id |-> slots'[n].id,
                                 raw |-> slots'[n].raw]
                 /\ slots'[n].index = slots[n].index /\ slots'[n].id = slots[n].id
      BY <3>3 DEF SlotsOK
    <3>6. \A n \in DOMAIN slots :
              /\ slots[n].index \in DOMAIN Uses(reply.blocks)
              /\ slots[n].id = Uses(reply.blocks)[slots[n].index].id
      BY DEF SlotsOK
    <3>7. \A n, m \in DOMAIN slots' : slots'[n].index = slots'[m].index => n = m
      BY <3>3, <3>5 DEF SlotsOK
    <3> QED BY <2>1, <3>3, <3>4, <3>5, <3>6, <3>7 DEF SlotsOK
  <2> QED BY <1>8, <2>2, <2>3 DEF Fragment
<1>9. CASE UNCHANGED modelVars
  BY <1>2, <1>9 DEF modelVars, callVars
<1> QED BY <1>4, <1>5, <1>6, <1>7, <1>8, <1>9 DEF ModelNext

\* What was read from an answer, streamed or whole.
LEMMA StreamKept ==
    StepsOK /\ SlotsOK /\ StreamedAsBlocking /\ [ModelNext]_modelVars => StreamedAsBlocking'
<1> SUFFICES ASSUME StepsOK, SlotsOK, StreamedAsBlocking, [ModelNext]_modelVars
             PROVE  StreamedAsBlocking'
  OBVIOUS
<1>1. ASSUME UNCHANGED <<route, decisions, answers>> PROVE StreamedAsBlocking'
  BY <1>1 DEF StreamedAsBlocking
<1>2. CASE Record
  <2>1. /\ at = "answering" /\ Delivered /\ route' = route
        /\ decisions' = Append(decisions, [model |-> Model, response |-> Read,
                                           usage |-> UsageOf(Model, reply.usage)])
        /\ answers' = Append(answers, reply) /\ Current \in Steps
        /\ Model = route[Len(decisions) + 1] /\ listening \in BOOLEAN
    BY <1>2 DEF Record, StepsOK, Model, Current
  <2>2. Adapter[Model] \in {"anthropic", "openai"}
    BY <2>1, ModelAssumption DEF StepsOK, Model
  <2>3. Read = IF Adapter[Model] = "anthropic" THEN FromMessage(reply) ELSE FromChoice(reply)
    <3>1. CASE Adapter[Model] = "anthropic"
      BY <3>1 DEF Read
    <3>2. CASE Adapter[Model] = "openai" /\ ~listening
      BY <3>2 DEF Read
    <3>3. CASE Adapter[Model] = "openai" /\ listening
      BY <2>1, <3>3, AssembledAsAnswered DEF Read
    <3> QED BY <2>1, <2>2, <3>1, <3>2, <3>3
  <2>4. /\ Len(decisions) \in Nat /\ DOMAIN decisions = 1..Len(decisions)
        /\ DOMAIN decisions' = 1..(Len(decisions) + 1)
        /\ \A n \in 1..(Len(decisions) + 1) :
              /\ decisions'[n] = IF n <= Len(decisions) THEN decisions[n]
                                 ELSE [model |-> Model, response |-> Read,
                                       usage |-> UsageOf(Model, reply.usage)]
              /\ answers'[n] = IF n <= Len(decisions) THEN answers[n] ELSE reply
    BY <2>1, AppendedTo DEF StepsOK, IsSequence
  <2>5. ASSUME NEW n \in DOMAIN decisions'
        PROVE  decisions'[n].response = IF Adapter[route[n]] = "anthropic"
                                        THEN FromMessage(answers'[n]) ELSE FromChoice(answers'[n])
    <3>1. CASE n <= Len(decisions)
      BY <2>4, <3>1 DEF StreamedAsBlocking
    <3>2. CASE ~(n <= Len(decisions))
      <4>1. n = Len(decisions) + 1
        BY <2>4, <3>2
      <4>2. /\ decisions'[n] = [model |-> Model, response |-> Read,
                                usage |-> UsageOf(Model, reply.usage)]
            /\ answers'[n] = reply
        BY <2>4, <3>2
      <4>3. decisions'[n].response = Read
        BY <4>2
      <4>4. route[n] = Model
        BY <2>1, <4>1
      <4> QED BY <2>3, <4>2, <4>3, <4>4
    <3> QED BY <3>1, <3>2
  <2> QED BY <2>1, <2>5 DEF StreamedAsBlocking
<1> QED BY <1>1, <1>2 DEF ModelNext, Ask, Stop, Hear, GiveUp, Lose, Retry, Resume, Fragment,
           Serve, modelVars

\* What was received of the answer in hand is the end of what was heard, and
\* all of it in the first attempt.
HeardOK ==
    /\ IsSequence(said) /\ IsSequence(heard)
    /\ listening =>
          /\ Len(said) <= Len(heard)
          /\ \A i \in 1..Len(said) : said[i] = heard[(Len(heard) - Len(said)) + i]
    /\ listening /\ tries = 0 /\ at # "sleep" => Len(heard) = Len(said)

LEMMA InitHeard == ModelInit => HeardOK
<1>1. IsSequence(<<>>) /\ Len(<<>>) = 0
  BY DEF IsSequence
<1> QED BY <1>1 DEF ModelInit, HeardOK

LEMMA HeardKept == StepsOK /\ SlotsOK /\ HeardOK /\ [ModelNext]_modelVars => HeardOK'
<1> SUFFICES ASSUME StepsOK, SlotsOK, HeardOK, [ModelNext]_modelVars PROVE HeardOK'
  OBVIOUS
<1>0. IsSequence(<<>>) /\ Len(<<>>) = 0
  BY DEF IsSequence
<1>1. ASSUME UNCHANGED <<listening, said, heard>>,
             tries' = 0 /\ at' # "sleep" => tries = 0 /\ at # "sleep"
      PROVE  HeardOK'
  BY <1>1 DEF HeardOK
<1>2. CASE Ask \/ Stop
  BY <1>1, <1>2 DEF Ask, Stop
<1>3. ASSUME NEW a, at = "asked", Serve(a) PROVE HeardOK'
  BY <1>1, <1>3 DEF Serve
<1>4. ASSUME NEW i, Fragment(i) PROVE HeardOK'
  BY <1>1, <1>4 DEF Fragment
<1>5. CASE Retry
  <2>1. tries' # 0
    BY <1>5 DEF Retry, StepsOK
  <2> QED BY <1>1, <1>5, <2>1 DEF Retry
<1>6. CASE Record \/ GiveUp \/ Resume
  <2>1. said' = <<>> /\ heard' = <<>>
    BY <1>6 DEF Record, GiveUp, Resume, Leave, Hush
  <2> QED BY <1>0, <2>1 DEF HeardOK
<1>7. CASE Lose
  <2>1. said' = <<>> /\ heard' = heard /\ at' = "sleep"
    BY <1>7 DEF Lose, Hush
  <2>2. Len(heard) \in Nat
    BY AppendedTo DEF HeardOK
  <2> QED BY <1>0, <2>1, <2>2 DEF HeardOK
<1>8. CASE Hear
  <2>1. /\ listening /\ listening' = listening /\ tries' = tries /\ at = "answering" /\ at' = at
    BY <1>8 DEF Hear
  <2>2. PICK piece : said' = Append(said, piece) /\ heard' = Append(heard, piece)
    BY <1>8 DEF Hear
  <2> DEFINE n == Len(said)
             k == Len(heard)
  <2>3. /\ n \in Nat /\ k \in Nat /\ Len(said') = n + 1 /\ Len(heard') = k + 1
        /\ IsSequence(said') /\ IsSequence(heard')
        /\ \A i \in 1..(n + 1) : said'[i] = IF i <= n THEN said[i] ELSE piece
        /\ \A i \in 1..(k + 1) : heard'[i] = IF i <= k THEN heard[i] ELSE piece
    BY <2>2, AppendedTo DEF HeardOK
  <2>4. /\ n <= k /\ (\A i \in 1..n : said[i] = heard[(k - n) + i])
        /\ tries = 0 => k = n
    BY <2>1 DEF HeardOK
  <2> HIDE DEF n, k
  <2>5. ASSUME NEW i \in 1..(n + 1) PROVE said'[i] = heard'[((k + 1) - (n + 1)) + i]
    <3>1. ((k + 1) - (n + 1)) + i = (k - n) + i /\ (k - n) + i \in 1..(k + 1)
      BY <2>3, <2>4
    <3>2. CASE i <= n
      BY <2>3, <2>4, <3>1, <3>2
    <3>3. CASE ~(i <= n)
      BY <2>3, <2>4, <3>1, <3>3
    <3> QED BY <3>2, <3>3
  <2>6. n + 1 <= k + 1 /\ (tries = 0 => k + 1 = n + 1)
    BY <2>3, <2>4
  <2> QED BY <2>1, <2>3, <2>5, <2>6 DEF HeardOK
<1>9. CASE UNCHANGED modelVars
  BY <1>1, <1>9 DEF modelVars, callVars
<1> QED BY <1>2, <1>3, <1>4, <1>5, <1>6, <1>7, <1>8, <1>9 DEF ModelNext

LEMMA SuffixOf ==
    ASSUME NEW s, IsSequence(s), NEW t, IsSequence(t), Len(s) <= Len(t),
           \A i \in 1..Len(s) : s[i] = t[(Len(t) - Len(s)) + i]
    PROVE  IsSuffix(s, t) /\ (Len(s) = Len(t) => t = s)
<1> DEFINE n == Len(s)
           k == Len(t)
           rs == Reverse(s)
           rt == Reverse(t)
<1>1. /\ n \in Nat /\ k \in Nat /\ s = [i \in 1..n |-> s[i]] /\ t = [i \in 1..k |-> t[i]]
  BY DEF IsSequence
<1>2. rs = [i \in 1..n |-> s[(n - i) + 1]] /\ rt = [i \in 1..k |-> t[(k - i) + 1]]
  BY DEF Reverse
<1>3. rs \in Seq({s[i] : i \in 1..n}) /\ Len(rs) = n
  <2> DEFINE T == {s[i] : i \in 1..n}
  <2>1. rs \in [1..n -> T]
    BY <1>1, <1>2
  <2> HIDE DEF n, T, rs
  <2>2. n \in Nat
    BY <1>1
  <2>3. rs \in Seq(T) /\ Len(rs) = n
    BY <2>1, <2>2
  <2> QED BY <2>3 DEF T
<1>4. rt \in Seq({t[i] : i \in 1..k}) /\ Len(rt) = k
  <2> DEFINE T == {t[i] : i \in 1..k}
  <2>1. rt \in [1..k -> T]
    BY <1>1, <1>2
  <2> HIDE DEF k, T, rt
  <2>2. k \in Nat
    BY <1>1
  <2>3. rt \in Seq(T) /\ Len(rt) = k
    BY <2>1, <2>2
  <2> QED BY <2>3 DEF T
<1>5. n <= k /\ \A i \in 1..n : rt[i] = rs[i]
  <2>1. n <= k
    OBVIOUS
  <2>2. ASSUME NEW i \in 1..n PROVE rt[i] = rs[i]
    <3>1. rs[i] = s[(n - i) + 1] /\ rt[i] = t[(k - i) + 1]
      BY <1>1, <1>2, <2>1
    <3>2. (n - i) + 1 \in 1..n /\ (k - n) + ((n - i) + 1) = (k - i) + 1
      BY <1>1
    <3>3. \A j \in 1..n : s[j] = t[(k - n) + j]
      OBVIOUS
    <3> HIDE DEF n, k, rs, rt
    <3> QED BY <3>1, <3>2, <3>3
  <2> QED BY <2>1, <2>2
<1>6. SubSeq(rs, 1, n) = [i \in 1..n |-> rs[i]] /\ SubSeq(rt, 1, n) = [i \in 1..n |-> rt[i]]
  <2> HIDE DEF n, k, rs, rt
  <2> QED BY <1>1, <1>3, <1>4, <1>5
<1>7. IsPrefix(rs, rt)
  <2> HIDE DEF n, k, rs, rt
  <2> QED BY <1>3, <1>4, <1>5, <1>6 DEF IsPrefix
<1>8. n = k => t = s
  <2> HIDE DEF rs, rt
  <2> QED BY <1>1
<1> QED BY <1>7, <1>8 DEF IsSuffix

\* The step that records a decision.
LEMMA RecordIsHeard ==
    ASSUME StepsOK, SlotsOK, HeardOK, ModelNext
    PROVE  Len(decisions') > Len(decisions) /\ listening =>
              LET text == Last(decisions').response.text
              IN  /\ IsSuffix(text, heard)
                  /\ tries = 0 => heard = text
<1>1. CASE Record
  <2> SUFFICES ASSUME listening
               PROVE  LET text == Last(decisions').response.text
                      IN  IsSuffix(text, heard) /\ (tries = 0 => heard = text)
    OBVIOUS
  <2>1. /\ at = "answering" /\ said = TextOf(reply.blocks)
        /\ decisions' = Append(decisions, [model |-> Model, response |-> Read,
                                           usage |-> UsageOf(Model, reply.usage)])
    BY <1>1 DEF Record, Delivered
  <2>2. Read.text = said
    <3>1. CASE Adapter[Model] = "anthropic"
      BY <2>1, <3>1 DEF Read, FromMessage, Response
    <3>2. CASE Adapter[Model] # "anthropic"
      <4>1. Read = Assembled(said, slots)
        BY <3>2 DEF Read
      <4> QED BY <4>1 DEF Assembled, Response
    <3> QED BY <3>1, <3>2
  <2>3. Last(decisions') = [model |-> Model, response |-> Read,
                            usage |-> UsageOf(Model, reply.usage)]
    <3>1. /\ Len(decisions) \in Nat /\ Len(decisions') = Len(decisions) + 1
          /\ decisions'[Len(decisions) + 1] = [model |-> Model, response |-> Read,
                                               usage |-> UsageOf(Model, reply.usage)]
      BY <2>1, AppendedTo DEF StepsOK
    <3> QED BY <3>1 DEF Last
  <2>4. Last(decisions').response.text = said
    BY <2>2, <2>3
  <2>5. IsSuffix(said, heard) /\ (tries = 0 => heard = said)
    BY <2>1, SuffixOf DEF HeardOK
  <2> QED BY <2>4, <2>5
<1>2. CASE decisions' = decisions
  <2>1. Len(decisions) \in Nat
    BY AppendedTo DEF StepsOK
  <2> QED BY <1>2, <2>1
<1> QED BY <1>1, <1>2 DEF ModelNext, Ask, Stop, Hear, GiveUp, Lose, Retry, Resume, Fragment, Serve

-----------------------------------------------------------------------------
ModelInv ==
    /\ StepsOK /\ Charging /\ Records /\ Within /\ SlotsOK /\ HeardOK
    /\ StreamedAsBlocking

LEMMA ModelInvHolds == ExecutorSpec => []ModelInv
<1>1. ModelInit => ModelInv
  <2>1. ModelInit => StreamedAsBlocking
    BY DEF ModelInit, StreamedAsBlocking
  <2> QED
    BY <2>1, InitSteps, InitCharging, InitRecords, InitWithin, InitSlots, InitHeard
    DEF ModelInv
<1>2. ModelInv /\ [ModelNext]_modelVars => ModelInv'
  BY StepsKept, ChargingKept, RecordsKept, WithinKept, SlotsKept, HeardKept, StreamKept
  DEF ModelInv
<1>3. ModelSpec => []ModelInv
  BY <1>1, <1>2, PTL DEF ModelSpec
<1> QED
  BY <1>3, ToolsAndModel, PTL

\* The idempotency key of a model step: a provider that honours it charges the
\* step once and once more for each failure on record, over any number of
\* retries, crashes and resumes.
THEOREM ChargesOnce == ExecutorSpec => []ChargedOnce
<1>1. ModelInv => ChargedOnce
  BY DEF ModelInv, Charging, ChargedOnce
<1> QED
  BY <1>1, ModelInvHolds, PTL

\* Budget.exceeded over the recorded usage is the provider's own account: no
\* model is called beyond a limit, and no run is stopped short of one, for any
\* prices, limits and mixture of models.
THEOREM BudgetKept == ExecutorSpec => []BudgetTrue
<1>1. ModelInv => BudgetTrue
  <2>1. StepsOK => DOMAIN decisions = 1..Len(decisions)
    BY DEF StepsOK, IsSequence
  <2> QED
    BY <2>1 DEF ModelInv, Within, BudgetTrue
<1> QED
  BY <1>1, ModelInvHolds, PTL

\* _generate_streaming: whatever way the chunks of a stream interleave, the
\* decision recorded is that of the blocking call.
THEOREM StreamsAlike == ExecutorSpec => []StreamedAsBlocking
<1>1. ModelInv => StreamedAsBlocking
  BY DEF ModelInv
<1> QED
  BY <1>1, ModelInvHolds, PTL

\* A listener's last deltas are the text recorded, and all that it heard is,
\* where the first attempt succeeded.
THEOREM HeardThenRecorded == ExecutorSpec => HeardIsRecorded
<1>1. ModelInv /\ [ModelNext]_modelVars =>
        [Len(decisions') > Len(decisions) /\ listening =>
            LET text == Last(decisions').response.text
            IN  /\ IsSuffix(text, heard)
                /\ tries = 0 => heard = text]_modelVars
  BY RecordIsHeard DEF ModelInv
<1>2. ExecutorSpec => [][ModelNext]_modelVars
  BY ToolsAndModel, PTL DEF ModelSpec
<1> QED
  BY <1>1, <1>2, ModelInvHolds, PTL DEF HeardIsRecorded
=============================================================================
