------------------------------- MODULE Engine -------------------------------
(***************************************************************************)
(* The event-sourced engine: any number of invocations of Agent.run, each  *)
(* a driver, and of Agent.approve / reject, each a human, over the log of  *)
(* one run in a shared store.                                              *)
(*                                                                         *)
(* One action is what a driver does between two of its awaits that touch   *)
(* shared state: a lease call, a load, an append, or a tool taking effect. *)
(* The fold and the orchestrator read only the driver's own view, so they  *)
(* are evaluated in the action of the await they precede.                  *)
(***************************************************************************)
EXTENDS EventLog

CONSTANTS
    Drivers,          \* invocations of Agent.run / resume / stream
    Humans,           \* invocations of Agent.approve / reject
    Nobody,           \* no lease owner
    Inputs,           \* inputs a caller may pass
    NoInput,          \* what resume passes
    BlockedInputs,    \* inputs the input guardrail rejects
    Tools,            \* tools the model may call
    Irreversible,     \* those declared reversible=False
    Mode,             \* recorded autonomy: tool -> shadow | assisted | autonomous
    Replies,          \* model call index -> the lists of calls it may reply with
    Texts,            \* what a textual answer is to the schema: valid, invalid
    BadArguments,     \* ids of final_answer calls whose arguments do not validate
    Contents,         \* what a tool that ran may return
    MaxSteps,         \* recorded max_steps
    BudgetCalls,      \* model calls the budget pays for
    HasSchema,        \* the run has a recorded output schema
    HasMemory,        \* the agent has a memory
    Leased,           \* the store offers leases
    DecideAttempts,   \* appends _decide tries (5 in the code)
    Stalls,           \* a live driver may outlive its TTL between two renewals
    MayCrash,         \* a process may die
    MayCancel,        \* a stream consumer may close the stream
    MayTimeOut,       \* a tool may outlive its policy's timeout
    StoreFailsFor,    \* those whose store calls may raise more than ConflictError
    MaxFailures       \* bound on the run_failed events of a behaviour

FinalAnswer       == "final_answer"
MaxSchemaFeedback == 2

Writers == Drivers \cup Humans

ASSUME ActorsAssumption ==
    /\ Drivers \cap Humans = {}
    /\ Nobody \notin Writers
    /\ NoInput \notin Inputs
    /\ BlockedInputs \subseteq Inputs
    /\ StoreFailsFor \subseteq Writers

ASSUME RunAssumption ==
    /\ MaxSteps \in Nat
    /\ BudgetCalls \in Nat
    /\ MaxFailures \in Nat
    /\ DecideAttempts \in Nat \ {0}
    /\ Irreversible \subseteq Tools
    /\ Mode \in [Tools -> {"shadow", "assisted", "autonomous"}]
    /\ {HasSchema, HasMemory, Leased, Stalls, MayCrash, MayCancel, MayTimeOut} \subseteq BOOLEAN

\* Every list of calls the model may reply with, and every call in them.
Lists   == UNION {Replies[k] : k \in DOMAIN Replies}
Calls   == UNION {{calls[i] : i \in DOMAIN calls} : calls \in Lists}
CallIds == {c.id : c \in Calls}

ASSUME RepliesAssumption ==
    /\ 0..(MaxSteps - 1) \subseteq DOMAIN Replies
    /\ Lists \subseteq Seq(Calls)

VARIABLES
    log,        \* the store's events of this run
    lease,      \* the store's lease row: its owner, and whether it is unexpired
    pc,         \* where each writer is
    view,       \* each writer's local list of events
    ask,        \* the input each driver was invoked with
    mine,       \* started_here: intents each driver appended itself
    out,        \* executed steps each driver has yet to record
    running,    \* tool executions each process has in flight
    executed,   \* history: the tool effects that have happened
    verdict,    \* the decision each human is recording
    named,      \* whether the human named the call, or takes the default
    attempts    \* how often it has conflicted

vars ==
    <<log, lease, pc, view, ask, mine, out, running, executed, verdict, named, attempts>>

NoVerdict == [type |-> "none"]

Idle   == {"idle"}
Ended  == {"returned", "raised", "crashed"}

\* A driver inside EventSourcedEngine.run, past its acquire.
Driving(d) == pc[d] \notin Idle \cup Ended

Init ==
    /\ log = EmptyLog
    /\ lease = [owner |-> Nobody, live |-> FALSE]
    /\ pc = [w \in Writers |-> "idle"]
    /\ view = [w \in Writers |-> EmptyLog]
    /\ ask = [d \in Drivers |-> NoInput]
    /\ mine = [d \in Drivers |-> {}]
    /\ out = [d \in Drivers |-> EmptyLog]
    /\ running = [d \in Drivers |-> {}]
    /\ executed = {}
    /\ verdict = [h \in Humans |-> NoVerdict]
    /\ named = [h \in Humans |-> FALSE]
    /\ attempts = [h \in Humans |-> 0]

-----------------------------------------------------------------------------
(* The store.                                                              *)

Goto(w, label) == pc' = [pc EXCEPT ![w] = label]

\* store.append at the next seq of w's view returns: the seq was free, or
\* already holds this very event.
Stored(w, e) ==
    LET seq == NextSeq(view[w])
    IN  /\ IF seq \in DOMAIN log
           THEN log[seq] = e /\ UNCHANGED log
           ELSE log' = With(log, seq, e)
        /\ view' = [view EXCEPT ![w] = With(view[w], seq, e)]

\* Mutant: the loser of a race keeps its own result.
ConflictKept(w, e) ==
    LET seq == NextSeq(view[w])
    IN  /\ seq \in DOMAIN log
        /\ log[seq] # e
        /\ view' = [view EXCEPT ![w] = With(view[w], seq, e)]
        /\ UNCHANGED log

\* store.append raises ConflictError.
Conflict(w, e) ==
    LET seq == NextSeq(view[w])
    IN  /\ seq \in DOMAIN log
        /\ log[seq] # e
        /\ UNCHANGED <<log, view>>

\* Mutant: a lost race is retried without reloading.
PostAgain(d, e, next) ==
    \/ Stored(d, e) /\ Goto(d, next)
    \/ Conflict(d, e) /\ Goto(d, pc[d])

\* engine._append: a lost race sends the driver to reload.
Post(d, e, next) ==
    \/ Stored(d, e) /\ Goto(d, next)
    \/ Conflict(d, e) /\ Goto(d, "reload")

Load(w) == view' = [view EXCEPT ![w] = log] /\ UNCHANGED log

\* Mutant: the upsert of the lease row is unconditional.
LeaseTaken(d) == TRUE

LeaseFree(d) == lease.owner \in {Nobody, d} \/ ~lease.live

\* Unwinding releases the lease only when it is still ours.
ReleaseLease(d) ==
    lease' = IF lease.owner = d THEN [owner |-> Nobody, live |-> FALSE] ELSE lease

\* A lease passes its expiry: its owner died or could not release it, or a
\* step outlived the TTL.
Lapse ==
    /\ lease.live
    /\ Stalls \/ pc[lease.owner] \in Ended
    /\ lease' = [lease EXCEPT !.live = FALSE]
    /\ UNCHANGED <<log, pc, view, ask, mine, out, running, executed, verdict, named,
                   attempts>>

-----------------------------------------------------------------------------
(* What the next iteration of the loop will do, from the driver's view.    *)

Step(v) == NextStep(v, MaxSteps)

NeedsRecall(v) == HasMemory /\ ~Recalled(v)

\* The model answered in text under a schema and the turn is still open.
TextFinish(v) == HasSchema /\ Finished(v) /\ ~FinishRecorded(v)

MayCorrect(v) == FeedbackCount(v) < MaxSchemaFeedback

Delivering(v) == HasSchema /\ Step(v) = "tool" /\ NextCall(v).tool = FinalAnswer

Vetoed(v) == Step(v) = "model" /\ ModelCalls(v) = 0 /\ Input(v) \in BlockedInputs

OverBudget(v) == Step(v) = "model" /\ ModelCalls(v) >= BudgetCalls

ToolAt(v, i) == CurrentCalls(v)[i].tool

CanParallelize(v) ==
    \A i \in Pending(v) :
        Mode[ToolAt(v, i)] = "autonomous" /\ ToolAt(v, i) \notin Irreversible

Parallel(v) ==
    /\ Cardinality(Pending(v)) > 1
    /\ ~(HasSchema /\ \E i \in Pending(v) : ToolAt(v, i) = FinalAnswer)
    /\ CanParallelize(v)

\* Mutant: the serial step takes the first call of the decision, not the first
\* pending one.
BatchFromStart(v) == IF Parallel(v) THEN Pending(v) ELSE {1}

\* The calls executed together: all siblings, or the first one.
Batch(v) == IF Parallel(v) THEN Pending(v) ELSE {First(Pending(v))}

\* Mutant: siblings are numbered by their place in the decision.
TasksByPlace(v) ==
    {[seq |-> NextSeq(v) + i - 1, call |-> CurrentCalls(v)[i].id] : i \in Batch(v)}

\* Seqs are assigned in call order before anything runs.
Tasks(v) ==
    {[seq |-> NextSeq(v) + Cardinality({j \in Batch(v) : j < i}),
      call |-> CurrentCalls(v)[i].id] : i \in Batch(v)}

\* The first pending call, once it is this driver's turn to handle it alone.
Serial(v) == Step(v) = "tool" /\ ~Delivering(v) /\ ~Parallel(v)

\* Mutant: an assisted call runs unless it was denied.
ClearedUnlessDenied(v) ==
    \/ Mode[NextCall(v).tool] = "autonomous"
    \/ /\ Mode[NextCall(v).tool] = "assisted"
       /\ ApprovalDecision(v, NextCall(v).id) # "denied"

\* Autonomy lets the call through to execution.
Cleared(v) ==
    \/ Mode[NextCall(v).tool] = "autonomous"
    \/ /\ Mode[NextCall(v).tool] = "assisted"
       /\ ApprovalDecision(v, NextCall(v).id) = "granted"

\* Mutant: anybody's intent will do.
IntentOfAnyone(d, v) ==
    NextCall(v).tool \in Irreversible => NextCall(v).id \in Started(v)

\* An irreversible call runs only once this process has recorded its intent.
IntentRecorded(d, v) ==
    NextCall(v).tool \in Irreversible =>
        NextCall(v).id \in Started(v) /\ NextCall(v).id \in mine[d]

-----------------------------------------------------------------------------
(* Entering a run.                                                         *)

human == <<verdict, named, attempts>>
work  == <<mine, out, running, executed>>

LoopHead == IF Leased THEN "loop" ELSE "decide"

\* Agent.run / resume up to the engine's acquire.  resume refuses an unknown
\* run before it gets here.  An acquire that raises may have written its row,
\* which nobody releases.
Invoke(d) ==
    /\ pc[d] = "idle"
    /\ \E input \in Inputs \cup {NoInput} :
          /\ input = NoInput => DOMAIN log # {}
          /\ ask' = [ask EXCEPT ![d] = input]
    /\ \/ /\ Leased => LeaseFree(d)
          /\ Goto(d, "load")
          /\ lease' = IF Leased THEN [owner |-> d, live |-> TRUE] ELSE lease
       \/ /\ Leased /\ (d \in StoreFailsFor \/ ~LeaseFree(d))      \* or LeaseHeldError
          /\ Goto(d, "raised")
          /\ UNCHANGED lease
       \/ /\ Leased /\ d \in StoreFailsFor /\ LeaseFree(d)
          /\ Goto(d, "raised")
          /\ lease' = [owner |-> d, live |-> TRUE]
    /\ UNCHANGED <<log, view, human, work>>

\* The first load decides what this invocation is: a new run, a replay or
\* resume, a follow-up turn, or a refusal.
Open(d) ==
    LET repeats == ask[d] \in {NoInput, Input(log)} \cup LastMessage(log)
    IN  /\ pc[d] = "load"
        /\ Load(d)
        /\ \/ DOMAIN log = {} /\ Goto(d, "begin")
           \/ DOMAIN log # {} /\ repeats /\ Goto(d, LoopHead)
           \/ DOMAIN log # {} /\ ~repeats /\ Finished(log) /\ Goto(d, "followup")
           \/ DOMAIN log # {} /\ ~repeats /\ ~Finished(log) /\ Goto(d, "unwind")
        /\ UNCHANGED <<lease, ask, human, work>>

\* The raw store.append calls before the loop let ConflictError propagate.
PostOrRaise(d, e, next) ==
    \/ Stored(d, e) /\ Goto(d, next)
    \/ Conflict(d, e) /\ Goto(d, "unwind")

Begin(d) ==
    /\ pc[d] = "begin"
    /\ PostOrRaise(d, RunStarted(ask[d]), LoopHead)
    /\ UNCHANGED <<lease, ask, human, work>>

\* Mutant: a follow-up is not vetted.
FollowUpUnvetted(d) ==
    /\ pc[d] = "followup"
    /\ PostOrRaise(d, UserMessage(ask[d]), LoopHead)
    /\ UNCHANGED <<lease, ask, human, work>>

FollowUp(d) ==
    /\ pc[d] = "followup"
    /\ PostOrRaise(d, UserMessage(ask[d]),
                   IF ask[d] \in BlockedInputs THEN "blockturn" ELSE LoopHead)
    /\ UNCHANGED <<lease, ask, human, work>>

BlockTurn(d) ==
    /\ pc[d] = "blockturn"
    /\ PostOrRaise(d, RunFinished("blocked"), "return")
    /\ UNCHANGED <<lease, ask, human, work>>

-----------------------------------------------------------------------------
(* The loop.                                                               *)

\* Each iteration renews the lease; losing it aborts the driver.
Renew(d) ==
    /\ pc[d] = "loop"
    /\ IF LeaseFree(d)
       THEN Goto(d, "decide") /\ lease' = [owner |-> d, live |-> TRUE]
       ELSE Goto(d, "unwind") /\ UNCHANGED lease
    /\ UNCHANGED <<log, view, ask, human, work>>

Reload(d) ==
    /\ pc[d] = "reload"
    /\ Load(d)
    /\ Goto(d, LoopHead)
    /\ UNCHANGED <<lease, ask, human, work>>

Recall(d) ==
    /\ pc[d] = "decide"
    /\ NeedsRecall(view[d])
    /\ Post(d, MemoryRecalled(d), LoopHead)
    /\ UNCHANGED <<lease, ask, human, work>>

\* Past the recall, where the orchestrator is asked.
Deciding(d) == pc[d] = "decide" /\ ~NeedsRecall(view[d])

AcceptText(d) ==
    /\ Deciding(d)
    /\ TextFinish(view[d]) /\ AnswerValid(view[d])
    /\ Post(d, RunFinished("structured"), "return")
    /\ UNCHANGED <<lease, ask, human, work>>

\* Mutant: corrections are not counted.
CorrectForever(d) ==
    /\ Deciding(d)
    /\ TextFinish(view[d]) /\ ~AnswerValid(view[d])
    /\ Post(d, SchemaFeedback, LoopHead)
    /\ UNCHANGED <<lease, ask, human, work>>

CorrectText(d) ==
    /\ Deciding(d)
    /\ TextFinish(view[d]) /\ ~AnswerValid(view[d])
    /\ MayCorrect(view[d])
    /\ Post(d, SchemaFeedback, LoopHead)
    /\ UNCHANGED <<lease, ask, human, work>>

\* A final_answer call is validated and answered, never dispatched.
Deliver(d) ==
    LET id == NextCall(view[d]).id
    IN  /\ Deciding(d)
        /\ Delivering(view[d])
        /\ IF id \in BadArguments
           THEN Post(d, ToolResult(id, "invalid"), LoopHead)
           ELSE Post(d, ToolResult(id, "accepted"), "finish")
        /\ UNCHANGED <<lease, ask, human, work>>

\* The second append of an accepted final_answer.
FinishDelivery(d) ==
    /\ pc[d] = "finish"
    /\ Post(d, RunFinished("structured"), LoopHead)
    /\ UNCHANGED <<lease, ask, human, work>>

Veto(d) ==
    /\ Deciding(d)
    /\ Vetoed(view[d])
    /\ Post(d, RunFinished("blocked"), "return")
    /\ UNCHANGED <<lease, ask, human, work>>

\* The turn is over: answered, out of corrections, out of steps or of budget.
Concludes(v) ==
    \/ Step(v) = "done" /\ ~(TextFinish(v) /\ (AnswerValid(v) \/ MayCorrect(v)))
    \/ OverBudget(v) /\ ~Vetoed(v)

\* Mutant: a finished turn is taken for a recorded one.
ConcludeUnrecorded(d) ==
    LET v == view[d]
    IN  /\ Deciding(d)
        /\ Concludes(v)
        /\ IF Finished(v)
           THEN Goto(d, "return") /\ UNCHANGED <<log, view>>
           ELSE Post(d, RunFinished("stopped"), "return")
        /\ UNCHANGED <<lease, ask, human, work>>

Conclude(d) ==
    LET v == view[d]
    IN  /\ Deciding(d)
        /\ Concludes(v)
        /\ IF FinishRecorded(v)
           THEN Goto(d, "return") /\ UNCHANGED <<log, view>>
           ELSE Post(d, RunFinished(IF Finished(v) THEN "answer" ELSE "stopped"), "return")
        /\ UNCHANGED <<lease, ask, human, work>>

\* The text beside tool calls is recorded and never read.
Aside == CHOOSE text \in Texts : TRUE

\* The model replies; the decision has yet to be recorded.
AskModel(d) ==
    LET v == view[d]
    IN  /\ Deciding(d)
        /\ Step(v) = "model" /\ ~Vetoed(v) /\ ~OverBudget(v)
        /\ \E calls \in Replies[ModelCalls(v)], text \in Texts :
              /\ calls # <<>> => text = Aside
              /\ out' = [out EXCEPT ![d] = With(EmptyLog, NextSeq(v), Decision(calls, text))]
        /\ Goto(d, "record")
        /\ UNCHANGED <<log, lease, view, ask, human, mine, running, executed>>

MayFail == Cardinality(At(log, {"run_failed"})) < MaxFailures

\* The provider raises: the failure is recorded if the position is free and
\* the store takes it.
FailRun(d) ==
    /\ \/ MayFail /\ (Stored(d, RunFailed) \/ Conflict(d, RunFailed))
       \/ d \in StoreFailsFor /\ UNCHANGED <<log, view>>
    /\ Goto(d, "unwind")

ModelRaises(d) ==
    LET v == view[d]
    IN  /\ Deciding(d)
        /\ Step(v) = "model" /\ ~Vetoed(v) /\ ~OverBudget(v)
        /\ FailRun(d)
        /\ UNCHANGED <<lease, ask, human, work>>

-----------------------------------------------------------------------------
(* Tool steps.                                                             *)

Propose(d) ==
    LET call == NextCall(view[d])
    IN  /\ Deciding(d)
        /\ Serial(view[d]) /\ Mode[call.tool] = "shadow"
        /\ Post(d, ToolResult(call.id, "shadow"), "reload")
        /\ UNCHANGED <<lease, ask, human, work>>

Refuse(d) ==
    LET call == NextCall(view[d])
    IN  /\ Deciding(d)
        /\ Serial(view[d]) /\ Mode[call.tool] = "assisted"
        /\ ApprovalDecision(view[d], call.id) = "denied"
        /\ Post(d, ToolResult(call.id, "denied"), "reload")
        /\ UNCHANGED <<lease, ask, human, work>>

\* An undecided assisted call: request approval once, then pause.
Await(d) ==
    LET call == NextCall(view[d])
    IN  /\ Deciding(d)
        /\ Serial(view[d]) /\ Mode[call.tool] = "assisted"
        /\ ApprovalDecision(view[d], call.id) = "pending"
        /\ IF HasApprovalRequest(view[d], call.id)
           THEN Goto(d, "pause") /\ UNCHANGED <<log, view>>
           ELSE Post(d, ApprovalRequested(call.id), "pause")
        /\ UNCHANGED <<lease, ask, human, work>>

\* The paused result carries a fresh load.
Pause(d) ==
    /\ pc[d] = "pause"
    /\ Load(d)
    /\ Goto(d, "return")
    /\ UNCHANGED <<lease, ask, human, work>>

\* Mutant: one's own intent is taken for an orphan.
DisownOwn(d) ==
    LET call == NextCall(view[d])
    IN  /\ Deciding(d)
        /\ Serial(view[d]) /\ Cleared(view[d])
        /\ call.tool \in Irreversible
        /\ call.id \in Started(view[d])
        /\ Post(d, ToolResult(call.id, "unknown_outcome"), LoopHead)
        /\ UNCHANGED <<lease, ask, human, work>>

\* An intent some other process recorded: its outcome is unknown.
Disown(d) ==
    LET call == NextCall(view[d])
    IN  /\ Deciding(d)
        /\ Serial(view[d]) /\ Cleared(view[d])
        /\ call.tool \in Irreversible
        /\ call.id \in Started(view[d]) \ mine[d]
        /\ Post(d, ToolResult(call.id, "unknown_outcome"), LoopHead)
        /\ UNCHANGED <<lease, ask, human, work>>

\* Mutant: the intent names the tool, not the call.
IntendTool(d) ==
    LET call == NextCall(view[d])
    IN  /\ Deciding(d)
        /\ Serial(view[d]) /\ Cleared(view[d])
        /\ call.tool \in Irreversible
        /\ call.id \notin Started(view[d])
        /\ Stored(d, StepStarted(call.tool)) /\ Goto(d, LoopHead)
        /\ mine' = [mine EXCEPT ![d] = @ \cup {call.tool}]
        /\ UNCHANGED <<lease, ask, human, out, running, executed>>

\* Mutant: the intent is recorded whether or not there is one.
IntendAgain(d) ==
    LET call == NextCall(view[d])
    IN  /\ Deciding(d)
        /\ Serial(view[d]) /\ Cleared(view[d])
        /\ call.tool \in Irreversible
        /\ Stored(d, StepStarted(call.id)) /\ Goto(d, LoopHead)
        /\ mine' = [mine EXCEPT ![d] = @ \cup {call.id}]
        /\ UNCHANGED <<lease, ask, human, out, running, executed>>

Intend(d) ==
    LET call == NextCall(view[d])
        e == StepStarted(call.id)
    IN  /\ Deciding(d)
        /\ Serial(view[d]) /\ Cleared(view[d])
        /\ call.tool \in Irreversible
        /\ call.id \notin Started(view[d])
        /\ \/ /\ Stored(d, e) /\ Goto(d, LoopHead)
              /\ mine' = [mine EXCEPT ![d] = @ \cup {call.id}]
           \/ Conflict(d, e) /\ Goto(d, "reload") /\ UNCHANGED mine
        /\ UNCHANGED <<lease, ask, human, out, running, executed>>

\* Dispatch the call, or all siblings at once; an unknown tool, malformed
\* arguments or a guardrail answer a call without running its tool.
Execute(d) ==
    LET v == view[d]
    IN  /\ Deciding(d)
        /\ Step(v) = "tool" /\ ~Delivering(v)
        /\ Parallel(v) \/ (Cleared(v) /\ IntentRecorded(d, v))
        /\ \E run \in SUBSET Tasks(v) : running' = [running EXCEPT ![d] = @ \cup run]
        /\ Goto(d, "execute")
        /\ UNCHANGED <<log, lease, view, ask, human, mine, out, executed>>

\* A tool takes effect.  One whose driver failed, was cancelled or timed out
\* goes on as long as its process lives.
Effect(d) ==
    \E t \in running[d] :
        /\ running' = [running EXCEPT ![d] = @ \ {t}]
        /\ executed' = executed \cup {[driver |-> d, seq |-> t.seq, call |-> t.call]}
        /\ UNCHANGED <<log, lease, pc, view, ask, human, mine, out>>

\* Every tool returned, or its timeout did.
Complete(d) ==
    LET tasks == Tasks(view[d])
        late  == running[d] \cap tasks
        TaskAt(seq) == CHOOSE t \in tasks : t.seq = seq
    IN  /\ pc[d] = "execute"
        /\ late # {} => MayTimeOut
        /\ \E content \in [tasks -> Contents] :
              out' = [out EXCEPT ![d] =
                        [seq \in {t.seq : t \in tasks} |->
                           ToolResult(TaskAt(seq).call,
                              IF TaskAt(seq) \in late THEN "timeout" ELSE content[TaskAt(seq)])]]
        /\ Goto(d, "record")
        /\ UNCHANGED <<log, lease, view, ask, human, mine, running, executed>>

\* A guardrail raises before or after one of the tools ran.  Its siblings
\* are not cancelled.
ToolRaises(d) ==
    /\ pc[d] = "execute"
    /\ \E t \in Tasks(view[d]) : running' = [running EXCEPT ![d] = @ \ {t}]
    /\ FailRun(d)
    /\ UNCHANGED <<lease, ask, human, mine, out, executed>>

\* The event of an executed step that is recorded next.
NextOut(d) == out[d][NextSeq(view[d])]

\* The shielded append of an executed step; a parallel batch is recorded in
\* call order, one append each.
Record(d) ==
    LET rest == DOMAIN out[d] \ {NextSeq(view[d])}
    IN  /\ pc[d] = "record"
        /\ NextSeq(view[d]) \in DOMAIN out[d]
        /\ \/ /\ Stored(d, NextOut(d))
              /\ out' = [out EXCEPT ![d] = [seq \in rest |-> out[d][seq]]]
              /\ Goto(d, IF rest = {} THEN LoopHead ELSE "record")
           \/ /\ Conflict(d, NextOut(d))
              /\ out' = [out EXCEPT ![d] = EmptyLog]
              /\ Goto(d, "reload")
        /\ UNCHANGED <<lease, ask, human, mine, running, executed>>

-----------------------------------------------------------------------------
(* Leaving a run.                                                          *)

\* The finally of EventSourcedEngine.run: a release that raises is swallowed
\* and leaves the row to its TTL.
Leave(d) ==
    /\ pc[d] \in {"return", "unwind", "broken"}
    /\ Goto(d, IF pc[d] = "return" THEN "returned" ELSE "raised")
    /\ ReleaseLease(d) \/ (d \in StoreFailsFor /\ UNCHANGED lease)
    /\ UNCHANGED <<log, view, ask, human, work>>

\* Cancelling an await abandons what it was doing; async tools are cancelled
\* with it, sync ones go on in their threads.
Cancel(d) ==
    /\ MayCancel
    /\ Driving(d) /\ pc[d] \notin {"record", "return", "unwind", "broken"}
    /\ \E threads \in SUBSET running[d] : running' = [running EXCEPT ![d] = threads]
    /\ Goto(d, "unwind")
    /\ UNCHANGED <<log, lease, view, ask, human, mine, out, executed>>

\* Mutant: the append is not shielded.
CancelUnshielded(d) ==
    /\ MayCancel
    /\ pc[d] = "record"
    /\ out' = [out EXCEPT ![d] = EmptyLog]
    /\ Goto(d, "unwind")
    /\ UNCHANGED <<log, lease, view, ask, human, mine, running, executed>>

\* Cancelled at the shielded append: the write in flight is awaited first.
CancelShielded(d) ==
    /\ MayCancel
    /\ pc[d] = "record"
    /\ NextSeq(view[d]) \in DOMAIN out[d]
    /\ Stored(d, NextOut(d)) \/ Conflict(d, NextOut(d))
    /\ out' = [out EXCEPT ![d] = EmptyLog]
    /\ Goto(d, "unwind")
    /\ UNCHANGED <<lease, ask, human, mine, running, executed>>

\* Where the next thing a driver does is a call of the store.
Calling(d) ==
    pc[d] \in {"load", "begin", "followup", "blockturn", "loop", "reload", "decide",
               "finish", "pause", "record"}

\* The store raises something other than ConflictError (the database is locked,
\* the connection is lost) and nothing catches it, or a second cancellation
\* hits the shielded append: what was executed stays unrecorded.  A call that
\* took effect and raises is that call, then this one at the label it led to.
StoreRaises(d) ==
    /\ d \in StoreFailsFor
    /\ Calling(d)
    /\ out' = [out EXCEPT ![d] = EmptyLog]
    /\ Goto(d, "broken")
    /\ UNCHANGED <<log, lease, view, ask, human, mine, running, executed>>

\* The process dies: its threads with it; its lease row stays.
Crash(d) ==
    /\ MayCrash
    /\ Driving(d)
    /\ Goto(d, "crashed")
    /\ running' = [running EXCEPT ![d] = {}]
    /\ out' = [out EXCEPT ![d] = EmptyLog]
    /\ UNCHANGED <<log, lease, view, ask, human, mine, executed>>

-----------------------------------------------------------------------------
(* Humans: Agent._decide is a read-modify-write with bounded retries.      *)

drivers == <<lease, ask, mine, out, running, executed>>

\* approve / reject, naming a call that is pending or taking the first one.
Review(h) ==
    /\ pc[h] = "idle"
    /\ \E request \in OpenRequests(log), granted \in BOOLEAN, name \in BOOLEAN :
          /\ ~name => request = First(OpenRequests(log))
          /\ verdict' = [verdict EXCEPT ![h] = Verdict(log[request].call, granted)]
          /\ named' = [named EXCEPT ![h] = name]
    /\ Load(h)
    /\ Goto(h, "deciding")
    /\ UNCHANGED <<drivers, attempts>>

Rule(h) ==
    /\ pc[h] = "deciding"
    /\ \/ Stored(h, verdict[h]) /\ Goto(h, "returned") /\ UNCHANGED attempts
       \/ /\ Conflict(h, verdict[h])
          /\ attempts' = [attempts EXCEPT ![h] = @ + 1]
          /\ Goto(h, IF attempts[h] + 1 < DecideAttempts THEN "reload" ELSE "raised")
    /\ UNCHANGED <<drivers, verdict, named>>

\* Mutant: the retry does not check that the call is still pending.
ReconsiderBlindly(h) ==
    /\ pc[h] = "reload"
    /\ Load(h)
    /\ Goto(h, "deciding")
    /\ UNCHANGED <<drivers, verdict, named, attempts>>

\* Load again and resolve the call again: a named one that is no longer
\* pending, or none pending, raises ValueError.
Reconsider(h) ==
    /\ pc[h] = "reload"
    /\ Load(h)
    /\ \/ /\ named[h] /\ verdict[h].call \in PendingApprovals(log)
          /\ Goto(h, "deciding") /\ UNCHANGED verdict
       \/ /\ ~named[h] /\ OpenRequests(log) # {}
          /\ verdict' = [verdict EXCEPT ![h].call = log[First(OpenRequests(log))].call]
          /\ Goto(h, "deciding")
       \/ /\ IF named[h] THEN verdict[h].call \notin PendingApprovals(log)
                         ELSE OpenRequests(log) = {}
          /\ Goto(h, "raised") /\ UNCHANGED verdict
    /\ UNCHANGED <<drivers, named, attempts>>

\* The store raises something other than ConflictError at a load or an append.
Forsake(h) ==
    /\ h \in StoreFailsFor
    /\ pc[h] \in {"deciding", "reload"}
    /\ Goto(h, "raised")
    /\ UNCHANGED <<log, view, drivers, verdict, named, attempts>>

-----------------------------------------------------------------------------
Enter(d) == Open(d) \/ Begin(d) \/ FollowUp(d) \/ BlockTurn(d)

Loop(d) ==
    \/ Renew(d) \/ Reload(d) \/ Recall(d)
    \/ AcceptText(d) \/ CorrectText(d) \/ Deliver(d) \/ FinishDelivery(d)
    \/ Veto(d) \/ Conclude(d) \/ AskModel(d)
    \/ Propose(d) \/ Refuse(d) \/ Await(d) \/ Pause(d)
    \/ Disown(d) \/ Intend(d) \/ Execute(d) \/ Complete(d) \/ Record(d)

Fault(d) ==
    \/ ModelRaises(d) \/ ToolRaises(d) \/ StoreRaises(d)
    \/ Cancel(d) \/ CancelShielded(d) \/ Crash(d)

Drive(d) == Enter(d) \/ Loop(d) \/ Leave(d)

Human(h) == Review(h) \/ Rule(h) \/ Reconsider(h) \/ Forsake(h)

Next ==
    \/ \E d \in Drivers : Invoke(d) \/ Drive(d) \/ Effect(d) \/ Fault(d)
    \/ \E h \in Humans : Human(h)
    \/ Lapse

Spec == Init /\ [][Next]_vars

\* An event loop runs every task that is ready and a tool that was started
\* returns; nobody has to invoke, decide, fail or be late.
Fairness ==
    /\ \A d \in Drivers : WF_vars(Drive(d)) /\ WF_vars(Effect(d))
    /\ \A h \in Humans : WF_vars(Rule(h) \/ Reconsider(h))

FairSpec == Spec /\ Fairness
=============================================================================
