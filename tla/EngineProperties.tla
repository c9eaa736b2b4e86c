-------------------------- MODULE EngineProperties --------------------------
(***************************************************************************)
(* What the engine promises about a run, whoever drives it.                *)
(***************************************************************************)
EXTENDS Engine, Conversation

-----------------------------------------------------------------------------
(* What the theorems ask of the provider.  The fold answers a call by its  *)
(* id (pending_tool_calls), and so does a human's verdict.                 *)

\* The provider gives each call of a reply an id of its own.
DistinctIds ==
    \A calls \in Lists : \A i, j \in DOMAIN calls : calls[i].id = calls[j].id => i = j

\* The ids the model may use in its k-th reply.
IdsOf(k) == UNION {{calls[i].id : i \in DOMAIN calls} : calls \in Replies[k]}

\* The provider never gives the same id to two calls of a run.
UniqueIds ==
    /\ DistinctIds
    /\ \A c, d \in Calls : c.id = d.id => c = d
    /\ \A j, k \in DOMAIN Replies : j # k => IdsOf(j) \cap IdsOf(k) = {}

-----------------------------------------------------------------------------
(* Types.                                                                  *)

Task == [seq : Nat, call : CallIds]

Labels ==
    {"idle", "load", "begin", "followup", "blockturn", "loop", "decide", "reload",
     "execute", "record", "finish", "pause", "return", "unwind", "broken", "deciding"} \cup Ended

Verdicted == {Verdict(id, granted) : id \in CallIds, granted \in BOOLEAN}

EngineEvents ==
    {RunStarted(x) : x \in Inputs \cup {NoInput}}
    \cup {UserMessage(x) : x \in Inputs \cup {NoInput}}
    \cup {MemoryRecalled(d) : d \in Drivers}
    \cup {Decision(calls, text) : calls \in Lists, text \in Texts}
    \cup {StepStarted(id) : id \in CallIds}
    \cup {ToolResult(id, content) : id \in CallIds,
             content \in Contents \cup {"invalid", "accepted", "shadow", "denied",
                                       "unknown_outcome", "timeout"}}
    \cup {ApprovalRequested(id) : id \in CallIds}
    \cup Verdicted
    \cup {RunFinished(output) : output \in {"answer", "stopped", "blocked", "structured"}}
    \cup {SchemaFeedback, RunFailed}

\* Events at natural seqs below next_seq.
EventList(v) ==
    /\ NextSeq(v) \in Nat
    /\ \A i \in DOMAIN v : i \in Nat /\ i < NextSeq(v) /\ v[i] \in EngineEvents

StoreTyped ==
    /\ EventList(log)
    /\ DOMAIN view = Writers
    /\ \A w \in Writers : EventList(view[w])

LeaseTyped == lease \in [owner : Drivers \cup {Nobody}, live : BOOLEAN]

WorkTyped ==
    /\ ask \in [Drivers -> Inputs \cup {NoInput}]
    /\ mine \in [Drivers -> SUBSET CallIds]
    /\ running \in [Drivers -> SUBSET Task]
    /\ DOMAIN out = Drivers
    /\ \A d \in Drivers : \A i \in DOMAIN out[d] : out[d][i] \in EngineEvents
    /\ executed \subseteq [driver : Drivers, seq : Nat, call : CallIds]

HumanTyped ==
    /\ verdict \in [Humans -> Verdicted \cup {NoVerdict}]
    /\ named \in [Humans -> BOOLEAN]
    /\ attempts \in [Humans -> 0..DecideAttempts]

\* Every variable has its type: in particular the log and every local copy of
\* it hold only events the engine and the humans can produce, at seqs that
\* next_seq is past.
TypeOK ==
    /\ StoreTyped
    /\ LeaseTyped
    /\ pc \in [Writers -> Labels]
    /\ WorkTyped
    /\ HumanTyped

-----------------------------------------------------------------------------
(* The log.                                                                *)

Shared == INSTANCE RunLog WITH Events <- EngineEvents

\* Whatever branch it takes, a driver or a human touches the log only by the
\* optimistic protocol of RunLog: load, append at the next seq of its own
\* view, or be told of a conflict.  What RunLog promises follows for the run.
ProtocolKept == Shared!Spec

\* A turn is closed for the reason recorded: the answer validated, the input
\* was refused, the model answered and no correction is left, or the run is out
\* of steps or budget.
Closes(p, output) ==
    LET last == p[Last(DOMAIN p)]
    IN  CASE output = "structured" ->
                \/ TextFinish(p) /\ AnswerValid(p)
                \/ last.type = "tool_result" /\ last.content = "accepted"
          [] output = "blocked" ->
                \/ Vetoed(p)
                \/ last.type = "user_message" /\ last.input \in BlockedInputs
          [] output = "answer"  -> Finished(p) /\ ~(TextFinish(p) /\ AnswerValid(p))
          [] output = "stopped" -> ~Finished(p) /\ (Step(p) = "done" \/ OverBudget(p))

\* What a single, never interrupted driver could have appended after p.
Legal(p, e) ==
    \/ e.type = "run_started" /\ DOMAIN p = {}
    \/ e.type = "user_message" /\ Finished(p)
    \/ e.type = "memory_recalled" /\ NeedsRecall(p)
    \/ /\ e.type = "model_decision"
       /\ Step(p) = "model" /\ ~NeedsRecall(p) /\ ~OverBudget(p) /\ ~Vetoed(p)
    \/ e.type = "step_started" /\ e.call \in PendingIds(p) \ Started(p)
    \/ e.type = "tool_result" /\ e.call \in PendingIds(p)
    \/ /\ e.type = "approval_requested"
       /\ e.call \in PendingIds(p) /\ ~HasApprovalRequest(p, e.call)
    \/ /\ e.type \in {"approval_granted", "approval_denied"}
       /\ e.call \in PendingApprovals(p)
    \/ /\ e.type = "schema_feedback"
       /\ TextFinish(p) /\ ~AnswerValid(p) /\ MayCorrect(p)
    \/ e.type = "run_finished" /\ ~FinishRecorded(p) /\ Closes(p, e.output)
    \/ e.type = "run_failed" /\ ~Finished(p) /\ DOMAIN p # {}

\* Decisions are taken from possibly stale views, by several drivers and
\* humans at once, yet every event the store takes is a legal continuation of
\* the log at that moment: one answer per call, one verdict per request, no
\* model call past max_steps or the budget, no second run_finished in a turn, nor one
\* for a reason that does not hold.
AppendsAreLegal ==
    [][\A i \in DOMAIN log' \ DOMAIN log : Legal(log, log'[i])]_log

\* Every side effect that ever happened was licensed by the log before it:
\* its call was asked for and unanswered, an assisted one had been granted,
\* an irreversible one had its intent recorded, a shadow one never runs.
EffectsAreLicensed ==
    \A x \in executed :
        LET p == Before(log, x.seq)
        IN  \E i \in Pending(p) :
              /\ CurrentCalls(p)[i].id = x.call
              /\ Mode[ToolAt(p, i)] # "shadow"
              /\ Mode[ToolAt(p, i)] = "assisted" => ApprovalDecision(p, x.call) = "granted"
              /\ ToolAt(p, i) \in Irreversible => x.call \in Started(p)

IrreversibleCalls ==
    {c.id : c \in {d \in Calls : d.tool \in Irreversible}}

\* With one live driver, an irreversible tool takes effect at most once over
\* any number of crashes, cancellations, timeouts and resumes.
IrreversibleOnce ==
    \A id \in IrreversibleCalls : Cardinality({x \in executed : x.call = id}) <= 1

\* With leases and steps shorter than the TTL, one invocation at a time is
\* inside the engine.
OneLiveDriver ==
    \A d, e \in Drivers : Driving(d) /\ Driving(e) => d = e

\* A recorded step never re-executes: what a driver dispatches is unanswered
\* in the store's log, not only in the driver's copy.
RecordedNeverRedone ==
    [][\A d \in Drivers : \A t \in running'[d] \ running[d] :
          t.call \in PendingIds(log)]_vars

\* The idempotency key run_id:seq of a call is the same in every execution of
\* it, so a tool can deduplicate across a crash or a cancelled driver, as long
\* as no failure is recorded: run_failed takes a position of its own.  So does
\* run_finished, and it closes a turn over calls that another driver may be
\* running where a delivery was accepted before them and there is no lease.
KeyStable ==
    At(log, {"run_failed"}) = {} =>
        \A x, y \in executed : x.call = y.call => x.seq = y.seq

\* README: "The runtime injects a stable key derived from the run and step".  A
\* guardrail that raises after a tool acted has run_failed recorded at the
\* tool's position, and the resumed run executes the call under the next.
KeyNeverMoves ==
    \A x, y \in executed : x.call = y.call => x.seq = y.seq

\* An intent is disowned as unknown_outcome only when the process that
\* recorded it is no longer driving.
OnlyOrphansDisowned ==
    \A i \in At(log, {"tool_result"}) :
        log[i].content = "unknown_outcome" =>
            \A d \in Drivers : log[i].call \in mine[d] => ~Driving(d)

\* With leases and steps shorter than the TTL, a step that was executed is
\* recorded, as what it did and where it was numbered: no other driver, no
\* human's decision and no closed stream takes or loses its place.  Only the
\* death of its process or a store error (or a second cancellation) at that
\* very append loses it, and neither lets the driver go on.
StepRecordLands ==
    [][\A d \in Drivers :
          pc[d] = "record" /\ (pc'[d] # "record" \/ out'[d] # out[d])
            => \/ pc'[d] \in {"crashed", "broken"}
               \/ /\ NextSeq(view[d]) \in DOMAIN log'
                  /\ log'[NextSeq(view[d])] = NextOut(d)]_vars

\* A driver that returns has nothing left to do: the turn it saw is recorded
\* as finished, and its result says so, or a human was asked in this turn,
\* who may have answered before the paused result was loaded.
ReturnedIsSettled ==
    \A d \in Drivers :
        pc[d] = "returned" =>
            LET v == view[d]
            IN  \/ FinishRecorded(v) /\ Status(v) = "completed"
                \/ \E i \in At(v, {"approval_requested"}) :
                      \A j \in At(v, {"user_message", "run_finished"}) : j < i

\* The driver calls the model.
Asks(d) == Deciding(d) /\ Step(view[d]) = "model" /\ pc'[d] = "record"

\* A delivery was accepted while siblings after it were pending: they run in
\* the next turn, behind its message.
CutShort(v) ==
    \E i \in At(v, {"model_decision"}) : \E k \in 1..(Len(v[i].calls) - 1) :
        \E j \in At(v, {"tool_result"}) :
            v[j].call = v[i].calls[k].id /\ v[j].content = "accepted"

\* Whatever crashed, conflicted or was taken over by another process, in
\* whichever turn, the conversation a provider is sent has every tool call
\* answered right after the message that asked for it.
WireLegal ==
    [][\A d \in Drivers :
          Asks(d) => CutShort(view[d]) \/ Answerable(Messages(view[d]))]_vars

\* The model is not asked about a follow-up the guardrail refuses, unless a
\* process died between the append of the message and that of its refusal.  A
\* stream closed there, or a store that raises, lets it through as well: this
\* is said of processes with neither (MayCancel, StoreFailsFor).
RefusalHolds ==
    [][\A d \in Drivers :
          Asks(d) =>
              \/ LastMessage(view[d]) \cap BlockedInputs = {}
              \/ \E e \in Drivers : pc[e] = "crashed" /\ ask[e] \in BlockedInputs]_vars

\* Every invocation comes to an end: conflicts and reloads cannot keep two
\* drivers chasing each other.
DriversEnd == \A d \in Drivers : Driving(d) ~> ~Driving(d)
=============================================================================
