------------------------------ MODULE EventLog ------------------------------
(***************************************************************************)
(* The event log of one run, and the pure functions drangue computes from  *)
(* it.  A log (and a driver's local copy of it, its view) is a function    *)
(* from the sequence numbers that are occupied to the events stored there: *)
(* the store keys an event by (run_id, seq), so nothing in this shape      *)
(* forbids a gap or makes an append land at the tail.                      *)
(*                                                                         *)
(* Orchestrator state is never stored; it is folded from a view.  The      *)
(* operators below are the fields of drangue.orchestrator.State, each      *)
(* defined by the positions in the view that determine it.                 *)
(***************************************************************************)
EXTENDS Integers, Sequences, FiniteSets

-----------------------------------------------------------------------------
(* Events.  Two events are "the same immutable event" for the store when   *)
(* type and payload agree, which is equality of these records.             *)

RunStarted(input)       == [type |-> "run_started", input |-> input]
UserMessage(text)       == [type |-> "user_message", input |-> text]
MemoryRecalled(driver)  == [type |-> "memory_recalled", by |-> driver]
Decision(calls, text)   == [type |-> "model_decision", calls |-> calls, text |-> text]
StepStarted(id)         == [type |-> "step_started", call |-> id]
ToolResult(id, content) == [type |-> "tool_result", call |-> id, content |-> content]
ApprovalRequested(id)   == [type |-> "approval_requested", call |-> id]
Verdict(id, granted)    ==
    [type |-> IF granted THEN "approval_granted" ELSE "approval_denied", call |-> id]
SchemaFeedback          == [type |-> "schema_feedback"]
RunFinished(output)     == [type |-> "run_finished", output |-> output]
RunFailed               == [type |-> "run_failed"]

-----------------------------------------------------------------------------
(* Positions in a view.                                                    *)

EmptyLog == [i \in {} |-> RunFailed]

\* Store an event at a position; an occupied position is rewritten, so the
\* callers guard it.
With(v, seq, e) == [i \in DOMAIN v \cup {seq} |-> IF i = seq THEN e ELSE v[i]]

\* The events before a position.
Before(v, seq) == [i \in {j \in DOMAIN v : j < seq} |-> v[i]]

IsPrefixOf(v, w) ==
    /\ DOMAIN v \subseteq DOMAIN w
    /\ \A i \in DOMAIN v : v[i] = w[i]
    /\ \A i \in DOMAIN w : \A j \in DOMAIN v : i < j => i \in DOMAIN v

At(v, types) == {i \in DOMAIN v : v[i].type \in types}

Last(positions) ==
    IF positions = {} THEN -1 ELSE CHOOSE i \in positions : \A j \in positions : j <= i

First(positions) == CHOOSE i \in positions : \A j \in positions : i <= j

NextSeq(v) == Last(DOMAIN v) + 1

-----------------------------------------------------------------------------
(* The fold.                                                               *)

Input(v) ==
    LET starts == At(v, {"run_started"}) IN v[First(starts)].input

LastMessage(v) ==
    LET messages == At(v, {"user_message"})
    IN  IF messages = {} THEN {} ELSE {v[Last(messages)].input}

LastDecision(v) == Last(At(v, {"model_decision"}))

CurrentCalls(v) ==
    IF LastDecision(v) = -1 THEN <<>> ELSE v[LastDecision(v)].calls

\* Calls answered since the last decision.
Answered(v) ==
    {v[i].call : i \in {j \in At(v, {"tool_result"}) : j > LastDecision(v)}}

\* The pending calls, by their positions in the decision.
Pending(v) ==
    {i \in DOMAIN CurrentCalls(v) : CurrentCalls(v)[i].id \notin Answered(v)}

PendingIds(v) == {CurrentCalls(v)[i].id : i \in Pending(v)}

NextCall(v) == CurrentCalls(v)[First(Pending(v))]

\* Calls with a recorded intent and no result after it.
Started(v) ==
    LET open == {i \in At(v, {"step_started"}) :
                    \A j \in At(v, {"tool_result"}) :
                        j > i => v[j].call # v[i].call}
    IN  {v[i].call : i \in open}

Closing(v) ==
    Last(At(v, {"schema_feedback", "user_message", "run_finished"})
           \cup {i \in At(v, {"model_decision"}) : v[i].calls = <<>>})

Finished(v) ==
    Closing(v) # -1 /\ v[Closing(v)].type \in {"run_finished", "model_decision"}

FinishRecorded(v) ==
    LET last == Last(At(v, {"schema_feedback", "user_message", "run_finished"}))
    IN  last # -1 /\ v[last].type = "run_finished"

ModelCalls(v)    == Cardinality(At(v, {"model_decision"}))
FeedbackCount(v) == Cardinality(At(v, {"schema_feedback"}))
Recalled(v)      == At(v, {"memory_recalled"}) # {}

\* Does the text of the finishing decision parse against the output schema?
AnswerValid(v) == v[Closing(v)].type = "model_decision" /\ v[Closing(v)].text = "valid"

-----------------------------------------------------------------------------
(* The deterministic orchestrator: what to do next, from the view alone.   *)

\* Mutant: a decision is dealt with once one of its calls is.
NextStepEager(v, maxSteps) ==
    CASE Finished(v)                -> "done"
      [] ~Finished(v) /\ Pending(v) # {} /\ Answered(v) = {} -> "tool"
      [] ~Finished(v) /\ Pending(v) = {} /\ ModelCalls(v) >= maxSteps -> "done"
      [] OTHER                      -> "model"

NextStep(v, maxSteps) ==
    CASE Finished(v)                -> "done"
      [] ~Finished(v) /\ Pending(v) # {} -> "tool"
      [] ~Finished(v) /\ Pending(v) = {} /\ ModelCalls(v) >= maxSteps -> "done"
      [] OTHER                      -> "model"

-----------------------------------------------------------------------------
(* Human decisions, as the rollout helpers read them off the log.          *)

Verdicts(v, id) ==
    {i \in At(v, {"approval_granted", "approval_denied"}) : v[i].call = id}

ApprovalDecision(v, id) ==
    IF Verdicts(v, id) = {} THEN "pending"
    ELSE IF v[First(Verdicts(v, id))].type = "approval_granted" THEN "granted"
    ELSE "denied"

HasApprovalRequest(v, id) ==
    \E i \in At(v, {"approval_requested"}) : v[i].call = id

\* The undecided requests, by position, and the calls they are about.
OpenRequests(v) ==
    {i \in At(v, {"approval_requested"}) : Verdicts(v, v[i].call) = {}}

PendingApprovals(v) == {v[i].call : i \in OpenRequests(v)}
=============================================================================
