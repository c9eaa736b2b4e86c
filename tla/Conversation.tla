----------------------------- MODULE Conversation -----------------------------
(***************************************************************************)
(* What a log says to others: the neutral messages that fold builds for    *)
(* the model, the wire format of the Anthropic adapter, and the properties *)
(* of a Result.  A text is present and is not told apart.                  *)
(***************************************************************************)
EXTENDS EventLog

-----------------------------------------------------------------------------
(* The messages, in the order of the events that say them.                 *)

Spoken(v) ==
    At(v, {"run_started", "schema_feedback", "user_message", "model_decision",
           "tool_result"})

\* The n-th of a set of positions.
Nth(positions, n) ==
    CHOOSE i \in positions : Cardinality({j \in positions : j <= i}) = n

Message(e) ==
    CASE e.type = "model_decision" -> [role |-> "assistant", calls |-> e.calls]
      [] e.type = "tool_result"    -> [role |-> "tool", call |-> e.call]
      [] OTHER                     -> [role |-> "user"]

Messages(v) == [n \in 1..Cardinality(Spoken(v)) |-> Message(v[Nth(Spoken(v), n)])]

-----------------------------------------------------------------------------
(* The wire: a run of tool results is one user message.                    *)

\* Message n opens a message of the wire.
Opens(ms, n) == ms[n].role # "tool" \/ n = 1 \/ ms[n - 1].role # "tool"

\* The messages rendered together with message n.
Group(ms, n) ==
    {k \in n..Len(ms) : \A j \in (n + 1)..k : ~Opens(ms, j)}

\* The tool calls that the wire message opened by n asks for, and answers.
Asked(ms, n) ==
    IF ms[n].role = "assistant" THEN {ms[n].calls[i].id : i \in DOMAIN ms[n].calls} ELSE {}

Results(ms, n) == {ms[k].call : k \in {j \in Group(ms, n) : ms[j].role = "tool"}}

\* The messages that open one of the wire, and the one after n.
Openings(ms) == {n \in DOMAIN ms : Opens(ms, n)}

ResultsAfter(ms, n) ==
    LET later == {k \in Openings(ms) : k > n}
    IN  IF later = {} THEN {} ELSE Results(ms, First(later))

\* Providers take a conversation only if each assistant turn has all its tool
\* calls answered by the very next message, and nothing else is answered.
Answerable(ms) ==
    /\ \A n \in Openings(ms) : Asked(ms, n) = ResultsAfter(ms, n)
    /\ Results(ms, 1) = {}

-----------------------------------------------------------------------------
(* Result.                                                                 *)

Status(v) ==
    IF At(v, {"run_finished"}) # {} THEN "completed"
    ELSE IF PendingApprovals(v) # {} THEN "paused"
    ELSE IF DOMAIN v # {} /\ v[Last(DOMAIN v)].type = "run_failed" THEN "failed"
    ELSE "running"
=============================================================================
