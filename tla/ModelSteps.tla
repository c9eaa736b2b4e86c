------------------------------ MODULE ModelSteps ------------------------------
(***************************************************************************)
(* The model steps of a run: the budget is asked, the router picks a       *)
(* model, its adapter calls the provider and reads a message, whole or     *)
(* from the chunks of a stream, and the executor retries what may pass.    *)
(* The decision recorded is all that the budget and later turns see.       *)
(*                                                                         *)
(* A provider's answer is a sequence of blocks.  The body of a text block  *)
(* is its pieces as streamed, that of a tool_use block the fragments of    *)
(* its arguments, and thinking blocks are opaque.                          *)
(***************************************************************************)
EXTENDS Naturals, Sequences, SequencesExt

CONSTANTS
    Models,        \* the models the router knows
    Routes,        \* the models its rules may choose for the steps of a run
    Adapter,       \* model -> anthropic | openai
    Answers,       \* model -> what its provider may answer: [blocks, usage]
    Objects,       \* the argument bodies that parse to a JSON object
    Prices,        \* the price table: some models -> [input, output, write, read]
    MaxTokens,     \* Budget.max_tokens
    MaxUsd,        \* Budget.max_usd
    ModelRetries,  \* the executor's retries of a model call
    StepLimit,     \* bound on the model steps of a behaviour
    MaxResumes     \* bound on the times a run is interrupted and resumed

ASSUME ModelAssumption ==
    /\ Adapter \in [Models -> {"anthropic", "openai"}]
    /\ DOMAIN Prices \subseteq Models
    /\ Routes \subseteq [1..StepLimit -> Models]
    /\ {MaxTokens, MaxUsd, ModelRetries, StepLimit, MaxResumes} \subseteq Nat
    /\ \A m \in DOMAIN Prices : Prices[m] \in [input : Nat, output : Nat, write : Nat, read : Nat]

\* An answer may come without usage (told is FALSE).  The tokens written to the
\* prompt cache and those read from it (cached) are apart from Anthropic's prompt
\* tokens; OpenAI's include the cached ones, and it has no count of the written.
ASSUME AnswersAssumption ==
    \A m \in Models : \A a \in Answers[m] :
        /\ a.blocks \in Seq(Range(a.blocks))
        /\ a.usage \in [told : BOOLEAN, prompt : Nat, written : Nat, cached : Nat,
                        output : Nat]
        /\ Adapter[m] = "openai" => a.usage.cached <= a.usage.prompt /\ a.usage.written = 0

Steps == 1..StepLimit

NoAnswer == [blocks |-> <<>>, usage |-> <<>>]

VARIABLES
    route,      \* the model the router's rules choose for each step
    listening,  \* somebody listens to the stream
    at,         \* loop, asked, answering, sleep, failed, stopped
    tries,      \* failed attempts of the model call in progress
    reply,      \* the message the provider is sending
    said,       \* the pieces of text received of it
    slots,      \* its tool calls in order of arrival: [index, id, raw]
    heard,      \* the deltas the listener was sent during this step
    decisions,  \* the model_decision events recorded
    answers,    \* history: the messages they were read from
    served,     \* external: what a provider holds under an idempotency key
    charged,    \* history: how often such a provider charged each step
    failed,     \* how many run_failed events each step recorded
    resumes     \* how often the run was resumed

callVars  == <<at, tries, reply, said, slots, heard>>
modelVars ==
    <<route, listening, callVars, decisions, answers, served, charged, failed,
      resumes>>

ModelInit ==
    /\ route \in Routes
    /\ listening \in BOOLEAN
    /\ at = "loop"
    /\ tries = 0
    /\ reply = NoAnswer
    /\ said = <<>> /\ slots = <<>> /\ heard = <<>>
    /\ decisions = <<>> /\ answers = <<>>
    /\ served = {}
    /\ charged = [s \in Steps |-> 0]
    /\ failed = [s \in Steps |-> 0]
    /\ resumes = 0

-----------------------------------------------------------------------------
(* Reading a message.                                                      *)

\* sorted of a set of numbers.  SortSeq and SelectSeq would do here and below,
\* but the prover does not expand them.
InOrder(ns) ==
    [i \in 1..Cardinality(ns) |->
        CHOOSE n \in ns : Cardinality({m \in ns : m < n}) = i - 1]

OfType(blocks, types) ==
    LET kept == InOrder({n \in DOMAIN blocks : blocks[n].type \in types})
    IN  [i \in DOMAIN kept |-> blocks[kept[i]]]

TextOf(blocks) == FlattenSeq([i \in DOMAIN OfType(blocks, {"text"}) |->
                                 OfType(blocks, {"text"})[i].body])

Uses(blocks) == OfType(blocks, {"tool_use"})

\* An empty body is an empty object; what is not an object is kept as it came.
ParseArguments(raw) == [malformed |-> raw \notin Objects \cup {<<>>}, raw |-> raw]

\* AnthropicModel.generate: the provider states the three kinds of prompt tokens
\* apart.  Where it told nothing there is no usage (None in the code), here and
\* below, whatever the counts.
UsageApart(u) ==
    [told |-> u.told, input |-> u.prompt, output |-> u.output, write |-> u.written,
     read |-> u.cached]

\* Mutant: cached tokens stay in the input tokens.
UsageDoubled(u) ==
    [told |-> u.told, input |-> u.prompt, output |-> u.output, write |-> 0,
     read |-> u.cached]

\* OpenAIModel._usage_from: cached tokens are taken out of the prompt tokens.
UsageFrom(u) ==
    [told |-> u.told, input |-> u.prompt - u.cached, output |-> u.output, write |-> 0,
     read |-> u.cached]

UsageOf(m, u) == IF Adapter[m] = "openai" THEN UsageFrom(u) ELSE UsageApart(u)

Response(text, calls, thinking) == [text |-> text, calls |-> calls, thinking |-> thinking]

\* The signed blocks, which the provider wants back.
Thinking(blocks) == OfType(blocks, {"thinking", "redacted_thinking"})

\* AnthropicModel.generate: the SDK has parsed the arguments.
FromMessage(a) ==
    Response(TextOf(a.blocks),
             [i \in DOMAIN Uses(a.blocks) |->
                 [id |-> Uses(a.blocks)[i].id,
                  arguments |-> [malformed |-> FALSE, raw |-> Uses(a.blocks)[i].body]]],
             Thinking(a.blocks))

\* OpenAIModel.generate without a listener.
FromChoice(a) ==
    Response(TextOf(a.blocks),
             [i \in DOMAIN Uses(a.blocks) |->
                 [id |-> Uses(a.blocks)[i].id,
                  arguments |-> ParseArguments(Uses(a.blocks)[i].body)]],
             <<>>)

\* Mutant: tool calls are kept in the order they began to arrive.
AssembledAsArrived(text, parts) ==
    Response(text,
             [i \in DOMAIN parts |->
                 [id |-> parts[i].id, arguments |-> ParseArguments(parts[i].raw)]],
             <<>>)

\* _generate_streaming: the slots in the order of their indexes.
Assembled(text, parts) ==
    LET indexes == InOrder({p.index : p \in Range(parts)})
        slot(n) == CHOOSE p \in Range(parts) : p.index = n
    IN  Response(text,
                 [i \in DOMAIN indexes |->
                     [id |-> slot(indexes[i]).id,
                      arguments |-> ParseArguments(slot(indexes[i]).raw)]],
                 <<>>)

-----------------------------------------------------------------------------
(* The budget, over the recorded decisions.                                *)

Total(amounts) == FoldLeft(+, 0, amounts)

\* A decision without usage counts for nothing, towards either limit.
TokensOf(d) ==
    IF d.usage.told THEN d.usage.input + d.usage.output + d.usage.write + d.usage.read
    ELSE 0

\* The table's cache prices stand for the given ones or their defaults.
CostOf(d) ==
    LET u == d.usage
        price == Prices[d.model]
    IN  IF u.told
        THEN u.input * price.input + u.output * price.output
               + u.write * price.write + u.read * price.read
        ELSE 0

TokensExceeded(ds) == Total([i \in DOMAIN ds |-> TokensOf(ds[i])]) >= MaxTokens

\* cost_from_events refuses to count a model it has no price for, once it has
\* told any usage.
Unenforceable(ds) ==
    \E i \in DOMAIN ds : ds[i].usage.told /\ ds[i].model \notin DOMAIN Prices

\* Both limits are set; prices are in the unit that makes them integers.
Exceeded(ds) ==
    \/ TokensExceeded(ds)
    \/ ~Unenforceable(ds) /\ Total([i \in DOMAIN ds |-> CostOf(ds[i])]) >= MaxUsd

Refused(ds) == Exceeded(ds) \/ Unenforceable(ds)

-----------------------------------------------------------------------------
(* One step.                                                               *)

Current == Len(decisions) + 1
Model   == route[Current]

\* Only OpenAI's API takes an idempotency key.
Honoured == Adapter[Model] = "openai"

\* Mutant: each attempt has a key of its own.
KeyPerTry == <<Current, failed[Current], tries>>

\* The engine's key is the position of the step in the log: a run_failed at
\* that position moves it.
Key == <<Current, failed[Current]>>

\* The message in hand is given up, or the whole call and its listener.
Hush == reply' = NoAnswer /\ said' = <<>> /\ slots' = <<>>
Leave == Hush /\ tries' = 0 /\ heard' = <<>>

Ask ==
    /\ at = "loop"
    /\ Current \in Steps
    /\ ~Refused(decisions)
    /\ at' = "asked"
    /\ UNCHANGED <<route, listening, tries, reply, said, slots, heard, decisions,
                   answers, served, charged, failed, resumes>>

\* The budget ends the run before a model step.
Stop ==
    /\ at = "loop"
    /\ Refused(decisions)
    /\ at' = "stopped"
    /\ UNCHANGED <<route, listening, tries, reply, said, slots, heard, decisions,
                   answers, served, charged, failed, resumes>>

\* External: the provider answers, from memory when it knows the key.
Serve(a) ==
    /\ at = "asked"
    /\ at' = "answering"
    /\ reply' = a
    /\ IF ~Honoured THEN UNCHANGED <<served, charged>>
       ELSE IF \E held \in served : held.key = Key
       THEN [key |-> Key, answer |-> a] \in served /\ UNCHANGED <<served, charged>>
       ELSE /\ served' = served \cup {[key |-> Key, answer |-> a]}
            /\ charged' = [charged EXCEPT ![Current] = @ + 1]
    /\ UNCHANGED <<route, listening, tries, said, slots, heard, decisions, answers, failed,
                   resumes>>

\* Mutant: the delta is kept and not sent on.
HearSilently ==
    /\ at = "answering" /\ listening
    /\ Len(said) < Len(TextOf(reply.blocks))
    /\ said' = Append(said, TextOf(reply.blocks)[Len(said) + 1])
    /\ UNCHANGED <<route, listening, at, tries, reply, slots, heard, decisions, answers,
                   served, charged, failed, resumes>>

\* A piece of text arrives and goes to the listener.
Hear ==
    /\ at = "answering" /\ listening
    /\ Len(said) < Len(TextOf(reply.blocks))
    /\ LET piece == TextOf(reply.blocks)[Len(said) + 1]
       IN  said' = Append(said, piece) /\ heard' = Append(heard, piece)
    /\ UNCHANGED <<route, listening, at, tries, reply, slots, decisions, answers,
                   served, charged, failed, resumes>>

\* The slot of a call, where it has begun to arrive.
SlotOf(i) == {n \in DOMAIN slots : slots[n].index = i}

\* A fragment of call i arrives: its head, with the id, then its arguments.
\* The fragments of several calls may interleave.
Fragment(i) ==
    /\ at = "answering" /\ listening /\ Adapter[Model] = "openai"
    /\ i \in DOMAIN Uses(reply.blocks)
    /\ LET use == Uses(reply.blocks)[i]
       IN  \/ /\ SlotOf(i) = {}
              /\ slots' = Append(slots, [index |-> i, id |-> use.id, raw |-> <<>>])
           \/ \E n \in SlotOf(i) :
                 /\ Len(slots[n].raw) < Len(use.body)
                 /\ slots' = [slots EXCEPT ![n].raw = Append(@, use.body[Len(@) + 1])]
    /\ UNCHANGED <<route, listening, at, tries, reply, said, heard, decisions, answers,
                   served, charged, failed, resumes>>

\* All of the stream has arrived.
Delivered ==
    listening =>
        /\ said = TextOf(reply.blocks)
        /\ Adapter[Model] = "openai" =>
              \A i \in DOMAIN Uses(reply.blocks) :
                 \E n \in SlotOf(i) : slots[n].raw = Uses(reply.blocks)[i].body

Read ==
    CASE Adapter[Model] = "anthropic" -> FromMessage(reply)
      [] Adapter[Model] = "openai" /\ ~listening -> FromChoice(reply)
      [] OTHER -> Assembled(said, slots)

\* generate returns, and the engine appends the decision.
Record ==
    /\ at = "answering"
    /\ Delivered
    /\ decisions' = Append(decisions, [model |-> Model, response |-> Read,
                                       usage |-> UsageOf(Model, reply.usage)])
    /\ answers' = Append(answers, reply)
    /\ at' = "loop"
    /\ Leave
    /\ UNCHANGED <<route, listening, served, charged, failed, resumes>>

\* The call raises, at any point, what may pass: it is retried after a delay.
Lose ==
    /\ at \in {"asked", "answering"}
    /\ tries < ModelRetries
    /\ at' = "sleep"
    /\ Hush
    /\ UNCHANGED <<route, listening, tries, heard, decisions, answers, served, charged,
                   failed, resumes>>

\* It raises anything else, or has been retried enough: run_failed is recorded.
GiveUp ==
    /\ at \in {"asked", "answering"}
    /\ at' = "failed"
    /\ failed' = [failed EXCEPT ![Current] = @ + 1]
    /\ Leave
    /\ UNCHANGED <<route, listening, decisions, answers, served, charged, resumes>>

\* Mutant: the attempts are not counted.
RetryUncounted ==
    /\ at = "sleep"
    /\ at' = "asked"
    /\ UNCHANGED <<route, listening, tries, reply, said, slots, heard, decisions, answers,
                   served, charged, failed, resumes>>

\* The delay is over: the same request, under the same key.
Retry ==
    /\ at = "sleep"
    /\ at' = "asked"
    /\ tries' = tries + 1
    /\ UNCHANGED <<route, listening, reply, said, slots, heard, decisions, answers,
                   served, charged, failed, resumes>>

\* The process dies, or the stream is closed, before the decision is recorded,
\* or the run has failed; another process resumes the run.
Resume ==
    /\ at \in {"asked", "answering", "sleep", "failed"}
    /\ resumes < MaxResumes
    /\ resumes' = resumes + 1
    /\ at' = "loop"
    /\ Leave
    /\ UNCHANGED <<route, listening, decisions, answers, served, charged, failed>>

ModelNext ==
    \/ Ask \/ Stop \/ Hear \/ Record \/ Lose \/ GiveUp \/ Retry \/ Resume
    \/ at = "asked" /\ \E a \in Answers[Model] : Serve(a)
    \/ \E i \in DOMAIN Uses(reply.blocks) : Fragment(i)

ModelSpec == ModelInit /\ [][ModelNext]_modelVars

-----------------------------------------------------------------------------
\* AnthropicModel.generate: "the final message (the recorded fact) is identical
\* to the blocking path", for either adapter, however its chunks interleave and
\* whatever attempts came before.
StreamedAsBlocking ==
    \A n \in DOMAIN decisions :
        decisions[n].response =
            IF Adapter[route[n]] = "anthropic"
            THEN FromMessage(answers[n])
            ELSE FromChoice(answers[n])

\* What the listener hears last is the text recorded, and it hears nothing
\* else unless an attempt was broken off.
HeardIsRecorded ==
    [][Len(decisions') > Len(decisions) /\ listening =>
          LET text == Last(decisions').response.text
          IN  /\ IsSuffix(text, heard)
              /\ tries = 0 => heard = text]_modelVars

\* A provider that honours the key charges a step once, however often it is
\* retried, interrupted and resumed, and once more for each recorded failure.
ChargedOnce ==
    \A s \in Steps : Adapter[route[s]] = "openai" => charged[s] <= 1 + failed[s]

\* The tokens the provider of step n says it processed: none if it says nothing.
Processed(n) ==
    LET u == answers[n].usage
        beside == IF Adapter[route[n]] = "anthropic" THEN u.written + u.cached ELSE 0
    IN  IF u.told THEN u.prompt + u.output + beside ELSE 0

\* What it bills for them, each at the price of its kind.
Bill(n) ==
    LET u == answers[n].usage
        price == Prices[route[n]]
    IN  IF u.told
        THEN (Processed(n) - u.output - u.written - u.cached) * price.input
               + u.output * price.output + u.written * price.write
               + u.cached * price.read
        ELSE 0

Overall(amounts, n) == FoldFunctionOnSet(+, 0, amounts, 1..n)

\* The first n decisions used up the budget.
UsedUp(n) ==
    \/ Overall([i \in 1..n |-> Processed(i)], n) >= MaxTokens
    \/ \E i \in 1..n : answers[i].usage.told /\ route[i] \notin DOMAIN Prices
    \/ Overall([i \in 1..n |-> Bill(i)], n) >= MaxUsd

\* Budget: "Overshoot is bounded by one model call", and no run is stopped that
\* has not used its budget up, by the providers' own counts: cache writes and
\* reads included, the answers that told none left out.
BudgetTrue ==
    /\ \A n \in DOMAIN decisions : ~UsedUp(n - 1)
    /\ at = "stopped" => UsedUp(Len(decisions))

\* The retries of a model step come to an end.
ModelStepEnds == at = "asked" ~> at \in {"loop", "failed"}
=============================================================================
