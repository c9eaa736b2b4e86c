------------------------------ MODULE MCExecutor ------------------------------
(***************************************************************************)
(* Policies, prices and answers for TLC.                                   *)
(*                                                                         *)
(* Three tool policies: the defaults with a timeout for a function that    *)
(* may hang, one that validates, and an async one that opts into retrying  *)
(* its timeouts.  Three models, one of them without a price.               *)
(***************************************************************************)
EXTENDS Executor

CONSTANTS hung, quick, remote

RetryByDefault == {"transient", "rate_limit"}

ThreePolicies ==
    hung :> [async |-> FALSE, timeout |-> TRUE, retries |-> 1,
             retryOn |-> RetryByDefault, validate |-> FALSE]
    @@ quick :> [async |-> FALSE, timeout |-> FALSE, retries |-> 0,
                 retryOn |-> RetryByDefault, validate |-> TRUE]
    @@ remote :> [async |-> TRUE, timeout |-> TRUE, retries |-> 2,
                  retryOn |-> RetryByDefault \cup {"timeout"}, validate |-> FALSE]

Adapters == "claude" :> "anthropic" @@ "gpt" :> "openai" @@ "llama" :> "openai"

PriceTable ==
    [m \in {"claude", "gpt"} |->
        IF m = "claude" THEN [input |-> 2, output |-> 4, write |-> 3, read |-> 1]
                        ELSE [input |-> 2, output |-> 3, write |-> 3, read |-> 1]]

AllRoutes == [1..StepLimit -> Models]

Block(type, id, body) == [type |-> type, id |-> id, body |-> body]

Usage(prompt, written, cached, output) ==
    [told |-> TRUE, prompt |-> prompt, written |-> written, cached |-> cached,
     output |-> output]

\* The counts of an answer that tells none: they must not count.
Untold == [Usage(3, 0, 0, 3) EXCEPT !.told = FALSE]

\* A text with two calls whose fragments may interleave, one of them cut
\* short; a text, its prompt partly cached; a call without arguments and without usage.
OpenAIAnswers ==
    {[blocks |-> <<Block("text", "", <<"a">>),
                   Block("tool_use", "c1", <<"{", "}">>),
                   Block("tool_use", "c2", <<"{">>)>>,
      usage |-> Usage(2, 0, 0, 1)],
     [blocks |-> <<Block("text", "", <<"a", "b">>)>>, usage |-> Usage(3, 0, 1, 1)],
     [blocks |-> <<Block("tool_use", "c3", <<>>)>>, usage |-> Untold]}

\* Signed thinking before text and a call, the prompt read from the cache; an
\* answer in two text blocks, its prompt written to the cache.
AnthropicAnswers ==
    {[blocks |-> <<Block("thinking", "sig1", <<>>), Block("redacted_thinking", "sig2", <<>>),
                   Block("text", "", <<"a">>), Block("tool_use", "c1", <<"{", "}">>)>>,
      usage |-> Usage(1, 0, 2, 1)],
     [blocks |-> <<Block("text", "", <<"a">>), Block("text", "", <<"b">>)>>,
      usage |-> Usage(1, 1, 0, 1)]}

ThreeModels ==
    [m \in DOMAIN Adapters |->
        IF Adapters[m] = "openai" THEN OpenAIAnswers ELSE AnthropicAnswers]

JsonObjects == {<<"{", "}">>}
=============================================================================
