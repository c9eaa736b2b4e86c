# Verification of drangue

drangue runs LLM agents over an append-only event log: every model decision,
tool result, approval and failure of a run is an event, a fold of the events is
the run's state, and a process that picks a run up again continues from the
fold.  This directory holds TLA+ modules for the parts of that design in which
several processes meet one log, the TLC instances that check them and the TLAPS
proofs about them.  Paths below are relative to the repository, those of the
package `drangue/` to the package.

- [1. The system](#1-the-system)
- [2. Modules and how they correspond to the code](#2-modules-and-how-they-correspond-to-the-code)
- [3. Runs](#3-runs)
- [4. Theorems](#4-theorems)
- [5. Where the code and its documentation disagree](#5-where-the-code-and-its-documentation-disagree)
- [6. Not modelled](#6-not-modelled)

## 1. The system

### 1.1 Components

| Component | Source | State it keeps | Operations |
|---|---|---|---|
| Store | `store/memory.py`, `store/sqlite.py`, `drangue-postgres` | per run: events keyed by seq; one lease row (owner, expiry); in SQLite the transaction of each process's connection | `append` (idempotent for an identical event, `ConflictError` for another), `load`, `acquire_lease`, `release_lease` |
| Fold and orchestrator | `orchestrator.py`, `events.py` | none: a function of the events | `fold`, `Orchestrator.next`: call the model, run a tool, or stop; `Result.status` |
| Event-sourced engine | `engine/eventsourced.py` | per invocation: its copy of the events, the intents it recorded (`started_here`), results not yet appended | `run` / `_drive`: load, begin or continue a turn, loop, finish |
| Executor and tool policy | `executor.py`, `hardening.py` | a sync tool's thread may outlive its timeout | model call with retries; tool dispatch with timeout, attempts, backoff |
| Model adapters | `models.py`, `routing.py` | a stream's pieces of text and slots of tool calls | `generate`, whole or streamed; usage; conversion of the messages; choice of a model per step |
| Rollout | `rollout.py`, `agent.py` | none: recorded in the log | `shadow` / `assisted` / `autonomous`; `approve`, `reject` with a retry loop |
| Structured output | `structured.py` | recorded in the log | the `final_answer` delivery, up to two corrections |
| Budget, guardrails, memory | `budget.py`, `guardrails.py`, `memory.py`, `drangue-memory` | recorded usage; items with an expiry | checks at fixed points of the loop; one recorded recall per run |
| Temporal engine | `drangue-temporal` | a workflow's history; the approval flag; attempts that may outlive their retry | `AgentRun.run` and its `approve` signal; `execute_run`, `record_approval`, both retried without limit; the registry that builds an agent on a worker |
| Eval gate | `evals.py` | the runs of an evaluation, in the store | `evaluate`: runs, checks and pass rates; `Gate.evaluate`, `GateDecision.override` |
| Tool schema, observability, MCP toolset, testing helpers | `tool.py`, `observability/`, `drangue-mcp`, `testing/` | none that a run depends on | conversions and I/O |

### 1.2 How they interact

Everything goes through the log.  Any number of processes may call
`Agent.run`, `resume` or `stream` for the same run id, and any number of humans
`approve` or `reject`.  Each works on its own copy of the events and appends at
`next_seq` of that copy; an append that finds another event at its seq makes a
driver reload and a human try again.  A store may offer a lease, which a driver
takes on entry and renews at the head of its loop; it narrows the interleaving
of drivers but not of humans.  A tool takes effect outside of the log, before
its result is appended; so does a model call, which is charged before its
decision is.  What a provider is sent is the log again, as messages.  The
Temporal engine calls the event-sourced one in an activity, and an evaluation
calls `Agent.run` under run ids of its own making.

### 1.3 What is hard here

- **Stale views.**  Every decision is taken from a copy that other writers may
  have outgrown; an identical append succeeds, so a loser cannot always tell.
- **Effects apart from their records.**  A crash, a closed stream, a conflict
  or a timeout may fall between the two, in the middle of a parallel batch, and
  between a provider's charge and the decision it is for.
- **Irreversible tools.**  An intent (`step_started`) is recorded first, and an
  orphaned one is disowned as `unknown_outcome` and not executed again.
- **Leases.**  They lapse by the clock; answers to an acquire may be late, or
  be given to a caller that has gone.
- **Several steps for one thing.**  A delivery, a refused follow-up, and a
  finished turn are each two appends, with a crash possible between them.
- **Open transactions.**  A SQLite append that raises does not end what its
  `INSERT` began, and two processes share the one write lock of a file.
- **Streams.**  The fragments of several tool calls interleave, and an attempt
  may break off after some of its text was heard.
- **Counting over the log.**  `max_steps`, the budget and the corrections are
  counted over all turns, all drivers and two conventions of usage.
- **Store errors.**  An append or a load may raise something other than a
  conflict, and what was executed before it then has no record although its
  process lives.
- **Borrowed measurements.**  A run id that exists is replayed, not run, and
  somebody else may create it between the look and the run.

`PROJECT.json` lists each hazard at its line with the properties that cover it.

### 1.4 What makes each component correct

- *Store and protocol*: no gap, no overwrite, every copy a prefix of the log;
  whoever adds an event has read every event before it; and over SQLite all of
  it whatever state a connection was left in, with the lock given up in the end.
- *Lease*: two drivers are never both within a lease they were granted; the run
  changes hands only after a release, a death or a lapse.
- *Engine*: each event is a legal continuation of the log it lands on; effects
  are licensed by the log; irreversible effects happen once under a lease;
  idempotency keys are stable; recorded steps are not redone; records land;
  a returned result is settled; what the model is sent is a conversation that
  providers take; every invocation ends.
- *Executor*: tool attempts do not overlap and retries are used up; a step is
  recorded as the provider answered it, streamed or not, charged once, within
  the budget; and it ends.
- *Temporal engine*: an approval opens one gate, and it opens it; the workflow
  returns when the run is over, and not before, as long as it hears of every
  decision that is taken.
- *Rollout*: a shadow call never runs, an assisted one only when granted; one
  verdict per request.
- *Eval gate*: a report measures its own agent, every run of it once, unless
  another evaluation works under the same ids at the same time; a regression of
  a hard dimension, or its disappearance, is named.

## 2. Modules and how they correspond to the code

```
Ledger  <--implements--  RunLog  <--implements (ProtocolKept)--  Engine, EngineProperties
                           ^  ^                                       |            |
                           |  +--implements-- SqliteLog          EngineProofs   MCEngine
                      RunLogProofs           SqliteProofs,       EngineSafetyProofs
                                             MCSqliteLog

EventLog (events, fold, orchestrator: used by RunLog and Engine)
Conversation (messages, wire format, Result: over EventLog, used by EngineProperties)

LeaseContract  <--implements--  Lease -- LeaseProofs, MCLeases

ToolPolicy  \
             Executor -- ExecutorProofs, MCExecutor
ModelSteps  /

Temporal (over the engine as Ledger promises it) -- TemporalProofs, MCTemporal

Evals -- EvalsProofs, MCEvals
```

**EventLog** is the data: an event list is a function from seqs to events (the
store's log and the driver's copy are both such functions, and a gap would be a
seq missing from the domain), one constructor per event type, and the fold as
operators on lists: `Pending`, `NextCall`, `Started`, `Finished`, `ModelCalls`,
`FeedbackCount`, `PendingApprovals`, `NextStep`.  Texts, arguments and results
are abstracted to what a decision tells apart (a valid or invalid answer, an
`accepted` or `unknown_outcome` result).

**Conversation** is what a log says to others: `Messages`, which `fold` builds
for the model; the Anthropic wire format, where a run of tool results becomes
one user message (`Opens`, `Group`), and `Answerable`, what providers demand of
it; and `Result.status`.

**RunLog** is the protocol alone: any writers, any events.  `Load`, `LoadStale`
(a load that is behind the log but not behind its reader, which SQLite allows),
`Claim` (an append at the next seq of the writer's copy, free), `Confirm` (the
seq holds this very event); a `ConflictError` changes nothing.  The three stores
agree in this, in memory by the event, in SQLite and Postgres by its type and
payload.  `append` itself accepts any free seq; density comes from the writers.

**Ledger** is what that promises: one growing sequence, to which a writer
publishes only when it has read all of it.

**SqliteLog** is the protocol over one SQLite file in WAL mode, with a
connection and a `threading.Lock` per process.  `txn` is the state of each
connection: `none`, `begun` (Python's `sqlite3` has issued `BEGIN` before an
`INSERT` that then failed as locked), `reading` (a `SELECT` in it has pinned a
snapshot) or `writing` (an `INSERT` has the write lock).  `_append` is `Insert`
and `Commit`, or `Occupied`, whose two ways out, the return for an identical
event and `ConflictError`, leave the transaction open; only a commit of a later
call, an append or a lease call, or the end of the process ends it.  `LockedOut`
is "database is locked".  Other runs of the same store commit too; that is
within `WriteLease`, the only other commit.

**Engine** is `EventSourcedEngine.run` with the agent, executor, rollout,
structured output, budget, guardrail and memory calls it makes.  One action is
what a driver does from one await on shared state to the next: taking the lease,
loading, one append, or a tool taking effect.  All that the code evaluates in
between, from its own copy, is in the action.  The labels of `pc` are the
places of `_drive`:

| `pc` | Code |
|---|---|
| `idle` | before `acquire_lease` (`Invoke`) |
| `load`, `begin`, `followup`, `blockturn` | `_drive` before the loop: load, first event, a further user message, a refused input |
| `loop` | head of the loop: renewal of the lease |
| `decide` | recall, budget, guardrail, model call, delivery, correction, rollout, intents |
| `execute`, `record` | the batch in flight, then its results appended one by one |
| `reload` | a lost race |
| `finish`, `pause`, `return`, `unwind`, `broken` | the way out, up to the release of the lease |
| `deciding` | a human in `_decide` |

`running` holds tool executions in flight, apart from `out`, their results:
`Effect` may happen after the driver has timed out, been cancelled or gone on.
It is gone only when the process dies.  `executed` is history: each effect with
the driver, the seq its idempotency key was built from, and the call.

For the actors in `StoreFailsFor`, every call of the store may raise something other than
`ConflictError` ("database is locked", a connection that is lost):
`StoreRaises` is that at whichever label the driver has a store call ahead of it
(`Calling`), and leads to `broken`, from where the lease is released.  At
`record` this loses the result of an executed step while its process goes on,
as `_append_shielded` passes on all errors but a conflict; a second cancellation
of the shielded append is the same step.  A call that took effect and raises
nevertheless is that call, then `StoreRaises` at the label it led to.  A
`run_failed` that the store does not take is lost (`FailRun`), an acquire that
raises may have written its row (`Invoke`), a release that raises is swallowed
and leaves the row to its TTL (`Leave`), and a human gives up (`Forsake`).

**EngineProperties** states what a run promises, and **MCEngine** gives the
models' replies of each run.

**Lease** is the lease of the three stores at the grain of their statements:
memory decides and writes in one go; Postgres reads the client's clock, then
sends one conditional upsert, which may land later or for a caller that has
gone; SQLite reads and then replaces, under a `threading.Lock` of the store
object.  A *deployment* says which store it is and which process each
invocation runs in.  One owner is one call of `EventSourcedEngine.run`, whose
id is fresh, so an owner that has unwound never comes back.  `left` are those
cancelled or killed while the store was at work, on entry or at a renewal, and
`unwinding` those of them that were within a lease: their release is a
statement of its own (`Unwind`), which may overtake the renewal, whose row then
stays.  All processes read
one clock; skew between machines is not modelled.

**LeaseContract** is what a lease promises: a holder enters only where there is
none.

**ToolPolicy** is what `Executor._dispatch` and `hardening.run_tool` do for the
siblings of one batch: `Vet` (tool lookup, parsed arguments, `check_tool` with
its approver), then attempts under `wait_for`, retries, validation, `Screen`
(`check_result`), and `File`, the append of the batch.  The default executor of
the event loop is a bounded pool.  A sync tool's attempt is `queued` until a
thread is free and is withdrawn if it times out before; once it runs, a timeout
leaves it in `running`.  An async one is cancelled.  SQLite's append is a client
of the same pool.  An unknown tool, arguments that could not be parsed and a
blocked call are one outcome, `refused`; the length of a delay and the content of
a fallback are left out, but not that computing the one (`BadHints`) or encoding
the other (`BadFallbacks`) may raise.

**ModelSteps** is the other half of the executor: `Ask` (the budget, then the
routed adapter), `Serve` (external: a provider answers, from memory when it
knows the idempotency key), `Hear` and `Fragment` (a stream), `Record`, `Lose`
and `Retry`, `GiveUp` (`run_failed`), and `Resume` by another process.  An
answer is a sequence of blocks whose bodies are the pieces they are streamed
in; `FromMessage`, `FromChoice` and `Assembled` read it as the Anthropic
adapter, the OpenAI adapter and the latter's stream do.  `UsageApart` reads the
usage of an Anthropic answer, which states prompt tokens, tokens written to the
cache and tokens read from it apart; `UsageFrom` that of an OpenAI one, whose
prompt tokens include the cached ones.  An answer may come without usage (`told`
is false): then `TokensOf` and `CostOf` count nothing for it, and `Unenforceable`,
which refuses a dollar budget on a model without a price, passes over it, as
`budget.py:63` does.  The idempotency key is the seq, hence `<<step, failures recorded at
it>>`.  Only the two shipped adapters are modelled, and only the OpenAI one
sends a key.  Thinking blocks come before tool calls.

**Executor** composes them: a step is of one kind or the other, and the two
share the event loop only.

Engine keeps a dispatch as one step, `Execute` to `Complete`, with an effect
that may come late, and a model call as `AskModel`; ToolPolicy and ModelSteps
show what happens within these.  Likewise Engine
keeps the lease as a row that is live or lapsed, because a run cares
only about that; Lease shows how the stores keep the row.

**Temporal** is one workflow `AgentRun` and its activities.  `stage` is where
`AgentRun.run` awaits, `approved` its flag, and `pc` says where a worker has an
attempt of `execute_run` (`acquire`, `drive`, `reload`, `answer`) or
`record_approval` (`decide`, `decided`).  The server, external to the code,
waits for one attempt at a time (`awaited`): `GiveUp` is `start_to_close_timeout`,
after which the worker, unless it is dead, goes on unheard beside the retry;
`Die` loses an attempt before or after it took effect.  `Intervene` is anybody's
`approve` or `reject` beside the workflow, at any moment a request is open, in
particular between the request and the reload of the paused result.  The engine
inside `execute_run` is not repeated here.  Because an append of the engine only
lands for a writer that has read all before it (`Ledger`, proved of Engine through
`ProtocolImplemented` and `LedgerImplemented`), an attempt's step acts on the
log as it stands, and the log is abstracted to how many assisted actions are
`done` or denied, the `request` for the next, and `finished`.  Model steps and
free tools lie within these steps; conflicts of `_decide`, which load again, are
stuttering steps.  Three histories count decisions: `grants`, those that a
`record_approval` recorded; `unheard`, those of them whose answer the workflow
never had; and `others`, those of `Intervene`.

**Evals** is `evaluate` as an action per await: `Guard` (the load that refuses
an id the store knows), `Run`, `Grade`, or `Fail` at any of them; and the gate.
Evaluations interleave freely, with prefixes of their own or the same one.
`store` holds, for each run, the evaluations that had a hand in it: a `Run` whose
id has come into the store since its `Guard` replays what is there, or carries
it on, beside its driver or after it.  `rivals` is history: for the run an
evaluation is at, the others that were past the guard of the same run at the
same time; `graded` keeps every result with its makers and its rivals.  A run id
is the prefix, the scenario and the number of the run.  Rates are quotients,
compared by their products; `Noisy` is the Agresti-Coull interval of
`_rate_stderr` with z² = 4 for 1.96².

## 3. Runs

| Run | Instance | Question |
|---|---|---|
| `log` | 3 writers in 2 processes over one SQLite file, 2 events, length 4 | Is the log dense, are copies prefixes, are the protocol and its ledger implemented, and is the write lock given up? |
| `leases` | 3 invocations, TTL 2, clock to 6; memory and SQLite in one process, Postgres in three | Is the lease exclusive, step by step, with late answers, crashes, and callers cancelled on entry and at a renewal? |
| `race` | 2 drivers, no lease, crashes, store errors, fairness; a pair of reversible siblings or an irreversible call | Do racing processes leave a log that one driver could have written, with stable keys, and does every invocation end? |
| `lease` | 3 drivers under leases, crashes, closed streams, late tools, store errors | Do irreversible effects happen once? Is nothing recorded redone, no live intent disowned, and no record lost but by a death or by an error of its own append? |
| `rollout` | 2 drivers without a lease, 2 humans, shadow + assisted + autonomous calls in one decision, 2 attempts, store errors of the humans; then a delivery that both drivers race for | Does anything run ungranted, is anything decided twice? |
| `turns` | 3 drivers under leases, 3 inputs of which one is refused, one provider failure, a budget of 3 calls; structured output, memory | Are turns opened only on finished ones, and closed? Are deliveries and corrections counted across drivers and turns, results settled, refusals kept, and is each conversation sent one that providers take? |
| `executor` | a tool step: a sync tool that may hang, a sync one without a timeout, an async one that retries its timeouts, a pool of 2; or up to 3 model steps over three models, one without a price | Do attempts overlap, are retries used up, is the batch recorded? Is what is recorded, heard, charged and budgeted what the provider answered? |
| `temporal` | 2 gates, 3 signals, 3 attempts at hand, 2 faults, 1 decision beside the workflow | Does an approval open one gate, and only one? Does the workflow return only when the run is over, and does it get there, where no decision escapes it? |
| `evals` | a baseline, a candidate, and a suite that lost its safety scenario and shares the candidate's prefix, after it or at once | Does a report measure its own agent, all of it and once? Does the gate name what regressed, and warn of few runs? |
| `claim_temporal`, `claim_lock`, `claim_key` | the instances of `temporal`, `log` and `lease`, reduced | refuted: see section 5 |

### 3.1 Properties

Type invariants are proved rather than run, except for Engine's, which is both.

- `LogDense`, `ViewIsPrefix`, `LedgerKept`, `ProtocolKept` of the log over
  SQLite; `LockFreed`: the lock that a conflict leaves behind in a process that
  drives is given up by its next lease call.
- `AppendsAreLegal` says what each event may follow, in terms of the fold of
  the log *at that moment*: one answer per call, one verdict per request, no
  decision past `max_steps` or the budget, no second `run_finished` in a turn.
  Drivers decide on stale copies, so this is the property that the protocol
  exists for.
- `ProtocolKept` is the refinement of RunLog by the engine.
- `EffectsAreLicensed`, `IrreversibleOnce`, `KeyStable`, `RecordedNeverRedone`,
  `OnlyOrphansDisowned` relate effects to the log.  `IrreversibleOnce` is
  checked with leases and steps shorter than the TTL; without a lease it fails
  (section 5).
- `StepRecordLands`: a driver that leaves the record of a step has its own event
  at the seq it was numbered with, not another's, also when it was cancelled
  there; only the death of the process or an error of that very append loses
  it.  Under leases; without one, another driver may take the place.
- `ReturnedIsSettled`: a driver that returns saw a recorded end of the turn, and
  its result says so, or an approval was asked for in this turn.
- `WireLegal`: after crashes, failures, conflicts and follow-ups, each model
  call is sent a conversation in which every tool call is answered by the next
  message.  It excepts one case that the code allows (section 5, `CutShort`).
- `RefusalHolds`: a follow-up that the guardrail refuses reaches the model only
  if a process died between the message and its refusal.  It is said, and
  checked, of processes whose streams are not closed and whose store raises
  nothing but conflicts; either of these lets it through as well (section 5).
- `DriversEnd`: no two drivers keep each other reloading.
- `OneLiveDriver`, and the lease's `OneValidLease` and `ContractKept`.
- `OneAttemptAtATime`, `GivesUpWhenSpent` and `ToolsFiled` for a batch of tools:
  timed-out threads are never joined by a retry unless the policy asks for it,
  and a function that hangs costs one thread, not the run.
- `StreamedAsBlocking` compares what is recorded from a stream with what the
  blocking call would have read from the same answer, however fragments
  interleave; `HeardIsRecorded` compares it with what the listener heard.
- `ChargedOnce`: under an honoured key a step is charged once, and once more
  for each `run_failed` recorded at it.  `BudgetTrue` recomputes the tokens and
  the bill from the providers' own statements, with cache writes, cache reads
  and answers that state nothing: no step is taken on a spent budget, and no run
  is stopped on one that is not.  `ModelStepEnds`.
- `OneGrantPerSignal`: more gates are opened than approvals were signalled only
  by a `record_approval` that took effect and that the workflow never heard of.
  `ReturnsWhenDone`: the workflow returns when the run is over, or with the
  status `running`, and that only if a decision was taken which is not the one
  it waited for (`Undisturbed`).  `HeardGatePassed`: an approved gate is passed
  in the end, with the same exception; without it the property is
  `ApprovedGatePassed`, which `claim_temporal` refutes.  `ExecutionAnswered`:
  the lease of a dead or unheard attempt does not hold up the retries for good.
- `MeasuresOwn`: what an evaluation grades is its own agent's work, or that of
  an evaluation that had found the same run free at the same time.  A run that
  was there before, whole or half done, is never graded.
- `FullyMeasured` and `ProfileTrue` compare reports with the history of graded
  results.  `RegressionsNamed` compares the gate's blocks with it: each hard
  dimension, safety and correctness, whose share of passed results fell by more
  than its threshold or that is measured no more, is named; under a threshold of
  0 so is safety after one unsafe result behind an all-safe baseline; and a
  decision passes with blocks only when overridden.  `FewRunsWarned` compares
  the gate's silence with the number of runs.

### 3.2 Bounds

Two drivers are enough for a stale copy and a lost race; three are used where
one may be dead and two follow it.  `MaxSteps` is 2 to 4: one decision with
work, one without, and further ones where deliveries are corrected, with a
budget one call below it in `turns` so that each limit is reached.  A decision
holds up to three calls, which is the least that has a call of each rollout
mode and a batch with a remainder.  `MaxFailures` bounds `run_failed` events,
each of which lets a later driver retry.  `DecideAttempts` is 5 in the code and
2 in `rollout`, where two drivers can outrun it, so that giving up occurs.  `rollout` has no
crash action: without a lease and without fairness, a process that dies is one
that takes no further step.
`StoreFailsFor` is the drivers in `race` and `lease` and the humans in `rollout`,
where a driver whose store raises is, without a lease, one that takes no further
step.  It is empty in `turns`, as `RefusalHolds` excepts it, and in `claim_key`,
whose counterexample does not need it.  `CHECK_DEADLOCK FALSE` is set wherever invocations end and nothing follows them.

In `log` two writers share a process, so that one waits for the other's
transaction, and the third has its own; only the first process renews leases,
as the approval CLI of the documentation does not.  Four events let a
connection fall behind twice.
In `leases` the clock reaches three times the TTL: three owners can lapse one
after the other.

In `executor` the pool has as many threads as
there are sync tools, so that one that hangs leaves one; with a retry of
timeouts it would leave none, which is what the mutant of `Retries` shows.
`ModelRetries` is 1 and a run is resumed once, so that an answer may be lost to
the executor and to the process; `MaxTokens` (8) and `MaxUsd` (17) are reached exactly
and missed by the answers at hand, the latter also passed, and every assignment of the three
models to the three steps is a route.  Both ceilings are always set, and prices
are integers; a ceiling that is not set is one that the run does not reach.
The answers have two tool calls whose fragments interleave, one cut short,
texts in two pieces and two blocks, cached tokens of both conventions, tokens
written to the cache at a price of their own, and an answer that states no
usage, also of the model without a price.

In `temporal` two gates show an approval that lands
on the wrong one, three signals one too many, and three attempts a retry beside
two that were given up alive.  One decision beside the workflow (`MaxOthers`) is
enough for a gate opened or refused behind its back; `claim_temporal` has none,
so that what it shows is the workflow's own doing.

In `evals` the candidate may fail every check, the baseline only a correctness
check, so that rates differ in either direction.  The baseline has a prefix of
its own; the candidate and the smaller suite share one, and a scenario, so that
each may find the other's run there, half done or whole, or come between its
load and its run.  The threshold of safety is its default, 0; the others are wide enough
for the rates of two and three runs to fall on either side of one.  A difference that equals its threshold exactly may fall on either
side, as floating-point rates do.

Actors are symmetric in the runs of the engine and of leases without fairness;
the others use no symmetry.

### 3.3 Fairness

`FairSpec` of Engine assumes weak fairness of each driver's next step (an event loop runs
its ready tasks), of each tool execution (tools return, or their timeout fires),
and of a human's retry.  Nothing is assumed of crashes, cancellations, lapses
or of anybody starting.

In SqliteLog a worker thread goes on to its commit, and a process in which an
engine drives makes its next lease call, because the loop renews at each
iteration and releases on the way out; nothing is assumed of a process that
only decides approvals, and `LockFreed` is not stated of it.

In Executor the pool starts what is queued, deadlines pass, and functions end
unless they are in `Hangs`; a sync function that hangs and has no timeout holds
its batch for good, which the code allows, so the run has none.  A provider
answers or its client raises: the code has no timeout of its own around
`model.generate`, so without that `ModelStepEnds` cannot hold.

In Temporal the server schedules what is due and gives up what is dead, workers
go on with what they have, leases of the dead lapse and the workflow's code
runs; nothing is assumed of operators, so `HeardGatePassed` starts at a
signal, and nothing of faults.

## 4. Theorems

Every safety property of section 3, invariant or action property, is a theorem.
All are proved for every value of the constants, under the named `ASSUME`s of
the modules (the actors are disjoint, the replies are lists of calls, the bounds
are natural numbers, answers are sequences of blocks) and the hypotheses that a
theorem states.  These are:

| Hypothesis | Of | Why the code has it, or what happens without it |
|---|---|---|
| `DistinctIds`, `UniqueIds` | what is said of calls | Ids of tool calls come from the provider and go unchanged into the log (`models.py:188`, `:348`, `:399`); `fold` answers calls by id alone, so that a repeated id would answer two. `DistinctIds` is within one reply, `UniqueIds` also across the replies of a run. `MCEngine` assumes `UniqueIds`, so TLC confirms that its instances satisfy it |
| `Leased`, `~Stalls` | the theorems "under leases" | A store with leases, and no step that outlives the TTL between two renewals (`eventsourced.py:130`); without either the property fails (section 5) |
| `HasSchema => Leased /\ ~Stalls` | `KeysAreStable` | A delivery that is accepted before its siblings lets the turn be closed over them; section 5 has what then happens without a lease |
| `~MayCancel`, `StoreFailsFor = {}` | `RefusalsHold` | A stream that is closed between a follow-up and its refusal leaves the input unvetted, as a death does, and so does an append of the refusal that raises |
| `"unknown_outcome" \notin Contents` | `OrphansOnly` | A tool that itself returns the text of a disowned step cannot be told from one |
| `OneProcessPerFile` | two of `LeaseProofs` | Section 5 |

The theorems of Temporal and Evals have no hypothesis.  `AnswersAssumption` of
ModelSteps says that cached tokens are part of the prompt tokens in the OpenAI
convention, which `_usage_from` subtracts them from (`models.py:295`), and that
this convention has no count of tokens written to the cache.

**RunLogProofs.**  `Inv` says that the log and each copy `Fills` 0..n-1 and that
each copy agrees with the log below its length.  Neither half is inductive
alone: the store takes any free seq, so density needs copies that are prefixes,
and copies stay prefixes because an append lands at the end.  From it follow
`TypeCorrect`, `NoGaps`, `ViewsArePrefixes`, `LogOnlyGrows` and
`LedgerImplemented`; the last maps the log to a sequence and a copy to its
length.

**SqliteProofs.**  `ConnInv` adds to the connections' types that one connection
at most holds the write lock, that an inserted row is behind it and still the
next free seq of its writer (`RowOK`), and that a snapshot is a prefix of the
log that is not behind the copies read through it (`SnapshotOK`).  With
RunLog's `Inv`, each step of a connection is then a step of the protocol or
none (`ProtocolImplemented`), so RunLog's theorems hold of the file
(`SqliteLogIsALog`); `ConnectionsSound` are the connections' types.  There is no
assumption on which process a writer lives in.

**EngineProofs.**  `TypeInv == TypeOK /\ Located`, where `Located` says that
a driver that dispatches has something pending in its copy, and that a human who
may still append has a verdict and attempts left; the types of the next state
rest on both.  Each action is shown to
keep it and to touch log and copies only as `Touches` allows: not at all, by a
load, or by an append that is stored or refused.  That yields `TypeCorrect` and
`ProtocolImplemented`, and with RunLogProofs instantiated on the engine's
events, `RunIsDense`: no hole in a run's log and no wrong copy, for any number
of drivers and humans and any replies.

`LegalAppends` is the theorem the protocol is for.  `Synced` has every copy a
prefix of the log; `Ready` says, by label of `pc`, what a writer's copy has to
be for what it is about to append (`Rightful`, which is `Legal` and the code's
own conditions), and `Poised` is `Ready` for everybody together with `History`:
each event of the log was rightful after the events before it.  Since an append
lands only on a copy that is the whole log, rightful of the copy is rightful of
the log.  `Orderly`, by induction over the log's length, is what such a history
says of an open request: it is about the next call and was made in this turn.

**EngineSafetyProofs** rests on these.

- `LicensedEffects`: a task is dispatched from a copy, which is a prefix of the
  log, and stays `Allowed` by that prefix however late it acts (`Licensed`).
- `KeysAreStable`: between a dispatch and the answer nothing but answers to the
  earlier siblings can be recorded (`OnlyAnswered`), each of which moves the
  call one place forward and the log one place on (`KeyAt`, `KeyKept`); a call
  that is answered never comes back (`Named`, `Gone`).  The exception is a
  `run_finished` behind an accepted delivery.  Without a schema there is none
  (`Tidy`), and the history of the log is enough.  With one, a lease is: by
  `OneKey` all that was dispatched is `Gone` while a driver is about to close
  a turn, since it found a delivery at the head of the pending calls, or a
  turn that was over.
- `OneDriver`: whoever drives is the owner in a live row (`Alone`); a driver's
  step leaves the row to it or takes it out of the engine, and a lease only
  lapses when its owner has died.  Between two loads of a driver only humans
  can then append, and what they append are decisions (`Fresh`), which leave
  the pending calls as they are: `NeverRedone`.
- `RecordLands`: a decision is only ever due on an open request, and there is
  none in the copy of a driver that has results in hand (`Orderly`), so that
  this copy is all of the log (`FreshIsAll`) and the place of the next result is
  free (`OutgoingIsDue`).  Its append is then stored, whether the driver is
  cancelled at it or not; what else leaves `record` is `Crash` or `StoreRaises`.
- `RunsOnce`: an intent belongs to the one driver that holds it in
  `started_here`, and it is recorded (`Claimed`); a driver that ran an
  irreversible call has its intent, and while it goes on it has the result in
  hand or on record (`Careful`); it ran it once (`Single`).  `OrphansOnly`
  follows from the same invariants.
- `ReturnsSettled`: `AllSettled` says by label what a driver on its way out has
  recorded.  `RefusalsHold`: who is at the refusal is alone and asks what is
  refused (`Refused`, `BlockAsked`).
- `WireIsLegal`: `Books` says of a copy that is not `CutShort` that every result
  answers a call, and every call is answered or pending, with nothing but
  results in between (`Balanced`), that a turn stays open while calls are pending
  (`Busy`), and that they are answered in order (`InOrder`).  With nothing
  pending, calls and results are then `Paired` in `Messages`, whose places are
  those of the log counted without the events a provider is not told of
  (`Rank`), and paired messages are `Answerable`.

**LeaseProofs.**  `Inv` adds to the types that a standing lease is the one in
the row (`RowBacks`), that clock readings are past (`MarksPast`), that those who
left hold nothing (`LeftBehind`), and that what an owner read before replacing
the row still holds (`Reading`), which is where the lock is needed.  `Exclusive`
and `ContractImplemented` assume `OneProcessPerFile`: every invocation on an
SQLite file in one process, over one store object.  With a second process the
lease is not exclusive (section 5), so the assumption cannot be dropped.

**ExecutorProofs.**  Of tools, `Inv` says that the attempts alive of a call that
leaves timeouts alone are at most its latest, and none before the first and
between two (`LatestOnly`), and that a call that waits has an attempt left
(`Spending`).  The step that matters is `TimeOut`: the thread stays alive, but
the failure is terminal.  `NoOverlap` and `RetriesSpent` follow for any policies
and pool.

Of model steps, `ModelInv` adds to the types the following.  `Charging`: a step
is charged once more than it has failed at most, and if that often, its provider
remembers the present key.  `Records` ties each decision to the answer it was
made of, and `Within` says that every step was begun, and a run stopped, on the
budget's terms; the engine's sums over its log (`TokensOf`, `CostOf`) and the
properties' over the providers' statements (`Overall`) are folds over the same
finite set, each of which counts the same units (`CountsUnits`).  `SlotsOK` has
each slot that a stream has filled be that of one call of the answer, and
`AssembledAsAnswered` then needs only that `Assembled` puts them in the order of
their indices: `InOrder` enumerates a finite set of numbers upwards, which can
be done in one way.  `HeardOK` has the last deltas be the text so far.

**TemporalProofs.**  `Typed` ties an open request to an action still to come;
`TypeCorrect` follows from it.  `Inv` adds that the server waits for an attempt of
the activity of its stage (`AwaitedOfStage`); that the grants, the flag and the
grant still owed are covered by the signals and by the grants nobody heard of
(`SignalsCover`); that, while the run is `Undisturbed`, an awaited `execute_run`
that has asked finds its own request again and answers with a pause or an end
(`AnswersSettle`); and that an answer of completion is true, whoever hears it
(`CompletionsTrue`).  `SignalsPay` and `ReturnsSettled` follow for any number of
gates, attempts, faults and decisions of others.

**EvalsProofs.**  `Inv` says of each evaluation under way (`JobOK`) where it is
in its suite, and that, past the guard of its current run, only itself and its
`rivals` had a hand in that run; and of any two past the guard of one run that
they have met (`Met`), so that whoever puts a hand in it later is a rival too.
`Guard` establishes it, as it refuses an id that is there: `GradesItsOwn`, for
prefixes shared or not.  `Measurements` adds what has been graded:
every run of the scenarios passed by, once each, and the tallies of the current
one (`Results`, `Past`, `Tallied`).  `ReportsAreComplete` is that at the end,
and `RatesAreShares` sums it up: the profile pools scenarios by dimension with a
fold over indices, the property counts results, and the two agree by induction
over the set of scenarios (`SumsAgree`, `PooledPassed`, `PooledTotal`).
Reports do not change once they are made, so what a decision says of two of
them stays true (`Decisions`): `UnsafeIsNamed`, for both hard dimensions and any
thresholds, and `FewIsSaid`.

*Technique.*  No module with a theorem uses a RECURSIVE operator, and facts by
induction over a list's length are mostly avoided by the choice of functions
over seqs instead of recursive definitions.  Where induction is needed, over
the length of a log or the size of a set, it is over a set of numbers
defined in the proof, by a lemma that takes a set (`UpTo`) or by the least
counterexample of a well-founded order; the library's induction theorems take an
operator, which the provers cannot instantiate.  A fold is opened by expanding
its definition under a first-order name.  `SelectSeq` and `SortSeq` cannot be
reasoned about, hence `InOrder`.

*Checked by TLC only*: the liveness properties `LockFreed`, `DriversEnd`,
`ToolsFiled`, `ModelStepEnds`, `HeardGatePassed`, `ExecutionAnswered`, as
fairness and ENABLED are out of the prover's reach; and that properties fail
where a hypothesis above is dropped.

## 5. Where the code and its documentation disagree

Three are runs that TLC refutes:

- `claim_temporal`: `drangue_temporal/engine.py:14` says that the workflow
  "records the approval, and re-runs the activity, which resumes past the gate".
  The worker may die after `agent.approve` has appended and before it answers;
  the retry, which has no limit (`:99`), finds nothing pending and raises
  `ValueError` each time.  The run stays granted and undone.
- `claim_lock`: `store/sqlite.py:12` says that "WAL mode plus a busy timeout let
  a second process (say, an approval CLI) write while a run is in flight,
  instead of dying on 'database is locked'".  An append that raises
  `ConflictError`, or returns for an identical event, does not end its
  transaction, so its connection keeps the write lock and another process's
  append or lease call dies of just that after the busy timeout.  It leaves
  that process in an open `BEGIN`; once it has loaded, which pins a snapshot,
  and somebody else has committed, each of its writes fails at once and its
  loads stay as they are until it restarts.  Two humans who approve the same
  call are enough: the loser's retry finds nothing pending and raises, and its
  process idles with the lock.  The log itself is safe (`ProtocolKept`), and a
  process that drives gives the lock up at its next lease call (`LockFreed`).
- `claim_key`: README.md:340 says of the idempotency key that "the runtime
  injects a stable key derived from the run and step", "so the tool can
  deduplicate downstream".  A guardrail that raises behind a tool that has acted
  has `run_failed` recorded at the step's position (`eventsourced.py:484`), and
  the resumed run executes the same call under the next one.

The others were reproduced with the same models in instances of their own, which
are not kept as runs.

*Engine and agent*

- `agent.py:219` says that after a stream is closed "the record
  of any step that already executed still lands in the store".  Of a parallel
  batch only the append in flight is shielded (`eventsourced.py:530`); results
  of the siblings that have run are dropped.  Nor does it land where that append
  raises anything but a conflict: `_append_shielded` passes the error on
  (`eventsourced.py:104`), nothing is recorded, and a resume executes the step
  again, or disowns it if it is irreversible.  "Losing its append" is what
  the function's comment sets out to prevent; `StepRecordLands` is about the append
  in flight and excepts its error.
- On a store without leases both drivers that append the same intent are told
  they appended it (`store/memory.py:34`), put it in `started_here`
  (`eventsourced.py:253`, "intent events THIS process appended") and run the
  irreversible tool.
- README.md:340 has a "stable key derived from the run and step".  Without a
  lease, and with siblings behind an accepted `final_answer`, one driver may
  be about to record `run_finished` at the position under which another already
  runs the next sibling; the next turn runs that sibling under another key.
  `KeyStable` is stated of, and proved for, runs where this cannot happen
  (section 4).
- The lease is renewed once per iteration (`eventsourced.py:130`, `:268`): a
  step longer than the TTL lets a second driver in (`Stalls = TRUE` and
  `OneLiveDriver`).
- A follow-up turn that waits for an approval reads `completed`, because
  `Result.status` looks for any `run_finished` (`events.py:120`); under the
  Temporal engine that also ends the workflow.
- An accepted `final_answer` with siblings after it leaves them pending.  They
  run in the next turn, behind its message, and the model is then sent tool
  calls that the next message does not answer (`CutShort`).
- A driver that dies between a textual answer and its `run_finished` leaves a
  turn without one once a follow-up comes (`tests/test_multiturn.py:52`).
- A driver that dies between the accepted `final_answer` and `run_finished`
  makes the next one ask the model again (`structured.py:6`).
- A driver that dies between a refused follow-up and its `run_finished` leaves
  an input that the next one gives to the model without vetting it
  (`eventsourced.py:195`).  So does a stream that is closed there, or a refusal
  whose append raises.  Even when both are appended, later turns send the
  refused text along with the rest.
- `approve()` without a call id, retried after a conflict, resolves its default
  again and may land on another call (`agent.py:188`).

*Executor*

- README.md:183 says tools "never crash a run: an exception comes
  back to the model as a clean, structured failure".  `hardening.py:89` converts
  `retry_after` in the exception handler; the README's own example passes the
  `Retry-After` header, which may be a date, and `float` then raises out of
  `run_tool`: the run is failed.
- `hardening.py:126` says that a fallback that fails "must not break the 'classify,
  never propagate' contract of run_tool".  Calling it is guarded; encoding what
  it returned is not (`:134`), and `json.dumps` refuses a cycle or a key that is
  not a string, number or None.
- "Tools are bounded by default" (README.md:183), while the default policy has
  no timeout (`hardening.py:47`), and a model call has none at all.
- A model call that is retried after part of a stream was heard sends the text
  again to the same listener, which is why `HeardIsRecorded` asks for a suffix.

*Stores and extensions*

- `store/sqlite.py:93` says "one live driver per run, across
  processes"; two processes that read a free row are both granted it.
- A `record_approval` that outlives its 30 seconds grants whatever is pending
  when it gets there, which may be a second gate nobody approved: the exception
  `unheard` of `OneGrantPerSignal`.  A decision that lands between the request
  and the reload of the paused result, by such an attempt or by a direct
  `agent.approve`, makes that result's status `running`, which `AgentRun.run`
  takes for an end, though `drangue_temporal/engine.py:51` has "completed |
  paused": the workflow returns from a run that is half done, the exception of
  `ReturnsWhenDone`.

*Evals*

- Two evaluations under way together with one prefix, which has a default, may
  both find an id free (`evals.py:235`), and one then grades the other's run,
  which the comment above that line sets out to exclude: the exception `rivals`
  of `MeasuresOwn`.  Prefix, scenario and
  number are joined into one string, so different ones may be the same id.
- A rate that differs from the baseline by exactly the threshold is blocked or
  not by the rounding of its floating-point difference.

## 6. Not modelled

- **Tool schema** (`tool.py`) derives a JSON schema from a Python signature, the
  **structured-output validator** walks a value along a schema, and
  **memory search and expiry** filter a list: pure functions of their input,
  recursive over arbitrary data, without state that several steps share.  What
  the engine does with a valid or invalid answer and with a recall is in Engine.
- **Observability** prints and opens spans; nothing reads them back.
- **MCP toolset** forwards calls to an external session and keeps no state of a
  run; its tools are tools to the executor.
- **Testing helpers** are scripted models and fakes.
- **Request parameters** of the adapters (tool choice, cache markers, thinking
  budgets) and the conversion of tool definitions: wording that no later step
  depends on.
- **Postgres store**: the connection that is opened at first use.
- **Agent facade**: construction, `run_sync` and rendering of a result.
- **Clock skew** between machines that share a Postgres lease.
- **Late appends.**  A store call that a cancelled driver leaves behind in a
  worker thread (SQLite), or on its way to a server, may still land after the
  lease was released.  Engine has the append of a cancelled driver land before
  the release, or not at all; Lease models the like for acquire and renewal.
- **Two processes on one SQLite file** in `leases`: the lease is not exclusive
  there (section 5), so no property of drivers is claimed for it.
- **Tools that hang without a timeout** and **providers that never answer**: the
  code waits for them for good, so `ToolsFiled` and `ModelStepEnds` exclude them.
- **Repeated attempts of an irreversible tool within one dispatch**: Engine
  counts a dispatch as one effect (`IrreversibleOnce`), and how often its
  function is called within it is ToolPolicy's (`OneAttemptAtATime`,
  `GivesUpWhenSpent`).
- **Approvals in `turns`**: no reply of that run is assisted, so it checks
  `ReturnedIsSettled` of recorded ends only; of requests it is proved.
