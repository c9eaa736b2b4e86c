------------------------------ MODULE Temporal ------------------------------
(***************************************************************************)
(* One run supervised by a Temporal workflow: execute_run drives the run   *)
(* to its next stop, an operator's signal ends a wait, record_approval     *)
(* grants the pending action.                                              *)
(*                                                                         *)
(* The server delivers an activity at least once: it gives up an attempt   *)
(* by the clock and schedules another, while the worker of the first may   *)
(* be dead, may have taken effect without saying so, or may still go on.   *)
(*                                                                         *)
(* The log is what the engine promises of it (RunLog's ledger): whoever    *)
(* appends has read all that precedes, so an append acts on the log as it  *)
(* is.  A run is Gates assisted actions, each asked for, decided, and done *)
(* or, when it is denied, told to the model.                               *)
(***************************************************************************)
EXTENDS Naturals

CONSTANTS
    Attempts,         \* attempts of activities that workers may have in hand
    None,             \* no attempt
    Gone,             \* a dead attempt, as the owner of the lease
    Gates,            \* assisted actions of the run
    MaxSignals,       \* bound on the signals of a behaviour
    MaxFaults,        \* bound on deaths, give-ups of live attempts and failures
    MaxOthers         \* bound on the decisions of people beside the workflow

ASSUME TemporalAssumption ==
    /\ None # Gone
    /\ {None, Gone} \cap Attempts = {}
    /\ Gates \in Nat
    /\ MaxSignals \in Nat
    /\ MaxFaults \in Nat
    /\ MaxOthers \in Nat

Requests == {"none", "asked", "granted", "denied"}
Statuses == {"completed", "paused", "running"}

VARIABLES
    done,       \* the log: assisted actions done or denied
    request,    \* the log: the request for the next
    finished,   \* the log: run_finished
    lease,      \* the store's lease of the run
    pc,         \* attempt -> where its worker is
    status,     \* attempt -> the status its execute_run is to answer
    awaited,    \* the attempt the server waits for
    stage,      \* the workflow: executing, waiting, recording, returned
    approved,   \* AgentRun._approved
    outcome,    \* the status the workflow returned
    signals,    \* history: signals received
    grants,     \* history: grants that record_approval recorded
    unheard,    \* history: those of them whose answer the workflow never had
    others,     \* history: decisions taken beside the workflow
    faults      \* history: faults so far

run      == <<done, request, finished>>
worker   == <<lease, pc, status>>
workflow == <<stage, approved, outcome, signals>>
ledger   == <<grants, unheard, others>>
vars     == <<run, worker, awaited, workflow, ledger, faults>>

Init ==
    /\ done = 0 /\ request = "none" /\ finished = FALSE
    /\ lease = None
    /\ pc = [a \in Attempts |-> "free"]
    /\ status = [a \in Attempts |-> "running"]
    /\ awaited = None
    /\ stage = "executing" /\ approved = FALSE /\ outcome = "running"
    /\ signals = 0 /\ faults = 0
    /\ grants = 0 /\ unheard = 0 /\ others = 0

-----------------------------------------------------------------------------
(* The server: external, as AgentRun uses it.                              *)

Goto(a, label) == pc' = [pc EXCEPT ![a] = label]

\* An attempt is due, the first or a retry: a worker takes it up.
Schedule(a) ==
    /\ awaited = None
    /\ pc[a] = "free"
    /\ \/ stage = "executing" /\ Goto(a, "acquire")
       \/ stage = "recording" /\ Goto(a, "decide")
    /\ awaited' = a
    /\ UNCHANGED <<run, lease, status, workflow, ledger, faults>>

\* Mutant: maximum_attempts = 1.
RetryNever(a) == UNCHANGED awaited

\* Attempts are unlimited: the next is due when one has failed.
Retry(a) == awaited' = IF awaited = a THEN None ELSE awaited

Fault == faults < MaxFaults /\ faults' = faults + 1

Deciding(a) == pc[a] \in {"decide", "decided"}

\* The workflow will not hear of a grant that this attempt has recorded.
Unhear(a) == unheard' = unheard + (IF pc[a] = "decided" THEN 1 ELSE 0)

\* start_to_close_timeout: the attempt has died, or goes on unheard.
GiveUp ==
    /\ awaited # None
    /\ \/ pc[awaited] = "free" /\ UNCHANGED <<faults, unheard>>
       \/ pc[awaited] # "free" /\ Fault /\ Unhear(awaited)
    /\ Retry(awaited)
    /\ UNCHANGED <<run, worker, workflow, grants, others>>

\* A worker dies with an attempt in hand: its lease stays behind.
Die(a) ==
    /\ pc[a] # "free"
    /\ Fault
    /\ Goto(a, "free")
    /\ IF awaited = a THEN Unhear(a) ELSE UNCHANGED unheard
    /\ lease' = IF lease = a THEN Gone ELSE lease
    /\ UNCHANGED <<run, status, awaited, workflow, grants, others>>

\* A dead owner's lease lapses.
Lapse ==
    /\ lease = Gone
    /\ lease' = None
    /\ UNCHANGED <<run, pc, status, awaited, workflow, ledger, faults>>

-----------------------------------------------------------------------------
(* execute_run.                                                            *)

\* Mutant: the lease is kept by whoever has driven.
ReleaseNever(a) == UNCHANGED lease

Release(a) == lease' = IF lease = a THEN None ELSE lease

\* The engine takes the lease, or raises LeaseHeldError and is retried.
Acquire(a) ==
    /\ pc[a] = "acquire"
    /\ \/ lease = None /\ lease' = a /\ Goto(a, "drive") /\ UNCHANGED awaited
       \/ lease # None /\ Goto(a, "free") /\ Retry(a) /\ UNCHANGED lease
    /\ UNCHANGED <<run, status, workflow, ledger, faults>>

Driving(a) == pc[a] = "drive" /\ ~finished

\* The next action is assisted and undecided: ask once, then pause.
Ask(a) ==
    /\ Driving(a)
    /\ done < Gates /\ request \in {"none", "asked"}
    /\ request' = "asked"
    /\ Goto(a, "reload")
    /\ UNCHANGED <<done, finished, lease, status, awaited, workflow, ledger, faults>>

\* A granted action is done and recorded, a denied one recorded as such.
Act(a) ==
    /\ Driving(a)
    /\ request \in {"granted", "denied"}
    /\ done' = done + 1 /\ request' = "none"
    /\ UNCHANGED <<finished, worker, awaited, workflow, ledger, faults>>

Answer(a, s) == status' = [status EXCEPT ![a] = s] /\ Goto(a, "answer")

\* The run is over, now or already.
Conclude(a) ==
    /\ pc[a] = "drive"
    /\ finished \/ done = Gates
    /\ finished' = TRUE
    /\ Answer(a, "completed")
    /\ UNCHANGED <<done, request, lease, awaited, workflow, ledger, faults>>

\* Result.status of the log reloaded after the request.
Status ==
    IF finished THEN "completed" ELSE IF request = "asked" THEN "paused" ELSE "running"

Pause(a) ==
    /\ pc[a] = "reload"
    /\ Answer(a, Status)
    /\ UNCHANGED <<run, lease, awaited, workflow, ledger, faults>>

\* An activity raises, on a failure of the provider or of the store.
Raise(a) ==
    /\ pc[a] \in {"drive", "reload", "decide"}
    /\ Fault
    /\ Goto(a, "free") /\ Release(a) /\ Retry(a)
    /\ UNCHANGED <<run, status, workflow, ledger>>

-----------------------------------------------------------------------------
(* record_approval: Agent.approve of whatever request is pending.          *)

\* Mutant: approve is started and not awaited, so the answer comes first.
DecideUnawaited(a) ==
    /\ pc[a] = "decide"
    /\ \/ awaited = a /\ awaited' = None /\ stage' = "executing"
          /\ UNCHANGED <<run, pc, grants>>
       \/ awaited # a /\ request = "asked"
          /\ request' = "granted" /\ grants' = grants + 1 /\ Goto(a, "free")
          /\ UNCHANGED <<done, finished, awaited, stage>>
    /\ UNCHANGED <<lease, status, approved, outcome, signals, unheard, others, faults>>

Decide(a) ==
    /\ pc[a] = "decide"
    /\ \/ /\ request = "asked"
          /\ request' = "granted" /\ grants' = grants + 1
          /\ unheard' = IF awaited = a THEN unheard ELSE unheard + 1
          /\ Goto(a, "decided") /\ UNCHANGED awaited
       \/ \* nothing is pending: _resolve_pending raises
          /\ request # "asked"
          /\ Goto(a, "free") /\ Retry(a) /\ UNCHANGED <<request, grants, unheard>>
    /\ UNCHANGED <<done, finished, lease, status, workflow, others, faults>>

\* Somebody approves or rejects the pending action beside the workflow.
Intervene ==
    /\ request = "asked" /\ others < MaxOthers
    /\ others' = others + 1
    /\ request' \in {"granted", "denied"}
    /\ UNCHANGED <<done, finished, worker, awaited, workflow, grants, unheard, faults>>

-----------------------------------------------------------------------------
(* The workflow: AgentRun.                                                 *)

\* The signal: a flag, so that two before a wait are one.
Signal ==
    /\ stage # "returned" /\ signals < MaxSignals
    /\ signals' = signals + 1
    /\ approved' = TRUE
    /\ UNCHANGED <<run, worker, awaited, stage, outcome, ledger, faults>>

\* Mutant: the comparison the wrong way round.
FollowSwapped(s) ==
    IF s = "paused" THEN stage' = "returned" /\ outcome' = s
    ELSE stage' = "waiting" /\ UNCHANGED outcome

\* The workflow takes up the answer of execute_run.
Follow(s) ==
    IF s # "paused" THEN stage' = "returned" /\ outcome' = s
    ELSE stage' = "waiting" /\ UNCHANGED outcome

\* An answer reaches the server, which heeds it if it waits for this attempt.
Complete(a) ==
    /\ pc[a] \in {"answer", "decided"}
    /\ Goto(a, "free") /\ Release(a)
    /\ IF awaited # a THEN UNCHANGED <<awaited, stage, outcome>>
       ELSE /\ awaited' = None
            /\ IF pc[a] = "answer" THEN Follow(status[a])
               ELSE stage' = "executing" /\ UNCHANGED outcome
    /\ UNCHANGED <<run, status, approved, signals, ledger, faults>>

\* Mutant: the flag is not reset.
WakeOnly ==
    /\ stage = "waiting" /\ approved
    /\ stage' = "recording"
    /\ UNCHANGED <<run, worker, awaited, approved, outcome, signals, ledger, faults>>

\* wait_condition is met: the flag is reset and the approval recorded.
Wake ==
    /\ stage = "waiting" /\ approved
    /\ approved' = FALSE
    /\ stage' = "recording"
    /\ UNCHANGED <<run, worker, awaited, outcome, signals, ledger, faults>>

-----------------------------------------------------------------------------
Execute(a) == Acquire(a) \/ Ask(a) \/ Act(a) \/ Conclude(a) \/ Pause(a)

Next ==
    \/ Signal \/ Wake \/ GiveUp \/ Lapse \/ Intervene
    \/ \E a \in Attempts :
          Schedule(a) \/ Execute(a) \/ Raise(a) \/ Decide(a) \/ Complete(a) \/ Die(a)

Spec == Init /\ [][Next]_vars

\* The server's timers run, workers poll and the tools return.  No fairness
\* of operators, and none of faults.
GiveUpDead == GiveUp /\ pc[awaited] = "free"

FairSpec ==
    /\ Spec
    /\ WF_vars(Wake) /\ WF_vars(Lapse) /\ WF_vars(GiveUpDead)
    /\ WF_vars(\E a \in Attempts : Schedule(a))
    /\ \A a \in Attempts : WF_vars(Execute(a) \/ Decide(a) \/ Complete(a))

-----------------------------------------------------------------------------
TypeOK ==
    /\ done \in 0..Gates /\ request \in Requests /\ finished \in BOOLEAN
    /\ lease \in Attempts \cup {None, Gone}
    /\ pc \in [Attempts -> {"free", "acquire", "drive", "reload", "answer",
                            "decide", "decided"}]
    /\ status \in [Attempts -> Statuses]
    /\ awaited \in Attempts \cup {None}
    /\ stage \in {"executing", "waiting", "recording", "returned"}
    /\ approved \in BOOLEAN /\ outcome \in Statuses
    /\ {signals, grants, unheard, others, faults} \subseteq Nat

\* Every grant is paid for by a signal of its own, or its answer was lost: one
\* approval opens a second gate only where a record_approval took effect that
\* the workflow never heard of (AgentRun.run, _approved and record_approval).
OneGrantPerSignal == grants <= signals + unheard

\* Nobody decided beside the workflow, and it heard of all that it decided.
Undisturbed == others = 0 /\ unheard = 0

\* A workflow leaves its run half done only where a decision other than its own
\* may have overtaken the result (AgentRun.run, outcome["status"] != "paused");
\* otherwise it returns when the run is over, whatever attempts go on unheard.
ReturnsWhenDone ==
    stage = "returned" =>
        \/ outcome = "completed" /\ finished
        \/ outcome = "running" /\ ~Undisturbed

\* An approved pause gets past its gate: execute_run resumes beyond it,
\* whatever attempts die or are given up (AgentRun.run, record_approval).
ApprovedGatePassed ==
    \A k \in 0..(Gates - 1) :
        (stage = "waiting" /\ approved /\ done = k) ~> (done > k)

\* It does, unless the request was decided by somebody else, or by an attempt
\* the workflow did not hear of.
HeardGatePassed ==
    \A k \in 0..(Gates - 1) :
        (stage = "waiting" /\ approved /\ done = k) ~> (done > k \/ ~Undisturbed)

\* execute_run comes to an answer: the lease of a dead or a deaf attempt does
\* not hold the retries up for ever (retry_policy, maximum_attempts=0).
ExecutionAnswered == (stage = "executing") ~> (stage \in {"waiting", "returned"})
=============================================================================
