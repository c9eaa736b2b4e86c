------------------------------ MODULE ToolPolicy ------------------------------
(***************************************************************************)
(* A batch of sibling tool calls, dispatched under the policy of each:     *)
(* vetted, invoked within a timeout, retried after a delay, screened, and  *)
(* recorded together once all are answered.                                *)
(*                                                                         *)
(* An async tool runs in the event loop, and a timeout cancels it.  A sync *)
(* tool runs in a thread of the loop's pool, and a timeout cancels only    *)
(* the waiting: a thread that has started goes on to its end.  The SQLite  *)
(* store appends in a thread of the same pool.                             *)
(***************************************************************************)
EXTENDS Naturals, FiniteSets

CONSTANTS
    Calls,         \* the siblings
    Store,         \* the store, as a client of the pool
    Policy,        \* call -> [async, timeout, retries, retryOn, validate]
    Raises,        \* the categories of what tools raise
    Hangs,         \* calls whose function may never return
    PoolSize,      \* threads of the event loop's default executor
    GuardsRaise,   \* a guardrail or approver may raise
    BadHints,      \* a server's Retry-After may not be a number
    BadFallbacks,  \* a policy's fallback may not be a JSON value
    MayCancel      \* the driver may be cancelled

\* What _classify tells apart, by the category of the exception raised.
Categories ==
    {"rate_limit", "auth", "validation", "timeout", "transient", "permanent", "error"}

\* refused: an unknown tool, unparsed arguments, or a call the guardrails block.
Contents ==
    {"none", "ok", "refused", "result_blocked", "raised", "cancelled"} \cup Categories

ASSUME PolicyAssumption ==
    /\ Store \notin Calls
    /\ Hangs \subseteq Calls
    /\ Raises \subseteq Categories
    /\ PoolSize \in Nat \ {0}
    /\ {GuardsRaise, BadHints, BadFallbacks, MayCancel} \subseteq BOOLEAN
    /\ Policy \in [Calls -> [async : BOOLEAN, timeout : BOOLEAN, retries : Nat,
                             retryOn : SUBSET Categories, validate : BOOLEAN]]

Jobs == [call : Calls \cup {Store}, n : Nat]

VARIABLES
    pc,        \* vet, wait (for an attempt), sleep (before the next), screen, done
    attempt,   \* how many attempts of each call were retried
    queued,    \* attempts that have no thread yet
    running,   \* attempts in a thread or in the event loop
    content,   \* what each call was answered with
    batch      \* the record: open, filing, filed, cancelled

vars == <<pc, attempt, queued, running, content, batch>>

Init ==
    /\ pc = [c \in Calls |-> "vet"]
    /\ attempt = [c \in Calls |-> 0]
    /\ queued = {}
    /\ running = {}
    /\ content = [c \in Calls |-> "none"]
    /\ batch = "open"

-----------------------------------------------------------------------------
(* The pool: external, as to_thread and wait_for use it.                   *)

Job(c) == [call |-> c, n |-> attempt[c]]

Threads == {j \in running : j.call = Store \/ ~Policy[j.call].async}

\* A thread that is free takes up a queued attempt.
Start(j) ==
    /\ j \in queued
    /\ Cardinality(Threads) < PoolSize
    /\ queued' = queued \ {j}
    /\ running' = running \cup {j}
    /\ UNCHANGED <<pc, attempt, content, batch>>

\* A coroutine is cancelled, a queued attempt withdrawn, a thread unaffected.
Abandon(j) ==
    /\ queued' = queued \ {j}
    /\ running' = IF Policy[j.call].async THEN running \ {j} ELSE running

\* A thread that nobody waits for comes to its end.
Drop(j) ==
    /\ j \in running
    /\ j.call \in Calls
    /\ ~(pc[j.call] = "wait" /\ j = Job(j.call))
    /\ running' = running \ {j}
    /\ UNCHANGED <<pc, attempt, queued, content, batch>>

-----------------------------------------------------------------------------
(* One call: Executor._dispatch around hardening.run_tool.                 *)

Goto(c, label) == pc' = [pc EXCEPT ![c] = label]

Answer(c, k, label) == content' = [content EXCEPT ![c] = k] /\ Goto(c, label)

Submit(j) ==
    IF Policy[j.call].async
    THEN running' = running \cup {j} /\ UNCHANGED queued
    ELSE queued' = queued \cup {j} /\ UNCHANGED running

\* The tool exists, its arguments were parsed and check_tool lets it pass: it
\* is invoked.  Otherwise it is answered without being invoked.
Vet(c) ==
    /\ pc[c] = "vet"
    /\ \/ Goto(c, "wait") /\ Submit(Job(c)) /\ UNCHANGED content
       \/ Answer(c, "refused", "done") /\ UNCHANGED <<queued, running>>
       \/ GuardsRaise /\ Answer(c, "raised", "done") /\ UNCHANGED <<queued, running>>
    /\ UNCHANGED <<attempt, batch>>

\* Mutant: whatever failed is retried.
RetriesAll(c, k) == attempt[c] < Policy[c].retries

\* Mutant: the first attempt is counted as a retry.
RetriesLess(c, k) == k \in Policy[c].retryOn /\ attempt[c] + 1 < Policy[c].retries

Retries(c, k) == k \in Policy[c].retryOn /\ attempt[c] < Policy[c].retries

\* An attempt failed with k: wait for the next, or answer with the failure.
\* Delay and answer are computed in the handler, so a Retry-After that is not
\* a number and a fallback that json.dumps refuses raise out of run_tool.
Fail(c, k) ==
    \/ Retries(c, k) /\ Goto(c, "sleep") /\ UNCHANGED content
    \/ Retries(c, k) /\ k = "rate_limit" /\ BadHints /\ Answer(c, "raised", "done")
    \/ ~Retries(c, k) /\ Answer(c, k, "screen")
    \/ ~Retries(c, k) /\ BadFallbacks /\ Answer(c, "raised", "done")

\* The attempt returns; the policy's validation may reject what it returned,
\* or fail itself.
Return(c) ==
    /\ pc[c] = "wait"
    /\ Job(c) \in running
    /\ running' = running \ {Job(c)}
    /\ \/ Answer(c, "ok", "screen")
       \/ Policy[c].validate /\ \E k \in Raises \cup {"validation"} : Fail(c, k)
    /\ UNCHANGED <<attempt, queued, batch>>

\* The attempt raises, whatever it has done so far.
Raise(c) ==
    /\ pc[c] = "wait"
    /\ Job(c) \in running
    /\ running' = running \ {Job(c)}
    /\ \E k \in Raises : Fail(c, k)
    /\ UNCHANGED <<attempt, queued, batch>>

TimeOut(c) ==
    /\ pc[c] = "wait"
    /\ Policy[c].timeout
    /\ Abandon(Job(c))
    /\ Fail(c, "timeout")
    /\ UNCHANGED <<attempt, batch>>

\* The delay is over: the next attempt, with the same arguments and key.
Wake(c) ==
    /\ pc[c] = "sleep"
    /\ attempt' = [attempt EXCEPT ![c] = @ + 1]
    /\ Submit([call |-> c, n |-> attempt[c] + 1])
    /\ Goto(c, "wait")
    /\ UNCHANGED <<content, batch>>

\* check_result sees whatever run_tool returned.
Screen(c) ==
    /\ pc[c] = "screen"
    /\ \/ Goto(c, "done") /\ UNCHANGED content
       \/ Answer(c, "result_blocked", "done")
       \/ GuardsRaise /\ Answer(c, "raised", "done")
    /\ UNCHANGED <<attempt, queued, running, batch>>

-----------------------------------------------------------------------------
(* The batch: gather, then append.                                         *)

StoreJob == [call |-> Store, n |-> 0]

\* Mutant: what gather raises is not recorded.
FileAnswered ==
    /\ batch = "open"
    /\ \A c \in Calls : pc[c] = "done" /\ content[c] # "raised"
    /\ batch' = "filing"
    /\ queued' = queued \cup {StoreJob}
    /\ UNCHANGED <<pc, attempt, running, content>>

\* gather returns when all calls are answered, or raises with the first.
File ==
    /\ batch = "open"
    /\ \/ \A c \in Calls : pc[c] = "done"
       \/ \E c \in Calls : content[c] = "raised"
    /\ batch' = "filing"
    /\ queued' = queued \cup {StoreJob}
    /\ UNCHANGED <<pc, attempt, running, content>>

Appended ==
    /\ StoreJob \in running
    /\ running' = running \ {StoreJob}
    /\ batch' = "filed"
    /\ UNCHANGED <<pc, attempt, queued, content>>

\* Cancelling the driver cancels the gather and everything it waits for.
Cancel ==
    /\ MayCancel
    /\ batch = "open"
    /\ batch' = "cancelled"
    /\ queued' = {}
    /\ running' = Threads
    /\ pc' = [c \in Calls |-> "done"]
    /\ content' = [c \in Calls |-> IF pc[c] = "done" THEN content[c] ELSE "cancelled"]
    /\ UNCHANGED <<attempt>>

Next ==
    \/ \E c \in Calls :
          Vet(c) \/ Return(c) \/ Raise(c) \/ TimeOut(c) \/ Wake(c) \/ Screen(c)
    \/ \E j \in queued : Start(j)
    \/ \E j \in running : Drop(j)
    \/ File \/ Appended \/ Cancel

Spec == Init /\ [][Next]_vars

-----------------------------------------------------------------------------
\* Every variable has its type; a call is answered when it is done.
TypeOK ==
    /\ pc \in [Calls -> {"vet", "wait", "sleep", "screen", "done"}]
    /\ attempt \in [Calls -> Nat]
    /\ queued \subseteq Jobs
    /\ running \subseteq Jobs
    /\ content \in [Calls -> Contents]
    /\ batch \in {"open", "filing", "filed", "cancelled"}
    /\ \A c \in Calls : pc[c] \in {"screen", "done"} <=> content[c] # "none"

\* Attempts of c whose function may still be running, or run.
Alive(c) == {j \in queued \cup running : j.call = c}

\* Unless its policy opts into retrying timeouts, no call has two attempts
\* that may act at the same time, even when a thread outlives its timeout.
OneAttemptAtATime ==
    \A c \in Calls :
        "timeout" \notin Policy[c].retryOn => \A i, j \in Alive(c) : i = j

\* A failure that the policy retries is reported only when its retries are
\* spent, and no attempt is made beyond them.
GivesUpWhenSpent ==
    \A c \in Calls :
        /\ attempt[c] <= Policy[c].retries
        /\ content[c] \in Policy[c].retryOn => attempt[c] = Policy[c].retries
=============================================================================
