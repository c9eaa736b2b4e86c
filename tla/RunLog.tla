------------------------------- MODULE RunLog -------------------------------
(***************************************************************************)
(* The optimistic protocol every writer of a run follows on the store,     *)
(* whatever it writes: load the log, append at the next seq of what was    *)
(* loaded, and on a conflict load again.  The store takes an event at any  *)
(* free seq; it is the protocol that keeps the log dense and ordered.      *)
(***************************************************************************)
EXTENDS EventLog

CONSTANTS Writers, Events

VARIABLES log, view

vars == <<log, view>>

TypeOK ==
    /\ log \in [DOMAIN log -> Events]
    /\ DOMAIN log \subseteq Nat
    /\ view \in [Writers -> UNION {[D -> Events] : D \in SUBSET DOMAIN log}]

Init ==
    /\ log = EmptyLog
    /\ view = [w \in Writers |-> EmptyLog]

\* store.load
Load(w) ==
    /\ view' = [view EXCEPT ![w] = log]
    /\ UNCHANGED log

\* store.load in a transaction that began earlier: what it reads may be old, but
\* not older than what this writer has read before.
LoadStale(w) ==
    /\ \E n \in NextSeq(view[w])..NextSeq(log) :
          view' = [view EXCEPT ![w] = Before(log, n)]
    /\ UNCHANGED log

\* store.append at a free seq.
Claim(w, e) ==
    LET seq == NextSeq(view[w])
    IN  /\ seq \notin DOMAIN log
        /\ log' = With(log, seq, e)
        /\ view' = [view EXCEPT ![w] = With(view[w], seq, e)]

\* store.append of the very event the seq already holds: a success.  The
\* writer cannot tell this from having claimed it.
Confirm(w, e) ==
    LET seq == NextSeq(view[w])
    IN  /\ seq \in DOMAIN log
        /\ log[seq] = e
        /\ view' = [view EXCEPT ![w] = With(view[w], seq, e)]
        /\ UNCHANGED log

\* A ConflictError changes nothing, so it is a stuttering step.
Next ==
    \E w \in Writers :
        \/ Load(w) \/ LoadStale(w)
        \/ \E e \in Events : Claim(w, e) \/ Confirm(w, e)

Spec == Init /\ [][Next]_vars

-----------------------------------------------------------------------------
Dense(v) == DOMAIN v = 0..(NextSeq(v) - 1)

\* The log has no gap, although store.append accepts any free seq.
LogDense == Dense(log)

\* A writer may be behind, never wrong: its local list of events is a prefix
\* of the log, so discarding a lost result and reloading is enough.
ViewIsPrefix == \A w \in Writers : IsPrefixOf(view[w], log)

\* An event keeps its seq and its content once the store has taken it.
AppendOnly == [][IsPrefixOf(log, log')]_vars

\* The log as the sequence a reader folds, and how much of it a writer has.
Entries(v) == [i \in 1..NextSeq(v) |-> v[i - 1]]

Promise == INSTANCE Ledger WITH
    entries <- Entries(log),
    read    <- [w \in Writers |-> NextSeq(view[w])]

\* The protocol keeps the ledger's promise: an event is only added by a writer
\* that has read every event before it.
LedgerKept == Promise!Spec
=============================================================================
