------------------------------ MODULE SqliteLog ------------------------------
(***************************************************************************)
(* The log protocol over one SQLite file in WAL mode.  Each process has    *)
(* one connection, which a threading.Lock gives to one call at a time.     *)
(*                                                                         *)
(* Python's sqlite3 issues BEGIN before an INSERT or DELETE, and only      *)
(* commit ends what it began.  A call that leaves by an exception, or by   *)
(* the return for an identical event, leaves its transaction open:         *)
(*   - after an IntegrityError it still holds the one write lock;          *)
(*   - after "database is locked" it has no snapshot yet, the next SELECT  *)
(*     pins one, and once another process has committed the connection     *)
(*     neither reads past that snapshot nor may write.                     *)
(***************************************************************************)
EXTENDS RunLog

CONSTANTS
    Processes,  \* processes over the file, one SQLiteStore each
    ProcessOf,  \* the process each writer lives in
    Leasing,    \* processes in which an engine renews and releases its lease
    NoRow,      \* no row is inserted and uncommitted
    MaxLength   \* bound on the log

ASSUME SqliteAssumption ==
    /\ ProcessOf \in [Writers -> Processes]
    /\ Leasing \subseteq Processes
    /\ MaxLength \in Nat
    /\ NoRow \notin [writer : Writers, seq : Nat, event : Events]

VARIABLES
    txn,     \* the connection: none, begun, reading (a snapshot), writing
    snap,    \* the log as a reading connection sees it
    stale,   \* reading connections whose snapshot is not the last one
    staged   \* the row a call has inserted and not committed

conns == <<txn, snap, stale, staged>>
sqliteVars == <<log, view, txn, snap, stale, staged>>

SqliteInit ==
    /\ Init
    /\ txn = [p \in Processes |-> "none"]
    /\ snap = [p \in Processes |-> EmptyLog]
    /\ stale = {}
    /\ staged = [p \in Processes |-> NoRow]

-----------------------------------------------------------------------------
(* The connection: external, as sqlite3 and SQLite define it.              *)

\* The threading.Lock is free.
Idle(p) == staged[p] = NoRow

Locked(p) == \E q \in Processes \ {p} : txn[q] = "writing"

\* A connection may take the write lock unless another has it or its own
\* snapshot is old.
CanWrite(p) == ~Locked(p) /\ p \notin stale

\* The busy timeout outlasts a call that is about to commit, but it is only
\* waited for by a connection that has no snapshot.
Waits(p) == txn[p] # "reading" /\ \E q \in Processes \ {p} : ~Idle(q)

Visible(p) == IF txn[p] = "reading" THEN snap[p] ELSE log

\* A SELECT in an open transaction pins what it reads.
Pin(p) ==
    IF txn[p] = "begun"
    THEN txn' = [txn EXCEPT ![p] = "reading"] /\ snap' = [snap EXCEPT ![p] = log]
    ELSE UNCHANGED <<txn, snap>>

\* The transaction is over, by commit, rollback or close.
End(p) ==
    /\ txn' = [txn EXCEPT ![p] = "none"]
    /\ snap' = [snap EXCEPT ![p] = EmptyLog]
    /\ staged' = [staged EXCEPT ![p] = NoRow]

\* A commit makes every other snapshot an old one.
Outdate(p) == stale' = {q \in Processes \ {p} : txn[q] = "reading"}

\* BEGIN and the write lock.
Lock(p) ==
    /\ txn' = [txn EXCEPT ![p] = "writing"]
    /\ snap' = [snap EXCEPT ![p] = EmptyLog]

-----------------------------------------------------------------------------
(* SQLiteStore.                                                            *)

\* Mutant: a load sees the row another process is about to commit.
ReadDirty(w) ==
    LET p == ProcessOf[w]
    IN  /\ Idle(p)
        /\ \E q \in Processes :
              /\ ~Idle(q)
              /\ view' = [view EXCEPT ![w] = With(log, staged[q].seq, staged[q].event)]
        /\ Pin(p)
        /\ UNCHANGED <<log, stale, staged>>

\* _load
Read(w) ==
    LET p == ProcessOf[w]
    IN  /\ Idle(p)
        /\ view' = [view EXCEPT ![w] = Visible(p)]
        /\ Pin(p)
        /\ UNCHANGED <<log, stale, staged>>

\* Mutant: the row goes one past the seq.
InsertPast(w, e) ==
    LET p == ProcessOf[w]
        seq == NextSeq(view[w]) + 1
    IN  /\ Idle(p) /\ CanWrite(p)
        /\ seq \notin DOMAIN log /\ seq < MaxLength
        /\ staged' = [staged EXCEPT ![p] = [writer |-> w, seq |-> seq, event |-> e]]
        /\ Lock(p)
        /\ UNCHANGED <<log, view, stale>>

\* Mutant: the database assigns the seq.
InsertAtTail(w, e) ==
    LET p == ProcessOf[w]
    IN  /\ Idle(p) /\ CanWrite(p)
        /\ staged' = [staged EXCEPT ![p] =
                        [writer |-> w, seq |-> NextSeq(log), event |-> e]]
        /\ NextSeq(log) < MaxLength
        /\ Lock(p)
        /\ UNCHANGED <<log, view, stale>>

\* _append at a free seq, up to the commit.
Insert(w, e) ==
    LET p == ProcessOf[w]
        seq == NextSeq(view[w])
    IN  /\ Idle(p) /\ CanWrite(p)
        /\ seq \notin DOMAIN log /\ seq < MaxLength
        /\ staged' = [staged EXCEPT ![p] = [writer |-> w, seq |-> seq, event |-> e]]
        /\ Lock(p)
        /\ UNCHANGED <<log, view, stale>>

Commit(p) ==
    LET row == staged[p]
    IN  /\ ~Idle(p)
        /\ log' = With(log, row.seq, row.event)
        /\ view' = [view EXCEPT ![row.writer] = With(@, row.seq, row.event)]
        /\ End(p) /\ Outdate(p)

\* Mutant: type and payload are not compared.
OccupiedByAny(w, e) ==
    LET p == ProcessOf[w]
        seq == NextSeq(view[w])
    IN  /\ Idle(p) /\ CanWrite(p)
        /\ seq \in DOMAIN log
        /\ view' = [view EXCEPT ![w] = With(view[w], seq, e)]
        /\ Lock(p)
        /\ UNCHANGED <<log, stale, staged>>

\* _append at an occupied seq: a success for the same event, a ConflictError
\* for another.  Neither way out ends the transaction.
Occupied(w, e) ==
    LET p == ProcessOf[w]
    IN  /\ Idle(p) /\ CanWrite(p)
        /\ NextSeq(view[w]) \in DOMAIN log
        /\ \/ Confirm(w, e)
           \/ log[NextSeq(view[w])] # e /\ UNCHANGED <<log, view>>
        /\ Lock(p)
        /\ UNCHANGED <<stale, staged>>

\* "database is locked" out of an INSERT or DELETE: after the busy timeout, or
\* at once for a connection that has a snapshot.
LockedOut(p) ==
    /\ Idle(p) /\ ~CanWrite(p) /\ ~Waits(p)
    /\ txn' = [txn EXCEPT ![p] = IF @ = "none" THEN "begun" ELSE @]
    /\ UNCHANGED <<log, view, snap, stale, staged>>

\* Mutant: the lease row is written without a commit.
WriteLeaseOnly(p) ==
    /\ p \in Leasing
    /\ Idle(p) /\ CanWrite(p)
    /\ Lock(p)
    /\ UNCHANGED <<log, view, stale, staged>>

\* _acquire_lease that is granted, and _release_lease: both commit.
WriteLease(p) ==
    /\ p \in Leasing
    /\ Idle(p) /\ CanWrite(p)
    /\ End(p) /\ Outdate(p)
    /\ UNCHANGED <<log, view>>

\* _acquire_lease that is refused, or locked out after its SELECT.
ReadLease(p) ==
    /\ p \in Leasing
    /\ Idle(p)
    /\ Pin(p)
    /\ UNCHANGED <<log, view, stale, staged>>

\* The process closes its store or dies; the next one over the file is new.
\* What was not committed is rolled back, and what its writers had read is
\* where their next load starts from.
Restart(p) ==
    /\ End(p)
    /\ stale' = stale \ {p}
    /\ UNCHANGED <<log, view>>

SqliteNext ==
    \/ \E w \in Writers :
          Read(w) \/ \E e \in Events : Insert(w, e) \/ Occupied(w, e)
    \/ \E p \in Processes :
          Commit(p) \/ LockedOut(p) \/ WriteLease(p) \/ ReadLease(p) \/ Restart(p)

SqliteSpec == SqliteInit /\ [][SqliteNext]_sqliteVars

\* A worker thread goes on to its commit.  Where an engine drives, it renews
\* its lease at the head of each iteration and releases it on the way out.
SqliteFairness ==
    \A p \in Processes :
        WF_sqliteVars(Commit(p)) /\ WF_sqliteVars(WriteLease(p))

FairSqliteSpec == SqliteSpec /\ SqliteFairness

-----------------------------------------------------------------------------
\* Every connection variable has its type, an inserted row is behind the write
\* lock, and only a connection with a snapshot can be behind.
ConnectionsOK ==
    /\ txn \in [Processes -> {"none", "begun", "reading", "writing"}]
    /\ DOMAIN snap = Processes
    /\ stale \subseteq {p \in Processes : txn[p] = "reading"}
    /\ DOMAIN staged = Processes
    /\ \A p \in Processes : ~Idle(p) => txn[p] = "writing"

\* Whatever its connection is left in, a writer follows the log protocol: a
\* load is never ahead of the log nor behind what the writer knows, and an
\* event lands only behind all the events its writer has read.
ProtocolKept == Spec

\* The write lock that a conflict leaves behind in a process that drives is
\* given up by its next lease call: conflicts between drivers do not shut
\* other processes out for good.
LockFreed == \A p \in Leasing : txn[p] = "writing" ~> txn[p] # "writing"

\* "WAL mode plus a busy timeout let a second process (say, an approval CLI)
\* write while a run is in flight, instead of dying on 'database is locked'":
\* no connection is in the state that this exception leaves.
SecondWriterWaits == \A p \in Processes : txn[p] \notin {"begun", "reading"}
=============================================================================
