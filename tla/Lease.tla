-------------------------------- MODULE Lease --------------------------------
(***************************************************************************)
(* The lease of one run in each of the three stores.  An owner is one call *)
(* of EventSourcedEngine.run, with a fresh id; it acquires, renews by      *)
(* acquiring again, and releases when it unwinds.                          *)
(*                                                                         *)
(* InMemoryStore decides and writes without an await in between.  The      *)
(* Postgres store reads its clock, then runs one conditional upsert.  The  *)
(* SQLite store reads clock and row, then replaces the row in a second     *)
(* statement; a threading.Lock serializes the two within a process, and    *)
(* nothing does between processes.                                         *)
(***************************************************************************)
EXTENDS Naturals

CONSTANTS
    Owners,
    Nobody,       \* no owner
    Deployments,  \* a store, and for each owner the process it runs in
    TTL,          \* lease_ttl, in ticks
    MaxNow        \* bound on the clock

ASSUME LeaseAssumption ==
    /\ Nobody \notin Owners
    /\ TTL \in Nat \ {0}
    /\ MaxNow \in Nat
    /\ \A x \in Deployments :
          /\ x.backend \in {"memory", "postgres", "sqlite"}
          /\ DOMAIN x.process = Owners

VARIABLES
    deployed,   \* the deployment of this run
    now,        \* the clock
    row,        \* the lease row, owned by Nobody when there is none
    pc,         \* new, asking (upsert sent), replacing (row read), in, gone
    left,       \* owners cancelled or killed while the store was at work
    unwinding,  \* those cancelled within a lease, their release still to come
    mark,       \* the clock as each owner read it
    until       \* the end of the lease each owner was granted

vars == <<deployed, now, row, pc, left, unwinding, mark, until>>

NoRow == [owner |-> Nobody, expires |-> 0]

Colleagues(o) == {p \in Owners : deployed.process[p] = deployed.process[o]}

Init ==
    /\ deployed \in Deployments
    /\ now = 0
    /\ row = NoRow
    /\ pc = [o \in Owners |-> "new"]
    /\ left = {}
    /\ unwinding = {}
    /\ mark = [o \in Owners |-> 0]
    /\ until = [o \in Owners |-> 0]

-----------------------------------------------------------------------------
Goto(o, label) == pc' = [pc EXCEPT ![o] = label]

\* Acquiring on entry, or renewing at the head of the loop.
MayAsk(o) == pc[o] \in {"new", "in"}

\* At clock reading t, o may have the row.
Free(o, t) == row.owner \in {Nobody, o} \/ row.expires <= t

Fill(o, t) == row' = [owner |-> o, expires |-> t + TTL]

\* The row is o's, even when o is no longer there to hear it.
Grant(o, t) ==
    /\ Fill(o, t)
    /\ IF o \in left
       THEN Goto(o, "gone") /\ UNCHANGED until
       ELSE Goto(o, "in") /\ until' = [until EXCEPT ![o] = t + TTL]

\* LeaseHeldError: the driver stops.
Refuse(o) ==
    /\ until' = [until EXCEPT ![o] = 0]
    /\ Goto(o, "gone")
    /\ UNCHANGED row

\* One conditional statement, at clock reading t.
Upsert(o, t) == IF Free(o, t) THEN Grant(o, t) ELSE Refuse(o)

AcquireInMemory(o) ==
    /\ deployed.backend = "memory"
    /\ MayAsk(o)
    /\ Upsert(o, now)
    /\ UNCHANGED <<deployed, now, left, unwinding, mark>>

Ask(o) ==
    /\ deployed.backend = "postgres"
    /\ MayAsk(o)
    /\ mark' = [mark EXCEPT ![o] = now]
    /\ Goto(o, "asking")
    /\ UNCHANGED <<deployed, now, row, left, unwinding, until>>

\* The statement may reach the server any time later.
Answer(o) ==
    /\ pc[o] = "asking"
    /\ Upsert(o, mark[o])
    /\ UNCHANGED <<deployed, now, left, unwinding, mark>>

\* Mutant: the threading.Lock is missing.
Unlocked(o) == FALSE

\* The process's threading.Lock is taken.
Locked(o) == \E p \in Colleagues(o) : pc[p] = "replacing"

Select(o) ==
    /\ deployed.backend = "sqlite"
    /\ MayAsk(o) /\ ~Locked(o)
    /\ IF Free(o, now)
       THEN /\ mark' = [mark EXCEPT ![o] = now]
            /\ Goto(o, "replacing")
            /\ UNCHANGED <<row, until>>
       ELSE Refuse(o) /\ UNCHANGED mark
    /\ UNCHANGED <<deployed, now, left, unwinding>>

Replace(o) ==
    /\ pc[o] = "replacing"
    /\ Grant(o, mark[o])
    /\ UNCHANGED <<deployed, now, left, unwinding, mark>>

\* The caller is cancelled, on entry or at a renewal; the statement it has sent,
\* or the worker thread that waits for the lock, goes on without it.
Abandon(o) ==
    /\ o \notin left
    /\ \/ pc[o] \in {"asking", "replacing"}
       \/ deployed.backend = "sqlite" /\ MayAsk(o)
    /\ left' = left \cup {o}
    /\ unwinding' = IF until[o] > 0 THEN unwinding \cup {o} ELSE unwinding
    /\ until' = [until EXCEPT ![o] = 0]
    /\ UNCHANGED <<deployed, now, row, pc, mark>>

\* Its release, which may overtake the renewal.
Unwind(o) ==
    /\ o \in unwinding /\ ~Locked(o)
    /\ unwinding' = unwinding \ {o}
    /\ row' = IF row.owner = o THEN NoRow ELSE row
    /\ UNCHANGED <<deployed, now, pc, left, mark, until>>

\* Mutant: the row is deleted whoever owns it by now.
ReleaseAny(o) ==
    /\ pc[o] = "in" /\ o \notin left /\ ~Locked(o)
    /\ row' = NoRow
    /\ until' = [until EXCEPT ![o] = 0]
    /\ Goto(o, "gone")
    /\ UNCHANGED <<deployed, now, left, unwinding, mark>>

\* The unwinding driver deletes its row, if it still owns one and the store
\* answers; a failure to release is swallowed.
Release(o) ==
    /\ pc[o] = "in" /\ o \notin left /\ ~Locked(o)
    /\ \/ row' = IF row.owner = o THEN NoRow ELSE row
       \/ UNCHANGED row
    /\ until' = [until EXCEPT ![o] = 0]
    /\ Goto(o, "gone")
    /\ UNCHANGED <<deployed, now, left, unwinding, mark>>

\* A process dies with every owner in it; a statement already sent may land.
Crash(o) ==
    /\ pc[o] # "gone"
    /\ pc' = [p \in Owners |->
                IF p \in Colleagues(o) /\ pc[p] # "asking" THEN "gone" ELSE pc[p]]
    /\ left' = left \cup Colleagues(o)
    /\ unwinding' = unwinding \ Colleagues(o)
    /\ until' = [p \in Owners |-> IF p \in Colleagues(o) THEN 0 ELSE until[p]]
    /\ UNCHANGED <<deployed, now, row, mark>>

Tick ==
    /\ now < MaxNow
    /\ now' = now + 1
    /\ UNCHANGED <<deployed, row, pc, left, unwinding, mark, until>>

Next ==
    \/ \E o \in Owners :
          \/ AcquireInMemory(o) \/ Ask(o) \/ Answer(o) \/ Select(o) \/ Replace(o)
          \/ Abandon(o) \/ Unwind(o) \/ Release(o) \/ Crash(o)
    \/ Tick

Spec == Init /\ [][Next]_vars

-----------------------------------------------------------------------------
\* The owner was granted the run until some time that has not come yet.
Valid(o) == until[o] > now

\* Every variable has its type; an owner that is not driving has no lease.
TypeOK ==
    /\ deployed \in Deployments
    /\ now \in Nat
    /\ row \in [owner : Owners \cup {Nobody}, expires : Nat]
    /\ pc \in [Owners -> {"new", "asking", "replacing", "in", "gone"}]
    /\ left \subseteq Owners
    /\ unwinding \subseteq left
    /\ mark \in [Owners -> Nat]
    /\ until \in [Owners -> Nat]
    /\ \A o \in Owners : pc[o] \in {"new", "gone"} => until[o] = 0

\* SQLite's lock is a threading.Lock: it is exclusive in one process only.
OneProcessPerFile ==
    \A x \in Deployments :
        x.backend = "sqlite" => \A o, p \in Owners : x.process[o] = x.process[p]

\* Two drivers are never both within a lease they were granted, whatever the
\* store was doing when the one before was cancelled, died or let it lapse.
OneValidLease == \A o, p \in Owners : Valid(o) /\ Valid(p) => o = p

Contract == INSTANCE LeaseContract WITH holders <- {o \in Owners : Valid(o)}

\* Each store keeps the contract of a lease, step by step: the next holder
\* enters only after the last one released, died or ran out of time.
ContractKept == Contract!Spec
=============================================================================
