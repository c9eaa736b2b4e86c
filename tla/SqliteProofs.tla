---------------------------- MODULE SqliteProofs ----------------------------
(***************************************************************************)
(* The log over SQLite implements the log protocol, for any number of      *)
(* writers and processes, whatever state the connections are left in.  The *)
(* argument needs both sides: a row waiting for its commit is still at a   *)
(* free seq because its process alone holds the write lock, and an old     *)
(* snapshot is a prefix of the log that no writer of its process is ahead  *)
(* of, because a connection with an old snapshot cannot write.             *)
(***************************************************************************)
EXTENDS SqliteLog, RunLogProofs

\* A snapshot is a prefix of the log, and no writer of the process has read more.
SnapshotOK(p) ==
    /\ Fills(snap[p], NextSeq(snap[p]))
    /\ NextSeq(snap[p]) <= NextSeq(log)
    /\ \A i \in DOMAIN snap[p] : snap[p][i] = log[i]
    /\ \A w \in Writers : ProcessOf[w] = p => NextSeq(view[w]) <= NextSeq(snap[p])

\* A row that waits for its commit can still be claimed by its writer.
RowOK(p) ==
    /\ txn[p] = "writing"
    /\ staged[p].writer \in Writers /\ ProcessOf[staged[p].writer] = p
    /\ staged[p].event \in Events
    /\ staged[p].seq = NextSeq(view[staged[p].writer])
    /\ staged[p].seq \notin DOMAIN log

ConnInv ==
    /\ txn \in [Processes -> {"none", "begun", "reading", "writing"}]
    /\ snap = [p \in Processes |-> snap[p]]
    /\ staged = [p \in Processes |-> staged[p]]
    /\ stale \subseteq {p \in Processes : txn[p] = "reading"}
    /\ \A p, q \in Processes : txn[p] = "writing" /\ txn[q] = "writing" => p = q
    /\ \A p \in Processes : staged[p] # NoRow => RowOK(p)
    /\ \A p \in Processes : txn[p] = "reading" => SnapshotOK(p)

LEMMA InitConn == SqliteInit => ConnInv
BY DEF SqliteInit, ConnInv

-----------------------------------------------------------------------------
(* Every step is a step of the protocol, or none.                          *)

\* A writer reads its connection's snapshot, or the log.
LEMMA ReadIsLoad ==
    ASSUME Inv, ConnInv, NEW w \in Writers, Read(w)
    PROVE  Load(w) \/ LoadStale(w)
<1> DEFINE p == ProcessOf[w]
<1>1. p \in Processes
  BY SqliteAssumption
<1>2. log' = log /\ view' = [view EXCEPT ![w] = Visible(p)]
  BY DEF Read
<1>3. CASE txn[p] # "reading"
  BY <1>2, <1>3 DEF Visible, Load
<1>4. CASE txn[p] = "reading"
  <2> DEFINE n == NextSeq(snap[p])
  <2>1. SnapshotOK(p) /\ Visible(p) = snap[p]
    BY <1>1, <1>4 DEF ConnInv, Visible
  <2>2. Fills(log, NextSeq(log)) /\ Fills(view[w], NextSeq(view[w])) /\ Fills(snap[p], n)
    BY <2>1 DEF Inv, SnapshotOK
  <2>3. n \in NextSeq(view[w])..NextSeq(log)
    BY <2>1, <2>2 DEF SnapshotOK, Fills
  <2>4. Before(log, n) = snap[p]
    <3>1. Fills(Before(log, n), n) /\ \A i \in 0..(n - 1) : Before(log, n)[i] = log[i]
      <4>1. n \in 0..NextSeq(log)
        BY <2>2, <2>3 DEF Fills
      <4> HIDE DEF n
      <4> QED BY <4>1, <2>2, BeforeOfDense
    <3>2. \A i \in 0..(n - 1) : snap[p][i] = log[i]
      BY <2>1, <2>2 DEF SnapshotOK, Fills
    <3>3. [i \in 0..(n - 1) |-> Before(log, n)[i]] = [i \in 0..(n - 1) |-> snap[p][i]]
      BY <3>1, <3>2
    <3> QED BY <3>1, <3>3, <2>2 DEF Fills
  <2>5. view' = [view EXCEPT ![w] = Before(log, n)]
    BY <1>2, <2>1, <2>4
  <2> QED BY <1>2, <2>3, <2>5 DEF LoadStale
<1> QED BY <1>3, <1>4

\* A commit claims the seq of the row, which is still free.
LEMMA CommitIsClaim ==
    ASSUME ConnInv, NEW p \in Processes, Commit(p)
    PROVE  /\ staged[p].writer \in Writers /\ staged[p].event \in Events
           /\ Claim(staged[p].writer, staged[p].event)
<1> DEFINE w == staged[p].writer
           e == staged[p].event
<1>1. staged[p] # NoRow
  BY DEF Commit, Idle
<1>2. RowOK(p)
  BY <1>1 DEF ConnInv
<1>3. w \in Writers /\ e \in Events /\ staged[p].seq = NextSeq(view[w])
      /\ staged[p].seq \notin DOMAIN log
  BY <1>2 DEF RowOK
<1>4. /\ log' = With(log, staged[p].seq, e)
      /\ view' = [view EXCEPT ![w] = With(view[w], staged[p].seq, e)]
  BY DEF Commit
<1> QED BY <1>3, <1>4 DEF Claim

LEMMA StepIsProtocol ==
    Inv /\ ConnInv /\ [SqliteNext]_sqliteVars => [Next]_vars
<1> SUFFICES ASSUME Inv, ConnInv, [SqliteNext]_sqliteVars PROVE [Next]_vars
  OBVIOUS
<1>1. ASSUME NEW w \in Writers, Read(w) PROVE Next
  BY <1>1, ReadIsLoad DEF Next
<1>2. ASSUME NEW w \in Writers, NEW e \in Events, Insert(w, e) PROVE UNCHANGED vars
  BY <1>2 DEF Insert, vars
<1>3. ASSUME NEW w \in Writers, NEW e \in Events, Occupied(w, e) PROVE [Next]_vars
  BY <1>3 DEF Occupied, Next, vars
<1>4. ASSUME NEW p \in Processes, Commit(p) PROVE Next
  BY <1>4, CommitIsClaim DEF Next
<1>5. ASSUME NEW p \in Processes,
             LockedOut(p) \/ WriteLease(p) \/ ReadLease(p) \/ Restart(p)
      PROVE  UNCHANGED vars
  BY <1>5 DEF LockedOut, WriteLease, ReadLease, Restart, vars
<1>6. ASSUME UNCHANGED sqliteVars PROVE UNCHANGED vars
  BY <1>6 DEF sqliteVars, vars
<1> QED BY <1>1, <1>2, <1>3, <1>4, <1>5, <1>6 DEF SqliteNext

-----------------------------------------------------------------------------
(* The connections.                                                        *)

\* The parts of ConnInv that speak of one connection.
ConnOf(p) ==
    /\ staged[p] # NoRow => RowOK(p)
    /\ txn[p] = "reading" => SnapshotOK(p)

\* A snapshot stays what it is when the log grows and no writer of its
\* process reads more.
LEMMA SnapshotKept ==
    ASSUME Inv, Inv', NEW p \in Processes, SnapshotOK(p),
           snap'[p] = snap[p], IsPrefixOf(log, log'),
           \A w \in Writers : ProcessOf[w] = p => view'[w] = view[w]
    PROVE  SnapshotOK(p)'
<1>1. NextSeq(log) <= NextSeq(log')
  BY DEF Inv, Fills, IsPrefixOf
<1>2. NextSeq(snap[p]) \in Nat /\ NextSeq(log) \in Nat /\ NextSeq(log') \in Nat
      /\ DOMAIN snap[p] = 0..(NextSeq(snap[p]) - 1) /\ DOMAIN log = 0..(NextSeq(log) - 1)
  BY DEF SnapshotOK, Inv, Fills
<1>3. NextSeq(snap[p]) <= NextSeq(log')
  BY <1>1, <1>2 DEF SnapshotOK
<1>4. \A i \in DOMAIN snap[p] : i \in DOMAIN log
  BY <1>2 DEF SnapshotOK
<1>5. \A i \in DOMAIN snap[p] : snap[p][i] = log'[i]
  BY <1>4 DEF SnapshotOK, IsPrefixOf
<1> QED BY <1>3, <1>5 DEF SnapshotOK

\* A snapshot taken now is the whole log.
LEMMA SnapshotTaken ==
    ASSUME Inv', NEW p \in Processes, snap'[p] = log'
    PROVE  SnapshotOK(p)'
BY DEF Inv, SnapshotOK, Fills

\* What a step of one connection leaves of another.
LEMMA OtherKept ==
    ASSUME Inv, Inv', ConnInv, NEW q \in Processes,
           txn'[q] = txn[q], snap'[q] = snap[q], staged'[q] = staged[q],
           IsPrefixOf(log, log'), log' = log \/ txn[q] # "writing",
           \A w \in Writers : ProcessOf[w] = q => view'[w] = view[w]
    PROVE  ConnOf(q)'
<1>1. ConnOf(q)
  BY DEF ConnInv, ConnOf
<1>2. ASSUME staged'[q] # NoRow PROVE RowOK(q)'
  <2>1. RowOK(q)
    BY <1>1, <1>2 DEF ConnOf
  <2> QED BY <2>1 DEF RowOK
<1>3. ASSUME txn'[q] = "reading" PROVE SnapshotOK(q)'
  BY <1>1, <1>3, SnapshotKept DEF ConnOf
<1> QED BY <1>2, <1>3 DEF ConnOf

LEMMA StepConn == Inv /\ Inv' /\ ConnInv /\ [SqliteNext]_sqliteVars => ConnInv'
<1> SUFFICES ASSUME Inv, Inv', ConnInv, [SqliteNext]_sqliteVars PROVE ConnInv'
  OBVIOUS
<1> USE DEF Idle
<1>a. IsPrefixOf(log, log)
  BY DEF IsPrefixOf
<1>b. \A w \in Writers : ProcessOf[w] \in Processes
  BY SqliteAssumption
<1>1. ASSUME NEW w \in Writers, Read(w) PROVE ConnInv'
  <2> DEFINE p == ProcessOf[w]
  <2>1. /\ p \in Processes /\ staged[p] = NoRow /\ Pin(p)
        /\ view' = [view EXCEPT ![w] = Visible(p)]
        /\ UNCHANGED <<log, stale, staged>>
    BY <1>1, <1>b DEF Read
  <2>2. /\ txn' = [txn EXCEPT ![p] = IF txn[p] = "begun" THEN "reading" ELSE @]
        /\ snap' = [snap EXCEPT ![p] = IF txn[p] = "begun" THEN log ELSE @]
    BY <2>1 DEF Pin, ConnInv
  <2>3. ASSUME NEW q \in Processes, q # p PROVE ConnOf(q)'
    BY <2>1, <2>2, <2>3, <1>a, OtherKept DEF ConnInv, Inv
  <2>4. ConnOf(p)'
    <3>1. CASE txn[p] = "begun"
      <4>1. snap'[p] = log'
        BY <2>1, <2>2, <3>1 DEF ConnInv
      <4> QED BY <2>1, <4>1, SnapshotTaken DEF ConnOf
    <3>2. CASE txn[p] = "reading"
      <4>1. SnapshotOK(p) /\ snap'[p] = snap[p] /\ Visible(p) = snap[p]
        BY <2>1, <2>2, <3>2 DEF ConnInv, Visible
      <4>2. ASSUME NEW u \in Writers, ProcessOf[u] = p
            PROVE  NextSeq(view'[u]) <= NextSeq(snap[p])
        <5>1. CASE u = w
          <6>1. view'[u] = snap[p]
            BY <2>1, <4>1, <5>1 DEF Inv
          <6> QED BY <4>1, <6>1 DEF SnapshotOK, Fills
        <5>2. CASE u # w
          BY <2>1, <4>1, <4>2, <5>2 DEF SnapshotOK, Inv
        <5> QED BY <5>1, <5>2
      <4> QED BY <2>1, <4>1, <4>2 DEF ConnOf, SnapshotOK
    <3>3. CASE txn[p] \notin {"begun", "reading"}
      BY <2>1, <2>2, <3>3 DEF ConnOf, ConnInv
    <3> QED BY <3>1, <3>2, <3>3
  <2>5. \A q \in Processes : ConnOf(q)'
    BY <2>3, <2>4
  <2>6. /\ (txn \in [Processes -> {"none", "begun", "reading", "writing"}])'
        /\ (stale \subseteq {q \in Processes : txn[q] = "reading"})'
        /\ (\A q, r \in Processes : txn[q] = "writing" /\ txn[r] = "writing" => q = r)'
    BY <2>1, <2>2 DEF ConnInv
  <2> QED BY <2>1, <2>2, <2>5, <2>6 DEF ConnInv, ConnOf
<1>2. ASSUME NEW w \in Writers, NEW e \in Events, Insert(w, e) PROVE ConnInv'
  <2> DEFINE p == ProcessOf[w]
             row == [writer |-> w, seq |-> NextSeq(view[w]), event |-> e]
  <2>1. /\ p \in Processes /\ staged[p] = NoRow /\ CanWrite(p)
        /\ row.seq \notin DOMAIN log
        /\ staged' = [staged EXCEPT ![p] = row]
        /\ txn' = [txn EXCEPT ![p] = "writing"]
        /\ snap' = [snap EXCEPT ![p] = EmptyLog]
        /\ UNCHANGED <<log, view, stale>>
    BY <1>2, <1>b DEF Insert, Lock
  <2>2. \A q \in Processes : q # p => ConnOf(q)'
    BY <2>1, <1>a, OtherKept DEF ConnInv
  <2>3. ConnOf(p)'
    <3>1. txn'[p] = "writing" /\ staged'[p] = row
      BY <2>1 DEF ConnInv
    <3>2. RowOK(p)'
      BY <2>1, <3>1 DEF RowOK
    <3> QED BY <3>1, <3>2 DEF ConnOf
  <2>4. /\ (txn \in [Processes -> {"none", "begun", "reading", "writing"}])'
        /\ (stale \subseteq {q \in Processes : txn[q] = "reading"})'
        /\ (\A q, r \in Processes : txn[q] = "writing" /\ txn[r] = "writing" => q = r)'
    BY <2>1 DEF ConnInv, CanWrite, Locked
  <2> QED BY <2>1, <2>2, <2>3, <2>4 DEF ConnInv, ConnOf
<1>3. ASSUME NEW w \in Writers, NEW e \in Events, Occupied(w, e) PROVE ConnInv'
  <2> DEFINE p == ProcessOf[w]
  <2>1. /\ p \in Processes /\ staged[p] = NoRow /\ CanWrite(p)
        /\ txn' = [txn EXCEPT ![p] = "writing"]
        /\ snap' = [snap EXCEPT ![p] = EmptyLog]
        /\ UNCHANGED <<log, stale, staged>>
        /\ \A u \in Writers : u # w => view'[u] = view[u]
    BY <1>3, <1>b DEF Occupied, Lock, Confirm, Inv
  <2>2. \A q \in Processes : q # p => ConnOf(q)'
    BY <2>1, <1>a, OtherKept DEF ConnInv
  <2>3. ConnOf(p)'
    BY <2>1 DEF ConnOf, ConnInv
  <2>4. /\ (txn \in [Processes -> {"none", "begun", "reading", "writing"}])'
        /\ (stale \subseteq {q \in Processes : txn[q] = "reading"})'
        /\ (\A q, r \in Processes : txn[q] = "writing" /\ txn[r] = "writing" => q = r)'
    BY <2>1 DEF ConnInv, CanWrite, Locked
  <2> QED BY <2>1, <2>2, <2>3, <2>4 DEF ConnInv, ConnOf
<1>4. ASSUME NEW p \in Processes, Commit(p) PROVE ConnInv'
  <2>1. /\ End(p) /\ Outdate(p) /\ RowOK(p)
        /\ view' = [view EXCEPT ![staged[p].writer] =
                       With(view[staged[p].writer], staged[p].seq, staged[p].event)]
    BY <1>4 DEF Commit, ConnInv
  <2>2. IsPrefixOf(log, log')
    <3>1. Next
      BY <1>4, CommitIsClaim DEF Next
    <3> QED BY <3>1, StepGrows
  <2>3. ASSUME NEW q \in Processes, q # p PROVE ConnOf(q)'
    <3>1. txn'[q] = txn[q] /\ snap'[q] = snap[q] /\ staged'[q] = staged[q]
      BY <2>1, <2>3 DEF End, ConnInv
    <3>2. txn[q] # "writing"
      BY <2>1, <2>3 DEF RowOK, ConnInv
    <3>3. \A u \in Writers : ProcessOf[u] = q => view'[u] = view[u]
      BY <2>1, <2>3 DEF RowOK, Inv
    <3> QED BY <2>2, <3>1, <3>2, <3>3, OtherKept
  <2>4. ConnOf(p)'
    BY <2>1 DEF ConnOf, ConnInv, End
  <2>5. /\ (txn \in [Processes -> {"none", "begun", "reading", "writing"}])'
        /\ (stale \subseteq {q \in Processes : txn[q] = "reading"})'
        /\ (\A q, r \in Processes : txn[q] = "writing" /\ txn[r] = "writing" => q = r)'
    BY <2>1 DEF ConnInv, End, Outdate
  <2> QED BY <2>1, <2>3, <2>4, <2>5 DEF ConnInv, ConnOf, End
<1>5. ASSUME NEW p \in Processes, LockedOut(p) PROVE ConnInv'
  <2>1. /\ staged[p] = NoRow
        /\ txn' = [txn EXCEPT ![p] = IF txn[p] = "none" THEN "begun" ELSE txn[p]]
        /\ UNCHANGED <<log, view, snap, stale, staged>>
    BY <1>5 DEF LockedOut
  <2>2. \A q \in Processes : q # p => ConnOf(q)'
    BY <2>1, <1>a, OtherKept DEF ConnInv
  <2>3. ConnOf(p)'
    <3>1. CASE txn[p] = "none"
      BY <2>1, <3>1 DEF ConnOf, ConnInv
    <3>2. CASE txn[p] # "none"
      BY <2>1, <3>2, <1>a, OtherKept DEF ConnInv
    <3> QED BY <3>1, <3>2
  <2>4. /\ (txn \in [Processes -> {"none", "begun", "reading", "writing"}])'
        /\ (stale \subseteq {q \in Processes : txn[q] = "reading"})'
        /\ (\A q, r \in Processes : txn[q] = "writing" /\ txn[r] = "writing" => q = r)'
    BY <2>1 DEF ConnInv
  <2> QED BY <2>1, <2>2, <2>3, <2>4 DEF ConnInv, ConnOf
<1>6. ASSUME NEW p \in Processes, ReadLease(p) PROVE ConnInv'
  <2>1. staged[p] = NoRow /\ Pin(p) /\ UNCHANGED <<log, view, stale, staged>>
    BY <1>6 DEF ReadLease
  <2>2. /\ txn' = [txn EXCEPT ![p] = IF txn[p] = "begun" THEN "reading" ELSE @]
        /\ snap' = [snap EXCEPT ![p] = IF txn[p] = "begun" THEN log ELSE @]
    BY <2>1 DEF Pin, ConnInv
  <2>3. \A q \in Processes : q # p => ConnOf(q)'
    BY <2>1, <2>2, <1>a, OtherKept DEF ConnInv
  <2>4. ConnOf(p)'
    <3>1. CASE txn[p] = "begun"
      <4>1. snap'[p] = log'
        BY <2>1, <2>2, <3>1 DEF ConnInv
      <4> QED BY <2>1, <4>1, SnapshotTaken DEF ConnOf
    <3>2. CASE txn[p] # "begun"
      BY <2>1, <2>2, <3>2, <1>a, OtherKept DEF ConnInv
    <3> QED BY <3>1, <3>2
  <2>5. /\ (txn \in [Processes -> {"none", "begun", "reading", "writing"}])'
        /\ (stale \subseteq {q \in Processes : txn[q] = "reading"})'
        /\ (\A q, r \in Processes : txn[q] = "writing" /\ txn[r] = "writing" => q = r)'
    BY <2>1, <2>2 DEF ConnInv
  <2> QED BY <2>1, <2>2, <2>3, <2>4, <2>5 DEF ConnInv, ConnOf
<1>7. ASSUME NEW p \in Processes, WriteLease(p) \/ Restart(p) PROVE ConnInv'
  <2>1. /\ End(p) /\ UNCHANGED <<log, view>>
        /\ Outdate(p) \/ stale' = stale \ {p}
    BY <1>7 DEF WriteLease, Restart
  <2>2. \A q \in Processes : q # p => ConnOf(q)'
    BY <2>1, <1>a, OtherKept DEF ConnInv, End
  <2>3. ConnOf(p)'
    BY <2>1 DEF ConnOf, ConnInv, End
  <2>4. /\ (txn \in [Processes -> {"none", "begun", "reading", "writing"}])'
        /\ (stale \subseteq {q \in Processes : txn[q] = "reading"})'
        /\ (\A q, r \in Processes : txn[q] = "writing" /\ txn[r] = "writing" => q = r)'
    BY <2>1 DEF ConnInv, End, Outdate
  <2> QED BY <2>1, <2>2, <2>3, <2>4 DEF ConnInv, ConnOf, End
<1>8. ASSUME UNCHANGED sqliteVars PROVE ConnInv'
  BY <1>8 DEF ConnInv, sqliteVars, RowOK, SnapshotOK
<1> QED BY <1>1, <1>2, <1>3, <1>4, <1>5, <1>6, <1>7, <1>8 DEF SqliteNext

-----------------------------------------------------------------------------
LEMMA BothHold == SqliteSpec => [](Inv /\ ConnInv)
<1>1. SqliteInit => Inv /\ ConnInv
  BY InitInv, InitConn DEF SqliteInit
<1>2. Inv /\ ConnInv /\ [SqliteNext]_sqliteVars => (Inv /\ ConnInv)'
  BY StepIsProtocol, NextInv, StepConn
<1> QED BY <1>1, <1>2, PTL DEF SqliteSpec

\* The connections' types, and the lock behind every uncommitted row.
THEOREM ConnectionsSound == SqliteSpec => []ConnectionsOK
<1>1. ConnInv => ConnectionsOK
  BY DEF ConnInv, ConnectionsOK, RowOK, Idle
<1> QED BY <1>1, BothHold, PTL

\* Open transactions, old snapshots and lockouts cost a writer its progress,
\* never the log: the store over SQLite is the store of the protocol.
THEOREM ProtocolImplemented == SqliteSpec => ProtocolKept
<1>1. SqliteInit => Init
  BY DEF SqliteInit
<1> QED BY <1>1, StepIsProtocol, BothHold, PTL DEF SqliteSpec, ProtocolKept, Spec

\* So what RunLogProofs shows of the protocol holds of the SQLite store.
THEOREM SqliteLogIsALog ==
    SqliteSpec => []TypeOK /\ []LogDense /\ []ViewIsPrefix /\ AppendOnly /\ LedgerKept
BY ProtocolImplemented, TypeCorrect, NoGaps, ViewsArePrefixes, LogOnlyGrows,
   LedgerImplemented, PTL DEF ProtocolKept
=============================================================================
