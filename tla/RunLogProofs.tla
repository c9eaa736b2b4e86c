---------------------------- MODULE RunLogProofs ----------------------------
(***************************************************************************)
(* Proofs about the log protocol, for any set of writers and of events.    *)
(* The store accepts an event at any free seq; what makes the log dense    *)
(* and every view a prefix of it is that a writer only ever appends at the *)
(* end of what it has seen.  The two facts need each other, and together   *)
(* are inductive (Inv).                                                    *)
(***************************************************************************)
EXTENDS RunLog, SequenceTheorems, TLAPS

\* An event list without gaps, of length n.
Fills(v, n) ==
    /\ n \in Nat
    /\ DOMAIN v = 0..(n - 1)
    /\ v = [i \in 0..(n - 1) |-> v[i]]

\* The last seq of a non-empty list without gaps is its length minus one, so
\* the fold's next_seq is its length.
LEMMA NextSeqOfDense ==
    ASSUME NEW v, NEW n \in Nat, DOMAIN v = 0..(n - 1)
    PROVE  NextSeq(v) = n
<1>1. CASE n = 0
  BY <1>1, 0..(-1) = {} DEF NextSeq, Last
<1>2. CASE n # 0
  <2>1. n - 1 \in DOMAIN v /\ \A j \in DOMAIN v : j <= n - 1
    BY <1>2
  <2>2. ASSUME NEW i \in DOMAIN v, \A j \in DOMAIN v : j <= i PROVE i = n - 1
    <3>1. n - 1 <= i
      BY <2>1, <2>2
    <3>2. i \in Int /\ i <= n - 1
      BY <2>1
    <3> QED BY <3>1, <3>2
  <2>3. (CHOOSE i \in DOMAIN v : \A j \in DOMAIN v : j <= i) = n - 1
    BY <2>1, <2>2
  <2>4. Last(DOMAIN v) = n - 1
    BY <2>1, <2>3 DEF Last
  <2> QED BY <2>4 DEF NextSeq
<1> QED BY <1>1, <1>2

\* Adding an event at the end of a list without gaps leaves no gap.
LEMMA WithAtEnd ==
    ASSUME NEW v, NEW n, Fills(v, n), NEW e
    PROVE  /\ Fills(With(v, n, e), n + 1)
           /\ With(v, n, e)[n] = e
           /\ \A i \in 0..(n - 1) : With(v, n, e)[i] = v[i]
<1>1. n \in Nat /\ DOMAIN v = 0..(n - 1)
  BY DEF Fills
<1>2. DOMAIN v \cup {n} = 0..((n + 1) - 1)
  BY <1>1
<1>3. With(v, n, e) = [i \in 0..((n + 1) - 1) |-> IF i = n THEN e ELSE v[i]]
  BY <1>2 DEF With
<1>4. n \in 0..((n + 1) - 1) /\ \A i \in 0..(n - 1) : i \in 0..((n + 1) - 1) /\ i # n
  BY <1>1
<1>5. n + 1 \in Nat /\ DOMAIN With(v, n, e) = 0..((n + 1) - 1)
  BY <1>1, <1>3
<1>6. With(v, n, e)[n] = e /\ \A i \in 0..(n - 1) : With(v, n, e)[i] = v[i]
  BY <1>3, <1>4
<1>7. With(v, n, e) = [i \in 0..((n + 1) - 1) |-> With(v, n, e)[i]]
  BY <1>3
<1> QED BY <1>5, <1>6, <1>7 DEF Fills

LEMMA NextSeqOfWith ==
    ASSUME NEW v, NEW n, Fills(v, n), NEW e
    PROVE  NextSeq(With(v, n, e)) = n + 1
<1>1. Fills(With(v, n, e), n + 1)
  BY WithAtEnd
<1> QED BY <1>1, NextSeqOfDense DEF Fills

\* The first events of a list without gaps are a list without gaps.
LEMMA BeforeOfDense ==
    ASSUME NEW v, NEW n, Fills(v, n), NEW m \in 0..n
    PROVE  /\ Fills(Before(v, m), m)
           /\ NextSeq(Before(v, m)) = m
           /\ \A i \in 0..(m - 1) : Before(v, m)[i] = v[i]
<1>1. n \in Nat /\ m \in Nat /\ m <= n /\ DOMAIN v = 0..(n - 1)
  BY DEF Fills
<1>2. {j \in DOMAIN v : j < m} = 0..(m - 1)
  BY <1>1
<1>3. Before(v, m) = [i \in 0..(m - 1) |-> v[i]]
  BY <1>2 DEF Before
<1>4. Fills(Before(v, m), m)
  BY <1>1, <1>3 DEF Fills
<1>5. NextSeq(Before(v, m)) = m
  BY <1>4, NextSeqOfDense DEF Fills
<1> QED BY <1>3, <1>4, <1>5

\* The log has no gap, and every view is the log up to some length.
Inv ==
    /\ Fills(log, NextSeq(log))
    /\ \A i \in DOMAIN log : log[i] \in Events
    /\ view = [w \in Writers |-> view[w]]
    /\ \A w \in Writers :
          /\ Fills(view[w], NextSeq(view[w]))
          /\ NextSeq(view[w]) <= NextSeq(log)
          /\ \A i \in DOMAIN view[w] : view[w][i] = log[i]

LEMMA InitInv == Init => Inv
<1> SUFFICES ASSUME Init PROVE Inv
  OBVIOUS
<1>1. DOMAIN EmptyLog = 0..(0 - 1) /\ EmptyLog = [i \in 0..(0 - 1) |-> EmptyLog[i]]
  BY 0..(0 - 1) = {} DEF EmptyLog
<1>2. NextSeq(EmptyLog) = 0
  BY <1>1, NextSeqOfDense
<1> QED BY <1>1, <1>2 DEF Init, Inv, Fills

\* A free seq at the end of a view is the end of the log: a writer that is
\* behind meets an occupied one.
LEMMA ClaimAtEnd ==
    ASSUME Inv, NEW w \in Writers, NextSeq(view[w]) \notin DOMAIN log
    PROVE  NextSeq(view[w]) = NextSeq(log)
BY DEF Inv, Fills

LEMMA NextInv == Inv /\ [Next]_vars => Inv'
<1> SUFFICES ASSUME Inv, [Next]_vars PROVE Inv'
  OBVIOUS
<1>1. ASSUME NEW w \in Writers, Load(w) PROVE Inv'
  <2>1. log' = log /\ view' = [view EXCEPT ![w] = log]
    BY <1>1 DEF Load
  <2>2. view'[w] = log /\ \A u \in Writers : u # w => view'[u] = view[u]
    BY <2>1 DEF Inv
  <2>3. view' = [u \in Writers |-> view'[u]]
    BY <2>1 DEF Inv
  <2>4. Fills(log, NextSeq(log)) /\ NextSeq(log) <= NextSeq(log)
    BY DEF Inv, Fills
  <2>5. ASSUME NEW u \in Writers
        PROVE  /\ Fills(view'[u], NextSeq(view'[u]))
               /\ NextSeq(view'[u]) <= NextSeq(log)
               /\ \A i \in DOMAIN view'[u] : view'[u][i] = log[i]
    <3>1. CASE u = w
      BY <3>1, <2>2, <2>4
    <3>2. CASE u # w
      BY <3>2, <2>2 DEF Inv
    <3> QED BY <3>1, <3>2
  <2> QED BY <2>1, <2>3, <2>5 DEF Inv
<1>2. ASSUME NEW w \in Writers, NEW e \in Events, Claim(w, e) PROVE Inv'
  <2> DEFINE n == NextSeq(log)
  <2>1. NextSeq(view[w]) = n
    BY <1>2, ClaimAtEnd DEF Claim
  <2>2. log' = With(log, n, e) /\ view' = [view EXCEPT ![w] = With(view[w], n, e)]
    BY <1>2, <2>1 DEF Claim
  <2>3. Fills(log, n) /\ Fills(view[w], n)
    BY <2>1 DEF Inv
  <2>4. n \in Nat
    BY <2>3 DEF Fills
  <2>5. /\ Fills(log', n + 1) /\ log'[n] = e
        /\ \A i \in 0..(n - 1) : log'[i] = log[i]
    BY <2>2, <2>3, WithAtEnd
  <2>6. /\ Fills(view'[w], n + 1) /\ view'[w][n] = e
        /\ \A i \in 0..(n - 1) : view'[w][i] = view[w][i]
    <3>1. view'[w] = With(view[w], n, e)
      BY <2>2 DEF Inv
    <3> QED BY <3>1, <2>3, WithAtEnd
  <2>7. NextSeq(log') = n + 1 /\ NextSeq(view'[w]) = n + 1
    BY <2>4, <2>5, <2>6, NextSeqOfDense DEF Fills
  <2>8. \A i \in DOMAIN log' : log'[i] \in Events
    <3>1. DOMAIN log' = 0..n /\ DOMAIN log = 0..(n - 1)
      BY <2>3, <2>4, <2>5 DEF Fills
    <3>2. \A i \in 0..n : i = n \/ i \in 0..(n - 1)
      BY <2>4
    <3>3. \A i \in 0..(n - 1) : log'[i] \in Events
      BY <3>1, <2>5 DEF Inv
    <3> QED BY <3>1, <3>2, <3>3, <2>5
  <2>9. \A i \in DOMAIN view'[w] : view'[w][i] = log'[i]
    <3>1. DOMAIN view'[w] = 0..n /\ DOMAIN view[w] = 0..(n - 1)
      BY <2>3, <2>4, <2>6 DEF Fills
    <3>2. \A i \in 0..n : i = n \/ i \in 0..(n - 1)
      BY <2>4
    <3>3. \A i \in 0..(n - 1) : view[w][i] = log[i]
      BY <3>1 DEF Inv
    <3> QED BY <3>1, <3>2, <3>3, <2>5, <2>6
  <2>10. ASSUME NEW u \in Writers, u # w
         PROVE  /\ Fills(view'[u], NextSeq(view'[u]))
                /\ NextSeq(view'[u]) <= NextSeq(log')
                /\ \A i \in DOMAIN view'[u] : view'[u][i] = log'[i]
    <3>1. view'[u] = view[u]
      BY <2>2, <2>10 DEF Inv
    <3>2. NextSeq(view[u]) <= n /\ Fills(view[u], NextSeq(view[u]))
      BY DEF Inv
    <3>3. \A i \in DOMAIN view[u] : i \in 0..(n - 1) /\ view[u][i] = log[i]
      BY <3>2, <2>4 DEF Inv, Fills
    <3> QED BY <3>1, <3>2, <3>3, <2>4, <2>5, <2>7 DEF Fills
  <2>11. view' = [u \in Writers |-> view'[u]]
    BY <2>2 DEF Inv
  <2>12. Fills(log', NextSeq(log'))
    BY <2>5, <2>7
  <2>13. ASSUME NEW u \in Writers
         PROVE  /\ Fills(view'[u], NextSeq(view'[u]))
                /\ NextSeq(view'[u]) <= NextSeq(log')
                /\ \A i \in DOMAIN view'[u] : view'[u][i] = log'[i]
    <3>1. CASE u = w
      BY <3>1, <2>4, <2>6, <2>7, <2>9
    <3> QED BY <3>1, <2>10
  <2> QED BY <2>8, <2>11, <2>12, <2>13 DEF Inv
<1>3. ASSUME NEW w \in Writers, NEW e \in Events, Confirm(w, e) PROVE Inv'
  <2> DEFINE m == NextSeq(view[w])
  <2>1. log' = log /\ view' = [view EXCEPT ![w] = With(view[w], m, e)]
        /\ m \in DOMAIN log /\ log[m] = e
    BY <1>3 DEF Confirm
  <2>2. Fills(view[w], m) /\ Fills(log, NextSeq(log))
    BY DEF Inv
  <2>3. m \in Nat /\ m + 1 <= NextSeq(log)
    BY <2>1, <2>2 DEF Fills
  <2>4. view'[w] = With(view[w], m, e)
    BY <2>1 DEF Inv
  <2>5. /\ Fills(view'[w], m + 1) /\ view'[w][m] = e
        /\ \A i \in 0..(m - 1) : view'[w][i] = view[w][i]
    BY <2>2, <2>4, WithAtEnd
  <2>6. NextSeq(view'[w]) = m + 1
    BY <2>3, <2>5, NextSeqOfDense DEF Fills
  <2>7. \A i \in DOMAIN view'[w] : view'[w][i] = log[i]
    BY <2>1, <2>2, <2>3, <2>5 DEF Inv, Fills
  <2>8. ASSUME NEW u \in Writers, u # w PROVE view'[u] = view[u]
    BY <2>1, <2>8 DEF Inv
  <2>9. view' = [u \in Writers |-> view'[u]]
    BY <2>1 DEF Inv
  <2> QED BY <2>1, <2>3, <2>5, <2>6, <2>7, <2>8, <2>9 DEF Inv
<1>4. ASSUME NEW w \in Writers, LoadStale(w) PROVE Inv'
  <2>1. PICK m \in NextSeq(view[w])..NextSeq(log) :
              log' = log /\ view' = [view EXCEPT ![w] = Before(log, m)]
    BY <1>4 DEF LoadStale
  <2>2. Fills(log, NextSeq(log)) /\ m \in 0..NextSeq(log)
    BY DEF Inv, Fills
  <2>3. view'[w] = Before(log, m) /\ \A u \in Writers : u # w => view'[u] = view[u]
    BY <2>1 DEF Inv
  <2>4. /\ Fills(view'[w], m) /\ NextSeq(view'[w]) = m
        /\ \A i \in 0..(m - 1) : view'[w][i] = log[i]
    BY <2>2, <2>3, BeforeOfDense
  <2>5. ASSUME NEW u \in Writers
        PROVE  /\ Fills(view'[u], NextSeq(view'[u]))
               /\ NextSeq(view'[u]) <= NextSeq(log)
               /\ \A i \in DOMAIN view'[u] : view'[u][i] = log[i]
    <3>1. CASE u = w
      BY <3>1, <2>2, <2>4 DEF Fills
    <3>2. CASE u # w
      BY <3>2, <2>3 DEF Inv
    <3> QED BY <3>1, <3>2
  <2>6. view' = [u \in Writers |-> view'[u]]
    BY <2>1 DEF Inv
  <2> QED BY <2>1, <2>5, <2>6 DEF Inv
<1>5. ASSUME UNCHANGED vars PROVE Inv'
  BY <1>5 DEF Inv, vars, Fills
<1> QED BY <1>1, <1>2, <1>3, <1>4, <1>5 DEF Next

THEOREM InvHolds == Spec => []Inv
BY InitInv, NextInv, PTL DEF Spec

-----------------------------------------------------------------------------
(* Consequences.                                                           *)

\* The log and every view hold events at seqs of the log, and nothing else.
THEOREM TypeCorrect == Spec => []TypeOK
<1>1. Inv => TypeOK
  <2> SUFFICES ASSUME Inv PROVE TypeOK
    OBVIOUS
  <2>1. log \in [DOMAIN log -> Events] /\ DOMAIN log \subseteq Nat
    BY DEF Inv, Fills
  <2>2. ASSUME NEW w \in Writers
        PROVE  view[w] \in UNION {[D -> Events] : D \in SUBSET DOMAIN log}
    <3>1. DOMAIN view[w] \subseteq DOMAIN log
      BY DEF Inv, Fills
    <3>2. view[w] \in [DOMAIN view[w] -> Events]
      BY <3>1 DEF Inv, Fills
    <3> QED BY <3>1, <3>2
  <2> QED BY <2>1, <2>2 DEF TypeOK, Inv
<1> QED BY <1>1, InvHolds, PTL

\* store.append takes any free seq; no writer ever leaves a gap.
THEOREM NoGaps == Spec => []LogDense
<1>1. Inv => LogDense
  BY DEF Inv, Fills, LogDense, Dense
<1> QED BY <1>1, InvHolds, PTL

\* A driver that discards its result and reloads has only to read on: what it
\* had folded so far is the log.
THEOREM ViewsArePrefixes == Spec => []ViewIsPrefix
<1>1. Inv => ViewIsPrefix
  <2> SUFFICES ASSUME Inv, NEW w \in Writers PROVE IsPrefixOf(view[w], log)
    BY DEF ViewIsPrefix
  <2>1. DOMAIN view[w] \subseteq DOMAIN log
    BY DEF Inv, Fills
  <2>2. \A i \in DOMAIN view[w] : view[w][i] = log[i]
    BY DEF Inv
  <2>3. \A i \in DOMAIN log : \A j \in DOMAIN view[w] : i < j => i \in DOMAIN view[w]
    BY DEF Inv, Fills
  <2> QED BY <2>1, <2>2, <2>3 DEF IsPrefixOf
<1> QED BY <1>1, InvHolds, PTL

\* No step rewrites, drops or reorders an event.
LEMMA StepGrows == Inv /\ [Next]_vars => IsPrefixOf(log, log')
<1> SUFFICES ASSUME Inv, [Next]_vars PROVE IsPrefixOf(log, log')
  OBVIOUS
<1>1. IsPrefixOf(log, log)
  BY DEF IsPrefixOf
<1>2. ASSUME NEW w \in Writers, NEW e \in Events, Claim(w, e)
      PROVE  IsPrefixOf(log, log')
  <2>1. NextSeq(view[w]) = NextSeq(log)
    BY <1>2, ClaimAtEnd DEF Claim
  <2>2. log' = With(log, NextSeq(log), e) /\ Fills(log, NextSeq(log))
    BY <1>2, <2>1 DEF Claim, Inv
  <2>3. /\ Fills(log', NextSeq(log) + 1)
        /\ \A i \in 0..(NextSeq(log) - 1) : log'[i] = log[i]
    BY <2>2, WithAtEnd
  <2> QED BY <2>2, <2>3 DEF IsPrefixOf, Fills
<1> QED BY <1>1, <1>2 DEF Next, Load, LoadStale, Confirm, vars

\* The store never rewrites, drops or reorders an event.
THEOREM LogOnlyGrows == Spec => AppendOnly
<1>1. Inv /\ [Next]_vars => [IsPrefixOf(log, log')]_vars
  BY StepGrows
<1> QED BY <1>1, InvHolds, PTL DEF Spec, AppendOnly

-----------------------------------------------------------------------------
(* The protocol implements the ledger.                                     *)

LEMMA EntriesOfDense ==
    ASSUME NEW v, NEW n, Fills(v, n), \A i \in DOMAIN v : v[i] \in Events
    PROVE  /\ NextSeq(v) = n
           /\ Entries(v) = [i \in 1..n |-> v[i - 1]]
           /\ Entries(v) \in Seq(Events)
           /\ Len(Entries(v)) = n
<1>1. n \in Nat /\ DOMAIN v = 0..(n - 1)
  BY DEF Fills
<1>2. NextSeq(v) = n
  BY <1>1, NextSeqOfDense
<1>3. Entries(v) = [i \in 1..n |-> v[i - 1]]
  BY <1>2 DEF Entries
<1>4. \A i \in 1..n : v[i - 1] \in Events
  BY <1>1
<1>5. Entries(v) \in [1..n -> Events]
  BY <1>3, <1>4
<1>6. Entries(v) \in Seq(Events)
  BY <1>1, <1>5, SeqDef
<1>7. Len(Entries(v)) = n
  BY <1>1, <1>3, <1>6
<1> QED BY <1>2, <1>3, <1>6, <1>7

\* Claiming the seq at the end of the log appends to its entries.
LEMMA EntriesOfWith ==
    ASSUME NEW v, NEW n, Fills(v, n), \A i \in DOMAIN v : v[i] \in Events,
           NEW e \in Events
    PROVE  Entries(With(v, n, e)) = Append(Entries(v), e)
<1> DEFINE w == With(v, n, e)
<1>1. n \in Nat /\ DOMAIN v = 0..(n - 1)
  BY DEF Fills
<1>2. Fills(w, n + 1) /\ w[n] = e /\ \A i \in 0..(n - 1) : w[i] = v[i]
  BY WithAtEnd
<1>3. NextSeq(w) = n + 1
  BY <1>1, <1>2, NextSeqOfDense DEF Fills
<1>4. Entries(w) = [i \in 1..(n + 1) |-> w[i - 1]]
  BY <1>3 DEF Entries
<1>5. Len(Entries(v)) = n /\ Entries(v) \in Seq(Events)
      /\ Entries(v) = [i \in 1..n |-> v[i - 1]]
  BY EntriesOfDense
<1>6. /\ Append(Entries(v), e) \in Seq(Events)
      /\ Len(Append(Entries(v), e)) = n + 1
      /\ \A i \in 1..n : Append(Entries(v), e)[i] = Entries(v)[i]
      /\ Append(Entries(v), e)[n + 1] = e
  BY <1>1, <1>5, AppendProperties
<1>7. Entries(w) \in Seq(Events) /\ Len(Entries(w)) = n + 1
  <2>1. \A i \in DOMAIN w : w[i] \in Events
    <3>1. DOMAIN w = 0..n /\ \A i \in 0..n : i = n \/ i \in 0..(n - 1)
      BY <1>1, <1>2 DEF Fills
    <3> QED BY <3>1, <1>1, <1>2
  <2> HIDE DEF w
  <2> QED BY <1>2, <2>1, EntriesOfDense
<1>8. ASSUME NEW i \in 1..(n + 1) PROVE Entries(w)[i] = Append(Entries(v), e)[i]
  <2>1. CASE i = n + 1
    BY <2>1, <1>1, <1>2, <1>4, <1>6
  <2>2. CASE i # n + 1
    <3>1. i \in 1..n /\ i - 1 \in 0..(n - 1)
      BY <2>2, <1>1
    <3> QED BY <3>1, <1>2, <1>4, <1>5, <1>6
  <2> QED BY <2>1, <2>2
<1> QED BY <1>6, <1>7, <1>8, SeqEqual

\* Whatever the writers do, an event enters the log only from a writer that
\* had read all of it: the refinement of Ledger.
THEOREM LedgerImplemented == Spec => LedgerKept
<1> DEFINE r == [w \in Writers |-> NextSeq(view[w])]
<1>1. Init => Promise!Init
  <2> SUFFICES ASSUME Init PROVE Promise!Init
    OBVIOUS
  <2>1. NextSeq(EmptyLog) = 0
    BY 0..(0 - 1) = {}, NextSeqOfDense DEF EmptyLog
  <2>2. Entries(log) = <<>>
    BY <2>1, 1..0 = {} DEF Init, Entries
  <2>3. r = [w \in Writers |-> 0]
    BY <2>1 DEF Init
  <2> QED BY <2>2, <2>3 DEF Promise!Init
<1>2. Inv /\ Inv' /\ [Next]_vars => [Promise!Next]_(Promise!vars)
  <2> SUFFICES ASSUME Inv, Inv', [Next]_vars PROVE [Promise!Next]_(Promise!vars)
    OBVIOUS
  <2> DEFINE n == NextSeq(log)
  <2>1. Fills(log, n) /\ n \in Nat /\ Len(Entries(log)) = n
    BY EntriesOfDense DEF Inv, Fills
  <2>2. \A w \in Writers : NextSeq(view[w]) \in Nat /\ NextSeq(view'[w]) \in Nat
    BY DEF Inv, Fills
  <2>3. ASSUME NEW w \in Writers, NEW m \in r[w]..n,
               UNCHANGED log, r' = [r EXCEPT ![w] = m]
        PROVE  Promise!Next
    <3>1. Entries(log)' = Entries(log)
      BY <2>3 DEF Entries
    <3>2. Promise!Advance(w)
      BY <2>1, <2>3, <3>1 DEF Promise!Advance
    <3> QED BY <3>2 DEF Promise!Next
  <2>4. ASSUME NEW w \in Writers, Load(w) PROVE Promise!Next
    <3>1. r' = [r EXCEPT ![w] = n]
      BY <2>4 DEF Load, Inv
    <3>2. n \in r[w]..n
      BY <2>1, <2>2 DEF Inv
    <3> QED BY <2>3, <2>4, <3>1, <3>2 DEF Load
  <2>5. ASSUME NEW w \in Writers, NEW e \in Events, Confirm(w, e) PROVE Promise!Next
    <3>1. view' = [view EXCEPT ![w] = With(view[w], NextSeq(view[w]), e)] /\ UNCHANGED log
      BY <2>5 DEF Confirm
    <3>2. view'[w] = With(view[w], NextSeq(view[w]), e)
      BY <3>1 DEF Inv
    <3>3. NextSeq(view'[w]) = NextSeq(view[w]) + 1
      BY <3>2, NextSeqOfWith DEF Inv
    <3>4. r' = [r EXCEPT ![w] = r[w] + 1]
      BY <3>1, <3>3 DEF Inv
    <3>5. r[w] + 1 \in r[w]..n
      <4>1. NextSeq(view'[w]) <= NextSeq(log)
        BY <3>1 DEF Inv
      <4> QED BY <4>1, <3>3, <2>1, <2>2
    <3> QED BY <2>3, <3>1, <3>4, <3>5
  <2>6. ASSUME NEW w \in Writers, NEW e \in Events, Claim(w, e) PROVE Promise!Next
    <3>1. NextSeq(view[w]) = n
      BY <2>6, ClaimAtEnd DEF Claim
    <3>2. /\ log' = With(log, n, e)
          /\ view' = [view EXCEPT ![w] = With(view[w], n, e)]
      BY <2>6, <3>1 DEF Claim
    <3>3. Entries(log)' = Append(Entries(log), e)
      <4>1. Entries(With(log, n, e)) = Append(Entries(log), e)
        BY <2>1, EntriesOfWith DEF Inv
      <4> QED BY <4>1, <3>2
    <3>4. view'[w] = With(view[w], n, e)
      BY <3>2 DEF Inv
    <3>5. NextSeq(view'[w]) = n + 1
      BY <3>1, <3>4, NextSeqOfWith DEF Inv
    <3>6. r' = [r EXCEPT ![w] = n + 1]
      BY <3>2, <3>5 DEF Inv
    <3>7. Promise!Publish(w)
      BY <2>1, <3>1, <3>3, <3>6 DEF Promise!Publish
    <3> QED BY <3>7 DEF Promise!Next
  <2>7. ASSUME NEW w \in Writers, LoadStale(w) PROVE Promise!Next
    <3>1. PICK m \in NextSeq(view[w])..n :
                log' = log /\ view' = [view EXCEPT ![w] = Before(log, m)]
      BY <2>7 DEF LoadStale
    <3>2. view'[w] = Before(log, m) /\ m \in 0..n
      BY <3>1, <2>1, <2>2 DEF Inv
    <3>3. NextSeq(view'[w]) = m
      BY <3>2, <2>1, BeforeOfDense
    <3>4. r' = [r EXCEPT ![w] = m]
      BY <3>1, <3>3 DEF Inv
    <3> QED BY <2>3, <3>1, <3>4
  <2>8. ASSUME UNCHANGED vars PROVE UNCHANGED Promise!vars
    BY <2>8 DEF vars, Promise!vars, Entries
  <2> QED BY <2>4, <2>5, <2>6, <2>7, <2>8 DEF Next
<1> QED BY <1>1, <1>2, InvHolds, PTL DEF Spec, LedgerKept, Promise!Spec
=============================================================================
