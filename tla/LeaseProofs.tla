----------------------------- MODULE LeaseProofs -----------------------------
(***************************************************************************)
(* The lease is exclusive in every deployment that keeps an SQLite file to *)
(* one process, for any number of invocations.                             *)
(***************************************************************************)
EXTENDS Lease, TLAPS

\* A standing lease is the one in the row.
RowBacks ==
    \A o \in Owners : Valid(o) => row.owner = o /\ row.expires = until[o]

\* Nobody has read the clock in the future.
MarksPast == \A o \in Owners : mark[o] <= now

\* Whoever left has nothing to lose.
LeftBehind == \A o \in left : until[o] = 0

\* What an owner read before replacing the row still holds, because it is the
\* only one that can replace it.
Reading ==
    /\ \A o \in Owners : pc[o] = "asking" => deployed.backend = "postgres"
    /\ \A o \in Owners :
          pc[o] = "replacing" => deployed.backend = "sqlite" /\ Free(o, mark[o])
    /\ \A o, p \in Owners : pc[o] = "replacing" /\ pc[p] = "replacing" => o = p

Inv == TypeOK /\ RowBacks /\ MarksPast /\ LeftBehind /\ Reading

-----------------------------------------------------------------------------
LEMMA InitInv == Init => Inv
  BY LeaseAssumption
  DEF Init, Inv, TypeOK, RowBacks, MarksPast, LeftBehind, Reading, Valid, NoRow

\* An owner that may have the row is the only one that may still be driving.
LEMMA FreeMeansAlone ==
    ASSUME Inv, NEW o \in Owners, NEW t \in Nat, t <= now, Free(o, t),
           NEW p \in Owners, Valid(p)
    PROVE  p = o
<1> SUFFICES ASSUME p # o PROVE FALSE
  OBVIOUS
<1>1. row.owner = p /\ row.expires = until[p] /\ until[p] > now
  BY DEF Inv, RowBacks, Valid
<1>2. row.expires <= t
  BY <1>1, LeaseAssumption DEF Free
<1> QED
  BY <1>1, <1>2 DEF Inv, TypeOK

\* Writing the row for an owner that may have it keeps every standing lease.
LEMMA FillKeepsRow ==
    ASSUME Inv, NEW o \in Owners, NEW t \in Nat, t <= now, Free(o, t), Grant(o, t),
           now' = now
    PROVE  RowBacks'
<1>1. \A p \in Owners : Valid(p) => p = o
  BY FreeMeansAlone
<1>2. row' = [owner |-> o, expires |-> t + TTL]
  BY DEF Grant, Fill
<1>3. CASE o \in left
  <2>1. until' = until /\ until[o] = 0
    BY <1>3 DEF Grant, Inv, LeftBehind
  <2> QED
    BY <1>1, <2>1 DEF RowBacks, Valid, Inv, TypeOK
<1>4. CASE o \notin left
  <2>1. until' = [until EXCEPT ![o] = t + TTL]
    BY <1>4 DEF Grant
  <2>2. \A p \in Owners : p # o => until'[p] = until[p]
    BY <2>1 DEF Inv, TypeOK
  <2>3. until'[o] = t + TTL
    BY <2>1 DEF Inv, TypeOK
  <2> QED
    BY <1>1, <1>2, <2>2, <2>3 DEF RowBacks, Valid
<1> QED
  BY <1>3, <1>4

LEMMA GrantKeepsType ==
    ASSUME Inv, NEW o \in Owners, NEW t \in Nat, Grant(o, t), UNCHANGED <<deployed, now, left, unwinding>>,
           mark' \in [Owners -> Nat]
    PROVE  TypeOK' /\ LeftBehind'
<1>1. t + TTL \in Nat
  BY LeaseAssumption
<1> QED
  BY <1>1 DEF Inv, TypeOK, LeftBehind, Grant, Fill, Goto

LEMMA UpsertKeeps ==
    ASSUME Inv, NEW o \in Owners, NEW t \in Nat, t <= now, Upsert(o, t),
           pc[o] \in {"new", "in", "asking"}, deployed.backend # "sqlite",
           UNCHANGED <<deployed, now, left, unwinding, mark>>
    PROVE  Inv'
<1>1. MarksPast'
  BY DEF Inv, MarksPast
<1>2. \A p \in Owners : p # o => pc'[p] = pc[p]
  BY DEF Upsert, Grant, Refuse, Goto, Inv, TypeOK
<1>3. pc'[o] \in {"in", "gone"}
  BY DEF Upsert, Grant, Refuse, Goto, Inv, TypeOK
<1>4. Reading'
  BY <1>2, <1>3 DEF Inv, Reading
<1>5. CASE Free(o, t)
  BY <1>1, <1>4, <1>5, FillKeepsRow, GrantKeepsType DEF Inv, Upsert, TypeOK
<1>6. CASE ~Free(o, t)
  <2>1. TypeOK' /\ LeftBehind'
    BY <1>6 DEF Upsert, Refuse, Goto, Inv, TypeOK, LeftBehind
  <2>2. RowBacks'
    BY <1>6 DEF Upsert, Refuse, Inv, TypeOK, RowBacks, Valid
  <2> QED
    BY <1>1, <1>4, <2>1, <2>2 DEF Inv
<1> QED
  BY <1>5, <1>6

\* Each step keeps the invariant.
LEMMA NextInv ==
    ASSUME OneProcessPerFile, Inv, [Next]_vars
    PROVE  Inv'
<1>1. ASSUME NEW o \in Owners, AcquireInMemory(o) PROVE Inv'
  BY <1>1, UpsertKeeps DEF AcquireInMemory, MayAsk, Inv, TypeOK
<1>2. ASSUME NEW o \in Owners, Ask(o) PROVE Inv'
  <2>1. TypeOK'
    BY <1>2 DEF Ask, MayAsk, Goto, Inv, TypeOK
  <2>2. RowBacks' /\ MarksPast' /\ LeftBehind'
    BY <1>2 DEF Ask, Inv, TypeOK, RowBacks, Valid, MarksPast, LeftBehind
  <2>3. Reading'
    BY <1>2 DEF Ask, Goto, Inv, TypeOK, Reading, Free
  <2> QED
    BY <2>1, <2>2, <2>3 DEF Inv
<1>3. ASSUME NEW o \in Owners, Answer(o) PROVE Inv'
  <2>1. mark[o] \in Nat /\ mark[o] <= now /\ deployed.backend = "postgres"
    BY <1>3 DEF Answer, Inv, TypeOK, MarksPast, Reading
  <2> QED
    BY <1>3, <2>1, UpsertKeeps DEF Answer
<1>4. ASSUME NEW o \in Owners, Select(o) PROVE Inv'
  <2>1. CASE Free(o, now)
    <3>1. \A p \in Owners : p \in Colleagues(o)
      BY <1>4 DEF Colleagues, OneProcessPerFile, Select, Inv, TypeOK
    <3>2. \A p \in Owners : pc[p] # "replacing"
      BY <1>4, <3>1 DEF Select, Locked
    <3>3. TypeOK'
      BY <1>4, <2>1 DEF Select, MayAsk, Goto, Inv, TypeOK
    <3>4. RowBacks' /\ MarksPast' /\ LeftBehind'
      BY <1>4, <2>1 DEF Select, Inv, TypeOK, RowBacks, Valid, MarksPast, LeftBehind
    <3>5. Reading'
      BY <1>4, <2>1, <3>2 DEF Select, Goto, Inv, TypeOK, Reading, Free
    <3> QED
      BY <3>3, <3>4, <3>5 DEF Inv
  <2>2. CASE ~Free(o, now)
    <3>1. TypeOK'
      BY <1>4, <2>2 DEF Select, Refuse, MayAsk, Goto, Inv, TypeOK
    <3>2. RowBacks' /\ MarksPast' /\ LeftBehind'
      BY <1>4, <2>2 DEF Select, Refuse, Inv, TypeOK, RowBacks, Valid, MarksPast, LeftBehind
    <3>3. Reading'
      BY <1>4, <2>2 DEF Select, Refuse, Goto, Inv, TypeOK, Reading, Free
    <3> QED
      BY <3>1, <3>2, <3>3 DEF Inv
  <2> QED
    BY <2>1, <2>2
<1>5. ASSUME NEW o \in Owners, Replace(o) PROVE Inv'
  <2>1. mark[o] \in Nat /\ mark[o] <= now /\ Free(o, mark[o])
    BY <1>5 DEF Replace, Inv, TypeOK, MarksPast, Reading
  <2>2. RowBacks'
    BY <1>5, <2>1, FillKeepsRow DEF Replace
  <2>3. TypeOK' /\ LeftBehind'
    BY <1>5, <2>1, GrantKeepsType DEF Replace, Inv, TypeOK
  <2>4. MarksPast'
    BY <1>5 DEF Replace, Inv, MarksPast
  <2>5. \A p \in Owners : pc'[p] # "replacing"
    BY <1>5 DEF Replace, Grant, Goto, Inv, TypeOK, Reading
  <2>6. \A p \in Owners : pc'[p] # "asking"
    BY <1>5 DEF Replace, Grant, Goto, Inv, TypeOK, Reading
  <2> QED
    BY <2>2, <2>3, <2>4, <2>5, <2>6 DEF Inv, Reading
<1>6. ASSUME NEW o \in Owners, Abandon(o) PROVE Inv'
  <2>1. TypeOK'
    BY <1>6 DEF Abandon, Inv, TypeOK
  <2>2. RowBacks' /\ MarksPast' /\ LeftBehind'
    BY <1>6 DEF Abandon, Inv, TypeOK, RowBacks, Valid, MarksPast, LeftBehind
  <2>3. Reading'
    BY <1>6 DEF Abandon, Inv, Reading, Free
  <2> QED
    BY <2>1, <2>2, <2>3 DEF Inv
<1>7. ASSUME NEW o \in Owners, Release(o) PROVE Inv'
  <2>1. TypeOK'
    BY <1>7 DEF Release, NoRow, Goto, Inv, TypeOK
  <2>2. RowBacks' /\ MarksPast' /\ LeftBehind'
    BY <1>7 DEF Release, NoRow, Inv, TypeOK, RowBacks, Valid, MarksPast, LeftBehind
  <2>3. Reading'
    BY <1>7 DEF Release, NoRow, Goto, Inv, TypeOK, Reading, Free
  <2> QED
    BY <2>1, <2>2, <2>3 DEF Inv
<1>8. ASSUME NEW o \in Owners, Crash(o) PROVE Inv'
  <2>1. TypeOK'
    BY <1>8 DEF Crash, Colleagues, Inv, TypeOK
  <2>2. RowBacks' /\ MarksPast' /\ LeftBehind'
    BY <1>8 DEF Crash, Colleagues, Inv, TypeOK, RowBacks, Valid, MarksPast, LeftBehind
  <2>3. Reading'
    BY <1>8 DEF Crash, Colleagues, Inv, TypeOK, Reading, Free
  <2> QED
    BY <2>1, <2>2, <2>3 DEF Inv
<1>9. CASE Tick
  BY <1>9 DEF Tick, Inv, TypeOK, RowBacks, Valid, MarksPast, LeftBehind, Reading, Free
<1>10. CASE UNCHANGED vars
  BY <1>10 DEF vars, Inv, TypeOK, RowBacks, Valid, MarksPast, LeftBehind, Reading, Free
<1>11. ASSUME NEW o \in Owners, Unwind(o) PROVE Inv'
  <2>1. until[o] = 0
    BY <1>11 DEF Unwind, Inv, TypeOK, LeftBehind
  <2>2. TypeOK'
    BY <1>11 DEF Unwind, NoRow, Inv, TypeOK
  <2>3. RowBacks' /\ MarksPast' /\ LeftBehind'
    BY <1>11, <2>1 DEF Unwind, Inv, TypeOK, RowBacks, Valid, MarksPast, LeftBehind
  <2>4. Reading'
    BY <1>11 DEF Unwind, NoRow, Inv, Reading, Free
  <2> QED
    BY <2>2, <2>3, <2>4 DEF Inv
<1> QED
  BY <1>1, <1>2, <1>3, <1>4, <1>5, <1>6, <1>7, <1>8, <1>9, <1>10, <1>11 DEF Next

\* Every reachable state satisfies the strengthened invariant.
LEMMA InvHolds == ASSUME OneProcessPerFile PROVE Spec => []Inv
  BY InitInv, NextInv, PTL DEF Spec

\* The lease's variables keep their types in every deployment that keeps an
\* SQLite file to one process.
THEOREM TypeCorrect == ASSUME OneProcessPerFile PROVE Spec => []TypeOK
<1>1. Inv => TypeOK
  BY DEF Inv
<1> QED
  BY <1>1, InvHolds, PTL

LEMMA InvExclusive == Inv => OneValidLease
  BY DEF Inv, RowBacks, OneValidLease

\* No two drivers are within a lease they were granted: acquire_lease and
\* release_lease of the three stores, one process per SQLite file.
THEOREM Exclusive == ASSUME OneProcessPerFile PROVE Spec => []OneValidLease
  BY InvExclusive, InvHolds, PTL

-----------------------------------------------------------------------------
Holders == {o \in Owners : Valid(o)}

\* A new holder enters only where nobody holds the run.
LEMMA Newcomer ==
    ASSUME Inv, [Next]_vars, NEW o \in Owners, ~Valid(o), Valid(o)'
    PROVE  Holders = {}
<1> SUFFICES ASSUME NEW p \in Owners, Valid(p) PROVE FALSE
  BY DEF Holders
<1>1. ASSUME NEW q \in Owners, NEW t \in Nat, t <= now, Upsert(q, t), now' = now
      PROVE  FALSE
  <2>1. CASE Free(q, t)
    <3>1. \A x \in Owners : x # q => until'[x] = until[x]
      BY <1>1, <2>1 DEF Upsert, Grant, Inv, TypeOK
    <3>2. o = q
      BY <1>1, <3>1 DEF Valid
    <3> QED
      BY <1>1, <2>1, <3>2, FreeMeansAlone
  <2>2. CASE ~Free(q, t)
    BY <1>1, <2>2 DEF Upsert, Refuse, Valid, Inv, TypeOK
  <2> QED
    BY <2>1, <2>2
<1>2. ASSUME NEW q \in Owners, AcquireInMemory(q) PROVE FALSE
  BY <1>1, <1>2 DEF AcquireInMemory, Inv, TypeOK
<1>3. ASSUME NEW q \in Owners, Ask(q) PROVE FALSE
  BY <1>3 DEF Ask, Valid
<1>4. ASSUME NEW q \in Owners, Answer(q) PROVE FALSE
  BY <1>1, <1>4 DEF Answer, Inv, TypeOK, MarksPast
<1>5. ASSUME NEW q \in Owners, Select(q) PROVE FALSE
  BY <1>5 DEF Select, Refuse, Valid, Inv, TypeOK
<1>6. ASSUME NEW q \in Owners, Replace(q) PROVE FALSE
  <2>1. mark[q] \in Nat /\ mark[q] <= now /\ Free(q, mark[q])
    BY <1>6 DEF Replace, Inv, TypeOK, MarksPast, Reading
  <2> QED
    BY <1>1, <1>6, <2>1 DEF Replace, Upsert
<1>7. ASSUME NEW q \in Owners, Abandon(q) PROVE FALSE
  BY <1>7 DEF Abandon, Valid, Inv, TypeOK
<1>8. ASSUME NEW q \in Owners, Release(q) PROVE FALSE
  BY <1>8 DEF Release, Valid, Inv, TypeOK
<1>9. ASSUME NEW q \in Owners, Crash(q) PROVE FALSE
  BY <1>9 DEF Crash, Valid, Inv, TypeOK
<1>10. CASE Tick
  BY <1>10 DEF Tick, Valid, Inv, TypeOK
<1>11. CASE UNCHANGED vars
  BY <1>11 DEF vars, Valid
<1>12. ASSUME NEW q \in Owners, Unwind(q) PROVE FALSE
  BY <1>12 DEF Unwind, Valid
<1> QED
  BY <1>2, <1>3, <1>4, <1>5, <1>6, <1>7, <1>8, <1>9, <1>10, <1>11, <1>12 DEF Next

\* So a step enters, ends or leaves the holders as they are.
LEMMA StepContract ==
    ASSUME Inv, Inv', [Next]_vars
    PROVE  [Contract!Next]_Holders
<1>1. \A p, q \in Holders : p = q
  BY InvExclusive DEF OneValidLease, Holders
<1>2. \A p, q \in Holders' : p = q
  BY InvExclusive DEF OneValidLease, Holders, Inv, RowBacks
<1>3. Holders \subseteq Owners /\ Holders' \subseteq Owners
  BY DEF Holders
<1>4. CASE Holders' \subseteq Holders
  <2>1. CASE Holders' # Holders
    <3>1. PICK q \in Holders : q \notin Holders'
      BY <1>4, <2>1
    <3>2. Holders' = Holders \ {q}
      BY <1>1, <1>4, <3>1
    <3> QED
      BY <1>3, <3>1, <3>2 DEF Contract!Next, Contract!End, Holders
  <2> QED
    BY <2>1
<1>5. CASE ~(Holders' \subseteq Holders)
  <2>1. PICK o \in Holders' : o \notin Holders
    BY <1>5
  <2>2. o \in Owners /\ ~Valid(o) /\ Valid(o)'
    BY <2>1 DEF Holders
  <2>3. Holders = {}
    BY <2>2, Newcomer
  <2>4. Holders' = {o}
    BY <1>2, <2>1
  <2> QED
    BY <2>2, <2>3, <2>4 DEF Contract!Next, Contract!Enter, Holders
<1> QED
  BY <1>4, <1>5

\* The stores implement the contract: a run changes hands only when its last
\* holder released it, died or ran out of time.
THEOREM ContractImplemented == ASSUME OneProcessPerFile PROVE Spec => ContractKept
<1>1. Init => Contract!Init
  BY DEF Init, Contract!Init, Valid
<1>2. Inv /\ Inv' /\ [Next]_vars => [Contract!Next]_Holders
  BY StepContract
<1> QED
  BY <1>1, <1>2, InvHolds, PTL DEF Spec, ContractKept, Contract!Spec, Holders
=============================================================================
