------------------------- MODULE EngineSafetyProofs -------------------------
(***************************************************************************)
(* What a run does to the world: which calls take effect, how often, under *)
(* which key, and with what a driver returns.                              *)
(*                                                                         *)
(* Two facts carry it.  A history is legal (Poised), so what the fold says *)
(* of a call only moves forward along it: a call asked for is pending,     *)
(* then Gone, never pending again.  And where leases outlive the steps     *)
(* taken under them, the lease names the one driver at work (Alone), so    *)
(* nobody but a human appends between two of its loads (Fresh): what it    *)
(* finds pending is pending in the store.                                  *)
(***************************************************************************)
EXTENDS EngineProofs

-----------------------------------------------------------------------------
(* Pending calls along a legal history.                                    *)

\* A batch is dealt with in order: while a call is pending there is no new
\* decision, and the only call an event can answer is the first one.
LEMMA AddsPending ==
    ASSUME DistinctIds, NEW v, EventList(v), NEW e, NEW w, Adds(v, e, w), Rightful(v, e),
           Pending(v) # {}
    PROVE  /\ e.type # "model_decision"
           /\ CurrentCalls(w) = CurrentCalls(v)
           /\ e.type = "tool_result" =>
                 e.call = NextCall(v).id /\ Pending(w) = Pending(v) \ {First(Pending(v))}
           /\ e.type # "tool_result" => Pending(w) = Pending(v)
<1> DEFINE f == First(Pending(v))
<1>1. e.type # "model_decision"
  <2>1. Step(v) # "model"
    BY DEF Step, NextStep
  <2> QED BY <2>1 DEF Rightful, Legal
<1>2. CASE e.type # "tool_result"
  BY <1>1, <1>2, AddsAside
<1>3. CASE e.type = "tool_result"
  <2>1. e.call = CurrentCalls(v)[f].id
    BY <1>3 DEF Rightful, NextCall
  <2>2. CurrentCalls(w) = CurrentCalls(v)
        /\ Pending(w) = {i \in Pending(v) : CurrentCalls(v)[i].id # e.call}
    BY <1>3, AddsResult
  <2>3. f \in Pending(v)
    BY PendingType
  <2>4. \A i \in Pending(v) : CurrentCalls(v)[i].id = CurrentCalls(v)[f].id => i = f
    BY <2>3, CallsDistinct DEF Pending
  <2> HIDE DEF f
  <2>5. Pending(w) = Pending(v) \ {f}
    BY <2>1, <2>2, <2>4
  <2> QED BY <1>1, <1>3, <2>1, <2>2, <2>5 DEF f, NextCall
<1> QED BY <1>2, <1>3

\* Each event moves a pending call one place forward at most, and leaves it
\* pending unless it is the first.
LEMMA AddsPlace ==
    ASSUME DistinctIds, NEW v, EventList(v), NEW e, NEW w, Adds(v, e, w), Rightful(v, e),
           NEW i \in Pending(v), i # First(Pending(v)) \/ e.type # "tool_result"
    PROVE  /\ i \in Pending(w)
           /\ Place(Pending(v), i) \in Nat /\ Place(Pending(w), i) \in Nat
           /\ e.type = "tool_result" => Place(Pending(w), i) + 1 = Place(Pending(v), i)
           /\ e.type # "tool_result" => Place(Pending(w), i) = Place(Pending(v), i)
<1> DEFINE B == Pending(v)
           C == Pending(w)
           f == First(B)
<1>1. B \subseteq Nat /\ IsFiniteSet(B) /\ i \in Nat
  BY PendingType
<1>2. Place(B, i) \in Nat
  <2> HIDE DEF B
  <2> QED BY <1>1, PlaceType
<1>3. CASE e.type # "tool_result"
  <2>1. C = B
    BY <1>3, AddsPending
  <2> QED BY <1>2, <1>3, <2>1
<1>4. CASE e.type = "tool_result"
  <2>1. C = B \ {f} /\ i \in C
    BY <1>4, AddsPending
  <2>2. IsFiniteSet(C) /\ C \subseteq Nat
    <3> HIDE DEF B, C, f
    <3> QED BY <1>1, <2>1, FS_Subset
  <2>3. Place(C, i) \in Nat
    <3> HIDE DEF C
    <3> QED BY <1>1, <2>2, PlaceType
  <2>4. Place(B \ {f}, i) + 1 = Place(B, i)
    <3> HIDE DEF B, C
    <3> QED BY <1>1, <2>1, PlaceAfterFirst
  <2> QED BY <1>2, <1>4, <2>1, <2>3, <2>4
<1> QED BY <1>3, <1>4

\* A call is still pending when its turn in the batch comes, whatever was
\* recorded in between.
LEMMA StillPending ==
    ASSUME DistinctIds, NEW l, Gapless(l), History(l),
           NEW n \in 0..NextSeq(l), NEW i \in Pending(Before(l, n)),
           NEW m \in 0..NextSeq(l), n <= m, m <= n + Place(Pending(Before(l, n)), i)
    PROVE  /\ i \in Pending(Before(l, m))
           /\ CurrentCalls(Before(l, m)) = CurrentCalls(Before(l, n))
<1> DEFINE P(x) == Pending(Before(l, x))
           s == n + Place(P(n), i)
           S == {x \in 0..m : /\ i \in P(x)
                              /\ CurrentCalls(Before(l, x)) = CurrentCalls(Before(l, n))
                              /\ Place(P(x), i) \in Nat
                              /\ s <= x + Place(P(x), i)}
<1>1. NextSeq(l) \in Nat /\ DOMAIN l = 0..(NextSeq(l) - 1) /\ n \in Nat /\ m \in Nat
      /\ m <= NextSeq(l)
  BY DEF Gapless, EventList
<1>2. Place(P(n), i) \in Nat
  <2>1. EventList(Before(l, n))
    BY BeforeIsList
  <2>2. P(n) \subseteq Nat /\ IsFiniteSet(P(n)) /\ i \in Nat
    BY <2>1, PendingType
  <2> HIDE DEF P
  <2> QED BY <2>2, PlaceType
<1>3. n \in S
  <2>1. n \in 0..m /\ s <= n + Place(P(n), i)
    <3> HIDE DEF P
    <3> QED BY <1>1, <1>2
  <2> HIDE DEF s
  <2> QED BY <1>2, <2>1
<1>4. ASSUME NEW x \in Nat, n <= x, x < m, x \in S PROVE x + 1 \in S
  <2> DEFINE v == Before(l, x)
             w == Before(l, x + 1)
             e == l[x]
  <2>1. x \in DOMAIN l /\ x + 1 \in 0..m
    BY <1>1, <1>4
  <2>2. EventList(v) /\ Adds(v, e, w) /\ Rightful(v, e)
    BY <2>1, BeforeAdds, BeforeIsList DEF History
  <2>3. /\ i \in Pending(v) /\ CurrentCalls(v) = CurrentCalls(Before(l, n))
        /\ Place(Pending(v), i) \in Nat /\ s <= x + Place(Pending(v), i)
    BY <1>4
  <2>4. i # First(Pending(v))
    <3> SUFFICES ASSUME i = First(Pending(v)) PROVE FALSE
      OBVIOUS
    <3>1. Place(Pending(v), i) = 0
      <4>1. Pending(v) \subseteq Nat /\ IsFiniteSet(Pending(v)) /\ Pending(v) # {}
        BY <2>2, <2>3, PendingType
      <4> HIDE DEF v
      <4> QED BY <4>1, PlaceAfterFirst
    <3>2. s <= x
      <4> HIDE DEF s, v
      <4> QED BY <2>3, <3>1
    <3>3. m <= s
      OBVIOUS
    <3>4. s \in Nat
      <4> HIDE DEF P
      <4> QED BY <1>1, <1>2
    <3> HIDE DEF s
    <3> QED BY <1>1, <1>4, <3>2, <3>3, <3>4
  <2>5. /\ i \in Pending(w) /\ Place(Pending(w), i) \in Nat
        /\ \/ Place(Pending(w), i) + 1 = Place(Pending(v), i)
           \/ Place(Pending(w), i) = Place(Pending(v), i)
    BY <2>2, <2>3, <2>4, AddsPlace
  <2>6. CurrentCalls(w) = CurrentCalls(v)
    BY <2>2, <2>3, AddsPending
  <2>7. s <= (x + 1) + Place(Pending(w), i)
    <3>1. s \in Nat
      <4> HIDE DEF P
      <4> QED BY <1>1, <1>2
    <3> HIDE DEF s, v, w
    <3> QED BY <1>4, <2>3, <2>5, <3>1
  <2> HIDE DEF s
  <2> QED BY <2>1, <2>3, <2>5, <2>6, <2>7
<1>5. \A x \in Nat : n <= x /\ x <= m => x \in S
  <2> HIDE DEF S
  <2> QED BY <1>1, <1>3, <1>4, UpTo
<1> QED BY <1>1, <1>5

-----------------------------------------------------------------------------
(* Effects are licensed.                                                   *)

\* The log is left as it is, or grows by one rightful event.
LEMMA LogStep ==
    ASSUME DistinctIds, TypeInv, Synced, Poised, Next
    PROVE  \/ UNCHANGED log
           \/ \E e \in EngineEvents : Rightful(log, e) /\ Adds(log, e, log')
<1> SUFFICES ASSUME log' # log
             PROVE  \E e \in EngineEvents : Rightful(log, e) /\ Adds(log, e, log')
  OBVIOUS
<1>1. PICK w \in Writers : Rightly(w)
  BY StepRight DEF Kept
<1>2. PICK e \in EngineEvents : Rightful(view[w], e) /\ Stored(w, e)
  BY <1>1 DEF Rightly, Kept, Load, Conflict
<1>3. view[w] = log /\ Adds(log, e, log')
  BY <1>2, StoredAdds
<1> QED BY <1>2, <1>3

\* What came before a seq is not changed by what is appended.
LEMMA BeforeStays ==
    ASSUME NEW l, Gapless(l), NEW e, NEW k, Adds(l, e, k), NEW n \in 0..NextSeq(l)
    PROVE  n \in 0..NextSeq(k) /\ Before(k, n) = Before(l, n)
<1>1. NextSeq(k) = NextSeq(l) + 1 /\ NextSeq(l) \in Nat /\ n \in Nat /\ n <= NextSeq(l)
  BY AddsNext DEF Gapless, EventList
<1>2. n \in 0..NextSeq(k) /\ ~(NextSeq(l) < n)
  BY <1>1
<1>3. DOMAIN k = DOMAIN l \cup {NextSeq(l)}
  BY DEF Adds
<1>4. {j \in DOMAIN k : j < n} = {j \in DOMAIN l : j < n}
  BY <1>2, <1>3
<1>5. \A j \in DOMAIN l : k[j] = l[j]
  BY DEF Adds
<1> QED BY <1>2, <1>4, <1>5 DEF Before

\* A driver whose view is q may dispatch t.
Allowed(q, t) ==
    /\ Step(q) = "tool" /\ ~NeedsRecall(q) /\ ~Delivering(q)
    /\ \/ Parallel(q)
       \/ /\ Cleared(q)
          /\ NextCall(q).tool \in Irreversible => NextCall(q).id \in Started(q)
    /\ \E i \in Batch(q) : /\ t.call = CurrentCalls(q)[i].id
                           /\ t.seq = NextSeq(q) + Place(Batch(q), i)

\* t was dispatched from some beginning of the log.
Dispatched(l, t) == \E n \in 0..NextSeq(l) : Allowed(Before(l, n), t)

\* Whatever is in flight or has happened was dispatched.
Licensed ==
    /\ \A d \in Drivers : \A t \in running[d] : Dispatched(log, t)
    /\ \A x \in executed : Dispatched(log, x)

LEMMA DispatchedStays ==
    ASSUME NEW l, Gapless(l), NEW e, NEW k, Adds(l, e, k), NEW t, Dispatched(l, t)
    PROVE  Dispatched(k, t)
<1>1. PICK n \in 0..NextSeq(l) : Allowed(Before(l, n), t)
  BY DEF Dispatched
<1>2. n \in 0..NextSeq(k) /\ Before(k, n) = Before(l, n)
  BY BeforeStays
<1> QED BY <1>1, <1>2 DEF Dispatched

\* The tasks of a view, by their calls.
LEMMA TaskOfCall ==
    ASSUME NEW v, NEW t \in Tasks(v)
    PROVE  \E i \in Batch(v) : /\ t.call = CurrentCalls(v)[i].id
                               /\ t.seq = NextSeq(v) + Place(Batch(v), i)
<1> DEFINE n(i) == NextSeq(v) + Place(Batch(v), i)
<1>1. PICK i \in Batch(v) : t = [seq |-> n(i), call |-> CurrentCalls(v)[i].id]
  BY Zenon DEF Tasks, Place
<1>2. t.seq = n(i) /\ t.call = CurrentCalls(v)[i].id
  <2> HIDE DEF n
  <2> QED BY <1>1
<1> QED BY <1>2

LEMMA ExecuteAllowed ==
    ASSUME NEW d \in Drivers, Execute(d), NEW t \in Tasks(view[d])
    PROVE  Allowed(view[d], t)
BY TaskOfCall DEF Allowed, Execute, Deciding, IntentRecorded

\* Only a tool taking effect adds to what has happened.
LEMMA OnlyEffects ==
    ASSUME TypeInv, Next, ~UNCHANGED executed
    PROVE  \E d \in Drivers : Effect(d)
<1>1. ASSUME NEW h \in Humans, Human(h) PROVE FALSE
  BY <1>1 DEF Human, Review, Rule, Reconsider, Forsake, drivers
<1>2. ASSUME NEW d \in Drivers,
             \/ Invoke(d) \/ Enter(d) \/ Leave(d) \/ ModelRaises(d) \/ CancelShielded(d)
             \/ Renew(d) \/ Reload(d) \/ Recall(d) \/ AcceptText(d) \/ CorrectText(d)
             \/ Deliver(d) \/ FinishDelivery(d) \/ Veto(d) \/ Conclude(d) \/ AskModel(d)
             \/ Propose(d) \/ Refuse(d) \/ Await(d) \/ Pause(d) \/ Disown(d)
             \/ Intend(d) \/ Execute(d) \/ Complete(d) \/ Record(d)
      PROVE  FALSE
  BY <1>2
     DEF Invoke, Enter, Open, Begin, FollowUp, BlockTurn, Leave, ModelRaises, CancelShielded,
         Renew, Reload, Recall, AcceptText, CorrectText, Deliver, FinishDelivery, Veto,
         Conclude, AskModel, Propose, Refuse, Await, Pause, Disown, Intend, Execute, Complete,
         Record, work
<1>3. ASSUME NEW d \in Drivers, ToolRaises(d) \/ Cancel(d) \/ Crash(d) \/ StoreRaises(d) PROVE FALSE
  BY <1>3 DEF ToolRaises, Cancel, Crash, StoreRaises
<1>4. ~Lapse
  BY DEF Lapse
<1> QED BY <1>1, <1>2, <1>3, <1>4 DEF Next, Drive, Loop, Fault

LEMMA LicensedKept ==
    ASSUME DistinctIds, TypeInv, Synced, Poised, Licensed, Next
    PROVE  Licensed'
<1>1. Gapless(log) /\ log = [i \in DOMAIN log |-> log[i]]
  BY ViewsOrderly DEF Poised
<1>2. ASSUME NEW t, Dispatched(log, t) PROVE Dispatched(log', t)
  BY <1>1, <1>2, LogStep, DispatchedStays
<1>3. ASSUME NEW d \in Drivers, NEW t \in running'[d] PROVE Dispatched(log', t)
  <2>1. CASE t \in running[d]
    BY <1>2, <2>1 DEF Licensed
  <2>2. CASE t \notin running[d]
    <3>1. Execute(d)
      BY <2>2, OnlyDispatches
    <3>2. t \in Tasks(view[d])
      BY <2>2, <3>1 DEF Execute, TypeInv, TypeOK, WorkTyped
    <3>3. Allowed(view[d], t)
      BY <3>1, <3>2, ExecuteAllowed
    <3>4. NextSeq(view[d]) \in 0..NextSeq(log) /\ view[d] = Before(log, NextSeq(view[d]))
      BY DEF Synced, Writers
    <3>5. Dispatched(log, t)
      BY <3>3, <3>4 DEF Dispatched
    <3> QED BY <1>2, <3>5
  <2> QED BY <2>1, <2>2
<1>4. ASSUME NEW x \in executed' PROVE Dispatched(log', x)
  <2>1. CASE x \in executed
    BY <1>2, <2>1 DEF Licensed
  <2>2. CASE x \notin executed
    <3>1. PICK d \in Drivers : Effect(d)
      BY <2>2, OnlyEffects
    <3>2. PICK t \in running[d] : x = [driver |-> d, seq |-> t.seq, call |-> t.call]
      BY <2>2, <3>1 DEF Effect
    <3>3. x.seq = t.seq /\ x.call = t.call
      BY <3>2
    <3>4. Dispatched(log', t)
      BY <1>2 DEF Licensed
    <3>5. PICK n \in 0..NextSeq(log') : Allowed(Before(log', n), t)
      BY <3>4 DEF Dispatched
    <3>6. Allowed(Before(log', n), x)
      BY <3>3, <3>5 DEF Allowed
    <3> QED BY <3>5, <3>6 DEF Dispatched
  <2> QED BY <2>1, <2>2
<1> QED BY <1>3, <1>4 DEF Licensed, Dispatched, NextSeq, Before

LEMMA LicensedHolds ==
    ASSUME DistinctIds
    PROVE  Spec => []Licensed
<1>1. Init => Licensed
  BY DEF Init, Licensed
<1>2. TypeInv /\ Synced /\ Poised /\ Licensed /\ [Next]_vars => Licensed'
  <2>1. UNCHANGED vars /\ Licensed => Licensed'
    BY DEF vars, Licensed, Dispatched
  <2> QED BY <2>1, LicensedKept
<1>3. Spec => []Poised
  BY PoisedHolds
<1> QED BY <1>1, <1>2, <1>3, TypeInvHolds, SyncedHolds, PTL DEF Spec

\* What was dispatched is licensed by the log before its seq, when its seq
\* has come and ever after.
LEMMA DispatchedLicensed ==
    ASSUME DistinctIds, NEW l, Gapless(l), l = [i \in DOMAIN l |-> l[i]], History(l),
           NEW x, Dispatched(l, x)
    PROVE  LET p == Before(l, x.seq)
           IN  \E i \in Pending(p) :
                 /\ CurrentCalls(p)[i].id = x.call
                 /\ Mode[ToolAt(p, i)] # "shadow"
                 /\ Mode[ToolAt(p, i)] = "assisted" => ApprovalDecision(p, x.call) = "granted"
                 /\ ToolAt(p, i) \in Irreversible => x.call \in Started(p)
<1> DEFINE p == Before(l, x.seq)
<1>1. PICK n \in 0..NextSeq(l) : Allowed(Before(l, n), x)
  BY DEF Dispatched
<1> DEFINE q == Before(l, n)
           B == Batch(q)
<1>2. PICK i \in B : x.call = CurrentCalls(q)[i].id /\ x.seq = NextSeq(q) + Place(B, i)
  BY <1>1 DEF Allowed
<1>3. EventList(q) /\ NextSeq(q) = n /\ NextSeq(l) \in Nat /\ n \in Nat
  BY BeforeIsList DEF Gapless, EventList
<1>4. Step(q) = "tool" /\ Pending(q) # {}
  BY <1>1, StepTool DEF Allowed
<1>5. CASE Parallel(q)
  <2>1. B = Pending(q) /\ i \in Pending(q)
    BY <1>5 DEF Batch
  <2>2. Mode[ToolAt(q, i)] = "autonomous" /\ ToolAt(q, i) \notin Irreversible
    BY <1>5, <2>1 DEF Parallel, CanParallelize
  <2>3. Place(Pending(q), i) \in Nat /\ x.seq = n + Place(Pending(q), i)
    <3>1. Pending(q) \subseteq Nat /\ IsFiniteSet(Pending(q)) /\ i \in Nat
      BY <1>3, <2>1, PendingType
    <3> HIDE DEF q, B
    <3> QED BY <1>2, <1>3, <2>1, <3>1, PlaceType
  <2> DEFINE m == IF x.seq <= NextSeq(l) THEN x.seq ELSE NextSeq(l)
  <2>4. m \in 0..NextSeq(l) /\ n <= m /\ m <= n + Place(Pending(q), i)
    <3> HIDE DEF q
    <3> QED BY <1>1, <1>3, <2>3
  <2>5. p = Before(l, m)
    <3>1. CASE x.seq <= NextSeq(l)
      BY <3>1
    <3>2. CASE ~(x.seq <= NextSeq(l))
      <4>1. \A j \in DOMAIN l : j < x.seq
        <5>1. ASSUME NEW j \in DOMAIN l PROVE j < x.seq
          <6>1. j \in Nat /\ j < NextSeq(l)
            BY DEF Gapless, EventList
          <6>2. x.seq \in Nat
            <7> HIDE DEF q
            <7> QED BY <1>3, <2>3
          <6> QED BY <1>3, <3>2, <6>1, <6>2
        <5> QED BY <5>1
      <4>2. {j \in DOMAIN l : j < x.seq} = DOMAIN l
        BY <4>1
      <4>3. p = l
        BY <4>2 DEF Before
      <4>4. m = NextSeq(l)
        BY <3>2
      <4> QED BY <4>3, <4>4, BeforeAll
    <3> QED BY <3>1, <3>2
  <2>6. i \in Pending(p) /\ CurrentCalls(p) = CurrentCalls(q)
    <3>1. i \in Pending(Before(l, m)) /\ CurrentCalls(Before(l, m)) = CurrentCalls(q)
      <4> HIDE DEF m
      <4> QED BY <2>1, <2>4, StillPending
    <3> QED BY <2>5, <3>1
  <2> QED BY <1>2, <2>2, <2>6 DEF ToolAt
<1>6. CASE ~Parallel(q)
  <2>1. i = First(Pending(q)) /\ B = {First(Pending(q))} /\ i \in Pending(q)
    BY <1>3, <1>4, <1>6, PendingType DEF Batch
  <2>2. Place(B, i) = 0
    <3>1. {j \in {i} : j < i} = {}
      <4>1. i \in Nat
        BY <1>3, <2>1, PendingType
      <4> QED BY <4>1
    <3> QED BY <2>1, <3>1, FS_EmptySet DEF Place
  <2>3. x.seq = n
    <3> HIDE DEF q, B
    <3> QED BY <1>2, <1>3, <2>2
  <2>4. p = q
    BY <2>3
  <2>5. NextCall(q) = CurrentCalls(q)[i] /\ ToolAt(q, i) = NextCall(q).tool
        /\ x.call = NextCall(q).id
    BY <1>2, <2>1 DEF NextCall, ToolAt
  <2>6. /\ Cleared(q)
        /\ NextCall(q).tool \in Irreversible => NextCall(q).id \in Started(q)
    BY <1>1, <1>6 DEF Allowed
  <2> QED BY <2>1, <2>4, <2>5, <2>6 DEF Cleared, NextCall
<1> QED BY <1>5, <1>6

\* However stale the view a tool was dispatched from, and however late it takes
\* effect, the log before the seq it runs under licensed it: asked for and
\* unanswered, approved where approval is needed, intended where irreversible.
THEOREM LicensedEffects ==
    ASSUME DistinctIds
    PROVE  Spec => []EffectsAreLicensed
<1>1. TypeInv /\ Synced /\ Poised /\ Licensed => EffectsAreLicensed
  <2> SUFFICES ASSUME TypeInv, Synced, Poised, Licensed, NEW x \in executed
               PROVE  LET p == Before(log, x.seq)
                      IN  \E i \in Pending(p) :
                            /\ CurrentCalls(p)[i].id = x.call
                            /\ Mode[ToolAt(p, i)] # "shadow"
                            /\ Mode[ToolAt(p, i)] = "assisted"
                                 => ApprovalDecision(p, x.call) = "granted"
                            /\ ToolAt(p, i) \in Irreversible => x.call \in Started(p)
    BY DEF EffectsAreLicensed
  <2>1. Gapless(log) /\ log = [i \in DOMAIN log |-> log[i]] /\ History(log)
    BY ViewsOrderly DEF Poised
  <2>2. Dispatched(log, x)
    BY DEF Licensed
  <2> QED BY <2>1, <2>2, DispatchedLicensed
<1>2. (Spec => []Poised) /\ (Spec => []Licensed)
  BY PoisedHolds, LicensedHolds
<1> QED BY <1>1, <1>2, TypeInvHolds, SyncedHolds, PTL

-----------------------------------------------------------------------------
(* A call that was answered is never asked for again.                      *)

\* The call was in one of the model's replies so far.
AskedFor(v, id) == \E k \in DOMAIN Replies : k \in Nat /\ k < ModelCalls(v) /\ id \in IdsOf(k)

Named(v) == \A i \in DOMAIN CurrentCalls(v) : AskedFor(v, CurrentCalls(v)[i].id)

\* The call was asked for and has been dealt with.
Gone(v, id) == AskedFor(v, id) /\ id \notin PendingIds(v)

LEMMA AddsModelCalls ==
    ASSUME NEW v, EventList(v), NEW e, NEW w, Adds(v, e, w)
    PROVE  /\ ModelCalls(v) \in Nat
           /\ e.type = "model_decision" => ModelCalls(w) = ModelCalls(v) + 1
           /\ e.type # "model_decision" => ModelCalls(w) = ModelCalls(v)
<1> DEFINE S == At(v, {"model_decision"})
<1>1. IsFiniteSet(S)
  <2>1. S \in SUBSET Nat /\ \A i \in S : i <= NextSeq(v)
    BY DEF At, EventList
  <2> HIDE DEF S
  <2> QED BY <2>1, FS_BoundedSetOfNaturals DEF EventList
<1>2. Cardinality(S) \in Nat
  BY <1>1, FS_CardinalityType
<1>3. CASE e.type = "model_decision"
  <2>1. At(w, {"model_decision"}) = S \cup {NextSeq(v)} /\ NextSeq(v) \notin S
    BY <1>3, AddsAt
  <2>2. Cardinality(S \cup {NextSeq(v)}) = Cardinality(S) + 1
    <3> HIDE DEF S
    <3> QED BY <1>1, <2>1, FS_AddElement
  <2> QED BY <1>2, <1>3, <2>1, <2>2 DEF ModelCalls
<1>4. CASE e.type # "model_decision"
  <2>1. At(w, {"model_decision"}) = S
    BY <1>4, AddsAt
  <2> QED BY <1>2, <1>4, <2>1 DEF ModelCalls
<1> QED BY <1>3, <1>4

LEMMA AskedForKept ==
    ASSUME NEW v, EventList(v), NEW e, NEW w, Adds(v, e, w), NEW id, AskedFor(v, id)
    PROVE  AskedFor(w, id)
<1>1. PICK k \in DOMAIN Replies : k \in Nat /\ k < ModelCalls(v) /\ id \in IdsOf(k)
  BY DEF AskedFor
<1>2. ModelCalls(v) \in Nat /\ (ModelCalls(w) = ModelCalls(v) \/ ModelCalls(w) = ModelCalls(v) + 1)
  BY AddsModelCalls
<1>3. k < ModelCalls(w)
  BY <1>1, <1>2
<1> QED BY <1>1, <1>3 DEF AskedFor

\* A rightful decision is the reply to the call of the model that is due.
LEMMA RightfulDecision ==
    ASSUME NEW v, EventList(v), NEW e, Rightful(v, e), e.type = "model_decision"
    PROVE  /\ ModelCalls(v) \in DOMAIN Replies
           /\ \A i \in DOMAIN e.calls : e.calls[i].id \in IdsOf(ModelCalls(v))
<1>1. Step(v) = "model" /\ e.calls \in Replies[ModelCalls(v)]
  BY DEF Rightful, Legal
<1>2. ModelCalls(v) \in DOMAIN Replies
  BY <1>1, StepModel
<1> QED BY <1>1, <1>2 DEF IdsOf

LEMMA NamedKept ==
    ASSUME NEW v, EventList(v), NEW e, NEW w, Adds(v, e, w), Rightful(v, e), Named(v)
    PROVE  Named(w)
<1>1. CASE e.type = "model_decision"
  <2>1. CurrentCalls(w) = e.calls
    BY <1>1, AddsDecision
  <2>2. ModelCalls(v) \in Nat /\ ModelCalls(w) = ModelCalls(v) + 1
    BY <1>1, AddsModelCalls
  <2>3. ModelCalls(v) < ModelCalls(w)
    BY <2>2
  <2>4. ASSUME NEW i \in DOMAIN e.calls PROVE AskedFor(w, e.calls[i].id)
    BY <1>1, <2>2, <2>3, RightfulDecision DEF AskedFor
  <2> QED BY <2>1, <2>4 DEF Named
<1>2. CASE e.type # "model_decision"
  <2>1. CurrentCalls(w) = CurrentCalls(v)
    BY <1>2, AddsAside, AddsResult
  <2> QED BY <2>1, AskedForKept DEF Named
<1> QED BY <1>1, <1>2

LEMMA GoneKept ==
    ASSUME UniqueIds, NEW v, EventList(v), NEW e, NEW w, Adds(v, e, w), Rightful(v, e),
           NEW id, Gone(v, id)
    PROVE  Gone(w, id)
<1>1. AskedFor(w, id)
  BY AskedForKept DEF Gone
<1>2. id \notin PendingIds(w)
  <2>1. CASE e.type = "model_decision"
    <3>1. PendingIds(w) = {e.calls[i].id : i \in DOMAIN e.calls}
      BY <2>1, AddsDecision
    <3>2. PICK k \in DOMAIN Replies : k \in Nat /\ k < ModelCalls(v) /\ id \in IdsOf(k)
      BY DEF Gone, AskedFor
    <3>3. k # ModelCalls(v)
      BY <3>2
    <3>4. IdsOf(k) \cap IdsOf(ModelCalls(v)) = {}
      BY <2>1, <3>2, <3>3, RightfulDecision DEF UniqueIds
    <3> QED BY <2>1, <3>1, <3>2, <3>4, RightfulDecision
  <2>2. CASE e.type = "tool_result"
    BY <2>2, AddsResult DEF Gone
  <2>3. CASE e.type \notin {"model_decision", "tool_result"}
    BY <2>3, AddsAside DEF Gone
  <2> QED BY <2>1, <2>2, <2>3
<1> QED BY <1>1, <1>2 DEF Gone

\* The calls a beginning of the log is working on come from a reply.
LEMMA HistoryNamed ==
    ASSUME NEW l, Gapless(l), History(l)
    PROVE  \A n \in 0..NextSeq(l) : Named(Before(l, n))
<1> DEFINE m == NextSeq(l)
           S == {n \in 0..m : Named(Before(l, n))}
<1>1. m \in Nat /\ DOMAIN l = 0..(m - 1)
  BY DEF Gapless, EventList
<1>2. 0 \in S
  <2>1. 0 \in 0..m /\ 0..(0 - 1) = {}
    BY <1>1
  <2>2. DOMAIN Before(l, 0) = {}
    BY <2>1, BeforeIsList
  <2>3. CurrentCalls(Before(l, 0)) = <<>>
    BY <2>2 DEF CurrentCalls, LastDecision, At, Last
  <2> QED BY <2>1, <2>3 DEF Named
<1>3. ASSUME NEW n \in Nat, 0 <= n, n < m, n \in S PROVE n + 1 \in S
  <2>1. n \in DOMAIN l
    <3> HIDE DEF m
    <3> QED BY <1>1, <1>3
  <2>2. n + 1 \in 0..m /\ Adds(Before(l, n), l[n], Before(l, n + 1)) /\ n \in 0..m
    BY <2>1, BeforeAdds
  <2>3. EventList(Before(l, n)) /\ Rightful(Before(l, n), l[n]) /\ Named(Before(l, n))
    BY <1>3, <2>1, <2>2, BeforeIsList DEF History
  <2> QED BY <2>2, <2>3, NamedKept
<1>4. \A n \in Nat : 0 <= n /\ n <= m => n \in S
  <2> HIDE DEF S, m
  <2> QED BY <1>1, <1>2, <1>3, UpTo
<1> QED BY <1>4, <1>1

\* Once dealt with, always dealt with.
LEMMA GoneStays ==
    ASSUME UniqueIds, NEW l, Gapless(l), History(l), NEW n \in 0..NextSeq(l), NEW id,
           Gone(Before(l, n), id), NEW m \in 0..NextSeq(l), n <= m
    PROVE  Gone(Before(l, m), id)
<1> DEFINE S == {x \in 0..NextSeq(l) : Gone(Before(l, x), id)}
<1>1. n \in Nat /\ m \in Nat /\ m <= NextSeq(l) /\ NextSeq(l) \in Nat
      /\ DOMAIN l = 0..(NextSeq(l) - 1)
  BY DEF Gapless, EventList
<1>2. ASSUME NEW x \in Nat, n <= x, x < m, x \in S PROVE x + 1 \in S
  <2>1. x \in DOMAIN l
    BY <1>1, <1>2
  <2>2. x + 1 \in 0..NextSeq(l) /\ Adds(Before(l, x), l[x], Before(l, x + 1))
    BY <2>1, BeforeAdds
  <2>3. EventList(Before(l, x)) /\ Rightful(Before(l, x), l[x])
    BY <1>2, <2>1, BeforeIsList DEF History
  <2> QED BY <1>2, <2>2, <2>3, GoneKept
<1>3. \A x \in Nat : n <= x /\ x <= m => x \in S
  <2>1. n \in S
    OBVIOUS
  <2> HIDE DEF S
  <2> QED BY <1>1, <1>2, <2>1, UpTo
<1> QED BY <1>1, <1>3

\* An answered call is gone from then on.
LEMMA AnsweredGone ==
    ASSUME UniqueIds, NEW l, Gapless(l), History(l), NEW j \in DOMAIN l,
           l[j].type = "tool_result", NEW m \in 0..NextSeq(l), j < m
    PROVE  Gone(Before(l, m), l[j].call)
<1> DEFINE v == Before(l, j)
           w == Before(l, j + 1)
<1>1. j \in 0..NextSeq(l) /\ j + 1 \in 0..NextSeq(l) /\ Adds(v, l[j], w)
  BY BeforeAdds
<1>2. EventList(v) /\ Rightful(v, l[j]) /\ Named(v)
  BY <1>1, BeforeIsList, HistoryNamed DEF History
<1>3. l[j].call \in PendingIds(v)
  BY <1>2 DEF Rightful, Legal
<1>4. AskedFor(v, l[j].call)
  BY <1>2, <1>3 DEF Named, PendingIds, Pending
<1>5. l[j].call \notin PendingIds(w)
  BY <1>1, AddsResult
<1>6. Gone(w, l[j].call)
  BY <1>1, <1>2, <1>4, <1>5, AskedForKept DEF Gone
<1>7. j + 1 <= m
  BY <1>1
<1> QED BY <1>1, <1>6, <1>7, GoneStays

-----------------------------------------------------------------------------
(* The key of a call.                                                      *)

\* While calls are pending the turn is open and no message is its last event.
Tidy(v) == Pending(v) # {} => ~Finished(v) /\ ~EndsWith(v, "user_message")

\* No turn is closed while calls are pending, where nothing is delivered.
LEMMA NotClosed ==
    ASSUME ~HasSchema, NEW v, Pending(v) # {}, ~Finished(v), ~EndsWith(v, "user_message"),
           NEW e \in EngineEvents, Rightful(v, e)
    PROVE  e.type \notin {"user_message", "run_finished", "schema_feedback", "model_decision"}
<1>1. Step(v) = "tool"
  BY DEF Step, NextStep
<1>2. e.type # "run_finished"
  <2> SUFFICES ASSUME e.type = "run_finished" PROVE FALSE
    OBVIOUS
  <2>1. Closes(v, e.output) /\ e.output \in {"answer", "stopped", "blocked"}
    BY FinishOutputs DEF Rightful, Legal
  <2> QED BY <1>1, <2>1 DEF Closes, Vetoed, OverBudget, EndsWith
<1> QED BY <1>1, <1>2 DEF Rightful, Legal, TextFinish

LEMMA TidyKept ==
    ASSUME ~HasSchema, NEW v, EventList(v), NEW e \in EngineEvents, NEW w, Adds(v, e, w),
           Rightful(v, e), Tidy(v)
    PROVE  Tidy(w)
<1> SUFFICES ASSUME Pending(w) # {} PROVE ~Finished(w) /\ ~EndsWith(w, "user_message")
  BY DEF Tidy
<1>1. w[Last(DOMAIN w)] = e
  BY AddsNext DEF Adds
<1>2. CASE Pending(v) # {}
  <2>1. ~Finished(v)
    BY <1>2 DEF Tidy
  <2>2. e.type \notin {"user_message", "run_finished", "schema_feedback", "model_decision"}
    BY <1>2, NotClosed DEF Tidy
  <2> QED BY <1>1, <2>1, <2>2, AddsFinished DEF EndsWith
<1>3. CASE Pending(v) = {}
  <2>1. e.type = "model_decision"
    BY <1>3, AddsAside, AddsResult
  <2>2. e.calls # <<>>
    BY <2>1, AddsDecision
  <2>3. ~Finished(v)
    BY <2>1 DEF Rightful, Legal, Step, NextStep
  <2> QED BY <1>1, <2>1, <2>2, <2>3, AddsFinished DEF EndsWith
<1> QED BY <1>2, <1>3

LEMMA HistoryTidy ==
    ASSUME ~HasSchema, NEW l, Gapless(l), History(l)
    PROVE  \A n \in 0..NextSeq(l) : Tidy(Before(l, n))
<1> DEFINE m == NextSeq(l)
           S == {n \in 0..m : Tidy(Before(l, n))}
<1>1. m \in Nat /\ DOMAIN l = 0..(m - 1)
  BY DEF Gapless, EventList
<1>2. 0 \in S
  <2>1. 0 \in 0..m /\ 0..(0 - 1) = {}
    BY <1>1
  <2>2. DOMAIN Before(l, 0) = {}
    BY <2>1, BeforeIsList
  <2>3. CurrentCalls(Before(l, 0)) = <<>>
    BY <2>2 DEF CurrentCalls, LastDecision, At, Last
  <2>4. Pending(Before(l, 0)) = {}
    BY <2>3 DEF Pending
  <2> QED BY <2>1, <2>4 DEF Tidy
<1>3. ASSUME NEW n \in Nat, 0 <= n, n < m, n \in S PROVE n + 1 \in S
  <2>1. n \in DOMAIN l
    <3> HIDE DEF m
    <3> QED BY <1>1, <1>3
  <2>2. n + 1 \in 0..m /\ Adds(Before(l, n), l[n], Before(l, n + 1)) /\ n \in 0..m
    BY <2>1, BeforeAdds
  <2>3. /\ EventList(Before(l, n)) /\ Rightful(Before(l, n), l[n]) /\ Tidy(Before(l, n))
        /\ l[n] \in EngineEvents
    BY <1>3, <2>1, <2>2, BeforeIsList DEF History, Gapless, EventList
  <2> QED BY <2>2, <2>3, TidyKept
<1>4. \A n \in Nat : 0 <= n /\ n <= m => n \in S
  <2> HIDE DEF S, m
  <2> QED BY <1>1, <1>2, <1>3, UpTo
<1> QED BY <1>4, <1>1

\* Nothing but an answer can be recorded while v lasts: the pending calls need
\* neither approval nor an intent, or the first one has what it needs.
Quiet(v) ==
    \/ \A i \in Pending(v) : Mode[ToolAt(v, i)] = "autonomous" /\ ToolAt(v, i) \notin Irreversible
    \/ Cleared(v) /\ (NextCall(v).tool \in Irreversible => NextCall(v).id \in Started(v))

\* A call that may run beside its siblings.
Free(tool) ==
    /\ Mode[tool] = "autonomous" /\ tool \notin Irreversible
    /\ HasSchema => tool # FinalAnswer

\* Dispatched now, a pending call would run under seq s.
KeyAt(v, id, s) ==
    /\ Step(v) = "tool" /\ ~NeedsRecall(v) /\ ~Delivering(v) /\ Quiet(v)
    /\ \E i \in Pending(v) :
          /\ CurrentCalls(v)[i].id = id
          /\ s = NextSeq(v) + Place(Pending(v), i)
          /\ i = First(Pending(v)) \/ \A j \in Pending(v) : Free(ToolAt(v, j))

\* Nothing but an answer comes next, a failure or the end of the turn aside.
LEMMA OnlyAnswered ==
    ASSUME NEW v, EventList(v), Orderly(v), Step(v) = "tool",
           ~NeedsRecall(v), Quiet(v), NEW e \in EngineEvents, Rightful(v, e),
           e.type \notin {"run_failed", "run_finished"}
    PROVE  e.type = "tool_result"
<1>1. Pending(v) # {} /\ ~Finished(v) /\ First(Pending(v)) \in Pending(v)
  BY StepTool, PendingType
<1>2. e.type \notin {"user_message", "schema_feedback", "model_decision"}
  BY <1>1 DEF Rightful, Legal, TextFinish
<1>3. \/ Mode[NextCall(v).tool] = "autonomous"
      \/ ApprovalDecision(v, NextCall(v).id) # "pending"
  BY <1>1 DEF Quiet, Cleared, NextCall, ToolAt
<1>4. OpenRequests(v) = {}
  BY <1>3, Unasked
<1>5. e.type \notin {"approval_granted", "approval_denied"}
  BY <1>4 DEF Rightful, Legal, PendingApprovals
<1>6. e.type # "approval_requested"
  BY <1>3 DEF Rightful
<1>7. e.type # "step_started"
  <2> SUFFICES ASSUME e.type = "step_started" PROVE FALSE
    OBVIOUS
  <2>1. NextCall(v).tool \in Irreversible /\ NextCall(v).id \notin Started(v)
    BY DEF Rightful, Legal
  <2> QED BY <1>1, <2>1 DEF Quiet, NextCall, ToolAt
<1>8. e.type \notin {"memory_recalled", "run_started"}
  <2>1. DOMAIN v # {}
    <3>1. CASE DOMAIN v = {}
      <4>1. CurrentCalls(v) = <<>>
        BY <3>1 DEF CurrentCalls, LastDecision, At, Last
      <4> QED BY <1>1, <4>1 DEF Pending
    <3> QED BY <3>1
  <2> QED BY <2>1 DEF Rightful, Legal
<1> QED BY <1>2, <1>5, <1>6, <1>7, <1>8 DEF Rightful, Legal

LEMMA KeyKept ==
    ASSUME DistinctIds, NEW v, EventList(v), Orderly(v), Named(v),
           NEW e \in EngineEvents, NEW w, Adds(v, e, w), Rightful(v, e),
           e.type \notin {"run_failed", "run_finished"},
           NEW id, NEW s, KeyAt(v, id, s)
    PROVE  Gone(w, id) \/ KeyAt(w, id, s)
<1> DEFINE f == First(Pending(v))
<1>1. e.type = "tool_result"
  BY OnlyAnswered DEF KeyAt
<1>2. PICK i \in Pending(v) :
         /\ CurrentCalls(v)[i].id = id
         /\ s = NextSeq(v) + Place(Pending(v), i)
         /\ i = First(Pending(v)) \/ \A j \in Pending(v) : Free(ToolAt(v, j))
  BY DEF KeyAt
<1>3. /\ CurrentCalls(w) = CurrentCalls(v) /\ Pending(w) = Pending(v) \ {f}
      /\ e.call = NextCall(v).id
  BY <1>1, <1>2, AddsPending
<1>4. CASE i = f
  <2>1. id \notin PendingIds(w)
    BY <1>1, <1>2, <1>3, <1>4, AddsResult DEF NextCall
  <2>2. AskedFor(w, id)
    BY <1>2, AskedForKept DEF Named, Pending
  <2> QED BY <2>1, <2>2 DEF Gone
<1>5. CASE i # f
  <2>1. /\ i \in Pending(w) /\ Place(Pending(w), i) \in Nat
        /\ Place(Pending(w), i) + 1 = Place(Pending(v), i)
    BY <1>1, <1>2, <1>5, AddsPlace
  <2>2. NextSeq(w) = NextSeq(v) + 1 /\ NextSeq(v) \in Nat
    BY AddsNext DEF EventList
  <2>3. s = NextSeq(w) + Place(Pending(w), i)
    BY <1>2, <2>1, <2>2
  <2>4. \A j \in Pending(w) : Free(ToolAt(w, j))
    BY <1>2, <1>3, <1>5 DEF ToolAt
  <2>5. Step(w) = "tool"
    <3>1. ~Finished(w)
      BY <1>1, AddsFinished, StepTool DEF KeyAt
    <3> QED BY <2>1, <3>1 DEF Step, NextStep
  <2>6. ~NeedsRecall(w)
    <3>1. At(w, {"memory_recalled"}) = At(v, {"memory_recalled"})
      BY <1>1, AddsAt
    <3> QED BY <3>1 DEF KeyAt, NeedsRecall, Recalled
  <2>7. CurrentCalls(w)[i].id = id
    BY <1>2, <1>3
  <2>8. ~Delivering(w)
    <3>1. First(Pending(w)) \in Pending(w)
      BY <1>2, <1>3, <2>1, PendingType, FirstExists
    <3> QED BY <2>4, <3>1 DEF Delivering, Free, NextCall, ToolAt
  <2> QED BY <2>1, <2>3, <2>4, <2>5, <2>6, <2>7, <2>8 DEF KeyAt, Quiet, Free
<1> QED BY <1>4, <1>5

\* A call keeps its key until it is answered.
LEMMA KeyStays ==
    ASSUME ~HasSchema, UniqueIds, NEW l, Gapless(l), History(l), At(l, {"run_failed"}) = {},
           NEW n \in 0..NextSeq(l), NEW id, NEW s, KeyAt(Before(l, n), id, s),
           NEW m \in 0..NextSeq(l), n <= m
    PROVE  Gone(Before(l, m), id) \/ KeyAt(Before(l, m), id, s)
<1> DEFINE S == {x \in 0..NextSeq(l) : Gone(Before(l, x), id) \/ KeyAt(Before(l, x), id, s)}
<1>1. n \in Nat /\ m \in Nat /\ m <= NextSeq(l) /\ NextSeq(l) \in Nat
      /\ DOMAIN l = 0..(NextSeq(l) - 1)
  BY DEF Gapless, EventList
<1>2. ASSUME NEW x \in Nat, n <= x, x < m, x \in S PROVE x + 1 \in S
  <2>1. x \in DOMAIN l
    BY <1>1, <1>2
  <2>2. x \in 0..NextSeq(l) /\ x + 1 \in 0..NextSeq(l) /\ Adds(Before(l, x), l[x], Before(l, x + 1))
    BY <2>1, BeforeAdds
  <2>3. /\ EventList(Before(l, x)) /\ Rightful(Before(l, x), l[x])
        /\ Orderly(Before(l, x)) /\ Tidy(Before(l, x)) /\ Named(Before(l, x))
    BY <2>1, <2>2, BeforeIsList, HistoryOrderly, HistoryTidy, HistoryNamed DEF History
  <2>4. l[x] \in EngineEvents /\ l[x].type # "run_failed"
    BY <2>1 DEF Gapless, EventList, At
  <2>5. DistinctIds
    BY DEF UniqueIds
  <2>6. KeyAt(Before(l, x), id, s) => l[x].type # "run_finished"
    BY <2>3, <2>4, NotClosed, StepTool DEF KeyAt, Tidy
  <2> QED BY <1>2, <2>2, <2>3, <2>4, <2>5, <2>6, GoneKept, KeyKept
<1>3. \A x \in Nat : n <= x /\ x <= m => x \in S
  <2>1. n \in S
    OBVIOUS
  <2> HIDE DEF S
  <2> QED BY <1>1, <1>2, <2>1, UpTo
<1> QED BY <1>1, <1>3

\* What was dispatched from q had its key there.
LEMMA AllowedKey ==
    ASSUME NEW q, EventList(q), NEW t, Allowed(q, t)
    PROVE  KeyAt(q, t.call, t.seq)
<1> DEFINE B == Batch(q)
<1>1. PICK i \in B : t.call = CurrentCalls(q)[i].id /\ t.seq = NextSeq(q) + Place(B, i)
  BY DEF Allowed
<1>2. Pending(q) # {} /\ First(Pending(q)) \in Pending(q) /\ Pending(q) \subseteq Nat
      /\ IsFiniteSet(Pending(q))
  BY StepTool, PendingType DEF Allowed
<1>3. CASE Parallel(q)
  <2>1. B = Pending(q)
    BY <1>3 DEF Batch
  <2>2. \A j \in Pending(q) : Free(ToolAt(q, j))
    BY <1>3 DEF Parallel, CanParallelize, Free
  <2> QED BY <1>1, <2>1, <2>2 DEF KeyAt, Allowed, Quiet, Free
<1>4. CASE ~Parallel(q)
  <2> DEFINE f == First(Pending(q))
  <2>1. i = f /\ B = {f}
    BY <1>4 DEF Batch
  <2>2. Place(B, i) = 0 /\ Place(Pending(q), f) = 0
    <3>1. {j \in {f} : j < f} = {}
      <4>1. f \in Nat
        BY <1>2
      <4> HIDE DEF f
      <4> QED BY <4>1
    <3>2. Place(B, i) = 0
      BY <2>1, <3>1, FS_EmptySet DEF Place
    <3> QED BY <1>2, <3>2, PlaceAfterFirst
  <2>3. t.seq = NextSeq(q) + Place(Pending(q), f)
    BY <1>1, <2>2
  <2> QED BY <1>1, <1>2, <1>4, <2>1, <2>3 DEF KeyAt, Allowed, Quiet
<1> QED BY <1>3, <1>4

\* A key is determined by the view and the call.
LEMMA KeyUnique ==
    ASSUME DistinctIds, NEW v, EventList(v), NEW id, NEW s, NEW r,
           KeyAt(v, id, s), KeyAt(v, id, r)
    PROVE  s = r
<1>1. PICK i \in Pending(v) : CurrentCalls(v)[i].id = id /\ s = NextSeq(v) + Place(Pending(v), i)
  BY DEF KeyAt
<1>2. PICK j \in Pending(v) : CurrentCalls(v)[j].id = id /\ r = NextSeq(v) + Place(Pending(v), j)
  BY DEF KeyAt
<1>3. i = j
  BY <1>1, <1>2, CallsDistinct DEF Pending
<1> QED BY <1>1, <1>2, <1>3

LEMMA SameKey ==
    ASSUME ~HasSchema, UniqueIds, NEW l, Gapless(l), History(l), At(l, {"run_failed"}) = {},
           NEW x, NEW y, x.call = y.call,
           NEW n \in 0..NextSeq(l), Allowed(Before(l, n), x),
           NEW m \in 0..NextSeq(l), Allowed(Before(l, m), y), n <= m
    PROVE  x.seq = y.seq
<1>1. EventList(Before(l, n)) /\ EventList(Before(l, m))
  BY BeforeIsList
<1>2. KeyAt(Before(l, n), x.call, x.seq) /\ KeyAt(Before(l, m), x.call, y.seq)
  BY <1>1, AllowedKey
<1>3. Gone(Before(l, m), x.call) \/ KeyAt(Before(l, m), x.call, x.seq)
  BY <1>2, KeyStays
<1>4. ~Gone(Before(l, m), x.call)
  BY <1>2 DEF KeyAt, Gone, PendingIds
<1> QED BY <1>1, <1>2, <1>3, <1>4, KeyUnique DEF UniqueIds

\* Where nothing is delivered, every execution of a call runs under the same key,
\* with any number of drivers at once and from however stale a view.
LEMMA KeysWithoutSchema ==
    ASSUME UniqueIds, ~HasSchema
    PROVE  Spec => []KeyStable
<1>0. DistinctIds
  BY DEF UniqueIds
<1>1. TypeInv /\ Synced /\ Poised /\ Licensed => KeyStable
  <2> SUFFICES ASSUME TypeInv, Synced, Poised, Licensed, At(log, {"run_failed"}) = {},
                      NEW x \in executed, NEW y \in executed, x.call = y.call
               PROVE  x.seq = y.seq
    BY DEF KeyStable
  <2>1. Gapless(log) /\ History(log) /\ NextSeq(log) \in Nat
    BY ViewsOrderly DEF Poised, Gapless, EventList
  <2>2. PICK n \in 0..NextSeq(log) : Allowed(Before(log, n), x)
    BY DEF Licensed, Dispatched
  <2>3. PICK m \in 0..NextSeq(log) : Allowed(Before(log, m), y)
    BY DEF Licensed, Dispatched
  <2>4. n <= m \/ m <= n
    BY <2>1
  <2> QED BY <2>1, <2>2, <2>3, <2>4, SameKey
<1>2. (Spec => []Poised) /\ (Spec => []Licensed)
  BY <1>0, PoisedHolds, LicensedHolds
<1> QED BY <1>1, <1>2, TypeInvHolds, SyncedHolds, PTL

-----------------------------------------------------------------------------
(* Under a lease that no step outlives: one driver at a time, and what it  *)
(* reads can only be behind by the decisions of humans.                    *)

\* w holds all of v, and beyond it only what humans decided.
Decided(v, w) ==
    /\ DOMAIN v \subseteq DOMAIN w
    /\ \A i \in DOMAIN v : v[i] = w[i]
    /\ \A i \in DOMAIN w \ DOMAIN v : w[i].type \in Verdictal

\* The lease names whoever is driving, and has not expired.
Alone == \A d \in Drivers : Driving(d) => lease.owner = d /\ lease.live

\* What a driver acts on is all that has been recorded, but for decisions.
Fresh == \A d \in Drivers : Acting(d) => Decided(view[d], log)

LEMMA AloneHolds ==
    ASSUME Leased, ~Stalls, TypeInv, Alone, Next
    PROVE  Alone'
<1> SUFFICES ASSUME NEW e \in Drivers, Driving(e)'
             PROVE  (lease.owner = e /\ lease.live)'
  BY DEF Alone
<1>1. e \in Writers /\ pc \in [Writers -> Labels] /\ Nobody \notin Writers
  BY ActorsAssumption DEF TypeInv, TypeOK, Writers
<1>2. ASSUME NEW d \in Drivers, Invoke(d) PROVE (lease.owner = e /\ lease.live)'
  <2>1. CASE d = e
    <3>1. pc'[e] # "raised"
      BY DEF Driving, Ended
    <3>2. ~Goto(e, "raised")
      BY <1>1, <3>1 DEF Goto
    <3> QED BY <1>2, <2>1, <3>2 DEF Invoke
  <2>2. CASE d # e
    <3>1. pc'[e] = pc[e]
      BY <1>1, <1>2, <2>2 DEF Invoke, Goto
    <3>2. lease.owner = e /\ lease.live
      BY <3>1 DEF Alone, Driving
    <3>3. ~LeaseFree(d)
      BY <1>1, <2>2, <3>2 DEF LeaseFree
    <3> QED BY <1>2, <3>2, <3>3 DEF Invoke
  <2> QED BY <2>1, <2>2
<1>3. ASSUME NEW d \in Drivers, Drive(d) \/ Fault(d) PROVE (lease.owner = e /\ lease.live)'
  <2>1. /\ Driving(d)
        /\ \E l \in Labels : Goto(d, l)
        /\ UNCHANGED lease \/ Renew(d) \/ Leave(d)
    BY <1>3, DriverSteps
  <2>2. lease.owner = d /\ lease.live
    BY <2>1 DEF Alone
  <2>3. d = e
    <3> SUFFICES ASSUME d # e PROVE FALSE
      OBVIOUS
    <3>1. pc'[e] = pc[e]
      BY <1>1, <2>1 DEF Goto
    <3> QED BY <2>2, <3>1 DEF Alone, Driving
  <2>4. ~Leave(d)
    <3>1. pc'[e] \notin {"returned", "raised"}
      BY DEF Driving, Ended
    <3> QED BY <1>1, <2>3, <3>1 DEF Leave, Goto
  <2> QED BY <2>1, <2>2, <2>3, <2>4 DEF Renew
<1>4. CASE (\E d \in Drivers : Effect(d)) \/ \E h \in Humans : Human(h)
  <2>1. pc'[e] = pc[e] /\ UNCHANGED lease
    BY <1>4, HumanStays DEF Effect
  <2> QED BY <2>1 DEF Alone, Driving
<1>5. CASE Lapse
  <2>1. pc' = pc
    BY <1>5 DEF Lapse
  <2>2. lease.owner = e /\ pc[e] \notin Ended
    BY <2>1 DEF Alone, Driving, Ended
  <2> QED BY <1>5, <2>2 DEF Lapse
<1> QED BY <1>2, <1>3, <1>4, <1>5 DEF Next

LEMMA InitAlone == Init => Alone /\ Fresh
BY DEF Init, Alone, Fresh, Driving, Acting, Idle, Writers

\* With leases that no step outlives, at most one invocation at a time is
\* inside the engine, through crashes, cancellations and restarts.
THEOREM OneDriver ==
    ASSUME Leased, ~Stalls
    PROVE  Spec => []OneLiveDriver
<1>1. TypeInv /\ Alone /\ [Next]_vars => Alone'
  <2>1. UNCHANGED vars /\ Alone => Alone'
    BY DEF vars, Alone, Driving
  <2> QED BY <2>1, AloneHolds
<1>2. Alone => OneLiveDriver
  BY DEF Alone, OneLiveDriver
<1> QED BY <1>1, <1>2, InitAlone, TypeInvHolds, PTL DEF Spec

LEMMA FreshHolds ==
    ASSUME TypeInv, Alone, Fresh, Next
    PROVE  Fresh'
<1> SUFFICES ASSUME NEW e \in Drivers, Acting(e)'
             PROVE  Decided(view'[e], log')
  BY DEF Fresh, Decided
<1>1. e \in Writers /\ pc \in [Writers -> Labels] /\ DOMAIN view = Writers
  BY DEF TypeInv, TypeOK, StoreTyped, Writers
<1>2. pc'[e] \notin {"idle", "load", "unwind", "broken", "raised"} /\ Driving(e)'
  BY DEF Acting, Driving, Idle, Ended
<1>3. ASSUME pc'[e] = pc[e], view'[e] = view[e], UNCHANGED log
      PROVE  Decided(view'[e], log')
  BY <1>3 DEF Fresh, Acting
<1>4. ASSUME NEW d \in Drivers, Invoke(d) PROVE Decided(view'[e], log')
  <2>1. Goto(d, "raised") \/ Goto(d, "load")
    BY <1>4 DEF Invoke
  <2>2. pc'[e] = pc[e]
    BY <1>1, <1>2, <2>1 DEF Goto
  <2> QED BY <1>3, <1>4, <2>2 DEF Invoke
<1>5. ASSUME NEW d \in Drivers, Drive(d) \/ Fault(d) PROVE Decided(view'[e], log')
  <2>1. /\ Driving(d)
        /\ \E l \in Labels : Goto(d, l)
        /\ Touches(d)
    BY <1>5, DriverSteps
  <2>2. d = e
    <3> SUFFICES ASSUME d # e PROVE FALSE
      OBVIOUS
    <3>1. pc'[e] = pc[e]
      BY <1>1, <2>1 DEF Goto
    <3> QED BY <1>2, <2>1, <3>1 DEF Alone, Driving
  <2>3. Acting(e) \/ Load(e)
    BY <1>5, <2>2, LoadsFirst DEF Open
  <2>4. CASE Load(e)
    BY <1>1, <2>4 DEF Load, Decided
  <2>5. CASE Acting(e) /\ Kept
    BY <2>5 DEF Fresh, Kept
  <2>6. CASE Acting(e) /\ Attempts(e)
    <3>1. Decided(view[e], log)
      BY <2>6 DEF Fresh
    <3>2. PICK x \in EngineEvents : Stored(e, x) \/ Conflict(e, x)
      BY <2>6 DEF Attempts
    <3>3. CASE Conflict(e, x)
      BY <3>1, <3>3 DEF Conflict
    <3>4. CASE Stored(e, x)
      <4> DEFINE seq == NextSeq(view[e])
      <4>1. view'[e] = With(view[e], seq, x)
        BY <1>1, <3>4 DEF Stored
      <4>2. (seq \in DOMAIN log /\ log[seq] = x /\ log' = log) \/ log' = With(log, seq, x)
        BY <3>4 DEF Stored
      <4> HIDE DEF seq
      <4> QED BY <3>1, <4>1, <4>2 DEF Decided, With
    <3> QED BY <3>2, <3>3, <3>4
  <2> QED BY <2>1, <2>2, <2>3, <2>4, <2>5, <2>6 DEF Touches
<1>6. ASSUME NEW h \in Humans, Human(h) PROVE Decided(view'[e], log')
  <2>1. pc'[e] = pc[e] /\ view'[e] = view[e]
    BY <1>6, HumanStays
  <2>2. Decided(view[e], log)
    BY <2>1 DEF Fresh, Acting
  <2>3. CASE UNCHANGED log
    BY <1>3, <2>1, <2>3
  <2>4. ASSUME NEW x \in Verdicted, NEW seq \in Nat, seq \notin DOMAIN log,
               log' = With(log, seq, x)
        PROVE  Decided(view'[e], log')
    <3>1. x.type \in Verdictal
      BY DEF Verdicted, Verdict, Verdictal
    <3> QED BY <2>1, <2>2, <2>4, <3>1 DEF Decided, With
  <2> QED BY <1>6, <2>3, <2>4, HumanStays
<1>7. CASE Lapse \/ \E d \in Drivers : Effect(d)
  BY <1>3, <1>7 DEF Lapse, Effect
<1> QED BY <1>4, <1>5, <1>6, <1>7 DEF Next

\* A human's decision leaves the pending calls as they are.
LEMMA DecisionsLeavePending ==
    ASSUME NEW v, NEW w, EventList(v), Decided(v, w)
    PROVE  PendingIds(v) = PendingIds(w)
<1>1. ASSUME NEW type \in {"model_decision", "tool_result"}
      PROVE  At(v, {type}) = At(w, {type})
  BY DEF Decided, At, Verdictal
<1>2. LastDecision(v) = LastDecision(w)
  BY <1>1 DEF LastDecision
<1>3. LastDecision(v) # -1 => LastDecision(v) \in DOMAIN v
  <2>1. At(v, {"model_decision"}) \subseteq DOMAIN v
    BY DEF At
  <2> QED BY <2>1, LastOfEventList DEF LastDecision, Last
<1>4. CurrentCalls(v) = CurrentCalls(w)
  BY <1>2, <1>3 DEF CurrentCalls, Decided
<1>5. Answered(v) = Answered(w)
  <2>1. \A i \in At(v, {"tool_result"}) : v[i].call = w[i].call
    BY DEF At, Decided
  <2> QED BY <1>1, <1>2, <2>1 DEF Answered
<1> QED BY <1>4, <1>5 DEF PendingIds, Pending

\* With such leases a recorded step never executes again: a driver dispatches
\* only calls the store's log has no answer to.
THEOREM NeverRedone ==
    ASSUME Leased, ~Stalls
    PROVE  Spec => RecordedNeverRedone
<1>1. TypeInv /\ Alone /\ Fresh /\ [Next]_vars => (Alone /\ Fresh)'
  <2>1. UNCHANGED vars /\ Alone /\ Fresh => (Alone /\ Fresh)'
    BY DEF vars, Alone, Driving, Fresh, Acting
  <2> QED BY <2>1, AloneHolds, FreshHolds
<1>2. TypeInv /\ Fresh /\ [Next]_vars
        => [\A d \in Drivers : \A t \in running'[d] \ running[d] :
               t.call \in PendingIds(log)]_vars
  <2> SUFFICES ASSUME TypeInv, Fresh, Next, NEW d \in Drivers,
                      NEW t \in running'[d] \ running[d]
               PROVE  t.call \in PendingIds(log)
    OBVIOUS
  <2>1. Execute(d)
    BY OnlyDispatches
  <2>2. d \in Writers /\ EventList(view[d]) /\ Decided(view[d], log)
    BY <2>1 DEF Execute, Deciding, Fresh, Acting, Ended, Writers,
                TypeInv, TypeOK, StoreTyped
  <2>3. Pending(view[d]) # {}
    BY <2>1, StepTool DEF Execute
  <2>4. t \in Tasks(view[d])
    BY <2>1 DEF Execute, TypeInv, TypeOK, WorkTyped
  <2>5. Batch(view[d]) \subseteq Pending(view[d])
    BY <2>2, <2>3, PendingType DEF Batch
  <2>6. t.call \in PendingIds(view[d])
    <3> DEFINE v == view[d]
               n(i) == NextSeq(v) + Cardinality({j \in Batch(v) : j < i})
    <3>1. PICK i \in Batch(v) : t = [seq |-> n(i), call |-> CurrentCalls(v)[i].id]
      BY <2>4, Zenon DEF Tasks
    <3>2. t.call = CurrentCalls(v)[i].id
      <4> HIDE DEF n
      <4> QED BY <3>1
    <3> QED BY <2>5, <3>1, <3>2 DEF PendingIds
  <2> QED BY <2>2, <2>6, DecisionsLeavePending
<1> QED BY <1>1, <1>2, InitAlone, TypeInvHolds, PTL DEF Spec, RecordedNeverRedone

-----------------------------------------------------------------------------
(* Under the lease: what a driver sees is what is recorded.                *)

\* A driver that finds no request open has all of the log.
LEMMA FreshIsAll ==
    ASSUME TypeInv, Synced, Poised, Fresh, NEW d \in Drivers, Acting(d),
           OpenRequests(view[d]) = {}
    PROVE  view[d] = log
<1> DEFINE n == NextSeq(view[d])
<1>1. d \in Writers /\ Decided(view[d], log)
  BY DEF Fresh, Writers
<1>2. /\ view[d] = Before(log, n) /\ n \in Nat
      /\ n \notin DOMAIN log => view[d] = log
      /\ DOMAIN view[d] = 0..(n - 1)
  BY <1>1 DEF Synced
<1> SUFFICES ASSUME n \in DOMAIN log PROVE FALSE
  BY <1>2
<1>3. n \notin DOMAIN view[d]
  <2> HIDE DEF n
  <2> QED BY <1>2
<1>4. log[n].type \in Verdictal
  BY <1>1, <1>3 DEF Decided
<1>5. Rightful(view[d], log[n])
  BY <1>2 DEF Poised, History
<1>6. log[n].call \in PendingApprovals(view[d])
  BY <1>4, <1>5 DEF Rightful, Legal, Verdictal
<1> QED BY <1>6 DEF PendingApprovals

\* What is due after all of the log is the place of an executed step.
LEMMA OutgoingIsDue ==
    ASSUME TypeInv, Synced, Poised, Fresh, NEW d \in Drivers, pc[d] = "record"
    PROVE  /\ NextSeq(view[d]) \in DOMAIN out[d]
           /\ NextSeq(view[d]) \notin DOMAIN log
<1> DEFINE n == NextSeq(view[d])
<1>1. d \in Writers /\ EventList(view[d]) /\ Acting(d)
  BY ViewTyped DEF Writers, Acting, Ended
<1>2. Outgoing(view[d], out[d])
  BY DEF Poised, Ready
<1>3. n \in DOMAIN out[d] /\ Proper(d, out[d][n])
  BY <1>1, <1>2, OutgoingRight
<1>4. OpenRequests(view[d]) = {}
  <2>1. CASE Step(view[d]) = "tool"
    BY <1>2, <2>1 DEF Outgoing
  <2>2. CASE Step(view[d]) = "model"
    BY <1>1, <2>2, ViewsOrderly DEF Poised, Orderly
  <2> QED BY <1>2, <2>1, <2>2 DEF Outgoing
<1>5. view[d] = log
  BY <1>1, <1>4, FreshIsAll
<1>6. n \notin DOMAIN view[d]
  <2>1. DOMAIN view[d] = 0..(n - 1) /\ n \in Nat
    BY <1>1 DEF Synced, EventList
  <2> HIDE DEF n
  <2> QED BY <2>1
<1> QED BY <1>3, <1>5, <1>6

\* With leases that no step outlives, a step that was executed is recorded as
\* what it did, in its place: neither another driver nor a human gets there
\* first, and a closed stream does not lose it.  The death of its process does,
\* and so does an append that raises anything but a conflict.
THEOREM RecordLands ==
    ASSUME Leased, ~Stalls, DistinctIds
    PROVE  Spec => StepRecordLands
<1>1. TypeInv /\ Synced /\ Poised /\ Alone /\ Fresh /\ [Next]_vars => (Alone /\ Fresh)'
  <2>1. UNCHANGED vars /\ Alone /\ Fresh => (Alone /\ Fresh)'
    BY DEF vars, Alone, Driving, Fresh, Acting
  <2> QED BY <2>1, AloneHolds, FreshHolds
<1>2. TypeInv /\ Synced /\ Poised /\ Fresh /\ [Next]_vars
        => [\A d \in Drivers :
               pc[d] = "record" /\ (pc'[d] # "record" \/ out'[d] # out[d])
                 => \/ pc'[d] \in {"crashed", "broken"}
                    \/ /\ NextSeq(view[d]) \in DOMAIN log'
                       /\ log'[NextSeq(view[d])] = NextOut(d)]_vars
  <2> SUFFICES ASSUME TypeInv, Synced, Poised, Fresh, Next, NEW d \in Drivers,
                      pc[d] = "record", pc'[d] # "record" \/ out'[d] # out[d],
                      pc'[d] \notin {"crashed", "broken"}
               PROVE  /\ NextSeq(view[d]) \in DOMAIN log'
                      /\ log'[NextSeq(view[d])] = NextOut(d)
    OBVIOUS
  <2>1. d \in Writers /\ d \notin Humans
    BY ActorsAssumption DEF Writers
  <2>2. Drive(d) \/ Fault(d)
    <3>1. ASSUME NEW x \in Drivers, x # d, Invoke(x) \/ Drive(x) \/ Effect(x) \/ Fault(x)
          PROVE  FALSE
      BY <2>1, <3>1, OthersRest
    <3>2. ASSUME NEW h \in Humans, Human(h) PROVE FALSE
      BY <2>1, <3>2, HumanStays DEF Human, Review, Rule, Reconsider, Forsake, drivers
    <3>3. ~Lapse /\ ~Effect(d) /\ ~Invoke(d)
      BY DEF Lapse, Effect, Invoke
    <3> QED BY <3>1, <3>2, <3>3 DEF Next
  <2>3. Record(d) \/ CancelShielded(d) \/ StoreRaises(d) \/ Crash(d)
    BY <2>2
       DEF Drive, Enter, Loop, Fault, Open, Begin, FollowUp, BlockTurn, Renew, Reload, Recall,
           AcceptText, CorrectText, Deliver, FinishDelivery, Veto, Conclude, AskModel,
           Propose, Refuse, Await, Pause, Disown, Intend, Execute, Complete,
           Leave, ModelRaises, ToolRaises, Cancel, Deciding
  <2>4. ~StoreRaises(d) /\ ~Crash(d)
    BY <2>1, PcAfter DEF StoreRaises, Crash
  <2>5. Stored(d, NextOut(d)) \/ Conflict(d, NextOut(d))
    BY <2>3, <2>4 DEF Record, CancelShielded
  <2>6. NextSeq(view[d]) \notin DOMAIN log
    BY OutgoingIsDue
  <2>7. log' = With(log, NextSeq(view[d]), NextOut(d))
    BY <2>5, <2>6 DEF Stored, Conflict
  <2> QED BY <2>7 DEF With
<1>3. Spec => []Poised
  BY PoisedHolds
<1> QED BY <1>1, <1>2, <1>3, InitAlone, TypeInvHolds, SyncedHolds, PTL DEF Spec, StepRecordLands

\* The log is another one once something was added.
LEMMA GrownDiffers ==
    ASSUME Synced, NEW e, NEW k, Adds(log, e, k)
    PROVE  NextSeq(log) \notin DOMAIN log /\ k # log
<1>1. NextSeq(log) \notin DOMAIN log
  <2> DEFINE n == NextSeq(log)
  <2>1. n \in Nat /\ DOMAIN log = 0..(n - 1)
    BY DEF Synced
  <2>2. n \notin DOMAIN log
    <3> HIDE DEF n
    <3> QED BY <2>1
  <2> QED BY <2>2
<1>2. NextSeq(log) \in DOMAIN k
  BY DEF Adds
<1> QED BY <1>1, <1>2

-----------------------------------------------------------------------------
(* Under the lease: the key of a call, also behind a delivery.             *)

\* The tools that took effect and those in flight.
Issued == executed \cup UNION {running[d] : d \in Drivers}

Unfailed == At(log, {"run_failed"}) = {}

\* Whatever was dispatched has been dealt with or still has its key, there is
\* one key to a call, and nothing is under way when a driver has yet to close
\* the turn over the heads of what is pending.
OneKey ==
    Unfailed =>
        /\ \A x \in Issued : Gone(log, x.call) \/ KeyAt(log, x.call, x.seq)
        /\ \A x, y \in Issued : x.call = y.call => x.seq = y.seq
        /\ \A d \in Drivers : pc[d] \in {"finish", "blockturn"} =>
              \A x \in Issued : Gone(log, x.call)

\* What is issued was before, or is being dispatched.
LEMMA OnlyIssues ==
    ASSUME TypeInv, Next, NEW x \in Issued'
    PROVE  \/ \E y \in Issued : y.call = x.call /\ y.seq = x.seq
           \/ \E d \in Drivers : Execute(d) /\ x \in Tasks(view[d])
<1>1. CASE x \in Issued
  BY <1>1
<1>2. ASSUME x \notin Issued, NEW d \in Drivers, x \in running'[d]
      PROVE  Execute(d) /\ x \in Tasks(view[d])
  <2>1. x \notin running[d]
    BY <1>2 DEF Issued
  <2>2. Execute(d)
    BY <1>2, <2>1, OnlyDispatches
  <2> QED BY <1>2, <2>1, <2>2 DEF Execute, TypeInv, TypeOK, WorkTyped
<1>3. ASSUME x \notin Issued, x \in executed'
      PROVE  \E y \in Issued : y.call = x.call /\ y.seq = x.seq
  <2>1. PICK d \in Drivers : Effect(d)
    BY <1>3, OnlyEffects DEF Issued
  <2>2. PICK t \in running[d] : x = [driver |-> d, seq |-> t.seq, call |-> t.call]
    BY <1>3, <2>1 DEF Effect, Issued
  <2> QED BY <2>2 DEF Issued
<1> QED BY <1>1, <1>2, <1>3 DEF Issued

\* A turn is closed over pending calls only by who has been told so.
LEMMA OnlyCloses ==
    ASSUME TypeInv, Synced, Poised, Next, NEW e, Adds(log, e, log'), e.type = "run_finished",
           Step(log) = "tool"
    PROVE  \E d \in Drivers : pc[d] \in {"finish", "blockturn"}
<1> SUFFICES ASSUME \A d \in Drivers : pc[d] \notin {"finish", "blockturn"} PROVE FALSE
  OBVIOUS
<1>1. log' # log
  BY GrownDiffers
<1>2. ASSUME NEW w \in Writers, NEW x, Stored(w, x) PROVE x = e /\ view[w] = log
  <2> DEFINE n == NextSeq(log)
  <2>1. view[w] = log /\ Adds(log, x, log')
    BY <1>1, <1>2, StoredAdds
  <2>2. log'[n] = e /\ log'[n] = x
    BY <2>1 DEF Adds
  <2> QED BY <2>1, <2>2
<1>3. ASSUME NEW h \in Humans, Human(h) PROVE FALSE
  <2>1. PICK x \in Verdicted, seq \in Nat : seq \notin DOMAIN log /\ log' = With(log, seq, x)
    BY <1>1, <1>3, HumanStays
  <2>2. seq \in DOMAIN log' /\ log'[seq] = x
    BY <2>1 DEF With
  <2>3. x = e
    BY <2>1, <2>2 DEF Adds
  <2> QED BY <2>1, <2>3 DEF Verdicted, Verdict
<1>4. ASSUME NEW d \in Drivers,
             \/ Invoke(d) \/ Effect(d) \/ Open(d) \/ Renew(d) \/ Reload(d) \/ Pause(d)
             \/ AskModel(d) \/ Execute(d) \/ Complete(d) \/ Leave(d) \/ Cancel(d) \/ Crash(d)
             \/ StoreRaises(d)
      PROVE  FALSE
  BY <1>1, <1>4
     DEF Invoke, Effect, Open, Renew, Reload, Pause, AskModel, Execute, Complete, Leave, Cancel,
         Crash, StoreRaises, Load
<1>5. ASSUME NEW d \in Drivers, NEW x, Stored(d, x) \/ Conflict(d, x), x.type # "run_finished"
      PROVE  FALSE
  BY <1>1, <1>2, <1>5 DEF Conflict, Writers
<1>6. ASSUME NEW d \in Drivers, NEW x, Stored(d, x) \/ Conflict(d, x), Step(view[d]) # "tool"
      PROVE  FALSE
  BY <1>1, <1>2, <1>6 DEF Conflict, Writers
<1>7. ASSUME NEW d \in Drivers,
             Begin(d) \/ FollowUp(d) \/ Recall(d) \/ CorrectText(d)
      PROVE  FALSE
  BY <1>5, <1>7, EventTypes
     DEF Begin, FollowUp, Recall, CorrectText, Post, PostOrRaise
<1>8. ASSUME NEW d \in Drivers, BlockTurn(d) \/ FinishDelivery(d) PROVE FALSE
  BY <1>8 DEF BlockTurn, FinishDelivery
<1>9. ASSUME NEW d \in Drivers, AcceptText(d) \/ Veto(d) \/ Conclude(d) PROVE FALSE
  <2>1. Step(view[d]) # "tool"
    BY <1>9 DEF AcceptText, Veto, Conclude, TextFinish, Vetoed, Concludes, OverBudget,
                Step, NextStep
  <2> QED BY <1>1, <1>6, <1>9, <2>1 DEF AcceptText, Veto, Conclude, Post
<1>10. ASSUME NEW d \in Drivers,
             Await(d) \/ Deliver(d) \/ Propose(d) \/ Refuse(d) \/ Disown(d) \/ Intend(d)
      PROVE  FALSE
  BY <1>1, <1>5, <1>10, EventTypes DEF Await, Deliver, Propose, Refuse, Disown, Intend, Post
<1>11. ASSUME NEW d \in Drivers, ModelRaises(d) \/ ToolRaises(d) PROVE FALSE
  BY <1>1, <1>5, <1>11, EventTypes DEF ModelRaises, ToolRaises, FailRun
<1>12. ASSUME NEW d \in Drivers, Record(d) \/ CancelShielded(d) PROVE FALSE
  <2>1. EventList(view[d]) /\ Outgoing(view[d], out[d])
    BY <1>12, ViewTyped DEF Poised, Record, CancelShielded, Ready
  <2>2. CASE Step(view[d]) = "tool"
    <3>1. NextOut(d).type = "tool_result"
      BY <2>1, <2>2, StepTool, NumberedFirst DEF Outgoing, NextOut
    <3> QED BY <1>5, <1>12, <3>1 DEF Record, CancelShielded
  <2> QED BY <1>1, <1>6, <1>12, <2>2 DEF Record, CancelShielded
<1>13. ~Lapse
  BY <1>1 DEF Lapse
<1> QED BY <1>3, <1>4, <1>7, <1>8, <1>9, <1>10, <1>11, <1>12, <1>13
        DEF Next, Drive, Enter, Loop, Fault

\* A driver gets to close a turn over pending calls by accepting a delivery, or
\* with a follow-up that it has to refuse.
LEMMA AtClose ==
    ASSUME TypeInv, Next, NEW d \in Drivers, pc'[d] \in {"finish", "blockturn"}
    PROVE  \/ pc'[d] = pc[d]
           \/ Deliver(d) /\ \E e : Stored(d, e)
           \/ FollowUp(d) /\ \E e : Stored(d, e)
<1> SUFFICES ASSUME pc'[d] # pc[d]
             PROVE  \/ Deliver(d) /\ \E e : Stored(d, e)
                    \/ FollowUp(d) /\ \E e : Stored(d, e)
  OBVIOUS
<1>1. d \in Writers
  BY DEF Writers
<1>2. ASSUME NEW c \in Drivers, c # d, Invoke(c) \/ Drive(c) \/ Effect(c) \/ Fault(c)
      PROVE  FALSE
  BY <1>1, <1>2, OthersRest
<1>3. ASSUME NEW h \in Humans, Human(h) PROVE FALSE
  BY <1>3, HumanStays
<1>4. ~Lapse /\ ~Effect(d)
  BY DEF Lapse, Effect
<1>5. LoopHead \notin {"finish", "blockturn"}
  BY DEF LoopHead
<1>6. ASSUME NEW l, Goto(d, l) PROVE l \in {"finish", "blockturn"}
  BY <1>1, <1>6, PcAfter
<1>7. ~Invoke(d) /\ ~Leave(d) /\ ~Fault(d)
  BY <1>6 DEF Invoke, Leave, Fault, ModelRaises, ToolRaises, Cancel, CancelShielded, Crash, StoreRaises, FailRun
<1>8. ~Open(d) /\ ~Begin(d) /\ ~BlockTurn(d)
  BY <1>5, <1>6 DEF Open, Begin, BlockTurn, PostOrRaise
<1>9. /\ ~Renew(d) /\ ~Reload(d) /\ ~Recall(d) /\ ~AcceptText(d) /\ ~CorrectText(d)
      /\ ~FinishDelivery(d) /\ ~Veto(d) /\ ~Conclude(d) /\ ~AskModel(d)
  BY <1>5, <1>6 DEF Renew, Reload, Recall, AcceptText, CorrectText, FinishDelivery, Veto,
                    Conclude, AskModel, Post
<1>10. /\ ~Propose(d) /\ ~Refuse(d) /\ ~Await(d) /\ ~Pause(d) /\ ~Disown(d) /\ ~Intend(d)
       /\ ~Execute(d) /\ ~Complete(d) /\ ~Record(d)
  BY <1>5, <1>6 DEF Propose, Refuse, Await, Pause, Disown, Intend, Execute, Complete, Record, Post
<1>11. Deliver(d) \/ FollowUp(d)
  BY <1>2, <1>3, <1>4, <1>7, <1>8, <1>9, <1>10 DEF Next, Drive, Enter, Loop
<1>12. CASE Deliver(d)
  <2>1. PICK x \in {"invalid", "accepted"} : LET e == ToolResult(NextCall(view[d]).id, x)
                                             IN  Stored(d, e) \/ (Conflict(d, e) /\ Goto(d, "reload"))
    BY <1>12 DEF Deliver, Post
  <2>2. Stored(d, ToolResult(NextCall(view[d]).id, x))
    BY <1>6, <2>1
  <2> QED BY <1>12, <2>2
<1>13. CASE FollowUp(d)
  BY <1>6, <1>13 DEF FollowUp, PostOrRaise
<1> QED BY <1>11, <1>12, <1>13

LEMMA OneKeyKept ==
    ASSUME UniqueIds, Leased, ~Stalls, TypeInv, Synced, Poised, Alone, Fresh, OneKey, Next
    PROVE  OneKey'
<1> SUFFICES ASSUME Unfailed'
             PROVE  /\ \A x \in Issued' : Gone(log', x.call) \/ KeyAt(log', x.call, x.seq)
                    /\ \A x, y \in Issued' : x.call = y.call => x.seq = y.seq
                    /\ \A d \in Drivers : pc'[d] \in {"finish", "blockturn"} =>
                          \A x \in Issued' : Gone(log', x.call)
  BY DEF OneKey
<1>1. DistinctIds /\ Gapless(log) /\ History(log) /\ Orderly(log) /\ EventList(log)
  BY ViewsOrderly DEF UniqueIds, Poised, Gapless
<1>2. UNCHANGED log \/ \E e \in EngineEvents : Rightful(log, e) /\ Adds(log, e, log')
  BY <1>1, LogStep
<1>3. Unfailed
  BY <1>2, AddsAt DEF Unfailed
<1>4. Named(log)
  <2>1. NextSeq(log) \in Nat /\ log = [i \in DOMAIN log |-> log[i]]
    BY DEF Synced
  <2>2. \A i \in DOMAIN log : i < NextSeq(log)
    BY <1>1 DEF EventList
  <2>3. {i \in DOMAIN log : i < NextSeq(log)} = DOMAIN log
    BY <2>2
  <2>4. Before(log, NextSeq(log)) = log
    BY <2>1, <2>3 DEF Before
  <2>5. NextSeq(log) \in 0..NextSeq(log)
    BY <2>1
  <2> QED BY <1>1, <2>4, <2>5, HistoryNamed
<1>5. ASSUME NEW id, Gone(log, id) PROVE Gone(log', id)
  BY <1>1, <1>2, <1>5, GoneKept
<1>6. ASSUME NEW d \in Drivers, Execute(d), NEW x \in Tasks(view[d])
      PROVE  view[d] = log /\ KeyAt(log, x.call, x.seq)
  <2>1. Allowed(view[d], x)
    BY <1>6, ExecuteAllowed
  <2>2. OpenRequests(view[d]) = {}
    <3>1. Orderly(view[d]) /\ EventList(view[d])
      BY ViewsOrderly, ViewTyped DEF Poised, Writers
    <3>2. First(Pending(view[d])) \in Pending(view[d])
      BY <2>1, <3>1, StepTool, PendingType DEF Allowed
    <3> QED BY <2>1, <3>1, <3>2, Unasked
            DEF Allowed, Parallel, CanParallelize, Cleared, NextCall, ToolAt
  <2>3. view[d] = log
    BY <1>6, <2>2, FreshIsAll DEF Execute, Deciding, Acting, Ended
  <2> QED BY <1>1, <2>1, <2>3, AllowedKey
<1>7. ASSUME NEW id, NEW s, KeyAt(log, id, s), \A d \in Drivers : pc[d] \notin {"finish", "blockturn"}
      PROVE  Gone(log', id) \/ KeyAt(log', id, s)
  <2>1. CASE UNCHANGED log
    BY <1>7, <2>1
  <2>2. ASSUME NEW e \in EngineEvents, Rightful(log, e), Adds(log, e, log')
        PROVE  Gone(log', id) \/ KeyAt(log', id, s)
    <3>1. e.type # "run_failed"
      BY <2>2, AddsAt DEF Unfailed
    <3>2. e.type # "run_finished"
      BY <1>7, <2>2, OnlyCloses DEF KeyAt
    <3> QED BY <1>1, <1>4, <1>7, <2>2, <3>1, <3>2, KeyKept
  <2> QED BY <1>2, <2>1, <2>2
<1>8. ASSUME NEW id, NEW s, NEW r, KeyAt(log, id, s), Gone(log, id) \/ KeyAt(log, id, r)
      PROVE  s = r
  <2>1. ~Gone(log, id)
    BY <1>8 DEF KeyAt, Gone, PendingIds
  <2> QED BY <1>1, <1>8, <2>1, KeyUnique
<1>9. ASSUME NEW x \in Issued', NEW y \in Issued', x.call = y.call
      PROVE  x.seq = y.seq
  <2>1. ASSUME NEW z \in {x, y}
        PROVE  \/ \E o \in Issued : o.call = z.call /\ o.seq = z.seq
               \/ KeyAt(log, z.call, z.seq)
    BY <1>6, <2>1, OnlyIssues
  <2>2. \A o \in Issued : Gone(log, o.call) \/ KeyAt(log, o.call, o.seq)
    BY <1>3 DEF OneKey
  <2>3. \A o, u \in Issued : o.call = u.call => o.seq = u.seq
    BY <1>3 DEF OneKey
  <2> QED BY <1>8, <1>9, <2>1, <2>2, <2>3
<1>10. ASSUME NEW d \in Drivers, pc[d] \in {"finish", "blockturn"}
       PROVE  \A e \in Drivers : ~Execute(e)
  <2> SUFFICES ASSUME NEW e \in Drivers, Execute(e) PROVE FALSE
    OBVIOUS
  <2>1. pc[e] = "decide"
    BY DEF Execute, Deciding
  <2> QED BY <1>10, <2>1 DEF Alone, Driving, Idle, Ended
<1>11. ASSUME NEW x \in Issued' PROVE Gone(log', x.call) \/ KeyAt(log', x.call, x.seq)
  <2>1. CASE \E d \in Drivers : pc[d] \in {"finish", "blockturn"}
    <3>1. PICK y \in Issued : y.call = x.call /\ y.seq = x.seq
      BY <1>10, <2>1, OnlyIssues
    <3> QED BY <1>3, <1>5, <2>1, <3>1 DEF OneKey
  <2>2. CASE \A d \in Drivers : pc[d] \notin {"finish", "blockturn"}
    <3>1. Gone(log, x.call) \/ KeyAt(log, x.call, x.seq)
      BY <1>3, <1>6, OnlyIssues DEF OneKey
    <3> QED BY <1>5, <1>7, <2>2, <3>1
  <2> QED BY <2>1, <2>2
<1>12. ASSUME NEW d \in Drivers, pc'[d] \in {"finish", "blockturn"}, NEW x \in Issued'
       PROVE  Gone(log', x.call)
  <2>1. ASSUME pc[d] \in {"finish", "blockturn"} PROVE Gone(log', x.call)
    <3>1. PICK y \in Issued : y.call = x.call
      BY <1>10, <2>1, OnlyIssues
    <3> QED BY <1>3, <1>5, <2>1, <3>1 DEF OneKey
  <2>2. ASSUME Deliver(d) \/ FollowUp(d), NEW e, Stored(d, e) PROVE Gone(log', x.call)
    <3>1. /\ d \in Writers /\ Orderly(view[d]) /\ Ready(pc[d], view[d], out[d])
      BY ViewsOrderly DEF Poised, Writers
    <3>2. OpenRequests(view[d]) = {}
      BY <2>2, <3>1, Unasked DEF Deliver, FollowUp, Delivering, Ready, Orderly, Step, NextStep
    <3>3. view[d] = log
      BY <2>2, <3>2, FreshIsAll DEF Deliver, FollowUp, Deciding, Acting, Ended
    <3>4. Delivering(log) \/ Step(log) # "tool"
      BY <2>2, <3>1, <3>3 DEF Deliver, FollowUp, Ready, Step, NextStep
    <3>5. UNCHANGED <<running, executed>>
      BY <2>2 DEF Deliver, FollowUp, work
    <3>6. x \in Issued
      BY <3>5 DEF Issued
    <3>7. Gone(log, x.call)
      BY <1>3, <3>4, <3>6 DEF OneKey, KeyAt
    <3> QED BY <1>5, <3>7
  <2> QED BY <1>12, <2>1, <2>2, AtClose
<1> QED BY <1>9, <1>11, <1>12

\* Every execution of a call runs under the same idempotency key, by whichever
\* driver and from however stale a view, unless a failure was recorded: with any
\* number of drivers at once where nothing is delivered through a schema, under
\* leases in any case.
THEOREM KeysAreStable ==
    ASSUME UniqueIds, HasSchema => Leased /\ ~Stalls
    PROVE  Spec => []KeyStable
<1>1. CASE ~HasSchema
  BY <1>1, KeysWithoutSchema
<1>2. CASE Leased /\ ~Stalls
  <2>1. Init => OneKey
    BY DEF Init, OneKey, Issued, Writers
  <2>2. TypeInv /\ Synced /\ Poised /\ Alone /\ Fresh /\ OneKey /\ [Next]_vars
          => (Alone /\ Fresh /\ OneKey)'
    <3>1. UNCHANGED vars /\ Alone /\ Fresh /\ OneKey => (Alone /\ Fresh /\ OneKey)'
      BY DEF vars, Alone, Driving, Fresh, Acting, OneKey, Unfailed, Issued
    <3> QED BY <1>2, <3>1, AloneHolds, FreshHolds, OneKeyKept
  <2>3. OneKey => KeyStable
    BY DEF OneKey, Unfailed, KeyStable, Issued
  <2>4. Spec => []Poised
    BY PoisedHolds DEF UniqueIds
  <2> QED BY <2>1, <2>2, <2>3, <2>4, InitAlone, TypeInvHolds, SyncedHolds, PTL DEF Spec
<1> QED BY <1>1, <1>2

\* A human asked in this turn.
Sought(v) ==
    \E i \in At(v, {"approval_requested"}) :
        \A j \in At(v, {"user_message", "run_finished"}) : j < i

\* A driver at label l with view v has settled the turn, or asked for it.
Settled(l, v) ==
    /\ l = "pause" => Sought(v)
    /\ l \in {"return", "returned"} => FinishRecorded(v) \/ Sought(v)

AllSettled == \A d \in Drivers : Settled(pc[d], view[d])

LEMMA SoughtStays ==
    ASSUME NEW v, NEW w, Sought(v), Decided(v, w)
    PROVE  Sought(w)
<1>1. PICK i \in At(v, {"approval_requested"}) :
         \A j \in At(v, {"user_message", "run_finished"}) : j < i
  BY DEF Sought
<1>2. i \in At(w, {"approval_requested"})
  BY DEF At, Decided
<1>3. At(w, {"user_message", "run_finished"}) \subseteq At(v, {"user_message", "run_finished"})
  BY DEF At, Decided, Verdictal
<1> QED BY <1>1, <1>2, <1>3 DEF Sought

\* The last event decides that a turn is recorded as finished.
LEMMA FinishRecords ==
    ASSUME NEW v, NEW output, NEW w, Adds(v, RunFinished(output), w)
    PROVE  FinishRecorded(w)
<1> DEFINE e == RunFinished(output)
<1>1. e.type = "run_finished"
  BY EventTypes
<1>2. Last(At(w, {"schema_feedback", "user_message", "run_finished"})) = NextSeq(v)
  BY <1>1, AddsLast
<1>3. w[NextSeq(v)].type = "run_finished" /\ NextSeq(v) # -1
  BY <1>1 DEF Adds
<1> QED BY <1>2, <1>3 DEF FinishRecorded

LEMMA RequestSeeks ==
    ASSUME NEW v, NEW id, NEW w, Adds(v, ApprovalRequested(id), w)
    PROVE  Sought(w)
<1> DEFINE e == ApprovalRequested(id)
<1>1. e.type = "approval_requested"
  BY EventTypes
<1>2. NextSeq(v) \in At(w, {"approval_requested"})
  BY <1>1 DEF Adds, At
<1>3. \A j \in At(w, {"user_message", "run_finished"}) : j < NextSeq(v)
  BY <1>1, AddsAt
<1> QED BY <1>2, <1>3 DEF Sought

\* Where a driver's step leads, and what it has then seen.
LEMMA StepSettles ==
    ASSUME TypeInv, Synced, Poised, Fresh, AllSettled, NEW d \in Drivers,
           Drive(d) \/ Fault(d)
    PROVE  Settled(pc'[d], view'[d])
<1> DEFINE v == view[d]
<1>1. d \in Writers /\ EventList(v) /\ Orderly(v) /\ pc' \in [Writers -> Labels] /\ DOMAIN view = Writers
  BY ViewTyped, ViewsOrderly, StepTyped DEF Writers, Next, TypedStep, TypeInv, TypeOK, StoreTyped, Poised
<1>2. ASSUME NEW output, NEW l, l # "pause",
             Post(d, RunFinished(output), l) \/ PostOrRaise(d, RunFinished(output), l)
      PROVE  Settled(pc'[d], view'[d])
  <2>1. CASE Stored(d, RunFinished(output))
    <3>1. Adds(v, RunFinished(output), view'[d])
      BY <1>1, <2>1, StoredAdds
    <3>2. FinishRecorded(view'[d])
      BY <3>1, FinishRecords
    <3>3. pc'[d] # "pause"
      <4>1. Goto(d, l) \/ Goto(d, "reload") \/ Goto(d, "unwind")
        BY <1>2 DEF Post, PostOrRaise
      <4> QED BY <1>1, <1>2, <4>1, PcAfter
    <3> QED BY <3>2, <3>3 DEF Settled
  <2>2. CASE ~Stored(d, RunFinished(output))
    BY <1>1, <1>2, <2>2, PcAfter DEF Settled, Post, PostOrRaise
  <2> QED BY <2>1, <2>2
<1>3. CASE BlockTurn(d) \/ AcceptText(d) \/ FinishDelivery(d) \/ Veto(d)
  <2>1. LoopHead # "pause"
    BY DEF LoopHead
  <2> QED BY <1>2, <1>3, <2>1 DEF BlockTurn, AcceptText, FinishDelivery, Veto
<1>4. CASE Conclude(d)
  <2>1. CASE FinishRecorded(v)
    <3>1. view'[d] = v /\ pc'[d] = "return"
      BY <1>1, <1>4, <2>1, PcAfter DEF Conclude
    <3> QED BY <2>1, <3>1 DEF Settled
  <2>2. CASE ~FinishRecorded(v)
    BY <1>2, <1>4, <2>2 DEF Conclude
  <2> QED BY <2>1, <2>2
<1>5. CASE Await(d)
  <2> DEFINE id == NextCall(v).id
  <2>1. CASE HasApprovalRequest(v, id)
    <3>1. view'[d] = v /\ pc'[d] = "pause"
      BY <1>1, <1>5, <2>1, PcAfter DEF Await
    <3>2. Verdicts(v, id) = {}
      BY <1>5 DEF Await, ApprovalDecision
    <3>3. PICK i \in At(v, {"approval_requested"}) : v[i].call = id
      BY <2>1 DEF HasApprovalRequest
    <3>4. i \in OpenRequests(v)
      BY <3>2, <3>3 DEF OpenRequests
    <3>5. \A j \in At(v, {"user_message", "run_finished"}) : j < i
      BY <1>1, <3>4 DEF Orderly
    <3> QED BY <3>1, <3>3, <3>5 DEF Settled, Sought
  <2>2. CASE ~HasApprovalRequest(v, id)
    <3>1. Post(d, ApprovalRequested(id), "pause")
      BY <1>5, <2>2 DEF Await
    <3>2. CASE Stored(d, ApprovalRequested(id))
      BY <1>1, <3>2, StoredAdds, RequestSeeks DEF Settled
    <3>3. CASE ~Stored(d, ApprovalRequested(id))
      BY <1>1, <3>1, <3>3, PcAfter DEF Settled, Post
    <3> QED BY <3>2, <3>3
  <2> QED BY <2>1, <2>2
<1>6. CASE Pause(d)
  <2>1. view'[d] = log /\ pc'[d] = "return" /\ pc[d] = "pause"
    BY <1>1, <1>6, PcAfter DEF Pause, Load
  <2>2. Sought(v) /\ Decided(v, log)
    BY <2>1 DEF AllSettled, Settled, Fresh, Acting, Ended
  <2> QED BY <2>1, <2>2, SoughtStays DEF Settled
<1>7. CASE Leave(d)
  <2>1. view'[d] = v /\ (pc[d] = "return" \/ pc'[d] = "raised") /\ pc'[d] # "pause"
    BY <1>1, <1>7, PcAfter DEF Leave
  <2> QED BY <2>1 DEF AllSettled, Settled
<1>8. CASE \/ Open(d) \/ Begin(d) \/ FollowUp(d) \/ Renew(d) \/ Reload(d) \/ Recall(d)
           \/ CorrectText(d) \/ Deliver(d) \/ AskModel(d) \/ Propose(d) \/ Refuse(d)
           \/ Disown(d) \/ Intend(d) \/ Execute(d) \/ Complete(d) \/ Record(d) \/ Fault(d)
  <2>1. \E l \in Labels \ {"pause", "return", "returned"} : Goto(d, l)
    <3>1. {"begin", "followup", "unwind", "blockturn", "decide", "reload", "finish", "record",
           "execute", "broken", "crashed", LoopHead} \subseteq Labels \ {"pause", "return", "returned"}
      BY DEF Labels, Ended, LoopHead
    <3>2. CASE \/ Open(d) \/ Begin(d) \/ FollowUp(d) \/ Renew(d) \/ Reload(d) \/ Recall(d)
               \/ CorrectText(d) \/ Deliver(d)
      BY <3>1, <3>2 DEF Open, Begin, FollowUp, Renew, Reload, Recall, CorrectText, Deliver,
                        Post, PostOrRaise
    <3>3. CASE \/ AskModel(d) \/ Propose(d) \/ Refuse(d) \/ Disown(d) \/ Intend(d) \/ Execute(d)
               \/ Complete(d) \/ Record(d)
      BY <3>1, <3>3 DEF AskModel, Propose, Refuse, Disown, Intend, Execute, Complete, Record, Post
    <3>4. CASE Fault(d)
      BY <3>1, <3>4 DEF Fault, ModelRaises, ToolRaises, FailRun, Cancel, CancelShielded, Crash, StoreRaises
    <3> QED BY <1>8, <3>2, <3>3, <3>4
  <2>2. pc'[d] \notin {"pause", "return", "returned"}
    BY <1>1, <2>1, PcAfter
  <2> QED BY <2>2 DEF Settled
<1> QED BY <1>3, <1>4, <1>5, <1>6, <1>7, <1>8 DEF Drive, Enter, Loop

LEMMA SettledKept ==
    ASSUME TypeInv, Synced, Poised, Fresh, AllSettled, Next
    PROVE  AllSettled'
<1>1. \A d \in Drivers : d \in Writers
  BY DEF Writers
<1>2. ASSUME NEW d \in Drivers, Drive(d) \/ Fault(d) PROVE AllSettled'
  BY <1>1, <1>2, StepSettles, OthersRest DEF AllSettled
<1>3. ASSUME NEW d \in Drivers, Invoke(d) PROVE AllSettled'
  <2>1. pc'[d] \in {"raised", "load"}
    BY <1>1, <1>3, PcAfter DEF Invoke
  <2>2. Settled(pc'[d], view'[d])
    BY <2>1 DEF Settled
  <2> QED BY <1>1, <1>3, <2>2, OthersRest DEF AllSettled
<1>4. ASSUME NEW d \in Drivers, Effect(d) PROVE AllSettled'
  BY <1>4 DEF Effect, AllSettled
<1>5. ASSUME NEW h \in Humans, Human(h) PROVE AllSettled'
  BY <1>5, HumanStays DEF AllSettled
<1>6. CASE Lapse
  BY <1>6 DEF Lapse, AllSettled
<1> QED BY <1>2, <1>3, <1>4, <1>5, <1>6 DEF Next

\* A driver that returns has seen the turn recorded as finished, or a human
\* asked in this very turn: no result comes out of a half-done turn.
THEOREM ReturnsSettled ==
    ASSUME Leased, ~Stalls, DistinctIds
    PROVE  Spec => []ReturnedIsSettled
<1>1. Init => AllSettled
  BY DEF Init, AllSettled, Settled, Writers
<1>2. TypeInv /\ Synced /\ Poised /\ Alone /\ Fresh /\ AllSettled /\ [Next]_vars
        => (Alone /\ Fresh /\ AllSettled)'
  <2>1. UNCHANGED vars /\ Alone /\ Fresh /\ AllSettled => (Alone /\ Fresh /\ AllSettled)'
    BY DEF vars, Alone, Driving, Fresh, Acting, AllSettled
  <2> QED BY <2>1, AloneHolds, FreshHolds, SettledKept
<1>3. TypeInv /\ AllSettled => ReturnedIsSettled
  <2> SUFFICES ASSUME TypeInv, NEW d \in Drivers, FinishRecorded(view[d])
               PROVE  At(view[d], {"run_finished"}) # {}
    BY DEF AllSettled, Settled, Sought, ReturnedIsSettled, Status
  <2> DEFINE v == view[d]
             S == At(v, {"schema_feedback", "user_message", "run_finished"})
  <2>1. EventList(v)
    BY DEF TypeInv, TypeOK, StoreTyped, Writers
  <2>2. Last(S) # -1 /\ v[Last(S)].type = "run_finished"
    BY DEF FinishRecorded
  <2>3. S \subseteq Nat /\ S # {} /\ \A i \in S : i <= NextSeq(v)
    BY <2>1, <2>2 DEF At, EventList, Last
  <2>4. Last(S) \in S
    <3> HIDE DEF S, v
    <3> QED BY <2>1, <2>3, LastExists DEF EventList
  <2> QED BY <2>2, <2>4 DEF At
<1>4. Spec => []Poised
  BY PoisedHolds
<1> QED BY <1>1, <1>2, <1>3, <1>4, InitAlone, TypeInvHolds, SyncedHolds, PTL DEF Spec

-----------------------------------------------------------------------------
(* Under the lease: an irreversible call runs once.                        *)

\* An intent is some driver's own, and it is recorded.
Claimed ==
    /\ \A d \in Drivers : pc[d] = "idle" => mine[d] = {}
    /\ \A d \in Drivers : \A id \in mine[d] : \E i \in At(log, {"step_started"}) : log[i].call = id
    /\ \A d, e \in Drivers : d # e => mine[d] \cap mine[e] = {}

\* Only an intent that is stored adds to a driver's own.
LEMMA OnlyIntends ==
    ASSUME TypeInv, Next, ~UNCHANGED mine
    PROVE  \E d \in Drivers : Intend(d) /\ Stored(d, StepStarted(NextCall(view[d]).id))
                              /\ mine' = [mine EXCEPT ![d] = @ \cup {NextCall(view[d]).id}]
<1>1. ASSUME NEW h \in Humans, Human(h) PROVE FALSE
  BY <1>1 DEF Human, Review, Rule, Reconsider, Forsake, drivers
<1>2. ASSUME NEW d \in Drivers,
             \/ Invoke(d) \/ Enter(d) \/ Leave(d) \/ ModelRaises(d) \/ CancelShielded(d)
             \/ Renew(d) \/ Reload(d) \/ Recall(d) \/ AcceptText(d) \/ CorrectText(d)
             \/ Deliver(d) \/ FinishDelivery(d) \/ Veto(d) \/ Conclude(d) \/ AskModel(d)
             \/ Propose(d) \/ Refuse(d) \/ Await(d) \/ Pause(d) \/ Disown(d)
             \/ Execute(d) \/ Complete(d) \/ Record(d)
      PROVE  FALSE
  BY <1>2
     DEF Invoke, Enter, Open, Begin, FollowUp, BlockTurn, Leave, ModelRaises, CancelShielded,
         Renew, Reload, Recall, AcceptText, CorrectText, Deliver, FinishDelivery, Veto,
         Conclude, AskModel, Propose, Refuse, Await, Pause, Disown, Execute, Complete,
         Record, work
<1>3. ASSUME NEW d \in Drivers,
             ToolRaises(d) \/ Cancel(d) \/ Crash(d) \/ StoreRaises(d) \/ Effect(d)
      PROVE  FALSE
  BY <1>3 DEF ToolRaises, Cancel, Crash, StoreRaises, Effect
<1>4. ~Lapse
  BY DEF Lapse
<1>5. PICK d \in Drivers : Intend(d)
  BY <1>1, <1>2, <1>3, <1>4 DEF Next, Drive, Loop, Fault
<1> QED BY <1>5 DEF Intend

\* Once inside, a driver is never idle again.
LEMMA NeverIdle ==
    ASSUME TypeInv, NEW d \in Drivers, Drive(d) \/ Fault(d)
    PROVE  pc'[d] \notin {"idle", "load"}
<1>1. d \in Writers
  BY DEF Writers
<1>2. \E l \in Labels \ {"idle", "load"} : Goto(d, l)
  <2>1. Labels \ {"idle", "load"} =
          {"begin", "followup", "blockturn", "loop", "decide", "reload", "execute", "record",
           "finish", "pause", "return", "unwind", "broken", "deciding", "returned", "raised",
           "crashed"}
    BY DEF Labels, Ended
  <2>2. CASE Enter(d) \/ Leave(d) \/ Fault(d)
    BY <2>1, <2>2 DEF Enter, Open, Begin, FollowUp, BlockTurn, Leave, Fault, ModelRaises, ToolRaises,
                FailRun, Cancel, CancelShielded, Crash, StoreRaises, PostOrRaise, LoopHead
  <2>3. CASE Loop(d)
    BY <2>1, <2>3 DEF Loop, Renew, Reload, Recall, AcceptText, CorrectText, Deliver, FinishDelivery,
                Veto, Conclude, AskModel, Propose, Refuse, Await, Pause, Disown, Intend,
                Execute, Complete, Record, Post, LoopHead
  <2> QED BY <2>2, <2>3 DEF Drive
<1> QED BY <1>1, <1>2, PcAfter

\* What is handled alone, and cleared, waits for no human: it is decided with
\* the log in sight.
LEMMA ClearedSees ==
    ASSUME TypeInv, Synced, Poised, Fresh, NEW d \in Drivers, Deciding(d), Serial(view[d]),
           Cleared(view[d])
    PROVE  view[d] = log /\ NextCall(log).id \in PendingIds(log)
<1> DEFINE v == view[d]
<1>1. EventList(v) /\ Orderly(v)
  BY ViewTyped, ViewsOrderly DEF Writers, Poised
<1>2. Step(v) = "tool"
  BY DEF Serial
<1>3. OpenRequests(v) = {}
  BY <1>1, <1>2, Unasked DEF Cleared
<1>4. v = log
  BY <1>3, FreshIsAll DEF Deciding, Acting, Ended
<1> QED BY <1>1, <1>2, <1>4, StepTool, NextCallPending

\* No driver records an intent that another has recorded.
LEMMA IntendsAlone ==
    ASSUME UniqueIds, TypeInv, Synced, Poised, Fresh, Claimed, NEW d \in Drivers, Intend(d),
           NEW e \in Drivers
    PROVE  NextCall(view[d]).id \notin mine[e]
<1> DEFINE id == NextCall(view[d]).id
<1>1. view[d] = log /\ id \in PendingIds(log) /\ id \notin Started(log)
  BY ClearedSees DEF Intend
<1> SUFFICES ASSUME id \in mine[e] PROVE FALSE
  OBVIOUS
<1>2. PICK i \in At(log, {"step_started"}) : log[i].call = id
  BY DEF Claimed
<1>3. PICK j \in At(log, {"tool_result"}) : log[j].call = id
  BY <1>1, <1>2 DEF Started
<1>4. Gapless(log) /\ History(log) /\ NextSeq(log) \in 0..NextSeq(log)
      /\ Before(log, NextSeq(log)) = log
  <2>1. Gapless(log) /\ log = [n \in DOMAIN log |-> log[n]] /\ History(log)
    BY ViewsOrderly DEF Poised
  <2> QED BY <2>1, BeforeAll DEF Gapless, EventList
<1>5. j \in DOMAIN log /\ log[j].type = "tool_result" /\ j < NextSeq(log)
  BY <1>3, <1>4 DEF At, Gapless, EventList
<1>6. Gone(log, id)
  BY <1>3, <1>4, <1>5, AnsweredGone
<1> QED BY <1>1, <1>6 DEF Gone

LEMMA ClaimedKept ==
    ASSUME UniqueIds, TypeInv, Synced, Poised, Fresh, Claimed, Next
    PROVE  Claimed'
<1>1. mine \in [Drivers -> SUBSET CallIds] /\ pc \in [Writers -> Labels]
  BY DEF TypeInv, TypeOK, WorkTyped
<1>2. ASSUME NEW i \in At(log, {"step_started"})
      PROVE  i \in At(log', {"step_started"}) /\ log'[i] = log[i]
  <2>1. UNCHANGED log \/ \E e : Adds(log, e, log')
    BY LogStep DEF UniqueIds
  <2> QED BY <2>1 DEF Adds, At
<1>3. ASSUME NEW e \in Drivers, pc'[e] = "idle" PROVE pc[e] = "idle"
  <2>1. \A x \in Drivers : x \in Writers /\ x \notin Humans
    BY ActorsAssumption DEF Writers
  <2>2. ASSUME NEW d \in Drivers, Invoke(d) \/ Drive(d) \/ Effect(d) \/ Fault(d)
        PROVE  pc[e] = "idle"
    <3>1. CASE d # e
      BY <1>3, <2>1, <2>2, <3>1, OthersRest
    <3>2. CASE d = e
      <4>1. CASE Effect(d)
        BY <1>3, <3>2, <4>1 DEF Effect
      <4>2. CASE Invoke(d)
        BY <1>3, <2>1, <3>2, <4>2, PcAfter DEF Invoke
      <4>3. CASE Drive(d) \/ Fault(d)
        BY <1>3, <2>1, <3>2, <4>3, NeverIdle
      <4> QED BY <2>2, <4>1, <4>2, <4>3
    <3> QED BY <3>1, <3>2
  <2>3. ASSUME NEW h \in Humans, Human(h) PROVE pc[e] = "idle"
    BY <1>3, <2>3, HumanStays
  <2> QED BY <1>3, <2>2, <2>3 DEF Next, Lapse
<1>4. CASE UNCHANGED mine
  BY <1>2, <1>3, <1>4 DEF Claimed
<1>5. CASE ~UNCHANGED mine
  <2>1. PICK d \in Drivers :
           /\ Intend(d) /\ Stored(d, StepStarted(NextCall(view[d]).id))
           /\ mine' = [mine EXCEPT ![d] = @ \cup {NextCall(view[d]).id}]
    BY <1>5, OnlyIntends
  <2> DEFINE id == NextCall(view[d]).id
  <2>2. \A e \in Drivers : id \notin mine[e]
    BY <2>1, IntendsAlone
  <2>3. pc[d] # "idle" /\ mine'[d] = mine[d] \cup {id} /\ \A e \in Drivers : e # d => mine'[e] = mine[e]
    BY <1>1, <2>1 DEF Intend, Deciding
  <2>4. \E i \in At(log', {"step_started"}) : log'[i].call = id
    <3>1. NextSeq(view[d]) \in DOMAIN log' /\ log'[NextSeq(view[d])] = StepStarted(id)
      BY <2>1 DEF Stored, With
    <3> QED BY <3>1, EventTypes DEF At, StepStarted
  <2>5. \A e \in Drivers : \A c \in mine'[e] : \E i \in At(log', {"step_started"}) : log'[i].call = c
    BY <1>2, <2>3, <2>4 DEF Claimed
  <2>6. \A e, f \in Drivers : e # f => mine'[e] \cap mine'[f] = {}
    BY <2>2, <2>3 DEF Claimed
  <2>7. \A e \in Drivers : pc'[e] = "idle" => mine'[e] = {}
    BY <1>3, <2>3 DEF Claimed
  <2> QED BY <2>5, <2>6, <2>7 DEF Claimed
<1> QED BY <1>4, <1>5

\* d has a tool in flight for the call, or had it take effect.
Ran(d, id) ==
    \/ \E t \in running[d] : t.call = id
    \/ \E x \in executed : x.driver = d /\ x.call = id

\* d is between the dispatch of the call and the append of its result.
Handling(d, id) ==
    pc[d] \in {"execute", "record"} /\ Step(view[d]) = "tool" /\ NextCall(view[d]).id = id

\* An irreversible call that ran was intended by its driver, which has its
\* result in hand or on record for as long as it goes on.
Careful ==
    \A d \in Drivers : \A id \in IrreversibleCalls :
        Ran(d, id) =>
            /\ id \in mine[d]
            /\ pc[d] \notin {"idle", "load"}
            /\ Acting(d) => Handling(d, id) \/ Gone(view[d], id)

\* And ran once.
Single ==
    \A d \in Drivers : \A id \in IrreversibleCalls :
        /\ \A t, u \in running[d] : t.call = id /\ u.call = id => t = u
        /\ \A x, y \in executed :
              x.driver = d /\ y.driver = d /\ x.call = id /\ y.call = id => x = y
        /\ \A t \in running[d], x \in executed : ~(t.call = id /\ x.driver = d /\ x.call = id)

\* An id belongs to one tool.
LEMMA ToolOfId ==
    ASSUME UniqueIds, NEW v, EventList(v), NEW i \in DOMAIN CurrentCalls(v),
           CurrentCalls(v)[i].id \in IrreversibleCalls
    PROVE  CurrentCalls(v)[i].tool \in Irreversible
<1>1. CurrentCalls(v)[i] \in Calls
  <2>1. CurrentCalls(v) \in Seq(Calls)
    BY CurrentCallsType
  <2> QED BY <2>1
<1>2. PICK c \in Calls : c.tool \in Irreversible /\ c.id = CurrentCalls(v)[i].id
  BY DEF IrreversibleCalls
<1> QED BY <1>1, <1>2 DEF UniqueIds

\* An irreversible call is dispatched alone, and intended.
LEMMA DispatchedAlone ==
    ASSUME UniqueIds, TypeInv, NEW d \in Drivers, Execute(d), NEW t \in Tasks(view[d]),
           t.call \in IrreversibleCalls
    PROVE  /\ ~Parallel(view[d]) /\ Step(view[d]) = "tool"
           /\ t = [seq |-> NextSeq(view[d]), call |-> NextCall(view[d]).id]
           /\ t.call \in mine[d] /\ t.call \in PendingIds(view[d])
<1> DEFINE v == view[d]
<1>1. EventList(v) /\ Step(v) = "tool" /\ Tasks(v) \subseteq Task /\ NextSeq(v) \in Nat
  BY ViewTyped DEF Execute
<1>2. PICK i \in Batch(v) : t.call = CurrentCalls(v)[i].id /\ t.seq = NextSeq(v) + Place(Batch(v), i)
  BY TaskOfCall
<1>3. Pending(v) # {} /\ First(Pending(v)) \in Pending(v) /\ Pending(v) \subseteq Nat
  BY <1>1, StepTool, PendingType
<1>4. i \in Pending(v) /\ i \in DOMAIN CurrentCalls(v)
  BY <1>3 DEF Batch, Pending
<1>5. ToolAt(v, i) \in Irreversible
  BY <1>1, <1>2, <1>4, ToolOfId DEF ToolAt
<1>6. ~Parallel(v)
  BY <1>4, <1>5 DEF Parallel, CanParallelize
<1>7. i = First(Pending(v)) /\ Batch(v) = {i}
  BY <1>6 DEF Batch
<1>8. t.call = NextCall(v).id /\ NextCall(v).tool \in Irreversible
  BY <1>2, <1>5, <1>7 DEF NextCall, ToolAt
<1>9. t.seq = NextSeq(v)
  <2>1. {j \in {i} : j < i} = {}
    <3>1. i \in Nat
      BY <1>3, <1>4
    <3> QED BY <3>1
  <2>2. Place(Batch(v), i) = 0
    BY <1>7, <2>1, FS_EmptySet DEF Place
  <2> QED BY <1>1, <1>2, <2>2
<1>10. t.call \in mine[d]
  BY <1>6, <1>8 DEF Execute, IntentRecorded
<1>11. t = [seq |-> NextSeq(v), call |-> NextCall(v).id]
  BY <1>1, <1>8, <1>9 DEF Task
<1>12. t.call \in PendingIds(v)
  BY <1>2, <1>4 DEF PendingIds
<1> QED BY <1>1, <1>6, <1>10, <1>11, <1>12

\* What a driver has dealt with stays so in what it sees.
LEMMA ViewGrows ==
    ASSUME UniqueIds, TypeInv, Synced, Poised, NEW d \in Drivers, RightStep(d),
           NEW id, Gone(view[d], id)
    PROVE  Gone(view'[d], id)
<1> DEFINE v == view[d]
<1>1. d \in Writers /\ Gapless(log) /\ History(log) /\ log = [i \in DOMAIN log |-> log[i]]
      /\ EventList(v)
  BY ViewTyped, ViewsOrderly DEF Poised, Writers
<1>2. CASE Kept
  BY <1>2 DEF Kept
<1>3. CASE Load(d)
  <2>1. view'[d] = log
    BY <1>1, <1>3 DEF Load, TypeInv, TypeOK, StoreTyped
  <2>2. v = Before(log, NextSeq(v)) /\ NextSeq(v) \in 0..NextSeq(log)
    BY <1>1 DEF Synced
  <2>3. NextSeq(log) \in 0..NextSeq(log) /\ NextSeq(v) <= NextSeq(log)
    BY <2>2 DEF Synced
  <2>4. Gone(Before(log, NextSeq(log)), id)
    BY <1>1, <2>2, <2>3, GoneStays
  <2> QED BY <1>1, <2>1, <2>4, BeforeAll
<1>4. ASSUME NEW e \in EngineEvents, Rightful(v, e), Stored(d, e)
      PROVE  Gone(view'[d], id)
  BY <1>1, <1>4, StoredAdds, GoneKept
<1>5. ASSUME NEW e, Conflict(d, e)
      PROVE  Gone(view'[d], id)
  BY <1>5 DEF Conflict
<1> QED BY <1>2, <1>3, <1>4, <1>5 DEF RightStep, Rightly, Proper

\* Only a dispatch has a call run that had not.
LEMMA RunsByDispatch ==
    ASSUME TypeInv, Next, NEW d \in Drivers, NEW id, Ran(d, id)', ~Ran(d, id)
    PROVE  Execute(d) /\ \E t \in Tasks(view[d]) : t.call = id
<1>1. CASE \E t \in running'[d] : t.call = id
  <2>1. PICK t \in running'[d] : t.call = id
    BY <1>1
  <2>2. t \notin running[d]
    BY <2>1 DEF Ran
  <2>3. Execute(d)
    BY <2>2, OnlyDispatches
  <2> QED BY <2>1, <2>2, <2>3 DEF Execute, TypeInv, TypeOK, WorkTyped
<1>2. CASE \E x \in executed' : x.driver = d /\ x.call = id
  <2>1. PICK x \in executed' : x.driver = d /\ x.call = id
    BY <1>2
  <2>2. x \notin executed
    BY <2>1 DEF Ran
  <2>3. PICK e \in Drivers : Effect(e)
    BY <2>2, OnlyEffects
  <2>4. PICK t \in running[e] : x = [driver |-> e, seq |-> t.seq, call |-> t.call]
    BY <2>2, <2>3 DEF Effect
  <2>5. e = d /\ t.call = id
    BY <2>1, <2>4
  <2> QED BY <2>4, <2>5 DEF Ran
<1> QED BY <1>1, <1>2 DEF Ran

LEMMA MineGrows ==
    ASSUME TypeInv, Next, NEW d \in Drivers
    PROVE  mine[d] \subseteq mine'[d]
BY OnlyIntends DEF TypeInv, TypeOK, WorkTyped

\* Handling a call ends with its result on record.
LEMMA HandlingEnds ==
    ASSUME UniqueIds, TypeInv, Synced, Poised, Fresh, NEW d \in Drivers, Drive(d) \/ Fault(d),
           NEW id, Handling(d, id), Acting(d)'
    PROVE  Handling(d, id)' \/ Gone(view'[d], id)
<1> DEFINE v == view[d]
<1>1. /\ d \in Writers /\ EventList(v) /\ Named(v) /\ Ready(pc[d], v, out[d])
      /\ id \in PendingIds(v) /\ DOMAIN view = Writers
  <2>1. d \in Writers /\ EventList(v) /\ Gapless(log) /\ History(log)
    BY ViewTyped, ViewsOrderly DEF Poised, Writers
  <2>2. NextSeq(v) \in 0..NextSeq(log) /\ v = Before(log, NextSeq(v))
    BY <2>1 DEF Synced
  <2>3. Named(v)
    BY <2>1, <2>2, HistoryNamed
  <2>4. id \in PendingIds(v)
    BY <2>1, StepTool, NextCallPending DEF Handling
  <2> QED BY <2>1, <2>3, <2>4 DEF Poised, TypeInv, TypeOK, StoreTyped
<1>2. pc'[d] \notin {"unwind", "broken", "crashed"}
  BY DEF Acting, Ended
<1>3. \/ Complete(d) \/ Record(d) \/ ToolRaises(d) \/ StoreRaises(d) \/ Cancel(d)
      \/ CancelShielded(d) \/ Crash(d)
  BY HeadLabel
     DEF Drive, Enter, Loop, Fault, Open, Begin, FollowUp, BlockTurn, Renew, Reload, Recall,
         AcceptText, CorrectText, Deliver, FinishDelivery, Veto, Conclude, AskModel,
         Propose, Refuse, Await, Pause, Disown, Intend, Execute, Leave, ModelRaises,
         Deciding, Handling
<1>4. ~ToolRaises(d) /\ ~StoreRaises(d) /\ ~Cancel(d) /\ ~CancelShielded(d) /\ ~Crash(d)
  <2>1. ~Goto(d, "unwind") /\ ~Goto(d, "broken") /\ ~Goto(d, "crashed")
    BY <1>1, <1>2, PcAfter
  <2> QED BY <2>1 DEF ToolRaises, FailRun, Cancel, CancelShielded, Crash, StoreRaises
<1>5. CASE Complete(d)
  <2>1. pc'[d] = "record" /\ view' = view
    BY <1>1, <1>5, PcAfter DEF Complete
  <2> QED BY <2>1 DEF Handling
<1>6. CASE Record(d)
  <2> DEFINE e == NextOut(d)
  <2>1. Outgoing(v, out[d])
    BY <1>1, <1>6 DEF Record, Ready
  <2>2. OpenRequests(v) = {} /\ e.type = "tool_result" /\ e.call = id
    <3>1. PICK B \in {Pending(v), {First(Pending(v))}} : Numbered(out[d], v, B)
      BY <2>1 DEF Outgoing, Handling
    <3>2. OpenRequests(v) = {}
      BY <2>1 DEF Outgoing, Handling
    <3>3. e.type = "tool_result" /\ e.call = NextCall(v).id
      BY <1>1, <3>1, StepTool, NumberedFirst DEF NextOut, Handling
    <3> QED BY <3>2, <3>3 DEF Handling
  <2>3. ~Conflict(d, e)
    <3>1. v = log
      BY <1>6, <2>2, FreshIsAll DEF Record, Acting, Ended
    <3>2. NextSeq(log) \notin DOMAIN log
      BY DEF Synced
    <3> QED BY <3>1, <3>2 DEF Conflict
  <2>4. Adds(v, e, view'[d])
    BY <1>1, <1>6, <2>3, StoredAdds DEF Record
  <2>5. id \notin PendingIds(view'[d])
    BY <2>2, <2>4, AddsResult
  <2>6. AskedFor(v, id)
    BY <1>1 DEF Named, PendingIds, Pending
  <2> QED BY <1>1, <2>4, <2>5, <2>6, AskedForKept DEF Gone
<1> QED BY <1>3, <1>4, <1>5, <1>6

LEMMA CarefulKept ==
    ASSUME UniqueIds, TypeInv, Synced, Poised, Fresh, Careful, Next
    PROVE  Careful'
<1> SUFFICES ASSUME NEW d \in Drivers, NEW id \in IrreversibleCalls, Ran(d, id)'
             PROVE  /\ id \in mine'[d]
                    /\ pc'[d] \notin {"idle", "load"}
                    /\ Acting(d)' => Handling(d, id)' \/ Gone(view'[d], id)
  BY DEF Careful, Gone, AskedFor
<1>1. d \in Writers /\ d \notin Humans
  BY ActorsAssumption DEF Writers
<1>2. CASE ~Ran(d, id)
  <2>1. PICK t \in Tasks(view[d]) : Execute(d) /\ t.call = id
    BY <1>2, RunsByDispatch
  <2>2. Step(view[d]) = "tool" /\ NextCall(view[d]).id = id /\ id \in mine[d]
    BY <2>1, DispatchedAlone
  <2>3. pc'[d] = "execute" /\ view' = view /\ mine' = mine
    BY <1>1, <2>1, PcAfter DEF Execute
  <2> QED BY <2>2, <2>3 DEF Handling
<1>3. CASE Ran(d, id)
  <2>1. /\ id \in mine[d] /\ pc[d] \notin {"idle", "load"}
        /\ Acting(d) => Handling(d, id) \/ Gone(view[d], id)
    BY <1>3 DEF Careful
  <2>2. id \in mine'[d]
    BY <2>1, MineGrows
  <2>3. CASE pc'[d] = pc[d] /\ view'[d] = view[d]
    BY <2>1, <2>2, <2>3 DEF Acting, Handling
  <2>4. CASE Drive(d) \/ Fault(d)
    <3>1. pc'[d] \notin {"idle", "load"}
      BY <2>4, NeverIdle
    <3> SUFFICES ASSUME Acting(d)' PROVE Handling(d, id)' \/ Gone(view'[d], id)
      BY <2>2, <3>1
    <3>2. Acting(d)
      <4>1. Acting(d) \/ Open(d)
        BY <2>4, LoadsFirst
      <4> QED BY <2>1, <4>1 DEF Open
    <3>3. CASE Handling(d, id)
      BY <2>4, <3>3, HandlingEnds
    <3>4. CASE Gone(view[d], id)
      <4>1. RightStep(d)
        BY <2>4, DriverRight DEF UniqueIds
      <4> QED BY <3>4, <4>1, ViewGrows
    <3> QED BY <2>1, <3>2, <3>3, <3>4
  <2>5. ASSUME NEW e \in Drivers, e # d, Invoke(e) \/ Drive(e) \/ Effect(e) \/ Fault(e)
        PROVE  pc'[d] = pc[d] /\ view'[d] = view[d]
    BY <1>1, <2>5, OthersRest
  <2>6. ASSUME NEW h \in Humans, Human(h)
        PROVE  pc'[d] = pc[d] /\ view'[d] = view[d]
    BY <2>6, HumanStays
  <2>7. CASE Effect(d) \/ Lapse
    BY <2>3, <2>7 DEF Effect, Lapse
  <2>8. ~Invoke(d)
    BY <2>1 DEF Invoke
  <2> QED BY <2>3, <2>4, <2>5, <2>6, <2>7, <2>8 DEF Next
<1> QED BY <1>2, <1>3

LEMMA SingleKept ==
    ASSUME UniqueIds, TypeInv, Careful, Single, Next
    PROVE  Single'
<1> SUFFICES ASSUME NEW d \in Drivers, NEW id \in IrreversibleCalls
             PROVE  /\ \A t, u \in running'[d] : t.call = id /\ u.call = id => t = u
                    /\ \A x, y \in executed' :
                         x.driver = d /\ y.driver = d /\ x.call = id /\ y.call = id => x = y
                    /\ \A t \in running'[d], x \in executed' :
                         ~(t.call = id /\ x.driver = d /\ x.call = id)
  BY DEF Single
<1>1. running \in [Drivers -> SUBSET Task]
  BY DEF TypeInv, TypeOK, WorkTyped
<1>2. /\ \A t, u \in running[d] : t.call = id /\ u.call = id => t = u
      /\ \A x, y \in executed :
           x.driver = d /\ y.driver = d /\ x.call = id /\ y.call = id => x = y
      /\ \A t \in running[d], x \in executed : ~(t.call = id /\ x.driver = d /\ x.call = id)
  BY DEF Single
<1>3. CASE UNCHANGED executed /\ running'[d] \subseteq running[d]
  BY <1>2, <1>3
<1>4. ASSUME NEW e \in Drivers, Effect(e)
      PROVE  /\ \A t, u \in running'[d] : t.call = id /\ u.call = id => t = u
             /\ \A x, y \in executed' :
                  x.driver = d /\ y.driver = d /\ x.call = id /\ y.call = id => x = y
             /\ \A t \in running'[d], x \in executed' :
                  ~(t.call = id /\ x.driver = d /\ x.call = id)
  <2>1. PICK s \in running[e] :
           /\ running' = [running EXCEPT ![e] = @ \ {s}]
           /\ executed' = executed \cup {[driver |-> e, seq |-> s.seq, call |-> s.call]}
    BY <1>4 DEF Effect
  <2> DEFINE z == [driver |-> e, seq |-> s.seq, call |-> s.call]
  <2>2. z.driver = e /\ z.call = s.call
    OBVIOUS
  <2>3. executed' = executed \cup {z}
    BY <2>1
  <2> HIDE DEF z
  <2>4. CASE e # d
    <3>1. running'[d] = running[d] /\ z.driver # d
      BY <1>1, <2>1, <2>2, <2>4
    <3> QED BY <1>2, <2>3, <3>1
  <2>5. CASE e = d
    <3>1. running'[d] = running[d] \ {s} /\ s \in running[d]
      BY <1>1, <2>1, <2>5
    <3>2. CASE s.call # id
      BY <1>2, <2>2, <2>3, <3>1, <3>2
    <3>3. CASE s.call = id
      <4>1. \A t \in running'[d] : t.call # id
        BY <1>2, <3>1, <3>3
      <4>2. \A x \in executed : ~(x.driver = d /\ x.call = id)
        BY <1>2, <3>1, <3>3
      <4> QED BY <2>3, <4>1, <4>2
    <3> QED BY <3>2, <3>3
  <2> QED BY <2>4, <2>5
<1>5. CASE Execute(d)
  <2>1. UNCHANGED executed /\ running'[d] \subseteq running[d] \cup Tasks(view[d])
    BY <1>1, <1>5 DEF Execute
  <2>2. ASSUME NEW t \in Tasks(view[d]), t.call = id
        PROVE  /\ t = [seq |-> NextSeq(view[d]), call |-> NextCall(view[d]).id]
               /\ ~Ran(d, id)
    <3>1. /\ t = [seq |-> NextSeq(view[d]), call |-> NextCall(view[d]).id]
          /\ id \in PendingIds(view[d])
      BY <1>5, <2>2, DispatchedAlone
    <3>2. pc[d] = "decide"
      BY <1>5 DEF Execute, Deciding
    <3>3. ~Handling(d, id) /\ ~Gone(view[d], id) /\ Acting(d)
      BY <3>1, <3>2 DEF Handling, Gone, Acting, Ended
    <3>4. ~Ran(d, id)
      BY <3>3 DEF Careful
    <3> QED BY <3>1, <3>4
  <2>3. CASE \E t \in Tasks(view[d]) : t.call = id
    <3>1. ~Ran(d, id)
      BY <2>2, <2>3
    <3>2. (\A t \in running[d] : t.call # id) /\ \A x \in executed : ~(x.driver = d /\ x.call = id)
      BY <3>1 DEF Ran
    <3>3. \A t \in running'[d] : t.call = id => t \in Tasks(view[d])
      BY <2>1, <3>2
    <3>4. \A t, u \in running'[d] : t.call = id /\ u.call = id => t = u
      BY <2>2, <3>3
    <3> QED BY <2>1, <3>2, <3>4
  <2>4. CASE ~ \E t \in Tasks(view[d]) : t.call = id
    <3>1. \A t \in running'[d] : t.call = id => t \in running[d]
      BY <2>1, <2>4
    <3> QED BY <1>2, <2>1, <3>1
  <2> QED BY <2>3, <2>4
<1>6. CASE ~Execute(d) /\ ~ \E e \in Drivers : Effect(e)
  <2>1. UNCHANGED executed /\ running'[d] \subseteq running[d]
    BY <1>6, OnlyEffects, OnlyDispatches
  <2> QED BY <1>3, <2>1
<1> QED BY <1>4, <1>5, <1>6

\* What is known of intents and of what they led to.
LEMMA CarefulHolds ==
    ASSUME Leased, ~Stalls, UniqueIds
    PROVE  Spec => [](Alone /\ Fresh /\ Claimed /\ Careful /\ Single)
<1>0. DistinctIds
  BY DEF UniqueIds
<1>1. Init => Claimed /\ Careful /\ Single
  BY DEF Init, Claimed, Careful, Single, Ran
<1>2. TypeInv /\ Synced /\ Poised /\ Alone /\ Fresh /\ Claimed /\ Careful /\ Single /\ [Next]_vars
        => (Alone /\ Fresh /\ Claimed /\ Careful /\ Single)'
  <2>1. UNCHANGED vars /\ Alone /\ Fresh /\ Claimed /\ Careful /\ Single
          => (Alone /\ Fresh /\ Claimed /\ Careful /\ Single)'
    BY DEF vars, Alone, Driving, Fresh, Acting, Claimed, Careful, Single, Ran, Handling, Gone,
           AskedFor
  <2> QED BY <2>1, AloneHolds, FreshHolds, ClaimedKept, CarefulKept, SingleKept
<1>3. Spec => []Poised
  BY <1>0, PoisedHolds
<1> QED BY <1>1, <1>2, <1>3, InitAlone, TypeInvHolds, SyncedHolds, PTL DEF Spec

\* An irreversible tool takes effect at most once for a call, over any number
\* of crashes, cancellations, timeouts, failures and resumes.
THEOREM RunsOnce ==
    ASSUME Leased, ~Stalls, UniqueIds
    PROVE  Spec => []IrreversibleOnce
<1>1. TypeInv /\ Claimed /\ Careful /\ Single => IrreversibleOnce
  <2> SUFFICES ASSUME TypeInv, Claimed, Careful, Single, NEW id \in IrreversibleCalls
               PROVE  Cardinality({x \in executed : x.call = id}) <= 1
    BY DEF IrreversibleOnce
  <2> DEFINE S == {x \in executed : x.call = id}
  <2>1. ASSUME NEW x \in S, NEW y \in S PROVE x = y
    <3>1. x.driver \in Drivers /\ y.driver \in Drivers
      BY DEF TypeInv, TypeOK, WorkTyped
    <3>2. id \in mine[x.driver] /\ id \in mine[y.driver]
      BY <3>1 DEF Careful, Ran
    <3>3. x.driver = y.driver
      BY <3>1, <3>2 DEF Claimed
    <3> QED BY <3>1, <3>3 DEF Single
  <2>2. S = {} \/ \E x : S = {x}
    BY <2>1
  <2>3. Cardinality(S) \in {0, 1}
    <3> HIDE DEF S
    <3> QED BY <2>2, FS_EmptySet, FS_Singleton
  <2> QED BY <2>3
<1> QED BY <1>1, CarefulHolds, TypeInvHolds, PTL

-----------------------------------------------------------------------------
(* Under the lease: only an orphan is disowned.                            *)

LEMMA OrphansKept ==
    ASSUME UniqueIds, "unknown_outcome" \notin Contents, TypeInv, Synced, Poised, Alone, Fresh,
           Claimed, OnlyOrphansDisowned, Next
    PROVE  OnlyOrphansDisowned'
<1> SUFFICES ASSUME NEW i \in At(log', {"tool_result"}), log'[i].content = "unknown_outcome",
                    NEW d \in Drivers, log'[i].call \in mine'[d], Driving(d)'
             PROVE  FALSE
  BY DEF OnlyOrphansDisowned
<1>1. d \in Writers /\ d \notin Humans
  BY ActorsAssumption DEF Writers
<1>2. Driving(d)
  <2>1. ASSUME NEW e \in Drivers, Drive(e) \/ Fault(e) PROVE Driving(d)
    <3>1. CASE e = d
      BY <2>1, <3>1, DriverSteps
    <3>2. CASE e # d
      BY <1>1, <2>1, <3>2, OthersRest DEF Driving
    <3> QED BY <3>1, <3>2
  <2>2. ASSUME NEW e \in Drivers, Invoke(e) PROVE Driving(d)
    <3>1. CASE e = d
      <4>1. mine' = mine /\ log' = log /\ mine[d] = {}
        BY <2>2, <3>1 DEF Invoke, work, Claimed
      <4> QED BY <4>1
    <3>2. CASE e # d
      BY <1>1, <2>2, <3>2, OthersRest DEF Driving
    <3> QED BY <3>1, <3>2
  <2>3. ASSUME NEW h \in Humans, Human(h) PROVE Driving(d)
    BY <2>3, HumanStays DEF Driving
  <2>4. CASE Lapse \/ \E e \in Drivers : Effect(e)
    BY <2>4 DEF Lapse, Effect, Driving
  <2> QED BY <2>1, <2>2, <2>3, <2>4 DEF Next
<1>3. mine'[d] = mine[d] \/ \E e \in Drivers :
        /\ Intend(e) /\ Stored(e, StepStarted(NextCall(view[e]).id))
        /\ mine'[d] = mine[d] \cup {NextCall(view[e]).id}
        /\ view[e] = log /\ NextCall(view[e]).id \in PendingIds(log)
  <2> SUFFICES ASSUME mine'[d] # mine[d]
               PROVE  \E e \in Drivers :
                        /\ Intend(e) /\ Stored(e, StepStarted(NextCall(view[e]).id))
                        /\ mine'[d] = mine[d] \cup {NextCall(view[e]).id}
                        /\ view[e] = log /\ NextCall(view[e]).id \in PendingIds(log)
    OBVIOUS
  <2>1. PICK e \in Drivers :
           /\ Intend(e) /\ Stored(e, StepStarted(NextCall(view[e]).id))
           /\ mine' = [mine EXCEPT ![e] = @ \cup {NextCall(view[e]).id}]
    BY OnlyIntends
  <2>2. e = d /\ mine'[d] = mine[d] \cup {NextCall(view[e]).id}
    BY <2>1 DEF TypeInv, TypeOK, WorkTyped
  <2>3. view[e] = log /\ NextCall(view[e]).id \in PendingIds(log)
    BY <2>1, ClearedSees DEF Intend
  <2> QED BY <2>1, <2>2, <2>3
<1>4. CASE i \in DOMAIN log
  <2>1. log'[i] = log[i]
    <3>1. UNCHANGED log \/ \E e : Adds(log, e, log')
      BY LogStep DEF UniqueIds
    <3> QED BY <1>4, <3>1 DEF Adds
  <2>2. log[i].call \notin mine[d] /\ log[i].type = "tool_result"
    BY <1>2, <1>4, <2>1 DEF OnlyOrphansDisowned, At
  <2>3. log[i].call \in PendingIds(log)
    BY <1>3, <2>1, <2>2
  <2>4. Gapless(log) /\ log = [n \in DOMAIN log |-> log[n]] /\ History(log)
    BY ViewsOrderly DEF Poised
  <2>5. NextSeq(log) \in 0..NextSeq(log) /\ i < NextSeq(log)
    BY <1>4, <2>4 DEF Gapless, EventList
  <2>6. Gone(log, log[i].call)
    BY <1>4, <2>2, <2>4, <2>5, AnsweredGone, BeforeAll
  <2> QED BY <2>3, <2>6 DEF Gone
<1>5. CASE i \notin DOMAIN log
  <2>1. i \in DOMAIN log' /\ log' # log /\ log'[i].type = "tool_result"
    BY <1>5 DEF At
  <2>2. ASSUME NEW h \in Humans, Human(h) PROVE FALSE
    <3>1. PICK e \in Verdicted, seq \in Nat : log' = With(log, seq, e)
      BY <2>1, <2>2, HumanStays
    <3>2. log'[i] = e
      BY <1>5, <2>1, <3>1 DEF With
    <3> QED BY <2>1, <3>1, <3>2 DEF Verdicted, Verdict
  <2>3. ASSUME NEW e \in Drivers, Drive(e) \/ Fault(e) PROVE FALSE
    <3>1. e = d
      BY <1>2, <2>3, DriverSteps DEF Alone
    <3>2. RightStep(d)
      BY <2>3, <3>1, DriverRight DEF UniqueIds
    <3>3. PICK x \in EngineEvents : Proper(d, x) /\ Stored(d, x)
      BY <2>1, <3>2 DEF RightStep, Rightly, Kept, Load, Conflict
    <3>4. Adds(log, x, log') /\ log'[i] = x
      BY <1>1, <1>5, <2>1, <3>3, StoredAdds DEF Adds
    <3>5. x.call \notin mine[d]
      BY <2>1, <3>3, <3>4 DEF Proper
    <3>6. PICK f \in Drivers : Stored(f, StepStarted(NextCall(view[f]).id)) /\ view[f] = log
      BY <1>3, <3>4, <3>5
    <3>7. Adds(log, StepStarted(NextCall(view[f]).id), log')
      BY <2>1, <3>6, StoredAdds DEF Writers
    <3>8. log'[i] = StepStarted(NextCall(view[f]).id)
      BY <1>5, <2>1, <3>7 DEF Adds
    <3> QED BY <2>1, <3>8, EventTypes
  <2>4. ASSUME NEW e \in Drivers, Invoke(e) \/ Effect(e) PROVE FALSE
    BY <2>1, <2>4 DEF Invoke, Effect
  <2>5. ~Lapse
    BY <2>1 DEF Lapse
  <2> QED BY <2>2, <2>3, <2>4, <2>5 DEF Next
<1> QED BY <1>4, <1>5

\* An intent is given up as of unknown outcome only when whoever recorded it has
\* stopped driving, provided that no tool itself answers so.
THEOREM OrphansOnly ==
    ASSUME Leased, ~Stalls, UniqueIds, "unknown_outcome" \notin Contents
    PROVE  Spec => []OnlyOrphansDisowned
<1>0. DistinctIds
  BY DEF UniqueIds
<1>1. Init => OnlyOrphansDisowned
  BY DEF Init, OnlyOrphansDisowned, At, EmptyLog
<1>2. TypeInv /\ Synced /\ Poised /\ Alone /\ Fresh /\ Claimed /\ OnlyOrphansDisowned /\ [Next]_vars
        => OnlyOrphansDisowned'
  <2> SUFFICES ASSUME TypeInv, Synced, Poised, Alone, Fresh, Claimed, OnlyOrphansDisowned,
                      [Next]_vars
               PROVE  OnlyOrphansDisowned'
    OBVIOUS
  <2>1. CASE UNCHANGED vars
    <3>1. log' = log /\ pc' = pc /\ mine' = mine
      BY <2>1 DEF vars
    <3> QED BY <3>1 DEF OnlyOrphansDisowned, Driving, At
  <2>2. CASE Next
    BY <2>2, OrphansKept
  <2> QED BY <2>1, <2>2
<1>3. Spec => []Poised
  BY <1>0, PoisedHolds
<1> QED BY <1>1, <1>2, <1>3, CarefulHolds, TypeInvHolds, SyncedHolds, PTL DEF Spec

-----------------------------------------------------------------------------
(* Under the lease: a refused message is never put to the model.           *)

\* A refused message is the last one only in a turn that is closed, or about
\* to be, or left open by a process that died.
Refused ==
    LastMessage(log) \cap BlockedInputs # {} =>
        \/ FinishRecorded(log)
        \/ \E d \in Drivers : pc[d] \in {"blockturn", "crashed"} /\ ask[d] \in BlockedInputs

BlockAsked == \A d \in Drivers : pc[d] = "blockturn" => ask[d] \in BlockedInputs

\* What an event does to the messages and to the record of the turn's end.
LEMMA AddsMessage ==
    ASSUME NEW v, NEW e, NEW w, Adds(v, e, w)
    PROVE  /\ e.type = "user_message" => LastMessage(w) = {e.input}
           /\ e.type # "user_message" => LastMessage(w) = LastMessage(v)
           /\ e.type \notin {"schema_feedback", "user_message", "run_finished"}
                => (FinishRecorded(w) <=> FinishRecorded(v))
<1>1. ASSUME e.type = "user_message" PROVE LastMessage(w) = {e.input}
  <2>1. Last(At(w, {"user_message"})) = NextSeq(v)
    BY <1>1, AddsLast
  <2>2. At(w, {"user_message"}) # {}
    BY <1>1, AddsAt
  <2> QED BY <2>1, <2>2 DEF LastMessage, Adds
<1>2. ASSUME e.type # "user_message" PROVE LastMessage(w) = LastMessage(v)
  <2> DEFINE S == At(v, {"user_message"})
  <2>1. At(w, {"user_message"}) = S
    BY <1>2, AddsAt
  <2>2. S # {} => w[Last(S)] = v[Last(S)]
    <3> SUFFICES ASSUME S # {} PROVE w[Last(S)] = v[Last(S)]
      OBVIOUS
    <3>1. S \subseteq Nat /\ S \subseteq DOMAIN v /\ \A i \in S : i <= NextSeq(v)
      BY DEF At, Adds
    <3>2. Last(S) \in S
      <4> HIDE DEF S
      <4> QED BY <3>1, LastExists DEF Adds
    <3> QED BY <3>1, <3>2 DEF Adds
  <2> QED BY <2>1, <2>2 DEF LastMessage
<1>3. ASSUME e.type \notin {"schema_feedback", "user_message", "run_finished"}
      PROVE  FinishRecorded(w) <=> FinishRecorded(v)
  <2> DEFINE S == At(v, {"schema_feedback", "user_message", "run_finished"})
  <2>1. At(w, {"schema_feedback", "user_message", "run_finished"}) = S
    BY <1>3, AddsAt
  <2>2. S \subseteq DOMAIN v
    BY DEF At
  <2>3. Last(S) # -1 => w[Last(S)] = v[Last(S)]
    <3> HIDE DEF S
    <3> QED BY <2>2, LastIsThere
  <2> QED BY <2>1, <2>3 DEF FinishRecorded
<1> QED BY <1>1, <1>2, <1>3

\* What a driver was asked is settled when it is invoked.
LEMMA AskStays ==
    ASSUME TypeInv, Next, NEW e \in Drivers, pc[e] # "idle"
    PROVE  ask'[e] = ask[e]
<1>1. ASSUME NEW h \in Humans, Human(h) PROVE UNCHANGED ask
  BY <1>1 DEF Human, Review, Rule, Reconsider, Forsake, drivers
<1>2. ASSUME NEW d \in Drivers, Enter(d) \/ Leave(d) \/ Fault(d) \/ Effect(d) PROVE UNCHANGED ask
  BY <1>2
     DEF Enter, Open, Begin, FollowUp, BlockTurn, Leave, Fault, ModelRaises, ToolRaises, Cancel,
         CancelShielded, Crash, StoreRaises, Effect
<1>3. ASSUME NEW d \in Drivers, Loop(d) PROVE UNCHANGED ask
  BY <1>3
     DEF Loop, Renew, Reload, Recall, AcceptText, CorrectText, Deliver, FinishDelivery,
         Veto, Conclude, AskModel, Propose, Refuse, Await, Pause, Disown, Intend, Execute,
         Complete, Record
<1>4. ASSUME NEW d \in Drivers, Invoke(d) PROVE ask'[e] = ask[e]
  BY <1>4 DEF Invoke, TypeInv, TypeOK, WorkTyped
<1>5. CASE Lapse
  BY <1>5 DEF Lapse
<1> QED BY <1>1, <1>2, <1>3, <1>4, <1>5 DEF Next, Drive

\* A driver about to refuse a message records that, or dies.
LEMMA AtBlock ==
    ASSUME ~MayCancel, StoreFailsFor = {}, TypeInv, Next, NEW e \in Drivers,
           pc[e] \in {"blockturn", "crashed"}
    PROVE  pc'[e] = pc[e] \/ (pc[e] = "blockturn" /\ (BlockTurn(e) \/ pc'[e] = "crashed"))
<1>1. e \in Writers
  BY DEF Writers
<1>2. ASSUME NEW d \in Drivers, d # e, Invoke(d) \/ Drive(d) \/ Effect(d) \/ Fault(d)
      PROVE  pc'[e] = pc[e]
  BY <1>1, <1>2, OthersRest
<1>3. ASSUME NEW h \in Humans, Human(h) PROVE pc'[e] = pc[e]
  BY <1>3, HumanStays
<1>4. CASE Lapse \/ Effect(e)
  BY <1>4 DEF Lapse, Effect
<1>5. CASE Drive(e) \/ Fault(e)
  <2>1. pc[e] = "blockturn"
    BY <1>5, DriverSteps DEF Driving, Ended
  <2>2. BlockTurn(e) \/ Crash(e)
    BY <1>5, <2>1
       DEF Drive, Enter, Loop, Fault, Open, Begin, FollowUp, Renew, Reload, Recall,
           AcceptText, CorrectText, Deliver, FinishDelivery, Veto, Conclude, AskModel,
           Propose, Refuse, Await, Pause, Disown, Intend, Execute, Complete, Record,
           Leave, ModelRaises, ToolRaises, StoreRaises, Cancel, CancelShielded, Deciding
  <2>3. Crash(e) => pc'[e] = "crashed"
    BY <1>1, PcAfter DEF Crash
  <2> QED BY <2>1, <2>2, <2>3
<1>6. ~Invoke(e)
  BY DEF Invoke
<1> QED BY <1>2, <1>3, <1>4, <1>5, <1>6 DEF Next

\* It closes the turn, since no one has been there before it.
LEMMA BlockCloses ==
    ASSUME TypeInv, Synced, Poised, Fresh, NEW e \in Drivers, BlockTurn(e)
    PROVE  FinishRecorded(log')
<1> DEFINE v == view[e]
<1>1. e \in Writers /\ Orderly(v) /\ Ready(pc[e], v, out[e]) /\ pc[e] = "blockturn"
  BY ViewsOrderly DEF Poised, Writers, BlockTurn
<1>2. OpenRequests(v) = {}
  BY <1>1 DEF Ready, Orderly
<1>3. v = log
  BY <1>1, <1>2, FreshIsAll DEF Acting, Ended
<1>4. NextSeq(log) \notin DOMAIN log
  BY DEF Synced
<1>5. Stored(e, RunFinished("blocked"))
  BY <1>3, <1>4 DEF BlockTurn, PostOrRaise, Conflict
<1>6. NextSeq(log) \in DOMAIN log'
  BY <1>3, <1>5 DEF Stored, With
<1>7. Adds(log, RunFinished("blocked"), log')
  BY <1>1, <1>4, <1>5, <1>6, StoredAdds
<1> QED BY <1>7, FinishRecords

\* Only a follow-up adds a message.
LEMMA OnlyFollowUps ==
    ASSUME TypeInv, Synced, Poised, Next, NEW e, Adds(log, e, log'), e.type = "user_message"
    PROVE  \E d \in Drivers : FollowUp(d) /\ Stored(d, UserMessage(ask[d]))
<1>1. log' # log
  BY GrownDiffers
<1>2. ASSUME NEW w, NEW x, Stored(w, x) PROVE x = e
  <2> DEFINE s == NextSeq(view[w])
             n == NextSeq(log)
  <2>1. log' = With(log, s, x)
    BY <1>1, <1>2 DEF Stored
  <2>2. n \in DOMAIN log' /\ log'[n] = e /\ n \notin DOMAIN log
    BY GrownDiffers DEF Adds
  <2>3. n = s
    <3> HIDE DEF n, s
    <3> QED BY <2>1, <2>2 DEF With
  <2>4. log'[n] = x
    <3> HIDE DEF n, s
    <3> QED BY <2>1, <2>3 DEF With
  <2> QED BY <2>2, <2>4
<1>3. ASSUME NEW h \in Humans, Human(h) PROVE FALSE
  <2>1. PICK x \in Verdicted, seq \in Nat : seq \notin DOMAIN log /\ log' = With(log, seq, x)
    BY <1>1, <1>3, HumanStays
  <2>2. seq \in DOMAIN log' /\ log'[seq] = x
    BY <2>1 DEF With
  <2>3. x = e
    BY <2>1, <2>2 DEF Adds
  <2> QED BY <2>1, <2>3 DEF Verdicted, Verdict
<1>4. ASSUME NEW d \in Drivers,
             \/ Invoke(d) \/ Effect(d) \/ Open(d) \/ Renew(d) \/ Reload(d) \/ Pause(d)
             \/ AskModel(d) \/ Execute(d) \/ Complete(d) \/ Leave(d) \/ Cancel(d) \/ Crash(d)
             \/ StoreRaises(d)
      PROVE  FALSE
  BY <1>1, <1>4
     DEF Invoke, Effect, Open, Renew, Reload, Pause, AskModel, Execute, Complete, Leave, Cancel,
         Crash, StoreRaises, Load
<1>5. ASSUME NEW d \in Drivers, NEW x, Stored(d, x) \/ Conflict(d, x), x.type # "user_message"
      PROVE  FALSE
  BY <1>1, <1>2, <1>5 DEF Conflict
<1>6. ASSUME NEW d \in Drivers,
             Begin(d) \/ BlockTurn(d) \/ Recall(d) \/ AcceptText(d) \/ CorrectText(d)
             \/ FinishDelivery(d) \/ Veto(d)
      PROVE  FALSE
  BY <1>5, <1>6, EventTypes
     DEF Begin, BlockTurn, Recall, AcceptText, CorrectText, FinishDelivery, Veto, Post, PostOrRaise
<1>7. ASSUME NEW d \in Drivers, Conclude(d) \/ Await(d) PROVE FALSE
  BY <1>1, <1>5, <1>7, EventTypes DEF Conclude, Await, Post
<1>8. ASSUME NEW d \in Drivers,
             Deliver(d) \/ Propose(d) \/ Refuse(d) \/ Disown(d) \/ Intend(d)
      PROVE  FALSE
  BY <1>5, <1>8, EventTypes DEF Deliver, Propose, Refuse, Disown, Intend, Post
<1>9. ASSUME NEW d \in Drivers, ModelRaises(d) \/ ToolRaises(d) PROVE FALSE
  BY <1>1, <1>5, <1>9, EventTypes DEF ModelRaises, ToolRaises, FailRun
<1>10. ASSUME NEW d \in Drivers, Record(d) \/ CancelShielded(d) PROVE FALSE
  <2>1. EventList(view[d]) /\ Outgoing(view[d], out[d])
    BY <1>10, ViewTyped DEF Poised, Record, CancelShielded, Ready
  <2>2. Proper(d, NextOut(d))
    BY <2>1, OutgoingRight DEF NextOut
  <2>3. NextOut(d).type # "user_message"
    <3>1. Step(view[d]) \in {"model", "tool"}
      BY <2>1 DEF Outgoing
    <3> QED BY <2>2, <3>1 DEF Proper, Rightful, Legal, Step, NextStep
  <2> QED BY <1>5, <1>10, <2>3 DEF Record, CancelShielded
<1>11. ~Lapse
  BY <1>1 DEF Lapse
<1>12. PICK d \in Drivers : FollowUp(d)
  BY <1>3, <1>4, <1>6, <1>7, <1>8, <1>9, <1>10, <1>11 DEF Next, Drive, Enter, Loop, Fault
<1> QED BY <1>1, <1>12 DEF FollowUp, PostOrRaise, Conflict

LEMMA RefusedKept ==
    ASSUME DistinctIds, ~MayCancel, StoreFailsFor = {}, TypeInv, Synced, Poised, Fresh, Refused, BlockAsked, Next
    PROVE  Refused' /\ BlockAsked'
<1>1. \A e \in Drivers : pc[e] = "crashed" => pc'[e] = "crashed" /\ ask'[e] = ask[e]
  BY AtBlock, AskStays
<1>2. ASSUME NEW e \in Drivers, pc[e] = "blockturn"
      PROVE  ask'[e] = ask[e] /\ (pc'[e] \in {"blockturn", "crashed"} \/ FinishRecorded(log'))
  BY <1>2, AtBlock, AskStays, BlockCloses
<1>3. BlockAsked'
  <2> SUFFICES ASSUME NEW e \in Drivers, pc'[e] = "blockturn" PROVE ask'[e] \in BlockedInputs
    BY DEF BlockAsked
  <2>1. e \in Writers
    BY DEF Writers
  <2>2. CASE pc[e] = "blockturn"
    BY <1>2, <2>2 DEF BlockAsked
  <2>3. CASE pc[e] # "blockturn"
    <3>1. ASSUME NEW d \in Drivers, d # e, Invoke(d) \/ Drive(d) \/ Effect(d) \/ Fault(d)
          PROVE  FALSE
      BY <2>1, <2>3, <3>1, OthersRest
    <3>2. ASSUME NEW h \in Humans, Human(h) PROVE FALSE
      BY <2>3, <3>2, HumanStays
    <3>3. ~Lapse /\ ~Effect(e) /\ ~Invoke(e)
      <4>1. ~Goto(e, "raised") /\ ~Goto(e, "load")
        BY <2>1, PcAfter
      <4> QED BY <2>3, <4>1 DEF Lapse, Effect, Invoke
    <3>4. Drive(e) \/ Fault(e)
      BY <3>1, <3>2, <3>3 DEF Next
    <3>5. \E l : Goto(e, l)
      BY <3>4, DriverSteps
    <3>6. Goto(e, "blockturn")
      BY <2>1, <3>5, PcAfter
    <3>7. \A l : Goto(e, l) => l = "blockturn"
      BY <2>1, PcAfter
    <3>8. FollowUp(e)
      <4>1. CASE Enter(e) \/ Leave(e) \/ Fault(e)
        BY <3>7, <4>1
           DEF Enter, Leave, Fault, Open, Begin, BlockTurn, ModelRaises, ToolRaises, FailRun,
               Cancel, CancelShielded, Crash, StoreRaises, PostOrRaise, LoopHead
      <4>2. CASE Loop(e)
        BY <3>7, <4>2
           DEF Loop, Renew, Reload, Recall, AcceptText, CorrectText, Deliver, FinishDelivery,
               Veto, Conclude, AskModel, Propose, Refuse, Await, Pause, Disown, Intend,
               Execute, Complete, Record, Post, LoopHead
      <4> QED BY <3>4, <4>1, <4>2 DEF Drive
    <3> QED BY <3>7, <3>8 DEF FollowUp, PostOrRaise, LoopHead
  <2> QED BY <2>2, <2>3
<1>4. Refused'
  <2> SUFFICES ASSUME LastMessage(log') \cap BlockedInputs # {}, ~FinishRecorded(log')
               PROVE  \E d \in Drivers :
                         pc'[d] \in {"blockturn", "crashed"} /\ ask'[d] \in BlockedInputs
    BY DEF Refused
  <2>1. CASE \E d \in Drivers : pc[d] \in {"blockturn", "crashed"} /\ ask[d] \in BlockedInputs
    BY <1>1, <1>2, <2>1
  <2>2. CASE UNCHANGED log
    BY <2>1, <2>2 DEF Refused
  <2>3. ASSUME NEW e \in EngineEvents, Rightful(log, e), Adds(log, e, log')
        PROVE  \E d \in Drivers :
                  pc'[d] \in {"blockturn", "crashed"} /\ ask'[d] \in BlockedInputs
    <3>1. CASE e.type = "user_message"
      <4>1. PICK d \in Drivers : FollowUp(d) /\ Stored(d, UserMessage(ask[d]))
        BY <2>3, <3>1, OnlyFollowUps
      <4>2. e = UserMessage(ask[d])
        <5>1. log' # log /\ d \in Writers
          BY <2>3, GrownDiffers DEF Writers
        <5>2. Adds(log, UserMessage(ask[d]), log')
          BY <4>1, <5>1, StoredAdds
        <5> QED BY <2>3, <5>2 DEF Adds
      <4>3. LastMessage(log') = {ask[d]}
        BY <2>3, <3>1, <4>2, AddsMessage, EventTypes
      <4>4. ask[d] \in BlockedInputs
        BY <4>3
      <4>5. Goto(d, "blockturn") /\ ask' = ask
        <5>1. ~Conflict(d, UserMessage(ask[d]))
          BY <4>1 DEF Stored, Conflict, With
        <5> QED BY <4>1, <4>4, <5>1 DEF FollowUp, PostOrRaise
      <4>6. pc'[d] = "blockturn"
        BY <4>5, PcAfter DEF Writers
      <4> QED BY <4>4, <4>5, <4>6
    <3>2. CASE e.type # "user_message"
      <4>1. LastMessage(log) \cap BlockedInputs # {}
        BY <2>3, <3>2, AddsMessage
      <4>2. e.type # "run_finished"
        <5> SUFFICES ASSUME e.type = "run_finished" PROVE FALSE
          OBVIOUS
        <5>1. e.type \in {"schema_feedback", "user_message", "run_finished"}
          OBVIOUS
        <5>2. Last(At(log', {"schema_feedback", "user_message", "run_finished"})) = NextSeq(log)
          BY <2>3, <5>1, AddsLast
        <5>3. log'[NextSeq(log)] = e /\ NextSeq(log) # -1
          BY <2>3 DEF Adds
        <5> QED BY <5>2, <5>3 DEF FinishRecorded
      <4>3. ~FinishRecorded(log)
        <5>1. CASE e.type = "schema_feedback"
          BY <2>3, <5>1 DEF Rightful, Legal, TextFinish
        <5>2. CASE e.type # "schema_feedback"
          BY <2>3, <3>2, <4>2, <5>2, AddsMessage
        <5> QED BY <5>1, <5>2
      <4> QED BY <2>1, <4>1, <4>3 DEF Refused
    <3> QED BY <3>1, <3>2
  <2> QED BY <2>2, <2>3, LogStep
<1> QED BY <1>3, <1>4

\* A follow-up the input guardrail refuses is never put to the model, unless a
\* process died before it had closed the turn.
THEOREM RefusalsHold ==
    ASSUME Leased, ~Stalls, ~MayCancel, StoreFailsFor = {}, DistinctIds
    PROVE  Spec => RefusalHolds
<1>1. Init => Refused /\ BlockAsked
  BY DEF Init, Refused, BlockAsked, LastMessage, At, EmptyLog, Writers
<1>2. TypeInv /\ Synced /\ Poised /\ Alone /\ Fresh /\ Refused /\ BlockAsked /\ [Next]_vars
        => (Alone /\ Fresh /\ Refused /\ BlockAsked)'
  <2>1. UNCHANGED vars /\ Alone /\ Fresh /\ Refused /\ BlockAsked
          => (Alone /\ Fresh /\ Refused /\ BlockAsked)'
    BY DEF vars, Alone, Driving, Fresh, Acting, Refused, BlockAsked
  <2> QED BY <2>1, AloneHolds, FreshHolds, RefusedKept
<1>3. TypeInv /\ Synced /\ Poised /\ Alone /\ Fresh /\ Refused /\ [Next]_vars
        => [\A d \in Drivers :
              Asks(d) =>
                 \/ LastMessage(view[d]) \cap BlockedInputs = {}
                 \/ \E e \in Drivers : pc[e] = "crashed" /\ ask[e] \in BlockedInputs]_vars
  <2> SUFFICES ASSUME TypeInv, Synced, Poised, Alone, Fresh, Refused, NEW d \in Drivers, Asks(d),
                      LastMessage(view[d]) \cap BlockedInputs # {}
               PROVE  \E e \in Drivers : pc[e] = "crashed" /\ ask[e] \in BlockedInputs
    OBVIOUS
  <2>1. d \in Writers /\ EventList(view[d]) /\ Orderly(view[d]) /\ Step(view[d]) = "model"
        /\ pc[d] = "decide"
    BY ViewTyped, ViewsOrderly DEF Poised, Writers, Asks, Deciding
  <2>2. OpenRequests(view[d]) = {} /\ Acting(d) /\ Driving(d)
    BY <2>1 DEF Orderly, Acting, Driving, Idle, Ended
  <2>3. view[d] = log
    BY <2>2, FreshIsAll
  <2>4. ~FinishRecorded(log)
    BY <2>1, <2>3, OpenTurn
  <2>5. PICK e \in Drivers : pc[e] \in {"blockturn", "crashed"} /\ ask[e] \in BlockedInputs
    BY <2>3, <2>4 DEF Refused
  <2>6. pc[e] # "blockturn"
    <3> SUFFICES ASSUME pc[e] = "blockturn" PROVE FALSE
      OBVIOUS
    <3>1. Driving(e)
      BY DEF Driving, Idle, Ended
    <3> QED BY <2>1, <2>2, <3>1 DEF Alone
  <2> QED BY <2>5, <2>6
<1>4. Spec => []Poised
  BY PoisedHolds
<1> QED BY <1>1, <1>2, <1>3, <1>4, InitAlone, TypeInvHolds, SyncedHolds, PTL DEF Spec, RefusalHolds

-----------------------------------------------------------------------------
(* What a provider is sent.  The conversation is built from positions in   *)
(* the log, and each message of it is the n-th of them.                    *)

\* How many of the positions come up to i.
Rank(S, i) == Cardinality({j \in S : j <= i})

LEMMA RankType ==
    ASSUME NEW S, S \subseteq Nat, IsFiniteSet(S)
    PROVE  /\ Cardinality(S) \in Nat
           /\ \A i \in S : Rank(S, i) \in 1..Cardinality(S)
<1>1. Cardinality(S) \in Nat
  BY FS_CardinalityType
<1>2. ASSUME NEW i \in S PROVE Rank(S, i) \in 1..Cardinality(S)
  <2> DEFINE T == {j \in S : j <= i}
  <2>1. T \in SUBSET S /\ i \in T
    OBVIOUS
  <2>2. IsFiniteSet(T) /\ Cardinality(T) <= Cardinality(S) /\ Cardinality(T) \in Nat
    <3> HIDE DEF T
    <3> QED BY <2>1, FS_Subset, FS_CardinalityType
  <2>3. Cardinality(T) # 0
    <3> HIDE DEF T
    <3> QED BY <2>1, <2>2, FS_EmptySet
  <2>4. Cardinality(T) \in 1..Cardinality(S)
    <3> HIDE DEF T
    <3> QED BY <1>1, <2>2, <2>3
  <2> QED BY <2>4 DEF Rank
<1> QED BY <1>1, <1>2

LEMMA RankGrows ==
    ASSUME NEW S, S \subseteq Nat, IsFiniteSet(S), NEW i \in S, NEW k \in S, i < k
    PROVE  Rank(S, i) < Rank(S, k)
<1> DEFINE T == {j \in S : j <= i}
           U == {j \in S : j <= k}
<1>1. U \in SUBSET S /\ T \in SUBSET S
  OBVIOUS
<1>0. T \in SUBSET U /\ T # U
  <2>1. i \in Nat /\ k \in Nat
    OBVIOUS
  <2>2. \A j \in S : j <= i => j <= k
    BY <2>1
  <2>3. k \in U /\ k \notin T
    BY <2>1
  <2> QED BY <2>2, <2>3
<1> HIDE DEF T, U
<1>2. IsFiniteSet(U)
  BY <1>1, FS_Subset
<1>3. IsFiniteSet(T) /\ Cardinality(T) <= Cardinality(U) /\ Cardinality(T) # Cardinality(U)
  BY <1>0, <1>2, FS_Subset
<1>4. Cardinality(T) \in Nat /\ Cardinality(U) \in Nat
  BY <1>2, <1>3, FS_CardinalityType
<1>5. Cardinality(T) < Cardinality(U)
  BY <1>3, <1>4
<1> QED BY <1>5 DEF Rank, T, U

\* Ranks number the positions in their order, and Nth is their inverse.
LEMMA NthOfRank ==
    ASSUME NEW S, S \subseteq Nat, IsFiniteSet(S)
    PROVE  /\ \A n \in 1..Cardinality(S) : Nth(S, n) \in S /\ Rank(S, Nth(S, n)) = n
           /\ \A i \in S : Nth(S, Rank(S, i)) = i
           /\ \A i, k \in S : i < k <=> Rank(S, i) < Rank(S, k)
<1> DEFINE N == Cardinality(S)
           f == [i \in S |-> Rank(S, i)]
<1>1. N \in Nat /\ \A i \in S : Rank(S, i) \in 1..N
  BY RankType
<1>2. ASSUME NEW i \in S, NEW k \in S PROVE i < k <=> Rank(S, i) < Rank(S, k)
  <2>1. i \in Nat /\ k \in Nat /\ Rank(S, i) \in Nat /\ Rank(S, k) \in Nat
    <3> HIDE DEF N
    <3> QED BY <1>1
  <2>2. i < k \/ i = k \/ k < i
    BY <2>1
  <2>3. ~(Rank(S, i) < Rank(S, k) /\ Rank(S, k) < Rank(S, i)) /\ ~(Rank(S, i) < Rank(S, i))
    BY <2>1
  <2> QED BY <2>1, <2>2, <2>3, RankGrows
<1>3. \A i, k \in S : Rank(S, i) = Rank(S, k) => i = k
  <2> SUFFICES ASSUME NEW i \in S, NEW k \in S, Rank(S, i) = Rank(S, k) PROVE i = k
    OBVIOUS
  <2>1. Rank(S, i) \in Nat /\ i \in Nat /\ k \in Nat
    <3> HIDE DEF N
    <3> QED BY <1>1
  <2>2. ~(i < k) /\ ~(k < i)
    BY <1>2, <2>1
  <2> QED BY <2>1, <2>2
<1>4. f \in Injection(S, 1..N)
  <2>1. f \in [S -> 1..N]
    BY <1>1
  <2>2. \A i, k \in S : f[i] = f[k] => i = k
    BY <1>3
  <2> QED BY <2>1, <2>2 DEF Injection, IsInjective
<1>5. IsFiniteSet(1..N) /\ Cardinality(1..N) = N
  <2>1. 0 \in Int /\ 1 \in Int /\ N \in Int
    BY <1>1
  <2> HIDE DEF N
  <2>2. IsFiniteSet(1..N) /\ Cardinality(1..N) = IF 1 > N THEN 0 ELSE N - 1 + 1
    BY <2>1, FS_Interval
  <2> QED BY <1>1, <2>2
<1>6. f \in Surjection(S, 1..N)
  <2> HIDE DEF f
  <2> QED BY <1>4, <1>5, FS_Injection
<1>7. \A n \in 1..N : \E i \in S : Rank(S, i) = n
  BY <1>6 DEF Surjection
<1>8. \A n \in 1..N : Nth(S, n) \in S /\ Rank(S, Nth(S, n)) = n
  <2> HIDE DEF N
  <2> QED BY <1>7 DEF Nth, Rank
<1>9. \A i \in S : Nth(S, Rank(S, i)) = i
  <2> HIDE DEF N
  <2> QED BY <1>1, <1>3, <1>8
<1> QED BY <1>2, <1>8, <1>9

-----------------------------------------------------------------------------
(* The wire, from the messages.                                            *)

\* Each tool message follows, with nothing but tool messages between, an
\* assistant's message that asked for it; each call is answered like that.
Paired(ms) ==
    /\ \A k \in DOMAIN ms : ms[k].role = "tool" =>
          \E n \in DOMAIN ms :
             /\ n < k /\ ms[n].role = "assistant" /\ ms[k].call \in Asked(ms, n)
             /\ \A j \in DOMAIN ms : n < j /\ j < k => ms[j].role = "tool"
    /\ \A n \in DOMAIN ms : \A id \in Asked(ms, n) :
          \E k \in DOMAIN ms :
             /\ n < k /\ ms[k].role = "tool" /\ ms[k].call = id
             /\ \A j \in DOMAIN ms : n < j /\ j < k => ms[j].role = "tool"

\* What the message opened at n answers: nothing, or the run of tool messages.
LEMMA ResultsOf ==
    ASSUME NEW ms, NEW N \in Nat, DOMAIN ms = 1..N, Len(ms) = N, NEW n \in 1..N
    PROVE  /\ ms[n].role # "tool" => Results(ms, n) = {}
           /\ ms[n].role = "tool" =>
                 Results(ms, n) = {ms[k].call : k \in {k \in n..N : \A j \in n..k : ms[j].role = "tool"}}
<1>1. CASE ms[n].role # "tool"
  <2> SUFFICES ASSUME NEW k \in Group(ms, n), ms[k].role = "tool" PROVE FALSE
    BY <1>1 DEF Results
  <2>1. k \in n..N /\ \A j \in (n + 1)..k : ~Opens(ms, j)
    BY DEF Group
  <2>2. n + 1 \in (n + 1)..k
    BY <1>1, <2>1
  <2>3. ~Opens(ms, n + 1) /\ (n + 1) - 1 = n
    BY <2>1, <2>2
  <2> QED BY <1>1, <2>3 DEF Opens
<1>2. CASE ms[n].role = "tool"
  <2> DEFINE A == {k \in Group(ms, n) : ms[k].role = "tool"}
             B == {k \in n..N : \A j \in n..k : ms[j].role = "tool"}
  <2>1. ASSUME NEW k \in A PROVE k \in B
    <3>1. k \in n..N /\ \A j \in (n + 1)..k : ~Opens(ms, j)
      BY DEF Group
    <3>2. \A j \in (n + 1)..k : ms[j].role = "tool"
      BY <3>1 DEF Opens
    <3>3. \A j \in n..k : j = n \/ j \in (n + 1)..k
      BY <3>1
    <3> QED BY <1>2, <3>1, <3>2, <3>3
  <2>2. ASSUME NEW k \in B PROVE k \in A
    <3>1. k \in n..N /\ \A j \in n..k : ms[j].role = "tool"
      OBVIOUS
    <3>2. \A j \in (n + 1)..k : j \in n..k /\ j - 1 \in n..k /\ j # 1
      BY <3>1
    <3>3. \A j \in (n + 1)..k : ~Opens(ms, j)
      BY <3>1, <3>2 DEF Opens
    <3>4. k \in n..k
      BY <3>1
    <3> QED BY <3>1, <3>3, <3>4 DEF Group
  <2>3. A = B
    BY <2>1, <2>2
  <2>4. Results(ms, n) = {ms[k].call : k \in A}
    BY DEF Results
  <2> QED BY <1>2, <2>3, <2>4
<1> QED BY <1>1, <1>2

LEMMA PairedIsAnswerable ==
    ASSUME NEW ms, NEW N \in Nat, DOMAIN ms = 1..N, Len(ms) = N, 0 < N, Paired(ms)
    PROVE  Answerable(ms)
<1> DEFINE Later(n) == {k \in Openings(ms) : k > n}
<1>1. ms[1].role # "tool"
  <2> SUFFICES ASSUME ms[1].role = "tool" PROVE FALSE
    OBVIOUS
  <2>1. 1 \in DOMAIN ms
    OBVIOUS
  <2>2. PICK n \in DOMAIN ms : n < 1
    BY <2>1 DEF Paired
  <2> QED BY <2>2
<1>2. ASSUME NEW n \in 1..N, n + 1 \in 1..N, ms[n + 1].role = "tool"
      PROVE  ms[n].role \in {"assistant", "tool"}
  <2>1. PICK m \in DOMAIN ms :
           /\ m < n + 1 /\ ms[m].role = "assistant"
           /\ \A j \in DOMAIN ms : m < j /\ j < n + 1 => ms[j].role = "tool"
    BY <1>2 DEF Paired
  <2>2. m = n \/ (m < n /\ n < n + 1)
    BY <2>1
  <2> QED BY <2>1, <2>2
<1>3. ASSUME NEW n \in Openings(ms), ms[n].role # "assistant" PROVE ResultsAfter(ms, n) = {}
  <2> SUFFICES ASSUME Later(n) # {} PROVE ResultsAfter(ms, n) = {}
    BY DEF ResultsAfter
  <2> DEFINE m == First(Later(n))
  <2>1. n \in 1..N /\ Later(n) \subseteq Nat
    BY DEF Openings
  <2>2. m \in Later(n) /\ \A k \in Later(n) : m <= k
    BY <2>1, FirstExists
  <2>3. m \in 1..N /\ n < m /\ Opens(ms, m)
    BY <2>2 DEF Openings
  <2>4. ms[m].role # "tool"
    <3> SUFFICES ASSUME ms[m].role = "tool" PROVE FALSE
      OBVIOUS
    <3> HIDE DEF m
    <3>0. m \in Nat /\ n \in Nat
      BY <2>1, <2>3
    <3>1. m - 1 \in 1..N /\ (m - 1) + 1 = m /\ n <= m - 1 /\ ~(m <= m - 1)
      <4>1. 1 <= n /\ n < m /\ m <= N
        BY <2>1, <2>3
      <4> QED BY <3>0, <4>1
    <3>2. ms[m - 1].role # "tool"
      BY <2>3, <3>1 DEF Opens
    <3>3. ms[m - 1].role = "assistant"
      BY <1>2, <3>1, <3>2, <2>3
    <3>4. n # m - 1
      BY <1>3, <3>3
    <3>5. m - 1 \in Later(n)
      BY <2>1, <3>1, <3>2, <3>4 DEF Openings, Opens
    <3>6. m <= m - 1
      BY <2>2, <3>5 DEF m
    <3> QED BY <3>1, <3>6
  <2>5. Results(ms, m) = {}
    <3> HIDE DEF m
    <3> QED BY <2>3, <2>4, ResultsOf
  <2> QED BY <2>5 DEF ResultsAfter
<1>4. ASSUME NEW n \in 1..N, ms[n].role = "assistant" PROVE Asked(ms, n) = ResultsAfter(ms, n)
  <2>1. CASE n + 1 \in 1..N /\ ms[n + 1].role = "tool"
    <3> DEFINE T == {k \in (n + 1)..N : \A j \in (n + 1)..k : ms[j].role = "tool"}
    <3>1. n + 1 \in Openings(ms)
      <4>1. (n + 1) - 1 = n
        OBVIOUS
      <4> QED BY <1>4, <2>1, <4>1 DEF Openings, Opens
    <3>2. First(Later(n)) = n + 1
      <4>1. n + 1 \in Later(n) /\ Later(n) \subseteq Nat
        BY <3>1 DEF Openings
      <4>2. First(Later(n)) \in Later(n) /\ First(Later(n)) <= n + 1
        BY <4>1, FirstExists
      <4> QED BY <4>1, <4>2
    <3>3. ResultsAfter(ms, n) = Results(ms, n + 1)
      BY <3>1, <3>2 DEF ResultsAfter
    <3>4. Results(ms, n + 1) = {ms[k].call : k \in T}
      BY <2>1, ResultsOf
    <3>5. ASSUME NEW k \in T PROVE ms[k].call \in Asked(ms, n)
      <4>1. k \in (n + 1)..N /\ \A j \in (n + 1)..k : ms[j].role = "tool"
        OBVIOUS
      <4>2. k \in DOMAIN ms /\ ms[k].role = "tool"
        BY <4>1
      <4>3. PICK m \in DOMAIN ms :
               /\ m < k /\ ms[m].role = "assistant" /\ ms[k].call \in Asked(ms, m)
               /\ \A j \in DOMAIN ms : m < j /\ j < k => ms[j].role = "tool"
        BY <4>2 DEF Paired
      <4>4. m \notin (n + 1)..k
        BY <4>1, <4>3
      <4>5. ~(m < n)
        <5>1. n < k
          BY <4>1
        <5> QED BY <1>4, <4>3, <5>1
      <4>6. m = n
        BY <4>1, <4>3, <4>4, <4>5
      <4> QED BY <4>3, <4>6
    <3>6. ASSUME NEW id \in Asked(ms, n) PROVE \E k \in T : ms[k].call = id
      <4>1. PICK k \in DOMAIN ms :
               /\ n < k /\ ms[k].role = "tool" /\ ms[k].call = id
               /\ \A j \in DOMAIN ms : n < j /\ j < k => ms[j].role = "tool"
        BY DEF Paired
      <4>2. k \in (n + 1)..N
        BY <4>1
      <4>3. \A j \in (n + 1)..k : j \in DOMAIN ms /\ n < j /\ (j < k \/ j = k)
        BY <4>2
      <4>4. \A j \in (n + 1)..k : ms[j].role = "tool"
        BY <4>1, <4>3
      <4> QED BY <4>1, <4>2, <4>4
    <3>7. Asked(ms, n) = {ms[k].call : k \in T}
      <4> HIDE DEF T
      <4> QED BY <3>5, <3>6
    <3> QED BY <3>3, <3>4, <3>7
  <2>2. CASE ~(n + 1 \in 1..N /\ ms[n + 1].role = "tool")
    <3>1. Asked(ms, n) = {}
      <4> SUFFICES ASSUME NEW id \in Asked(ms, n) PROVE FALSE
        OBVIOUS
      <4>1. PICK k \in DOMAIN ms :
               /\ n < k /\ ms[k].role = "tool" /\ ms[k].call = id
               /\ \A j \in DOMAIN ms : n < j /\ j < k => ms[j].role = "tool"
        BY DEF Paired
      <4>2. n + 1 \in 1..N /\ (n + 1 = k \/ n + 1 < k)
        BY <4>1
      <4>3. ms[n + 1].role = "tool"
        BY <4>1, <4>2
      <4> QED BY <2>2, <4>2, <4>3
    <3>2. ResultsAfter(ms, n) = {}
      <4> SUFFICES ASSUME Later(n) # {} PROVE ResultsAfter(ms, n) = {}
        BY DEF ResultsAfter
      <4> DEFINE m == First(Later(n))
      <4>1. Later(n) \subseteq Nat
        BY DEF Openings
      <4>2. m \in Later(n) /\ \A k \in Later(n) : m <= k
        BY <4>1, FirstExists
      <4>3. m \in 1..N /\ n < m
        BY <4>2 DEF Openings
      <4>4. n + 1 \in 1..N /\ ms[n + 1].role # "tool"
        <5> HIDE DEF m
        <5> QED BY <2>2, <4>3
      <4>5. n + 1 \in Later(n)
        BY <4>4 DEF Openings, Opens
      <4>6. m = n + 1
        <5>1. m <= n + 1
          BY <4>2, <4>5
        <5> HIDE DEF m
        <5> QED BY <4>3, <5>1
      <4>7. Results(ms, n + 1) = {}
        BY <4>4, ResultsOf
      <4> QED BY <4>6, <4>7 DEF ResultsAfter
    <3> QED BY <3>1, <3>2
  <2> QED BY <2>1, <2>2
<1>5. \A n \in Openings(ms) : Asked(ms, n) = ResultsAfter(ms, n)
  BY <1>3, <1>4 DEF Openings, Asked
<1>6. Results(ms, 1) = {}
  <2>1. 1 \in 1..N
    OBVIOUS
  <2> QED BY <1>1, <2>1, ResultsOf
<1> QED BY <1>5, <1>6 DEF Answerable

-----------------------------------------------------------------------------
(* The wire, from the positions in the log.                                *)

AskedAt(v, i) == {v[i].calls[k].id : k \in DOMAIN v[i].calls}

\* From i to j a provider is told nothing but results.
OnlyResults(v, i, j) ==
    \A k \in Spoken(v) : i < k /\ k < j => v[k].type = "tool_result"

Owed(v, j) ==
    \E i \in At(v, {"model_decision"}) :
        i < j /\ v[j].call \in AskedAt(v, i) /\ OnlyResults(v, i, j)

Paid(v, i, id) ==
    \E j \in At(v, {"tool_result"}) : i < j /\ v[j].call = id /\ OnlyResults(v, i, j)

\* Every result was owed, and every call has been paid or is pending.
Balanced(v) ==
    /\ \A j \in At(v, {"tool_result"}) : Owed(v, j)
    /\ \A i \in At(v, {"model_decision"}) : \A id \in AskedAt(v, i) :
          Paid(v, i, id) \/ (i = LastDecision(v) /\ id \in PendingIds(v))

LEMMA SpokenType ==
    ASSUME NEW v, EventList(v)
    PROVE  Spoken(v) \subseteq Nat /\ IsFiniteSet(Spoken(v))
<1> DEFINE m == NextSeq(v)
<1>1. m \in Nat /\ \A i \in Spoken(v) : i \in Nat /\ i < m
  BY DEF EventList, Spoken, At
<1>2. Spoken(v) \subseteq 0..m /\ 0 \in Int /\ m \in Int
  <2> HIDE DEF m
  <2> QED BY <1>1
<1>3. IsFiniteSet(0..m)
  <2> HIDE DEF m
  <2> QED BY <1>2, FS_Interval
<1> QED BY <1>1, <1>2, <1>3, FS_Subset

LEMMA MessageRoles ==
    ASSUME NEW v, NEW i \in Spoken(v)
    PROVE  /\ Message(v[i]).role = "tool" <=> i \in At(v, {"tool_result"})
           /\ i \in At(v, {"tool_result"}) => Message(v[i]).call = v[i].call
           /\ Message(v[i]).role = "assistant" <=> i \in At(v, {"model_decision"})
           /\ i \in At(v, {"model_decision"}) => Message(v[i]).calls = v[i].calls
<1>1. i \in DOMAIN v
  BY DEF Spoken, At
<1>2. CASE v[i].type = "tool_result"
  BY <1>1, <1>2 DEF Message, At
<1>3. CASE v[i].type = "model_decision"
  BY <1>1, <1>3 DEF Message, At
<1>4. CASE v[i].type \notin {"tool_result", "model_decision"}
  BY <1>4 DEF Message, At
<1> QED BY <1>2, <1>3, <1>4

LEMMA BalancedIsPaired ==
    ASSUME NEW v, EventList(v), Balanced(v), Pending(v) = {}
    PROVE  Paired(Messages(v))
<1> DEFINE S == Spoken(v)
           N == Cardinality(S)
           ms == Messages(v)
           at(n) == Nth(S, n)
<1>1. /\ S \subseteq Nat /\ IsFiniteSet(S) /\ N \in Nat
      /\ \A i \in S : Rank(S, i) \in 1..N
  BY SpokenType, RankType
<1>2. /\ \A n \in 1..N : at(n) \in S /\ Rank(S, at(n)) = n
      /\ \A i \in S : at(Rank(S, i)) = i
      /\ \A i, k \in S : i < k <=> Rank(S, i) < Rank(S, k)
  <2> HIDE DEF S
  <2> QED BY <1>1, NthOfRank
<1>3. DOMAIN ms = 1..N /\ \A n \in 1..N : ms[n] = Message(v[at(n)])
  BY DEF Messages
<1>4. At(v, {"tool_result"}) \subseteq S /\ At(v, {"model_decision"}) \subseteq S
  BY DEF Spoken, At
<1>5. ASSUME NEW n \in 1..N
      PROVE  /\ ms[n].role = "tool" <=> at(n) \in At(v, {"tool_result"})
             /\ ms[n].role = "tool" => ms[n].call = v[at(n)].call
             /\ ms[n].role = "assistant" <=> at(n) \in At(v, {"model_decision"})
             /\ ms[n].role = "assistant" => Asked(ms, n) = AskedAt(v, at(n))
  <2>1. at(n) \in S /\ ms[n] = Message(v[at(n)])
    BY <1>2, <1>3
  <2> HIDE DEF ms, at
  <2> QED BY <2>1, MessageRoles DEF Asked, AskedAt
\* Positions with only results between are messages with only results between.
<1>6. ASSUME NEW i \in S, NEW j \in S, OnlyResults(v, i, j)
      PROVE  \A m \in DOMAIN ms : Rank(S, i) < m /\ m < Rank(S, j) => ms[m].role = "tool"
  <2> SUFFICES ASSUME NEW m \in 1..N, Rank(S, i) < m, m < Rank(S, j) PROVE ms[m].role = "tool"
    BY <1>3
  <2>1. at(m) \in S /\ Rank(S, at(m)) = m
    BY <1>2
  <2>2. i < at(m) /\ at(m) < j
    <3> HIDE DEF at, S, ms
    <3> QED BY <1>2, <2>1
  <2>3. v[at(m)].type = "tool_result"
    BY <1>6, <2>1, <2>2 DEF OnlyResults
  <2>4. at(m) \in At(v, {"tool_result"})
    BY <2>1, <2>3 DEF At, Spoken
  <2> QED BY <1>5, <2>4
<1>7. ASSUME NEW k \in DOMAIN ms, ms[k].role = "tool"
      PROVE  \E n \in DOMAIN ms :
                /\ n < k /\ ms[n].role = "assistant" /\ ms[k].call \in Asked(ms, n)
                /\ \A m \in DOMAIN ms : n < m /\ m < k => ms[m].role = "tool"
  <2> DEFINE j == at(k)
  <2>1. k \in 1..N /\ j \in At(v, {"tool_result"}) /\ ms[k].call = v[j].call /\ Rank(S, j) = k
    BY <1>2, <1>3, <1>5, <1>7
  <2>2. PICK i \in At(v, {"model_decision"}) :
           i < j /\ v[j].call \in AskedAt(v, i) /\ OnlyResults(v, i, j)
    BY <2>1 DEF Balanced, Owed
  <2> DEFINE n == Rank(S, i)
  <2>3. n \in 1..N /\ at(n) = i /\ n < k
    BY <1>1, <1>2, <1>4, <2>1, <2>2
  <2>4. ms[n].role = "assistant" /\ ms[k].call \in Asked(ms, n)
    <3> HIDE DEF n, at, ms, j
    <3> QED BY <1>5, <2>1, <2>2, <2>3
  <2>5. \A m \in DOMAIN ms : n < m /\ m < k => ms[m].role = "tool"
    BY <1>4, <1>6, <2>1, <2>2
  <2> QED BY <1>3, <2>3, <2>4, <2>5
<1>8. ASSUME NEW n \in DOMAIN ms, NEW id \in Asked(ms, n)
      PROVE  \E k \in DOMAIN ms :
                /\ n < k /\ ms[k].role = "tool" /\ ms[k].call = id
                /\ \A m \in DOMAIN ms : n < m /\ m < k => ms[m].role = "tool"
  <2> DEFINE i == at(n)
  <2>1. ms[n].role = "assistant"
    BY <1>8 DEF Asked
  <2>2. n \in 1..N /\ i \in At(v, {"model_decision"}) /\ id \in AskedAt(v, i) /\ Rank(S, i) = n
    <3> HIDE DEF ms
    <3> QED BY <1>2, <1>3, <1>5, <1>8, <2>1
  <2>3. PendingIds(v) = {}
    BY DEF PendingIds
  <2>4. PICK j \in At(v, {"tool_result"}) : i < j /\ v[j].call = id /\ OnlyResults(v, i, j)
    BY <2>2, <2>3 DEF Balanced, Paid
  <2> DEFINE k == Rank(S, j)
  <2>5. k \in 1..N /\ at(k) = j /\ n < k
    BY <1>1, <1>2, <1>4, <2>2, <2>4
  <2>6. ms[k].role = "tool" /\ ms[k].call = id
    <3> HIDE DEF k, at, ms, i
    <3> QED BY <1>5, <2>4, <2>5
  <2>7. \A m \in DOMAIN ms : n < m /\ m < k => ms[m].role = "tool"
    BY <1>4, <1>6, <2>2, <2>4
  <2> QED BY <1>3, <2>5, <2>6, <2>7
<1> QED BY <1>7, <1>8 DEF Paired

LEMMA BalancedIsAnswerable ==
    ASSUME NEW v, EventList(v), Balanced(v), Pending(v) = {}
    PROVE  Answerable(Messages(v))
<1> DEFINE N == Cardinality(Spoken(v))
           ms == Messages(v)
<1>1. N \in Nat
  BY SpokenType, FS_CardinalityType
<1>2. DOMAIN ms = 1..N /\ Len(ms) = N
  <2> DEFINE R == {ms[n] : n \in 1..N}
  <2>1. DOMAIN ms = 1..N /\ ms = [n \in 1..N |-> ms[n]]
    BY DEF Messages
  <2> HIDE DEF N, ms
  <2>2. ms \in [1..N -> R]
    BY <2>1
  <2> HIDE DEF R
  <2>3. ms \in Seq(R)
    BY <1>1, <2>2
  <2>4. Len(ms) \in Nat /\ DOMAIN ms = 1..Len(ms)
    BY <2>3
  <2> QED BY <1>1, <2>1, <2>4
<1>3. Paired(ms)
  BY BalancedIsPaired
<1>4. CASE 0 < N
  <2>1. Answerable(ms)
    <3> HIDE DEF N, ms
    <3> QED BY <1>1, <1>2, <1>3, <1>4, PairedIsAnswerable
  <2> QED BY <2>1
<1>5. CASE N = 0
  <2>1. DOMAIN ms = {} /\ 1..Len(ms) = {}
    BY <1>2, <1>5
  <2>2. Answerable(ms)
    <3> HIDE DEF ms
    <3> QED BY <2>1 DEF Answerable, Openings, Results, Group
  <2> QED BY <2>2
<1> QED BY <1>1, <1>4, <1>5

-----------------------------------------------------------------------------
(* The books of a turn.                                                    *)

\* While a call is pending the turn is open, and a provider has been told
\* nothing but results since the decision.
Busy(v) ==
    Pending(v) # {} =>
        ~Finished(v) /\ \A k \in Spoken(v) : LastDecision(v) < k => v[k].type = "tool_result"

\* The results of a decision answer the calls before those still pending.
InOrder(v) ==
    \A j \in At(v, {"tool_result"}) :
        LastDecision(v) < j =>
            \E k \in DOMAIN CurrentCalls(v) :
                CurrentCalls(v)[k].id = v[j].call /\ \A i \in Pending(v) : k < i

Books(v) == Balanced(v) /\ Busy(v) /\ InOrder(v)

\* Nothing was accepted over the heads of siblings that are still pending.
LEMMA NotCutShort ==
    ASSUME NEW v, EventList(v), InOrder(v), ~CutShort(v), Pending(v) # {},
           NEW j \in At(v, {"tool_result"}), LastDecision(v) < j
    PROVE  v[j].content # "accepted"
<1> SUFFICES ASSUME v[j].content = "accepted" PROVE CutShort(v)
  OBVIOUS
<1> DEFINE D == LastDecision(v)
           cs == CurrentCalls(v)
<1>1. PICK k \in DOMAIN cs : cs[k].id = v[j].call /\ \A i \in Pending(v) : k < i
  BY DEF InOrder
<1>2. PICK i \in Pending(v) : k < i
  BY <1>1
<1>3. D # -1 /\ cs = v[D].calls
  BY DEF CurrentCalls
<1>4. D \in At(v, {"model_decision"})
  <2>1. At(v, {"model_decision"}) # {} /\ At(v, {"model_decision"}) \subseteq DOMAIN v
    BY <1>3 DEF LastDecision, Last, At
  <2> QED BY <2>1, LastOfEventList DEF LastDecision
<1>5. k \in 1..(Len(cs) - 1)
  <2>1. cs \in Seq(Calls) /\ i \in DOMAIN cs
    BY CurrentCallsType DEF Pending
  <2>2. Len(cs) \in Nat /\ DOMAIN cs = 1..Len(cs)
    BY <2>1
  <2> HIDE DEF cs
  <2> QED BY <1>2, <2>1, <2>2
<1> QED BY <1>1, <1>3, <1>4, <1>5 DEF CutShort

-----------------------------------------------------------------------------
(* One event more.                                                         *)

LEMMA AddsSpoken ==
    ASSUME NEW v, NEW e, NEW w, Adds(v, e, w)
    PROVE  /\ e.type \in {"run_started", "schema_feedback", "user_message", "model_decision",
                          "tool_result"} => Spoken(w) = Spoken(v) \cup {NextSeq(v)}
           /\ e.type \notin {"run_started", "schema_feedback", "user_message", "model_decision",
                             "tool_result"} => Spoken(w) = Spoken(v)
           /\ Spoken(w) \subseteq Spoken(v) \cup {NextSeq(v)}
           /\ \A i \in Spoken(v) : i \in Nat /\ i < NextSeq(v) /\ w[i] = v[i]
BY AddsAt DEF Spoken

\* What was told stays told.
LEMMA OnlyResultsStays ==
    ASSUME NEW v, NEW e, NEW w, Adds(v, e, w), NEW i, NEW j \in DOMAIN v, OnlyResults(v, i, j)
    PROVE  OnlyResults(w, i, j)
<1> SUFFICES ASSUME NEW k \in Spoken(w), i < k, k < j PROVE w[k].type = "tool_result"
  BY DEF OnlyResults
<1>1. j \in Nat /\ NextSeq(v) \in Nat /\ j < NextSeq(v)
  BY DEF Adds
<1>2. k # NextSeq(v)
  <2> SUFFICES ASSUME k = NextSeq(v) PROVE FALSE
    OBVIOUS
  <2> QED BY <1>1
<1>3. k \in Spoken(v) /\ w[k] = v[k]
  BY <1>2, AddsSpoken
<1> QED BY <1>3 DEF OnlyResults

LEMMA BalanceStays ==
    ASSUME NEW v, NEW e, NEW w, Adds(v, e, w)
    PROVE  /\ \A j \in At(v, {"tool_result"}) : Owed(v, j) => Owed(w, j)
           /\ \A i \in At(v, {"model_decision"}) : AskedAt(w, i) = AskedAt(v, i)
           /\ \A i \in At(v, {"model_decision"}) : \A id : Paid(v, i, id) => Paid(w, i, id)
<1>1. /\ At(v, {"tool_result"}) \subseteq At(w, {"tool_result"})
      /\ At(v, {"model_decision"}) \subseteq At(w, {"model_decision"})
      /\ \A i \in At(v, {"tool_result"}) : w[i] = v[i] /\ i \in DOMAIN v
      /\ \A i \in At(v, {"model_decision"}) : w[i] = v[i] /\ i \in DOMAIN v
  BY AddsAt
<1>2. \A i \in At(v, {"model_decision"}) : AskedAt(w, i) = AskedAt(v, i)
  BY <1>1 DEF AskedAt
<1>3. ASSUME NEW j \in At(v, {"tool_result"}), Owed(v, j) PROVE Owed(w, j)
  <2>1. PICK i \in At(v, {"model_decision"}) :
           i < j /\ v[j].call \in AskedAt(v, i) /\ OnlyResults(v, i, j)
    BY <1>3 DEF Owed
  <2>2. OnlyResults(w, i, j) /\ w[j] = v[j] /\ i \in At(w, {"model_decision"})
    BY <1>1, <2>1, OnlyResultsStays
  <2> QED BY <1>2, <2>1, <2>2 DEF Owed
<1>4. ASSUME NEW i \in At(v, {"model_decision"}), NEW id, Paid(v, i, id) PROVE Paid(w, i, id)
  <2>1. PICK j \in At(v, {"tool_result"}) : i < j /\ v[j].call = id /\ OnlyResults(v, i, j)
    BY <1>4 DEF Paid
  <2>2. OnlyResults(w, i, j) /\ w[j] = v[j] /\ j \in At(w, {"tool_result"})
    BY <1>1, <2>1, OnlyResultsStays
  <2> QED BY <2>1, <2>2 DEF Paid
<1> QED BY <1>2, <1>3, <1>4

\* What was cut short stays so.
LEMMA CutShortStays ==
    ASSUME NEW v, NEW e, NEW w, Adds(v, e, w), CutShort(v)
    PROVE  CutShort(w)
<1>1. PICK i \in At(v, {"model_decision"}) : \E k \in 1..(Len(v[i].calls) - 1) :
         \E j \in At(v, {"tool_result"}) :
             v[j].call = v[i].calls[k].id /\ v[j].content = "accepted"
  BY DEF CutShort
<1>2. /\ At(v, {"tool_result"}) \subseteq At(w, {"tool_result"})
      /\ At(v, {"model_decision"}) \subseteq At(w, {"model_decision"})
      /\ \A j \in At(v, {"tool_result"}) : w[j] = v[j]
      /\ w[i] = v[i]
  BY AddsAt
<1> QED BY <1>1, <1>2 DEF CutShort

LEMMA LastDecisionType ==
    ASSUME NEW v, EventList(v), Pending(v) # {}
    PROVE  LastDecision(v) \in At(v, {"model_decision"}) /\ LastDecision(v) \in Nat
           /\ LastDecision(v) < NextSeq(v)
           /\ CurrentCalls(v) = v[LastDecision(v)].calls
           /\ PendingIds(v) \subseteq AskedAt(v, LastDecision(v))
<1>1. LastDecision(v) # -1
  BY DEF Pending, CurrentCalls
<1>2. At(v, {"model_decision"}) # {} /\ At(v, {"model_decision"}) \subseteq DOMAIN v
  BY <1>1 DEF LastDecision, Last, At
<1>3. LastDecision(v) \in At(v, {"model_decision"})
  BY <1>2, LastOfEventList DEF LastDecision
<1>4. CurrentCalls(v) = v[LastDecision(v)].calls
  BY <1>1 DEF CurrentCalls
<1>5. PendingIds(v) \subseteq AskedAt(v, LastDecision(v))
  BY <1>4 DEF PendingIds, Pending, AskedAt
<1> QED BY <1>2, <1>3, <1>4, <1>5 DEF EventList

\* A pending call keeps the turn open: nothing that speaks for another party,
\* and no end of the turn, is legal until it is answered.
LEMMA BusyBars ==
    ASSUME NEW v, EventList(v), Busy(v), InOrder(v), ~CutShort(v), Pending(v) # {},
           NEW e \in EngineEvents, Rightful(v, e)
    PROVE  e.type \notin {"run_started", "schema_feedback", "user_message", "model_decision",
                          "run_finished"}
<1>1. ~Finished(v) /\ \A k \in Spoken(v) : LastDecision(v) < k => v[k].type = "tool_result"
  BY DEF Busy
<1>2. Step(v) = "tool" /\ ~TextFinish(v) /\ ~Vetoed(v) /\ ~OverBudget(v)
  <2>1. Step(v) = "tool"
    BY <1>1 DEF Step, NextStep
  <2> QED BY <1>1, <2>1 DEF TextFinish, Vetoed, OverBudget
<1>3. Legal(v, e)
  BY DEF Rightful
<1> DEFINE D == LastDecision(v)
           z == Last(DOMAIN v)
<1>4. D \in DOMAIN v /\ v[D].type = "model_decision"
  BY LastDecisionType DEF At
<1>5. z \in DOMAIN v /\ D <= z
  <2>1. DOMAIN v \subseteq Nat /\ DOMAIN v # {} /\ NextSeq(v) \in Nat
        /\ \A i \in DOMAIN v : i <= NextSeq(v)
    BY <1>4 DEF EventList
  <2>2. z \in DOMAIN v /\ \A i \in DOMAIN v : i <= z
    BY <2>1, LastExists
  <2> HIDE DEF D, z
  <2> QED BY <1>4, <2>2
<1>6. v[z].type \in {"user_message", "tool_result"} =>
         z \in Spoken(v) /\ D < z /\ v[z].type = "tool_result"
  <2> SUFFICES ASSUME v[z].type \in {"user_message", "tool_result"}
               PROVE  z \in Spoken(v) /\ D < z /\ v[z].type = "tool_result"
    OBVIOUS
  <2>1. z \in Spoken(v) /\ z # D
    BY <1>4, <1>5 DEF Spoken, At
  <2>2. D \in Nat /\ z \in Nat
    BY <1>4, <1>5 DEF EventList
  <2>3. D < z
    <3> HIDE DEF D, z
    <3> QED BY <1>5, <2>1, <2>2
  <2> QED BY <1>1, <2>1, <2>3
<1>7. e.type # "run_finished"
  <2> SUFFICES ASSUME e.type = "run_finished" PROVE FALSE
    OBVIOUS
  <2>1. Closes(v, e.output)
    BY <1>3 DEF Legal
  <2>2. e.output \in {"answer", "stopped", "blocked", "structured"}
    BY FinishOutputs
  <2>3. CASE e.output \in {"answer", "stopped"}
    BY <1>1, <1>2, <2>1, <2>3 DEF Closes
  <2>4. CASE e.output = "blocked"
    BY <1>2, <1>6, <2>1, <2>4 DEF Closes
  <2>5. CASE e.output = "structured"
    <3>1. v[z].type = "tool_result" /\ v[z].content = "accepted"
      BY <1>2, <2>1, <2>5 DEF Closes
    <3>2. z \in At(v, {"tool_result"}) /\ D < z
      BY <1>5, <1>6, <3>1 DEF At
    <3> QED BY <3>1, <3>2, NotCutShort
  <2> QED BY <2>2, <2>3, <2>4, <2>5
<1> QED BY <1>1, <1>2, <1>3, <1>4, <1>7 DEF Legal

\* The books are kept by every rightful event.
LEMMA BooksKept ==
    ASSUME DistinctIds, NEW v, EventList(v), NEW e \in EngineEvents, NEW w, Adds(v, e, w),
           Rightful(v, e), Books(v), ~CutShort(v)
    PROVE  Books(w)
<1> DEFINE n == NextSeq(v)
           D == LastDecision(v)
<1>0. n \in Nat /\ w[n] = e
  BY DEF Adds
<1>1. CASE e.type = "tool_result"
  <2>1. e.call \in PendingIds(v) /\ Pending(v) # {}
    BY <1>1 DEF Rightful, Legal, PendingIds
  <2>2. /\ e.call = NextCall(v).id /\ Pending(w) = Pending(v) \ {First(Pending(v))}
        /\ CurrentCalls(w) = CurrentCalls(v) /\ PendingIds(w) = PendingIds(v) \ {e.call}
    BY <1>1, <2>1, AddsPending, AddsResult
  <2>3. /\ At(w, {"tool_result"}) = At(v, {"tool_result"}) \cup {n}
        /\ At(w, {"model_decision"}) = At(v, {"model_decision"})
        /\ LastDecision(w) = D
    BY <1>1, AddsAt DEF LastDecision
  <2>4. D \in At(v, {"model_decision"}) /\ D \in Nat /\ D < n /\ e.call \in AskedAt(v, D)
    BY <2>1, LastDecisionType
  <2>5. ~Finished(v) /\ \A k \in Spoken(v) : D < k => v[k].type = "tool_result"
    BY <2>1 DEF Books, Busy
  <2>6. Spoken(w) = Spoken(v) \cup {n} /\ \A k \in Spoken(v) : w[k] = v[k]
    BY <1>1, AddsSpoken
  <2>7. OnlyResults(w, D, n)
    <3> SUFFICES ASSUME NEW k \in Spoken(w), D < k, k < n PROVE w[k].type = "tool_result"
      BY DEF OnlyResults
    <3>1. k # n
      BY <1>0
    <3> QED BY <2>5, <2>6, <3>1
  <2>8. Owed(w, n) /\ Paid(w, D, e.call)
    <3>1. AskedAt(w, D) = AskedAt(v, D)
      BY <2>4, BalanceStays
    <3> QED BY <1>0, <2>3, <2>4, <2>7, <3>1 DEF Owed, Paid
  <2>9. Balanced(w)
    <3>1. \A j \in At(w, {"tool_result"}) : Owed(w, j)
      BY <2>3, <2>8, BalanceStays DEF Books, Balanced
    <3>2. ASSUME NEW i \in At(w, {"model_decision"}), NEW id \in AskedAt(w, i)
          PROVE  Paid(w, i, id) \/ (i = LastDecision(w) /\ id \in PendingIds(w))
      <4>1. i \in At(v, {"model_decision"}) /\ id \in AskedAt(v, i)
        BY <2>3, <3>2, BalanceStays
      <4>2. Paid(v, i, id) \/ (i = D /\ id \in PendingIds(v))
        BY <4>1 DEF Books, Balanced
      <4> QED BY <2>2, <2>3, <2>8, <4>1, <4>2, BalanceStays
    <3> QED BY <3>1, <3>2 DEF Balanced
  <2>10. Busy(w)
    <3>1. ~Finished(w)
      BY <1>1, <2>5, AddsFinished
    <3> QED BY <1>0, <1>1, <2>3, <2>5, <2>6, <3>1 DEF Busy
  <2>11. InOrder(w)
    <3>1. ASSUME NEW j \in At(v, {"tool_result"}), D < j
          PROVE  \E k \in DOMAIN CurrentCalls(w) :
                    CurrentCalls(w)[k].id = w[j].call /\ \A i \in Pending(w) : k < i
      <4>1. w[j] = v[j]
        BY AddsAt
      <4>2. PICK k \in DOMAIN CurrentCalls(v) :
               CurrentCalls(v)[k].id = v[j].call /\ \A i \in Pending(v) : k < i
        BY <3>1 DEF Books, InOrder
      <4> QED BY <2>2, <4>1, <4>2
    <3>2. \E k \in DOMAIN CurrentCalls(w) :
             CurrentCalls(w)[k].id = w[n].call /\ \A i \in Pending(w) : k < i
      <4> DEFINE f == First(Pending(v))
      <4>1. Pending(v) \subseteq Nat
        BY PendingType
      <4>2. f \in Pending(v) /\ \A i \in Pending(v) : f <= i
        BY <2>1, <4>1, FirstExists
      <4>3. f \in DOMAIN CurrentCalls(v) /\ CurrentCalls(v)[f].id = e.call
        BY <2>2, <4>2 DEF Pending, NextCall
      <4>4. \A i \in Pending(w) : f < i
        <5> HIDE DEF f
        <5>1. Pending(w) = Pending(v) \ {f}
          BY <2>2 DEF f
        <5> QED BY <4>1, <4>2, <5>1
      <4> HIDE DEF f
      <4> QED BY <1>0, <2>2, <4>3, <4>4
    <3> QED BY <2>3, <3>1, <3>2 DEF InOrder
  <2> QED BY <2>9, <2>10, <2>11 DEF Books
<1>2. CASE e.type = "model_decision"
  <2>1. Step(v) = "model"
    BY <1>2 DEF Rightful, Legal
  <2>2. Pending(v) = {} /\ ~Finished(v) /\ PendingIds(v) = {}
    <3>1. Pending(v) = {} /\ ~Finished(v)
      BY <2>1, BusyBars, StepModel, <1>2 DEF Books, Step, NextStep
    <3> QED BY <3>1 DEF PendingIds
  <2>3. /\ At(w, {"tool_result"}) = At(v, {"tool_result"})
        /\ At(w, {"model_decision"}) = At(v, {"model_decision"}) \cup {n}
        /\ LastDecision(w) = n
        /\ \A j \in At(v, {"tool_result"}) : j \in Nat /\ j < n
    BY <1>2, AddsAt, AddsLast DEF LastDecision
  <2>4. Pending(w) = DOMAIN e.calls /\ PendingIds(w) = AskedAt(w, n)
    BY <1>0, <1>2, AddsDecision DEF AskedAt
  <2>5. Balanced(w)
    <3>1. \A j \in At(w, {"tool_result"}) : Owed(w, j)
      BY <2>3, BalanceStays DEF Books, Balanced
    <3>2. ASSUME NEW i \in At(w, {"model_decision"}), NEW id \in AskedAt(w, i)
          PROVE  Paid(w, i, id) \/ (i = LastDecision(w) /\ id \in PendingIds(w))
      <4>1. CASE i = n
        BY <2>3, <2>4, <3>2, <4>1
      <4>2. CASE i # n
        <5>1. i \in At(v, {"model_decision"}) /\ id \in AskedAt(v, i)
          BY <2>3, <3>2, <4>2, BalanceStays
        <5>2. Paid(v, i, id)
          BY <2>2, <5>1 DEF Books, Balanced
        <5> QED BY <5>1, <5>2, BalanceStays
      <4> QED BY <4>1, <4>2
    <3> QED BY <3>1, <3>2 DEF Balanced
  <2>6. Busy(w)
    <3> SUFFICES ASSUME Pending(w) # {} PROVE Busy(w)
      BY DEF Busy
    <3>1. e.calls # <<>>
      BY <2>4
    <3>2. ~Finished(w)
      BY <1>2, <2>2, <3>1, AddsFinished
    <3>3. ASSUME NEW k \in Spoken(w) PROVE ~(n < k)
      <4>1. k = n \/ (k \in Nat /\ k < n)
        BY AddsSpoken
      <4> QED BY <1>0, <4>1
    <3> QED BY <2>3, <3>2, <3>3 DEF Busy
  <2>7. InOrder(w)
    <3>1. \A j \in At(w, {"tool_result"}) : ~(LastDecision(w) < j)
      BY <1>0, <2>3
    <3> QED BY <3>1 DEF InOrder
  <2> QED BY <2>5, <2>6, <2>7 DEF Books
<1>3. CASE e.type \notin {"tool_result", "model_decision"}
  <2>1. /\ At(w, {"tool_result"}) = At(v, {"tool_result"})
        /\ At(w, {"model_decision"}) = At(v, {"model_decision"})
        /\ LastDecision(w) = D
        /\ \A j \in At(v, {"tool_result"}) : w[j] = v[j]
    BY <1>3, AddsAt DEF LastDecision
  <2>2. /\ CurrentCalls(w) = CurrentCalls(v) /\ Pending(w) = Pending(v)
        /\ PendingIds(w) = PendingIds(v)
    BY <1>3, AddsAside
  <2>3. Balanced(w)
    BY <2>1, <2>2, BalanceStays DEF Books, Balanced
  <2>4. Busy(w)
    <3> SUFFICES ASSUME Pending(v) # {} PROVE Busy(w)
      BY <2>2 DEF Busy
    <3>1. e.type \notin {"run_started", "schema_feedback", "user_message", "model_decision",
                         "run_finished"}
      BY BusyBars DEF Books
    <3>2. Spoken(w) = Spoken(v) /\ (\A k \in Spoken(v) : w[k] = v[k])
      BY <1>3, <3>1, AddsSpoken
    <3>3. Finished(w) <=> Finished(v)
      BY <1>3, <3>1, AddsFinished
    <3> QED BY <2>1, <3>2, <3>3 DEF Books, Busy
  <2>5. InOrder(w)
    BY <2>1, <2>2 DEF Books, InOrder
  <2> QED BY <2>3, <2>4, <2>5 DEF Books
<1> QED BY <1>1, <1>2, <1>3

LEMMA HistoryBooks ==
    ASSUME DistinctIds, NEW l, Gapless(l), History(l)
    PROVE  \A n \in 0..NextSeq(l) : CutShort(Before(l, n)) \/ Books(Before(l, n))
<1> DEFINE m == NextSeq(l)
           S == {n \in 0..m : CutShort(Before(l, n)) \/ Books(Before(l, n))}
<1>1. m \in Nat /\ DOMAIN l = 0..(m - 1)
  BY DEF Gapless, EventList
<1>2. 0 \in S
  <2> DEFINE v == Before(l, 0)
  <2>1. 0 \in 0..m /\ 0..(0 - 1) = {}
    BY <1>1
  <2>2. DOMAIN v = {}
    BY <2>1, BeforeIsList
  <2>3. \A types : At(v, types) = {}
    BY <2>2 DEF At
  <2> HIDE DEF v
  <2>4. Pending(v) = {}
    BY <2>3 DEF Pending, CurrentCalls, LastDecision, Last
  <2>5. Books(v)
    BY <2>3, <2>4 DEF Books, Balanced, Busy, InOrder
  <2> QED BY <2>1, <2>5 DEF v
<1>3. ASSUME NEW n \in Nat, 0 <= n, n < m, n \in S PROVE n + 1 \in S
  <2>1. n \in DOMAIN l
    <3> HIDE DEF m
    <3> QED BY <1>1, <1>3
  <2>2. n + 1 \in 0..m /\ Adds(Before(l, n), l[n], Before(l, n + 1)) /\ n \in 0..m
    BY <2>1, BeforeAdds
  <2>3. EventList(Before(l, n)) /\ Rightful(Before(l, n), l[n]) /\ l[n] \in EngineEvents
    BY <2>1, <2>2, BeforeIsList DEF History, Gapless, EventList
  <2>4. CASE CutShort(Before(l, n))
    BY <2>2, <2>4, CutShortStays
  <2>5. CASE ~CutShort(Before(l, n))
    <3>1. Books(Before(l, n))
      BY <1>3, <2>5
    <3> QED BY <2>2, <2>3, <2>5, <3>1, BooksKept
  <2> QED BY <2>4, <2>5
<1>4. \A n \in Nat : 0 <= n /\ n <= m => n \in S
  <2> HIDE DEF S, m
  <2> QED BY <1>1, <1>2, <1>3, UpTo
<1> QED BY <1>4, <1>1

\* However the run got here, whoever asks the model sends it a conversation in
\* which every call is answered right after the message that made it, unless an
\* answer was accepted over the heads of pending siblings.
THEOREM WireIsLegal ==
    ASSUME DistinctIds
    PROVE  Spec => WireLegal
<1>1. TypeInv /\ Synced /\ Poised /\ [Next]_vars
        => [\A d \in Drivers :
               Asks(d) => CutShort(view[d]) \/ Answerable(Messages(view[d]))]_vars
  <2> SUFFICES ASSUME TypeInv, Synced, Poised, NEW d \in Drivers, Asks(d), ~CutShort(view[d])
               PROVE  Answerable(Messages(view[d]))
    OBVIOUS
  <2> DEFINE v == view[d]
  <2>1. d \in Writers
    BY DEF Writers
  <2>2. EventList(v)
    BY <2>1 DEF TypeInv, TypeOK, StoreTyped
  <2>3. NextSeq(v) \in 0..NextSeq(log) /\ v = Before(log, NextSeq(v))
    BY <2>1 DEF Synced
  <2>4. Gapless(log) /\ History(log)
    BY ViewsOrderly DEF Poised
  <2>5. Books(v)
    BY <2>3, <2>4, HistoryBooks
  <2>6. Pending(v) = {}
    BY DEF Asks, Step, NextStep
  <2> QED BY <2>2, <2>5, <2>6, BalancedIsAnswerable DEF Books
<1> QED BY <1>1, InitPoised, PoisedHolds, TypeInvHolds, SyncedHolds, PTL DEF Spec, WireLegal
=============================================================================
