---------------------------- MODULE EngineProofs ----------------------------
(***************************************************************************)
(* What the log of a run is, for every set of drivers, humans, tools and   *)
(* replies and every mode: its events are the engine's (TypeCorrect), it   *)
(* follows the log protocol (ProtocolImplemented), and each event in it is *)
(* a legal continuation of the ones before it (LegalAppends).              *)
(*                                                                         *)
(* The argument: every event a driver produces is built from its own view, *)
(* a list of events (EventList); so the event is one the engine can        *)
(* produce, and each action either leaves the log and the views alone,     *)
(* loads, or appends at the next seq of one view (Touches).  A view is a   *)
(* beginning of the log (Synced) and therefore a legal history itself; at  *)
(* every control point of the engine, what a driver holds ready is legal   *)
(* after its view (Ready, Poised); and the store takes an event only if    *)
(* that view is the whole log.                                             *)
(***************************************************************************)
EXTENDS EngineProperties, WellFoundedInduction, FiniteSetTheorems, TLAPS

-----------------------------------------------------------------------------
(* The fold's positions.  A view's seqs are naturals below some bound, so  *)
(* a set of positions that is not empty has a first and a last element:    *)
(* the CHOOSE in First and Last always has a witness.  From that follows   *)
(* what each kind of event does to the fold of a list it is added to       *)
(* (Adds).                                                                 *)

\* A set of naturals that is not empty has a least element: the sets of its
\* elements up to some n are finite, so one of them is minimal by inclusion.
LEMMA FirstExists ==
    ASSUME NEW S, S \subseteq Nat, S # {}
    PROVE  First(S) \in S /\ \A j \in S : First(S) <= j
<1> DEFINE Upto(n) == {i \in S : i <= n}
           T == {Upto(n) : n \in S}
<1>1. T \subseteq FiniteSubsetsOf(Nat)
  <2> SUFFICES ASSUME NEW n \in S PROVE Upto(n) \in FiniteSubsetsOf(Nat)
    OBVIOUS
  <2>1. Upto(n) \in SUBSET Nat /\ \A s \in Upto(n) : s <= n
    OBVIOUS
  <2>2. IsFiniteSet(Upto(n))
    BY <2>1, FS_BoundedSetOfNaturals
  <2> QED BY <2>1, <2>2 DEF FiniteSubsetsOf
<1>2. T # {}
  OBVIOUS
<1>3. PICK X \in T : \A Y \in T : ~(<<Y, X>> \in StrictSubsetOrdering(Nat))
  BY <1>1, <1>2, FS_StrictSubsetOrderingWellFounded, WFMin
<1>4. PICK x \in S : X = Upto(x)
  OBVIOUS
<1>5. ASSUME NEW y \in S PROVE x <= y
  <2> SUFFICES ASSUME y < x PROVE FALSE
    OBVIOUS
  <2>1. Upto(y) \subseteq Upto(x) /\ x \in Upto(x) /\ x \notin Upto(y)
    <3>1. x \in Nat /\ y \in Nat
      OBVIOUS
    <3>2. ASSUME NEW i \in S, i <= y PROVE i <= x
      <4>1. i \in Nat
        OBVIOUS
      <4> QED BY <3>1, <3>2, <4>1
    <3>3. Upto(y) \subseteq Upto(x)
      BY <3>2
    <3>4. x \in Upto(x) /\ ~(x <= y)
      BY <3>1
    <3> QED BY <3>3, <3>4
  <2>2. <<Upto(y), Upto(x)>> \in StrictSubsetOrdering(Nat)
    BY <2>1 DEF StrictSubsetOrdering
  <2> QED BY <1>3, <1>4, <2>2
<1> QED BY <1>5 DEF First

\* A bounded one has a greatest element.
LEMMA LastExists ==
    ASSUME NEW S, S \subseteq Nat, S # {}, NEW k \in Nat, \A i \in S : i <= k
    PROVE  Last(S) \in S /\ \A j \in S : j <= Last(S)
<1> DEFINE T == {k - i : i \in S}
<1>1. T \subseteq Nat
  <2> SUFFICES ASSUME NEW i \in S PROVE k - i \in Nat
    OBVIOUS
  <2> QED OBVIOUS
<1>2. T # {}
  OBVIOUS
<1>3. First(T) \in T /\ \A j \in T : First(T) <= j
  <2> HIDE DEF T
  <2> QED BY <1>1, <1>2, FirstExists
<1>4. PICK x \in S : First(T) = k - x
  BY <1>3
<1>5. ASSUME NEW j \in S PROVE j <= x
  <2>1. k - x <= k - j
    BY <1>3, <1>4
  <2> QED BY <2>1
<1> QED BY <1>5 DEF Last

-----------------------------------------------------------------------------
(* What one event more does to the fold.                                   *)

\* w is v with e behind its last event.
Adds(v, e, w) ==
    /\ NextSeq(v) \in Nat
    /\ \A i \in DOMAIN v : i \in Nat /\ i < NextSeq(v) /\ w[i] = v[i]
    /\ DOMAIN w = DOMAIN v \cup {NextSeq(v)}
    /\ w[NextSeq(v)] = e

LEMMA AddsAt ==
    ASSUME NEW v, NEW e, NEW w, Adds(v, e, w), NEW types
    PROVE  /\ e.type \in types => At(w, types) = At(v, types) \cup {NextSeq(v)}
           /\ e.type \notin types => At(w, types) = At(v, types)
           /\ NextSeq(v) \notin At(v, types)
           /\ At(v, types) \subseteq Nat
           /\ \A i \in At(v, types) : i < NextSeq(v) /\ w[i] = v[i] /\ i \in DOMAIN v
BY DEF Adds, At

\* The last of some positions, if there are any, and the new one.
LEMMA LastOfGrown ==
    ASSUME NEW S, S \subseteq Nat, NEW n \in Nat, \A i \in S : i < n
    PROVE  Last(S \cup {n}) = n
<1>1. S \cup {n} \subseteq Nat /\ \A i \in S \cup {n} : i <= n
  OBVIOUS
<1> DEFINE l == Last(S \cup {n})
<1>2. l \in S \cup {n} /\ n <= l
  BY <1>1, LastExists
<1> HIDE DEF l
<1>3. l = n
  <2>1. l \notin S
    <3> SUFFICES ASSUME l \in S PROVE FALSE
      OBVIOUS
    <3>1. l \in Nat /\ l < n
      OBVIOUS
    <3> QED BY <1>2, <3>1
  <2> QED BY <1>2, <2>1
<1> QED BY <1>3 DEF l

LEMMA AddsLast ==
    ASSUME NEW v, NEW e, NEW w, Adds(v, e, w), NEW types
    PROVE  Last(At(w, types)) = IF e.type \in types THEN NextSeq(v) ELSE Last(At(v, types))
<1>1. NextSeq(v) \in Nat
  BY DEF Adds
<1>2. At(v, types) \subseteq Nat /\ \A i \in At(v, types) : i < NextSeq(v)
  BY AddsAt
<1>3. Last(At(v, types) \cup {NextSeq(v)}) = NextSeq(v)
  BY <1>1, <1>2, LastOfGrown
<1>4. CASE e.type \in types
  <2>1. At(w, types) = At(v, types) \cup {NextSeq(v)}
    BY <1>4, AddsAt
  <2> QED BY <1>3, <1>4, <2>1
<1>5. CASE e.type \notin types
  BY <1>5, AddsAt
<1> QED BY <1>4, <1>5

\* A last position is one of the list.
LEMMA LastIsThere ==
    ASSUME NEW v, NEW e, NEW w, Adds(v, e, w), NEW S, S \subseteq DOMAIN v, Last(S) # -1
    PROVE  Last(S) \in S /\ w[Last(S)] = v[Last(S)] /\ Last(S) \in Nat /\ Last(S) < NextSeq(v)
<1>1. S # {}
  BY DEF Last
<1>2. S \subseteq Nat /\ \A i \in S : i <= NextSeq(v)
  BY DEF Adds
<1>3. Last(S) \in S
  BY <1>1, <1>2, LastExists DEF Adds
<1> QED BY <1>3 DEF Adds

\* The next seq is one past the new event.
LEMMA AddsNext ==
    ASSUME NEW v, NEW e, NEW w, Adds(v, e, w)
    PROVE  Last(DOMAIN w) = NextSeq(v) /\ NextSeq(w) = NextSeq(v) + 1
<1>1. DOMAIN v \subseteq Nat /\ NextSeq(v) \in Nat /\ \A i \in DOMAIN v : i < NextSeq(v)
  BY DEF Adds
<1>2. Last(DOMAIN v \cup {NextSeq(v)}) = NextSeq(v)
  BY <1>1, LastOfGrown
<1> QED BY <1>2 DEF Adds, NextSeq

\* Events that are neither decisions nor results leave the calls as they are.
LEMMA AddsAside ==
    ASSUME NEW v, NEW e, NEW w, Adds(v, e, w), e.type \notin {"model_decision", "tool_result"}
    PROVE  /\ CurrentCalls(w) = CurrentCalls(v)
           /\ Answered(w) = Answered(v)
           /\ Pending(w) = Pending(v)
           /\ PendingIds(w) = PendingIds(v)
           /\ NextCall(w) = NextCall(v)
           /\ ModelCalls(w) = ModelCalls(v)
<1>1. At(w, {"model_decision"}) = At(v, {"model_decision"})
      /\ At(w, {"tool_result"}) = At(v, {"tool_result"})
  BY AddsAt
<1>2. LastDecision(w) = LastDecision(v)
  BY <1>1 DEF LastDecision
<1>3. CurrentCalls(w) = CurrentCalls(v)
  <2>1. At(v, {"model_decision"}) \subseteq DOMAIN v
    BY DEF At
  <2>2. LastDecision(v) # -1 => w[LastDecision(v)] = v[LastDecision(v)]
    BY <2>1, LastIsThere DEF LastDecision
  <2> QED BY <1>2, <2>2 DEF CurrentCalls
<1>4. Answered(w) = Answered(v)
  <2>1. \A i \in At(v, {"tool_result"}) : w[i] = v[i]
    BY AddsAt
  <2> QED BY <1>1, <1>2, <2>1 DEF Answered
<1>5. Pending(w) = Pending(v)
  BY <1>3, <1>4 DEF Pending
<1> QED BY <1>1, <1>3, <1>4, <1>5 DEF PendingIds, NextCall, ModelCalls

\* A result takes its call off the pending ones.
LEMMA AddsResult ==
    ASSUME NEW v, NEW e, NEW w, Adds(v, e, w), e.type = "tool_result"
    PROVE  /\ CurrentCalls(w) = CurrentCalls(v)
           /\ Answered(w) = Answered(v) \cup {e.call}
           /\ Pending(w) = {i \in Pending(v) : CurrentCalls(v)[i].id # e.call}
           /\ PendingIds(w) = PendingIds(v) \ {e.call}
           /\ ModelCalls(w) = ModelCalls(v)
<1> DEFINE l == LastDecision(v)
           n == NextSeq(v)
<1>1. /\ At(w, {"model_decision"}) = At(v, {"model_decision"})
      /\ At(w, {"tool_result"}) = At(v, {"tool_result"}) \cup {n}
      /\ \A i \in At(v, {"tool_result"}) : w[i] = v[i]
  BY AddsAt
<1>2. LastDecision(w) = l
  BY <1>1 DEF LastDecision
<1>3. At(v, {"model_decision"}) \subseteq DOMAIN v
  BY DEF At
<1>4. (l # -1 => w[l] = v[l]) /\ n > l
  <2>1. l # -1 => w[l] = v[l] /\ l \in Nat /\ l < n
    BY <1>3, LastIsThere DEF LastDecision
  <2>2. n \in Nat
    BY DEF Adds
  <2> HIDE DEF l, n
  <2> QED BY <2>1, <2>2
<1>5. CurrentCalls(w) = CurrentCalls(v)
  BY <1>2, <1>4 DEF CurrentCalls
<1>6. Answered(w) = Answered(v) \cup {e.call}
  <2> DEFINE S == {j \in At(v, {"tool_result"}) : j > l}
             T == {j \in At(w, {"tool_result"}) : j > l}
  <2>1. T = S \cup {n}
    BY <1>1, <1>4
  <2>2. w[n] = e /\ \A i \in S : w[i] = v[i]
    BY <1>1 DEF Adds
  <2>3. Answered(w) = {w[i].call : i \in T} /\ Answered(v) = {v[i].call : i \in S}
    BY <1>2 DEF Answered
  <2> HIDE DEF S, T, l, n
  <2> QED BY <2>1, <2>2, <2>3
<1>7. Pending(w) = {i \in Pending(v) : CurrentCalls(v)[i].id # e.call}
  BY <1>5, <1>6 DEF Pending
<1>8. PendingIds(w) = PendingIds(v) \ {e.call}
  BY <1>5, <1>7 DEF PendingIds
<1> QED BY <1>1, <1>5, <1>6, <1>7, <1>8 DEF ModelCalls

\* A decision has all its calls pending.
LEMMA AddsDecision ==
    ASSUME NEW v, NEW e, NEW w, Adds(v, e, w), e.type = "model_decision"
    PROVE  /\ CurrentCalls(w) = e.calls
           /\ Answered(w) = {}
           /\ Pending(w) = DOMAIN e.calls
           /\ PendingIds(w) = {e.calls[i].id : i \in DOMAIN e.calls}
<1>1. LastDecision(w) = NextSeq(v) /\ NextSeq(v) \in Nat
  BY AddsLast DEF LastDecision, Adds
<1>2. CurrentCalls(w) = e.calls
  BY <1>1 DEF CurrentCalls, Adds
<1>3. Answered(w) = {}
  <2>1. At(w, {"tool_result"}) = At(v, {"tool_result"})
    BY AddsAt
  <2>2. \A i \in At(v, {"tool_result"}) : i \in Nat /\ i < NextSeq(v)
    BY AddsAt
  <2>3. \A i \in At(w, {"tool_result"}) : ~(i > LastDecision(w))
    BY <1>1, <2>1, <2>2
  <2> QED BY <2>3 DEF Answered
<1>4. Pending(w) = DOMAIN e.calls
  BY <1>2, <1>3 DEF Pending
<1> QED BY <1>2, <1>3, <1>4 DEF PendingIds

-----------------------------------------------------------------------------
(* Lists of events.                                                        *)

LEMMA EmptyIsEventList == EventList(EmptyLog)
BY DEF EventList, EmptyLog, NextSeq, Last

LEMMA WithIsEventList ==
    ASSUME NEW v, EventList(v), NEW seq \in Nat, NEW e \in EngineEvents
    PROVE  EventList(With(v, seq, e))
<1> DEFINE w == With(v, seq, e)
           k == NextSeq(v) + seq
<1>1. DOMAIN w = DOMAIN v \cup {seq} /\ \A i \in DOMAIN w : w[i] \in EngineEvents
  BY DEF With, EventList
<1>2. DOMAIN w \subseteq Nat /\ DOMAIN w # {}
  BY <1>1 DEF EventList
<1>3. k \in Nat /\ \A i \in DOMAIN w : i <= k
  BY <1>1 DEF EventList
<1>4. Last(DOMAIN w) \in DOMAIN w /\ \A i \in DOMAIN w : i <= Last(DOMAIN w)
  <2> HIDE DEF w, k
  <2> QED BY <1>2, <1>3, LastExists
<1>5. Last(DOMAIN w) \in Nat /\ NextSeq(w) = Last(DOMAIN w) + 1
  BY <1>2, <1>4 DEF NextSeq
<1>6. \A i \in DOMAIN w : i \in Nat /\ i < NextSeq(w)
  BY <1>2, <1>4, <1>5
<1> QED BY <1>1, <1>5, <1>6 DEF EventList

\* Some positions of an event list, if any, have a last one.
LEMMA LastOfEventList ==
    ASSUME NEW v, EventList(v), NEW S, S \subseteq DOMAIN v, S # {}
    PROVE  Last(S) \in S
<1>1. S \subseteq Nat /\ \A i \in S : i <= NextSeq(v)
  BY DEF EventList
<1> QED BY <1>1, LastExists DEF EventList

LEMMA DecisionsHoldCalls ==
    ASSUME NEW e \in EngineEvents, e.type = "model_decision"
    PROVE  e.calls \in Lists
BY DEF EngineEvents, Verdicted, RunStarted, UserMessage, MemoryRecalled, Decision,
       StepStarted, ToolResult, ApprovalRequested, Verdict, RunFinished,
       SchemaFeedback, RunFailed

LEMMA RequestsHoldIds ==
    ASSUME NEW e \in EngineEvents, e.type = "approval_requested"
    PROVE  e.call \in CallIds
BY DEF EngineEvents, Verdicted, RunStarted, UserMessage, MemoryRecalled, Decision,
       StepStarted, ToolResult, ApprovalRequested, Verdict, RunFinished,
       SchemaFeedback, RunFailed

LEMMA CurrentCallsType ==
    ASSUME NEW v, EventList(v)
    PROVE  CurrentCalls(v) \in Seq(Calls)
<1>1. CASE LastDecision(v) = -1
  BY <1>1 DEF CurrentCalls
<1>2. CASE LastDecision(v) # -1
  <2>1. At(v, {"model_decision"}) # {} /\ At(v, {"model_decision"}) \subseteq DOMAIN v
    BY <1>2 DEF LastDecision, Last, At
  <2>2. LastDecision(v) \in At(v, {"model_decision"})
    BY <2>1, LastOfEventList DEF LastDecision
  <2>3. v[LastDecision(v)].calls \in Lists
    BY <2>2, DecisionsHoldCalls DEF At, EventList
  <2> QED BY <1>2, <2>3, RepliesAssumption DEF CurrentCalls
<1> QED BY <1>1, <1>2

\* A pending call is one the model made, and there is a first one.
LEMMA PendingType ==
    ASSUME NEW v, EventList(v)
    PROVE  /\ Pending(v) \subseteq Nat
           /\ IsFiniteSet(Pending(v))
           /\ \A i \in Pending(v) : CurrentCalls(v)[i].id \in CallIds
           /\ Pending(v) # {} => First(Pending(v)) \in Pending(v)
<1>1. CurrentCalls(v) \in Seq(Calls)
  BY CurrentCallsType
<1>2. Pending(v) \subseteq 1..Len(CurrentCalls(v)) /\ Len(CurrentCalls(v)) \in Nat
  <2>1. DOMAIN CurrentCalls(v) = 1..Len(CurrentCalls(v)) /\ Len(CurrentCalls(v)) \in Nat
    BY <1>1
  <2> QED BY <2>1 DEF Pending
<1>3. Pending(v) \subseteq Nat /\ IsFiniteSet(Pending(v))
  <2> DEFINE n == Len(CurrentCalls(v))
  <2>1. n \in Int /\ 1 \in Int /\ 1..n \subseteq Nat
    BY <1>2
  <2>2. IsFiniteSet(1..n)
    <3> HIDE DEF n
    <3> QED BY <2>1, FS_Interval
  <2>3. IsFiniteSet(Pending(v))
    BY <1>2, <2>2, FS_Subset
  <2> QED BY <1>2, <2>1, <2>3
<1>4. \A i \in Pending(v) : CurrentCalls(v)[i] \in Calls
  BY <1>1, <1>2
<1>5. \A i \in Pending(v) : CurrentCalls(v)[i].id \in CallIds
  BY <1>4 DEF CallIds
<1> QED BY <1>3, <1>5, FirstExists

LEMMA NextCallType ==
    ASSUME NEW v, EventList(v), Pending(v) # {}
    PROVE  NextCall(v).id \in CallIds
BY PendingType DEF NextCall

LEMMA StepTool ==
    ASSUME NEW v, Step(v) = "tool"
    PROVE  Pending(v) # {} /\ ~Finished(v)
BY DEF Step, NextStep

LEMMA StepModel ==
    ASSUME NEW v, EventList(v), Step(v) = "model"
    PROVE  ModelCalls(v) \in DOMAIN Replies
<1>1. ~(ModelCalls(v) >= MaxSteps)
  BY DEF Step, NextStep
<1>2. IsFiniteSet(At(v, {"model_decision"}))
  <2>1. At(v, {"model_decision"}) \in SUBSET Nat
        /\ \A i \in At(v, {"model_decision"}) : i <= NextSeq(v)
    BY DEF At, EventList
  <2> QED BY <2>1, FS_BoundedSetOfNaturals DEF EventList
<1>3. ModelCalls(v) \in Nat
  BY <1>2, FS_CardinalityType DEF ModelCalls
<1> QED BY <1>1, <1>3, RepliesAssumption, RunAssumption

\* The tasks of a batch are tool executions at natural seqs.
LEMMA TasksType ==
    ASSUME NEW v, EventList(v), Pending(v) # {}
    PROVE  Tasks(v) \subseteq Task
<1>1. Batch(v) \subseteq Pending(v)
  BY PendingType DEF Batch
<1>2. IsFiniteSet(Batch(v))
  BY <1>1, PendingType, FS_Subset
<1>3. ASSUME NEW i \in Batch(v)
      PROVE  [seq |-> NextSeq(v) + Cardinality({j \in Batch(v) : j < i}),
              call |-> CurrentCalls(v)[i].id] \in Task
  <2>1. {j \in Batch(v) : j < i} \subseteq Batch(v)
    OBVIOUS
  <2>2. Cardinality({j \in Batch(v) : j < i}) \in Nat
    BY <1>2, <2>1, FS_Subset, FS_CardinalityType
  <2>3. CurrentCalls(v)[i].id \in CallIds
    BY <1>1, PendingType
  <2> QED BY <2>2, <2>3 DEF Task, EventList
<1> QED BY <1>3 DEF Tasks

-----------------------------------------------------------------------------
(* The invariant, and the ways a step touches the log.                     *)

\* What TypeOK needs besides itself: a driver dispatches only what is pending
\* in its view, and a human that may still append has a verdict and attempts
\* left.
Located ==
    /\ \A d \in Drivers : pc[d] = "execute" => Pending(view[d]) # {}
    /\ \A h \in Humans :
          /\ pc[h] \in {"deciding", "reload"} => verdict[h] \in Verdicted
          /\ pc[h] \in {"idle", "deciding", "reload"} => attempts[h] < DecideAttempts

TypeInv == TypeOK /\ Located

Kept == UNCHANGED <<log, view>>

\* An attempt to append: it lands, or the seq holds another event.
Attempts(w) == \E e \in EngineEvents : Stored(w, e) \/ Conflict(w, e)

Touches(w) == Kept \/ Load(w) \/ Attempts(w)

\* A step of a driver that leaves its work and the lease alone.
Moves(d) ==
    /\ \E l \in Labels \ {"execute"} : Goto(d, l)
    /\ Touches(d)
    /\ UNCHANGED <<lease, ask, human, work>>

TypedStep == TypeInv' /\ (Kept \/ \E w \in Writers : Touches(w))

LEMMA StoredTyped ==
    ASSUME TypeOK, NEW w \in Writers, Touches(w)
    PROVE  /\ StoreTyped'
           /\ \A x \in Writers : x # w => view'[x] = view[x]
<1>1. StoreTyped
  BY DEF TypeOK
<1>2. CASE Kept
  BY <1>1, <1>2 DEF Kept, StoreTyped, EventList, NextSeq
<1>3. CASE Load(w)
  <2>1. log' = log /\ view' = [view EXCEPT ![w] = log]
    BY <1>3 DEF Load
  <2>2. DOMAIN view' = Writers /\ view'[w] = log
        /\ \A x \in Writers : x # w => view'[x] = view[x]
    BY <1>1, <2>1 DEF StoreTyped
  <2>3. ASSUME NEW x \in Writers PROVE EventList(view'[x])
    BY <1>1, <2>2 DEF StoreTyped
  <2>4. EventList(log')
    BY <1>1, <2>1 DEF StoreTyped
  <2> QED BY <2>2, <2>3, <2>4 DEF StoreTyped, EventList, NextSeq
<1>4. CASE Attempts(w)
  <2> PICK e \in EngineEvents : Stored(w, e) \/ Conflict(w, e)
    BY <1>4 DEF Attempts
  <2>1. CASE Conflict(w, e)
    BY <1>1, <1>2, <2>1 DEF Conflict, Kept
  <2>2. CASE Stored(w, e)
    <3> DEFINE seq == NextSeq(view[w])
    <3>1. seq \in Nat /\ EventList(view[w]) /\ EventList(log)
      BY <1>1 DEF StoreTyped, EventList
    <3>2. EventList(With(view[w], seq, e)) /\ EventList(With(log, seq, e))
      <4> HIDE DEF seq
      <4> QED BY <3>1, WithIsEventList
    <3>3. log' = log \/ log' = With(log, seq, e)
      BY <2>2 DEF Stored
    <3>4. DOMAIN view' = Writers /\ view'[w] = With(view[w], seq, e)
          /\ \A x \in Writers : x # w => view'[x] = view[x]
      BY <1>1, <2>2 DEF Stored, StoreTyped
    <3>5. ASSUME NEW x \in Writers PROVE EventList(view'[x])
      BY <1>1, <3>2, <3>4 DEF StoreTyped
    <3>6. EventList(log')
      BY <3>1, <3>2, <3>3
    <3> QED BY <3>4, <3>5, <3>6 DEF StoreTyped, EventList, NextSeq
  <2> QED BY <2>1, <2>2
<1> QED BY <1>2, <1>3, <1>4 DEF Touches

\* A driver's step keeps the invariant if it keeps the types of what it holds.
LEMMA DriverTyped ==
    ASSUME TypeInv, NEW d \in Drivers, NEW l \in Labels, Goto(d, l), Touches(d),
           l = "execute" => Pending(view[d])' # {},
           LeaseTyped', WorkTyped', UNCHANGED human
    PROVE  TypedStep
<1>1. d \in Writers /\ \A h \in Humans : h \in Writers /\ h # d
  BY ActorsAssumption DEF Writers
<1>2. StoreTyped' /\ \A x \in Writers : x # d => view'[x] = view[x]
  BY <1>1, StoredTyped DEF TypeInv
<1>3. pc' \in [Writers -> Labels]
      /\ pc'[d] = l /\ \A x \in Writers : x # d => pc'[x] = pc[x]
  BY <1>1 DEF TypeInv, TypeOK, Goto
<1>4. HumanTyped'
  BY DEF TypeInv, TypeOK, HumanTyped, human
<1>5. ASSUME NEW x \in Drivers, pc'[x] = "execute" PROVE Pending(view'[x]) # {}
  <2>1. CASE x = d
    <3>1. Pending(view[d])' = Pending(view'[d])
      BY DEF Pending, CurrentCalls, LastDecision, Answered, At, Last
    <3> QED BY <1>3, <1>5, <2>1, <3>1
  <2>2. CASE x # d
    BY <1>2, <1>3, <1>5, <2>2 DEF TypeInv, Located, Writers
  <2> QED BY <2>1, <2>2
<1>6. Located'
  <2>1. \A h \in Humans : pc'[h] = pc[h] /\ verdict'[h] = verdict[h] /\ attempts'[h] = attempts[h]
    BY <1>1, <1>3 DEF human
  <2>2. \A x \in Drivers : pc'[x] = "execute" => Pending(view[x])' # {}
    BY <1>5 DEF Pending, CurrentCalls, LastDecision, Answered, At, Last
  <2> QED BY <2>1, <2>2 DEF TypeInv, Located
<1> QED BY <1>1, <1>2, <1>3, <1>4, <1>6 DEF TypedStep, TypeInv, TypeOK

LEMMA MoveTyped ==
    ASSUME TypeInv, NEW d \in Drivers, Moves(d)
    PROVE  TypedStep
<1>1. PICK l \in Labels \ {"execute"} : Goto(d, l)
  BY DEF Moves
<1>2. LeaseTyped' /\ WorkTyped' /\ UNCHANGED human
  BY DEF TypeInv, TypeOK, Moves, LeaseTyped, WorkTyped, work, human
<1> QED BY <1>1, <1>2, DriverTyped DEF Moves

-----------------------------------------------------------------------------
(* Every event an action builds is one the engine can produce.             *)

LEMMA TurnEvents ==
    /\ \A x \in Inputs \cup {NoInput} :
          RunStarted(x) \in EngineEvents /\ UserMessage(x) \in EngineEvents
    /\ \A d \in Drivers : MemoryRecalled(d) \in EngineEvents
    /\ \A calls \in Lists, text \in Texts : Decision(calls, text) \in EngineEvents
    /\ \A output \in {"answer", "stopped", "blocked", "structured"} :
          RunFinished(output) \in EngineEvents
    /\ SchemaFeedback \in EngineEvents
    /\ RunFailed \in EngineEvents
BY DEF EngineEvents

LEMMA CallEvents ==
    ASSUME NEW id \in CallIds
    PROVE  /\ StepStarted(id) \in EngineEvents
           /\ ApprovalRequested(id) \in EngineEvents
           /\ \A content \in Contents \cup {"invalid", "accepted", "shadow", "denied",
                                            "unknown_outcome", "timeout"} :
                 ToolResult(id, content) \in EngineEvents
BY DEF EngineEvents

LEMMA VerdictedEvents == Verdicted \subseteq EngineEvents
BY DEF EngineEvents

-----------------------------------------------------------------------------
(* The actions that only post an event, load, or go elsewhere.             *)

LEMMA PostMoves ==
    ASSUME NEW d \in Drivers, NEW e \in EngineEvents, NEW l \in Labels \ {"execute"},
           Post(d, e, l) \/ PostOrRaise(d, e, l) \/ (FailRun(d) /\ e = RunFailed),
           UNCHANGED <<lease, ask, human, work>>
    PROVE  Moves(d)
<1>1. Stored(d, e) \/ Conflict(d, e) \/ Kept
  BY DEF Post, PostOrRaise, FailRun, Kept
<1>2. Goto(d, l) \/ Goto(d, "reload") \/ Goto(d, "unwind")
  BY DEF Post, PostOrRaise, FailRun
<1>3. {"reload", "unwind"} \subseteq Labels \ {"execute"}
  BY DEF Labels
<1> QED BY <1>1, <1>2, <1>3 DEF Moves, Touches, Attempts

\* The call a driver handles alone has an id.
LEMMA NextId ==
    ASSUME TypeInv, NEW d \in Drivers, Step(view[d]) = "tool"
    PROVE  NextCall(view[d]).id \in CallIds
<1>1. EventList(view[d])
  BY DEF TypeInv, TypeOK, StoreTyped, Writers
<1> QED BY <1>1, StepTool, NextCallType

LEMMA HeadLabel == LoopHead \in Labels \ {"execute"}
BY DEF LoopHead, Labels

LEMMA EnterMoves ==
    ASSUME TypeInv, NEW d \in Drivers, Enter(d)
    PROVE  Moves(d)
<1>1. ask[d] \in Inputs \cup {NoInput}
  BY DEF TypeInv, TypeOK, WorkTyped
<1>2. {"begin", "followup", "unwind", "blockturn", "return"} \subseteq Labels \ {"execute"}
  BY DEF Labels
<1>3. CASE Open(d)
  BY <1>2, <1>3, HeadLabel DEF Open, Moves, Touches
<1>4. CASE Begin(d)
  BY <1>1, <1>4, HeadLabel, TurnEvents, PostMoves DEF Begin
<1>5. CASE FollowUp(d)
  BY <1>1, <1>2, <1>5, HeadLabel, TurnEvents, PostMoves DEF FollowUp
<1>6. CASE BlockTurn(d)
  BY <1>2, <1>6, TurnEvents, PostMoves DEF BlockTurn
<1> QED BY <1>3, <1>4, <1>5, <1>6 DEF Enter

\* The branches of the loop that answer, correct or close the turn.
LEMMA TurnMoves ==
    ASSUME TypeInv, NEW d \in Drivers,
           \/ Reload(d) \/ Recall(d) \/ AcceptText(d) \/ CorrectText(d) \/ Deliver(d)
           \/ FinishDelivery(d) \/ Veto(d) \/ Conclude(d) \/ ModelRaises(d)
    PROVE  Moves(d)
<1>1. {"return", "finish", "unwind"} \subseteq Labels \ {"execute"}
  BY DEF Labels
<1>2. CASE Reload(d)
  BY <1>2, HeadLabel DEF Reload, Moves, Touches
<1>3. CASE Recall(d)
  BY <1>3, HeadLabel, TurnEvents, PostMoves DEF Recall
<1>4. CASE AcceptText(d)
  BY <1>1, <1>4, TurnEvents, PostMoves DEF AcceptText
<1>5. CASE CorrectText(d)
  BY <1>5, HeadLabel, TurnEvents, PostMoves DEF CorrectText
<1>6. CASE Deliver(d)
  <2> DEFINE id == NextCall(view[d]).id
  <2>1. id \in CallIds
    BY <1>6, NextId DEF Deliver, Delivering
  <2>2. ToolResult(id, "invalid") \in EngineEvents /\ ToolResult(id, "accepted") \in EngineEvents
    BY <2>1, CallEvents
  <2> QED BY <1>1, <1>6, <2>2, HeadLabel, PostMoves DEF Deliver
<1>7. CASE FinishDelivery(d)
  BY <1>7, HeadLabel, TurnEvents, PostMoves DEF FinishDelivery
<1>8. CASE Veto(d)
  BY <1>1, <1>8, TurnEvents, PostMoves DEF Veto
<1>9. CASE Conclude(d)
  <2>1. CASE FinishRecorded(view[d])
    BY <1>1, <1>9, <2>1 DEF Conclude, Moves, Touches, Kept
  <2>2. CASE ~FinishRecorded(view[d])
    <3>1. RunFinished(IF Finished(view[d]) THEN "answer" ELSE "stopped") \in EngineEvents
      BY TurnEvents
    <3> QED BY <1>1, <1>9, <2>2, <3>1, PostMoves DEF Conclude
  <2> QED BY <2>1, <2>2
<1>10. CASE ModelRaises(d)
  BY <1>1, <1>10, TurnEvents, PostMoves DEF ModelRaises
<1> QED BY <1>2, <1>3, <1>4, <1>5, <1>6, <1>7, <1>8, <1>9, <1>10

\* The branches that answer a call without running it, or pause.
LEMMA CallMoves ==
    ASSUME TypeInv, NEW d \in Drivers,
           Propose(d) \/ Refuse(d) \/ Await(d) \/ Pause(d) \/ Disown(d)
    PROVE  Moves(d)
<1> DEFINE id == NextCall(view[d]).id
<1>1. {"reload", "pause", "return"} \subseteq Labels \ {"execute"}
  BY DEF Labels
<1>2. CASE Pause(d)
  BY <1>1, <1>2 DEF Pause, Moves, Touches
<1>3. CASE Propose(d) \/ Refuse(d) \/ Await(d) \/ Disown(d)
  <2>1. id \in CallIds
    BY <1>3, NextId DEF Propose, Refuse, Await, Disown, Serial
  <2>2. /\ ApprovalRequested(id) \in EngineEvents
        /\ \A content \in {"shadow", "denied", "unknown_outcome"} :
              ToolResult(id, content) \in EngineEvents
    BY <2>1, CallEvents
  <2>3. CASE Propose(d)
    BY <1>1, <2>2, <2>3, PostMoves DEF Propose
  <2>4. CASE Refuse(d)
    BY <1>1, <2>2, <2>4, PostMoves DEF Refuse
  <2>5. CASE Await(d)
    <3>1. CASE HasApprovalRequest(view[d], id)
      BY <1>1, <2>5, <3>1 DEF Await, Moves, Touches, Kept
    <3>2. CASE ~HasApprovalRequest(view[d], id)
      BY <1>1, <2>2, <2>5, <3>2, PostMoves DEF Await
    <3> QED BY <3>1, <3>2
  <2>6. CASE Disown(d)
    BY <2>2, <2>6, HeadLabel, PostMoves DEF Disown
  <2> QED BY <1>3, <2>3, <2>4, <2>5, <2>6
<1> QED BY <1>2, <1>3

-----------------------------------------------------------------------------
(* The actions that change the lease or the driver's work.                 *)

LEMMA ViewTyped ==
    ASSUME TypeInv, NEW d \in Drivers
    PROVE  /\ EventList(view[d])
           /\ NextSeq(view[d]) \in Nat
           /\ Step(view[d]) = "tool" => Tasks(view[d]) \subseteq Task
           /\ pc[d] = "execute" => Tasks(view[d]) \subseteq Task
<1>1. EventList(view[d]) /\ NextSeq(view[d]) \in Nat
  BY DEF TypeInv, TypeOK, StoreTyped, Writers, EventList
<1> QED BY <1>1, StepTool, TasksType DEF TypeInv, Located

LEMMA LeaseActions ==
    ASSUME TypeInv, NEW d \in Drivers, Invoke(d) \/ Renew(d) \/ Leave(d)
    PROVE  TypedStep
<1>1. {"raised", "load", "decide", "unwind", "returned"} \subseteq Labels \ {"execute"}
  BY DEF Labels, Ended
<1>2. PICK l \in Labels \ {"execute"} : Goto(d, l)
  BY <1>1 DEF Invoke, Renew, Leave
<1>3. Touches(d) /\ UNCHANGED human
  BY DEF Invoke, Renew, Leave, Touches, Kept
<1>4. LeaseTyped'
  <2>1. \/ lease' = lease
        \/ lease' = [owner |-> d, live |-> TRUE]
        \/ lease' = [owner |-> Nobody, live |-> FALSE]
    BY DEF Invoke, Renew, Leave, ReleaseLease
  <2>2. CASE lease' = lease
    BY <2>2 DEF TypeInv, TypeOK, LeaseTyped
  <2>3. {[owner |-> d, live |-> TRUE], [owner |-> Nobody, live |-> FALSE]}
          \subseteq [owner : Drivers \cup {Nobody}, live : BOOLEAN]
    OBVIOUS
  <2> QED BY <2>1, <2>2, <2>3 DEF LeaseTyped
<1>5. WorkTyped'
  <2>1. ask' \in [Drivers -> Inputs \cup {NoInput}]
    <3>1. ask' = ask \/ \E x \in Inputs \cup {NoInput} : ask' = [ask EXCEPT ![d] = x]
      BY DEF Invoke, Renew, Leave
    <3> QED BY <3>1 DEF TypeInv, TypeOK, WorkTyped
  <2>2. UNCHANGED <<mine, out, running, executed>>
    BY DEF Invoke, Renew, Leave, work
  <2> QED BY <2>1, <2>2 DEF TypeInv, TypeOK, WorkTyped
<1> QED BY <1>2, <1>3, <1>4, <1>5, DriverTyped

LEMMA AskModelTyped ==
    ASSUME TypeInv, NEW d \in Drivers, AskModel(d)
    PROVE  TypedStep
<1> DEFINE v == view[d]
<1>1. "record" \in Labels /\ Goto(d, "record") /\ Touches(d) /\ UNCHANGED human
  BY DEF AskModel, Labels, Touches, Kept, human
<1>2. PICK calls \in Replies[ModelCalls(v)], text \in Texts :
        out' = [out EXCEPT ![d] = With(EmptyLog, NextSeq(v), Decision(calls, text))]
  BY DEF AskModel
<1>3. ModelCalls(v) \in DOMAIN Replies
  BY ViewTyped, StepModel DEF AskModel
<1>4. Decision(calls, text) \in EngineEvents
  BY <1>3, TurnEvents DEF Lists
<1>5. \A i \in DOMAIN With(EmptyLog, NextSeq(v), Decision(calls, text)) :
        With(EmptyLog, NextSeq(v), Decision(calls, text))[i] \in EngineEvents
  BY <1>4 DEF With, EmptyLog
<1>6. WorkTyped' /\ LeaseTyped'
  <2>1. DOMAIN out' = Drivers /\ \A x \in Drivers : \A i \in DOMAIN out'[x] : out'[x][i] \in EngineEvents
    BY <1>2, <1>5 DEF TypeInv, TypeOK, WorkTyped
  <2> QED BY <2>1 DEF AskModel, TypeInv, TypeOK, WorkTyped, LeaseTyped
<1> QED BY <1>1, <1>6, DriverTyped

LEMMA IntendTyped ==
    ASSUME TypeInv, NEW d \in Drivers, Intend(d)
    PROVE  TypedStep
<1> DEFINE id == NextCall(view[d]).id
<1>1. id \in CallIds
  BY NextId DEF Intend, Serial
<1>2. Touches(d)
  BY <1>1, CallEvents DEF Intend, Touches, Attempts
<1>3. PICK l \in Labels \ {"execute"} : Goto(d, l)
  <2>1. "reload" \in Labels \ {"execute"}
    BY DEF Labels
  <2> QED BY <2>1, HeadLabel DEF Intend
<1>4. WorkTyped' /\ LeaseTyped' /\ UNCHANGED human
  BY <1>1 DEF Intend, TypeInv, TypeOK, WorkTyped, LeaseTyped, human
<1> QED BY <1>2, <1>3, <1>4, DriverTyped

LEMMA ExecuteTyped ==
    ASSUME TypeInv, NEW d \in Drivers, Execute(d)
    PROVE  TypedStep
<1>1. "execute" \in Labels /\ Goto(d, "execute") /\ Touches(d) /\ UNCHANGED human
  BY DEF Execute, Labels, Touches, Kept, human
<1>2. Pending(view[d])' # {}
  <2>1. Pending(view[d]) # {} /\ view' = view
    BY StepTool DEF Execute
  <2> QED BY <2>1
<1>3. Tasks(view[d]) \subseteq Task
  BY ViewTyped DEF Execute
<1>4. WorkTyped' /\ LeaseTyped'
  BY <1>3 DEF Execute, TypeInv, TypeOK, WorkTyped, LeaseTyped
<1> QED BY <1>1, <1>2, <1>4, DriverTyped

LEMMA CompleteTyped ==
    ASSUME TypeInv, NEW d \in Drivers, Complete(d)
    PROVE  TypedStep
<1> DEFINE tasks == Tasks(view[d])
           TaskAt(seq) == CHOOSE t \in tasks : t.seq = seq
<1>1. "record" \in Labels /\ Goto(d, "record") /\ Touches(d) /\ UNCHANGED human
  BY DEF Complete, Labels, Touches, Kept, human
<1>2. PICK content \in [tasks -> Contents] :
        out' = [out EXCEPT ![d] =
                  [seq \in {t.seq : t \in tasks} |->
                     ToolResult(TaskAt(seq).call,
                        IF TaskAt(seq) \in running[d] \cap tasks THEN "timeout"
                        ELSE content[TaskAt(seq)])]]
  BY DEF Complete
<1>3. \A seq \in {t.seq : t \in tasks} : TaskAt(seq) \in tasks /\ TaskAt(seq).call \in CallIds
  <2>1. tasks \subseteq Task
    BY ViewTyped DEF Complete
  <2> QED BY <2>1 DEF Task
<1>4. \A seq \in {t.seq : t \in tasks} :
        ToolResult(TaskAt(seq).call,
                   IF TaskAt(seq) \in running[d] \cap tasks THEN "timeout"
                   ELSE content[TaskAt(seq)]) \in EngineEvents
  <2> HIDE DEF tasks, TaskAt
  <2> QED BY <1>3, CallEvents
<1>5. DOMAIN out' = Drivers /\ \A x \in Drivers : \A i \in DOMAIN out'[x] : out'[x][i] \in EngineEvents
  <2> HIDE DEF tasks, TaskAt
  <2> QED BY <1>2, <1>4 DEF TypeInv, TypeOK, WorkTyped
<1>6. WorkTyped' /\ LeaseTyped'
  BY <1>5 DEF Complete, TypeInv, TypeOK, WorkTyped, LeaseTyped
<1> QED BY <1>1, <1>6, DriverTyped

LEMMA RecordTyped ==
    ASSUME TypeInv, NEW d \in Drivers, Record(d) \/ CancelShielded(d)
    PROVE  TypedStep
<1>1. NextOut(d) \in EngineEvents
  BY DEF Record, CancelShielded, NextOut, TypeInv, TypeOK, WorkTyped
<1>2. Touches(d)
  BY <1>1 DEF Record, CancelShielded, Touches, Attempts
<1>3. PICK l \in Labels \ {"execute"} : Goto(d, l)
  <2>1. {"record", "reload", "unwind"} \subseteq Labels \ {"execute"}
    BY DEF Labels
  <2> QED BY <2>1, HeadLabel DEF Record, CancelShielded
<1>4. \/ out' = [out EXCEPT ![d] = EmptyLog]
      \/ \E rest \in SUBSET DOMAIN out[d] : out' = [out EXCEPT ![d] = [seq \in rest |-> out[d][seq]]]
  BY DEF Record, CancelShielded
<1>5. DOMAIN out' = Drivers /\ \A x \in Drivers : \A i \in DOMAIN out'[x] : out'[x][i] \in EngineEvents
  BY <1>4 DEF TypeInv, TypeOK, WorkTyped, EmptyLog
<1>6. WorkTyped' /\ LeaseTyped' /\ UNCHANGED human
  BY <1>5 DEF Record, CancelShielded, TypeInv, TypeOK, WorkTyped, LeaseTyped, human
<1> QED BY <1>2, <1>3, <1>6, DriverTyped

LEMMA AbortTyped ==
    ASSUME TypeInv, NEW d \in Drivers, ToolRaises(d) \/ Cancel(d) \/ Crash(d) \/ StoreRaises(d)
    PROVE  TypedStep
<1>1. Touches(d)
  BY TurnEvents DEF ToolRaises, Cancel, Crash, StoreRaises, FailRun, Touches, Attempts, Kept
<1>2. PICK l \in Labels \ {"execute"} : Goto(d, l)
  <2>1. {"unwind", "broken", "crashed"} \subseteq Labels \ {"execute"}
    BY DEF Labels, Ended
  <2> QED BY <2>1 DEF ToolRaises, Cancel, Crash, StoreRaises, FailRun
<1>3. running' \in [Drivers -> SUBSET Task]
  BY DEF ToolRaises, Cancel, Crash, StoreRaises, TypeInv, TypeOK, WorkTyped
<1>4. DOMAIN out' = Drivers /\ \A x \in Drivers : \A i \in DOMAIN out'[x] : out'[x][i] \in EngineEvents
  BY DEF ToolRaises, Cancel, Crash, StoreRaises, TypeInv, TypeOK, WorkTyped, EmptyLog
<1>5. WorkTyped' /\ LeaseTyped' /\ UNCHANGED human
  BY <1>3, <1>4
     DEF ToolRaises, Cancel, Crash, StoreRaises, TypeInv, TypeOK, WorkTyped, LeaseTyped, human
<1> QED BY <1>1, <1>2, <1>5, DriverTyped

\* A tool's effect and the expiry of a lease happen to a driver, not in it.
LEMMA AmbientTyped ==
    ASSUME TypeInv, Lapse \/ \E d \in Drivers : Effect(d)
    PROVE  TypedStep
<1>1. UNCHANGED <<log, pc, view, ask, mine, out, verdict, named, attempts>>
  BY DEF Lapse, Effect, human
<1>2. LeaseTyped'
  BY DEF Lapse, Effect, TypeInv, TypeOK, LeaseTyped
<1>3. running' \in [Drivers -> SUBSET Task]
      /\ executed' \subseteq [driver : Drivers, seq : Nat, call : CallIds]
  BY DEF Lapse, Effect, TypeInv, TypeOK, WorkTyped, Task
<1>4. StoreTyped' /\ HumanTyped' /\ Located'
  <2>1. StoreTyped'
    BY <1>1 DEF TypeInv, TypeOK, StoreTyped, EventList, NextSeq
  <2>2. HumanTyped'
    BY <1>1 DEF TypeInv, TypeOK, HumanTyped
  <2>3. \A d \in Drivers : Pending(view[d])' = Pending(view[d])
    BY <1>1
  <2>4. Located'
    BY <1>1, <2>3 DEF TypeInv, Located
  <2> QED BY <2>1, <2>2, <2>4
<1>5. WorkTyped' /\ (pc \in [Writers -> Labels])'
  BY <1>1, <1>3 DEF TypeInv, TypeOK, WorkTyped
<1> QED BY <1>1, <1>2, <1>4, <1>5 DEF TypedStep, TypeInv, TypeOK, Kept

-----------------------------------------------------------------------------
(* Humans.                                                                 *)

\* A human's step keeps the invariant if it keeps the decision and the count.
LEMMA HumanStepTyped ==
    ASSUME TypeInv, NEW h \in Humans, NEW l \in Labels, Goto(h, l), Touches(h),
           UNCHANGED drivers, HumanTyped',
           \A g \in Humans : g # h => verdict'[g] = verdict[g] /\ attempts'[g] = attempts[g],
           l \in {"deciding", "reload"} => verdict'[h] \in Verdicted,
           l \in {"idle", "deciding", "reload"} => attempts'[h] < DecideAttempts
    PROVE  TypedStep
<1>1. h \in Writers /\ \A d \in Drivers : d \in Writers /\ d # h
  BY ActorsAssumption DEF Writers
<1>2. StoreTyped' /\ \A x \in Writers : x # h => view'[x] = view[x]
  BY <1>1, StoredTyped DEF TypeInv
<1>3. pc' \in [Writers -> Labels]
      /\ pc'[h] = l /\ \A x \in Writers : x # h => pc'[x] = pc[x]
  BY <1>1 DEF TypeInv, TypeOK, Goto
<1>4. LeaseTyped'
  BY DEF TypeInv, TypeOK, LeaseTyped, drivers
<1>5. WorkTyped'
  BY DEF TypeInv, TypeOK, WorkTyped, drivers
<1>6. \A d \in Drivers : (pc[d] = "execute" => Pending(view[d]) # {})'
  <2> SUFFICES ASSUME NEW d \in Drivers, pc'[d] = "execute" PROVE Pending(view[d])' # {}
    OBVIOUS
  <2>1. view'[d] = view[d] /\ pc'[d] = pc[d]
    BY <1>1, <1>2, <1>3
  <2>2. Pending(view[d])' = Pending(view[d])
    BY <2>1 DEF Pending, CurrentCalls, LastDecision, Answered, At, Last
  <2> QED BY <2>1, <2>2 DEF TypeInv, Located
<1>7. ASSUME NEW g \in Humans
      PROVE  /\ pc'[g] \in {"deciding", "reload"} => verdict'[g] \in Verdicted
             /\ pc'[g] \in {"idle", "deciding", "reload"} => attempts'[g] < DecideAttempts
  <2>1. CASE g = h
    BY <1>3, <2>1
  <2>2. CASE g # h
    BY <1>3, <2>2 DEF TypeInv, Located, Writers
  <2> QED BY <2>1, <2>2
<1>8. Located'
  BY <1>6, <1>7 DEF Located
<1> QED BY <1>1, <1>2, <1>3, <1>4, <1>5, <1>8 DEF TypedStep, TypeInv, TypeOK

LEMMA RequestTyped ==
    ASSUME EventList(log), NEW request \in OpenRequests(log)
    PROVE  log[request].call \in CallIds
BY RequestsHoldIds DEF OpenRequests, At, EventList

LEMMA HumanTypedStep ==
    ASSUME TypeInv, NEW h \in Humans, Human(h)
    PROVE  TypedStep
<1>1. {"deciding", "reload", "raised", "returned"} \subseteq Labels
  BY DEF Labels, Ended
<1>2. HumanTyped /\ EventList(log)
  BY DEF TypeInv, TypeOK, StoreTyped
<1>3. CASE Review(h)
  <2>1. PICK request \in OpenRequests(log), granted \in BOOLEAN, name \in BOOLEAN :
          /\ verdict' = [verdict EXCEPT ![h] = Verdict(log[request].call, granted)]
          /\ named' = [named EXCEPT ![h] = name]
    BY <1>3 DEF Review
  <2>2. Verdict(log[request].call, granted) \in Verdicted
    BY <1>2, RequestTyped DEF Verdicted
  <2>3. HumanTyped' /\ verdict'[h] \in Verdicted
    BY <1>2, <1>3, <2>1, <2>2 DEF Review, HumanTyped
  <2>4. \A g \in Humans : g # h => verdict'[g] = verdict[g] /\ attempts'[g] = attempts[g]
    BY <1>2, <1>3, <2>1 DEF Review, HumanTyped
  <2>5. attempts'[h] < DecideAttempts
    BY <1>3 DEF Review, TypeInv, Located
  <2>6. Goto(h, "deciding") /\ Touches(h) /\ UNCHANGED drivers
    BY <1>3 DEF Review, Touches
  <2> QED BY <1>1, <2>3, <2>4, <2>5, <2>6, HumanStepTyped
<1>4. CASE Rule(h)
  <2>1. verdict[h] \in Verdicted /\ attempts[h] < DecideAttempts
        /\ attempts[h] \in Nat /\ DecideAttempts \in Nat
    BY <1>2, <1>4, RunAssumption DEF Rule, TypeInv, Located, HumanTyped
  <2>2. Touches(h) /\ UNCHANGED <<drivers, verdict, named>>
    BY <1>4, <2>1, VerdictedEvents DEF Rule, Touches, Attempts
  <2>3. attempts' = attempts \/ attempts' = [attempts EXCEPT ![h] = @ + 1]
    BY <1>4 DEF Rule
  <2>4. attempts[h] + 1 \in 0..DecideAttempts
    BY <2>1
  <2>5. attempts' \in [Humans -> 0..DecideAttempts]
        /\ \A g \in Humans : g # h => attempts'[g] = attempts[g]
    BY <1>2, <2>3, <2>4 DEF HumanTyped
  <2>6. HumanTyped'
    BY <1>2, <2>2, <2>5 DEF HumanTyped
  <2>7. CASE Goto(h, "returned") \/ Goto(h, "raised")
    BY <1>1, <2>2, <2>5, <2>6, <2>7, HumanStepTyped
  <2>8. CASE Goto(h, "reload") /\ attempts'[h] < DecideAttempts
    BY <1>1, <2>1, <2>2, <2>5, <2>6, <2>8, HumanStepTyped
  <2>9. attempts' = [attempts EXCEPT ![h] = @ + 1] => attempts'[h] = attempts[h] + 1
    BY <1>2 DEF HumanTyped
  <2> QED BY <1>4, <2>7, <2>8, <2>9 DEF Rule
<1>5. CASE Reconsider(h)
  <2>1. verdict[h] \in Verdicted
    BY <1>5 DEF Reconsider, Forsake, TypeInv, Located
  <2>2. Touches(h) /\ UNCHANGED <<drivers, named, attempts>>
    BY <1>5 DEF Reconsider, Forsake, Touches
  <2>3. verdict' = verdict \/ \E id \in CallIds : verdict' = [verdict EXCEPT ![h].call = id]
    <3>1. OpenRequests(log) # {} => First(OpenRequests(log)) \in OpenRequests(log)
      <4>1. OpenRequests(log) \subseteq Nat
        BY <1>2 DEF OpenRequests, At, EventList
      <4> QED BY <4>1, FirstExists
    <3> QED BY <1>2, <1>5, <3>1, RequestTyped DEF Reconsider, Forsake
  <2>4. \A id \in CallIds : [verdict[h] EXCEPT !.call = id] \in Verdicted
    BY <2>1 DEF Verdicted, Verdict
  <2>5. verdict' \in [Humans -> Verdicted \cup {NoVerdict}] /\ verdict'[h] \in Verdicted
        /\ \A g \in Humans : g # h => verdict'[g] = verdict[g]
    BY <1>2, <2>1, <2>3, <2>4 DEF HumanTyped
  <2>6. HumanTyped' /\ attempts'[h] < DecideAttempts
    BY <1>2, <1>5, <2>2, <2>5 DEF Reconsider, Forsake, HumanTyped, TypeInv, Located
  <2>7. CASE Goto(h, "raised")
    BY <1>1, <2>2, <2>5, <2>6, <2>7, HumanStepTyped
  <2>8. CASE Goto(h, "deciding")
    BY <1>1, <2>2, <2>5, <2>6, <2>8, HumanStepTyped
  <2> QED BY <1>5, <2>7, <2>8 DEF Reconsider, Forsake
<1>6. CASE Forsake(h)
  <2>1. Goto(h, "raised") /\ Touches(h) /\ UNCHANGED <<drivers, verdict, named, attempts>>
    BY <1>6 DEF Forsake, Touches, Kept
  <2>2. HumanTyped'
    BY <1>2, <2>1 DEF HumanTyped
  <2> QED BY <1>1, <2>1, <2>2, HumanStepTyped
<1> QED BY <1>3, <1>4, <1>5, <1>6 DEF Human

-----------------------------------------------------------------------------
(* The theorems.                                                           *)

LEMMA InitTyped == Init => TypeInv
<1> SUFFICES ASSUME Init PROVE TypeInv
  OBVIOUS
<1>1. StoreTyped
  BY EmptyIsEventList DEF Init, StoreTyped
<1>2. LeaseTyped
  BY DEF Init, LeaseTyped
<1>3. pc \in [Writers -> Labels]
  BY DEF Init, Labels
<1>4. WorkTyped
  BY DEF Init, WorkTyped, EmptyLog
<1>5. HumanTyped /\ \A h \in Humans : pc[h] = "idle" /\ attempts[h] < DecideAttempts
  BY RunAssumption DEF Init, HumanTyped, Writers
<1>6. \A d \in Drivers : pc[d] = "idle"
  BY DEF Init, Writers
<1>7. Located
  BY <1>5, <1>6 DEF Located
<1> QED BY <1>1, <1>2, <1>3, <1>4, <1>5, <1>7 DEF TypeInv, TypeOK

LEMMA StepTyped ==
    ASSUME TypeInv, Next
    PROVE  TypedStep
<1>1. CASE Lapse
  BY <1>1, AmbientTyped
<1>2. ASSUME NEW h \in Humans, Human(h) PROVE TypedStep
  BY <1>2, HumanTypedStep
<1>3. ASSUME NEW d \in Drivers, Invoke(d) \/ Drive(d) \/ Effect(d) \/ Fault(d)
      PROVE  TypedStep
  <2>1. CASE Invoke(d) \/ Renew(d) \/ Leave(d)
    BY <2>1, LeaseActions
  <2>2. CASE Enter(d)
    BY <2>2, EnterMoves, MoveTyped
  <2>3. CASE \/ Reload(d) \/ Recall(d) \/ AcceptText(d) \/ CorrectText(d) \/ Deliver(d)
             \/ FinishDelivery(d) \/ Veto(d) \/ Conclude(d) \/ ModelRaises(d)
    BY <2>3, TurnMoves, MoveTyped
  <2>4. CASE Propose(d) \/ Refuse(d) \/ Await(d) \/ Pause(d) \/ Disown(d)
    BY <2>4, CallMoves, MoveTyped
  <2>5. CASE AskModel(d) \/ Intend(d) \/ Execute(d) \/ Complete(d)
    BY <2>5, AskModelTyped, IntendTyped, ExecuteTyped, CompleteTyped
  <2>6. CASE \/ Record(d) \/ CancelShielded(d) \/ ToolRaises(d) \/ Cancel(d) \/ Crash(d)
             \/ StoreRaises(d)
    BY <2>6, RecordTyped, AbortTyped
  <2>7. CASE Effect(d)
    BY <2>7, AmbientTyped
  <2> QED BY <1>3, <2>1, <2>2, <2>3, <2>4, <2>5, <2>6, <2>7 DEF Drive, Loop, Fault
<1> QED BY <1>1, <1>2, <1>3 DEF Next

LEMMA NextTyped == TypeInv /\ [Next]_vars => TypeInv'
<1> SUFFICES ASSUME TypeInv, [Next]_vars PROVE TypeInv'
  OBVIOUS
<1>1. CASE Next
  BY <1>1, StepTyped DEF TypedStep
<1>2. CASE UNCHANGED vars
  BY <1>2 DEF vars, TypeInv, TypeOK, Located, StoreTyped, LeaseTyped, WorkTyped, HumanTyped
<1> QED BY <1>1, <1>2

THEOREM TypeInvHolds == Spec => []TypeInv
BY InitTyped, NextTyped, PTL DEF Spec

\* Whatever the drivers and humans do, the log and every local copy of it hold
\* only events the engine can produce, below their next seq; every variable
\* has its type.
THEOREM TypeCorrect == Spec => []TypeOK
<1>1. TypeInv => TypeOK
  BY DEF TypeInv
<1> QED BY <1>1, TypeInvHolds, PTL

\* The engine and the approval calls implement the log protocol of RunLog: a
\* step that touches the log or a view loads, claims the next seq of the view
\* or confirms the event that is there.
THEOREM ProtocolImplemented == Spec => ProtocolKept
<1>1. Init => Shared!Init
  BY DEF Init, EmptyLog, RunFailed, Shared!Init, Shared!EmptyLog, Shared!RunFailed
<1>2. TypeInv /\ [Next]_vars => [Shared!Next]_<<log, view>>
  <2> SUFFICES ASSUME TypeInv, Next, ~Kept PROVE Shared!Next
    BY DEF Kept, vars
  <2>1. PICK w \in Writers : Touches(w)
    BY StepTyped DEF TypedStep
  <2>2. CASE Load(w)
    BY <2>2 DEF Load, Shared!Next, Shared!Load
  <2>3. CASE Attempts(w)
    <3>1. PICK e \in EngineEvents : Stored(w, e)
      BY <2>3 DEF Attempts, Conflict, Kept
    <3>2. Shared!Claim(w, e) \/ Shared!Confirm(w, e)
      BY <3>1 DEF Stored, NextSeq, Last, With, Shared!Claim, Shared!Confirm,
                  Shared!NextSeq, Shared!Last, Shared!With
    <3> QED BY <3>2 DEF Shared!Next
  <2> QED BY <2>1, <2>2, <2>3 DEF Touches
<1> QED BY <1>1, <1>2, TypeInvHolds, PTL DEF Spec, ProtocolKept, Shared!Spec, Shared!vars

-----------------------------------------------------------------------------
(* What RunLog's theorems say, said of the engine.                         *)

SharedLog == INSTANCE RunLogProofs WITH Events <- EngineEvents

LEMMA SharedIsRunLog == ProtocolKept => SharedLog!Spec
<1>1. Shared!Init => SharedLog!Init
  BY DEF Shared!Init, Shared!EmptyLog, Shared!RunFailed,
         SharedLog!Init, SharedLog!EmptyLog, SharedLog!RunFailed
<1>2. [Shared!Next]_<<log, view>> => [SharedLog!Next]_<<log, view>>
  BY DEF Shared!Next, Shared!Load, Shared!LoadStale, Shared!Before,
         Shared!Claim, Shared!Confirm,
         Shared!NextSeq, Shared!Last, Shared!With,
         SharedLog!Next, SharedLog!Load, SharedLog!LoadStale, SharedLog!Before,
         SharedLog!Claim, SharedLog!Confirm,
         SharedLog!NextSeq, SharedLog!Last, SharedLog!With
<1> QED BY <1>1, <1>2, PTL DEF ProtocolKept, Shared!Spec, Shared!vars, SharedLog!Spec, SharedLog!vars

\* No driver and no human ever acts on events that are not in the log, or with
\* a hole in what it has read; and the log itself has no hole, although the
\* store accepts any free seq.
THEOREM RunIsDense == Spec => [](SharedLog!LogDense /\ SharedLog!ViewIsPrefix)
BY ProtocolImplemented, SharedIsRunLog, SharedLog!NoGaps, SharedLog!ViewsArePrefixes, PTL

-----------------------------------------------------------------------------
(* What an actor does, seen from the others.                               *)

\* Past its load, and not on its way out.
Acting(d) == pc[d] \notin {"idle", "load", "unwind", "broken"} \cup Ended

\* What humans append.
Verdictal == {"approval_granted", "approval_denied"}

\* What a driver does, seen from the others.
LEMMA DriverSteps ==
    ASSUME TypeInv, NEW d \in Drivers, Drive(d) \/ Fault(d)
    PROVE  /\ Driving(d)
           /\ \E l \in Labels : Goto(d, l)
           /\ Touches(d)
           /\ UNCHANGED lease \/ Renew(d) \/ Leave(d)
<1>1. CASE Enter(d)
  <2>1. Driving(d)
    BY <1>1 DEF Enter, Open, Begin, FollowUp, BlockTurn, Driving, Idle, Ended
  <2> QED BY <1>1, <2>1, EnterMoves DEF Moves
<1>2. CASE \/ Reload(d) \/ Recall(d) \/ AcceptText(d) \/ CorrectText(d) \/ Deliver(d)
           \/ FinishDelivery(d) \/ Veto(d) \/ Conclude(d) \/ ModelRaises(d)
  <2>1. Driving(d)
    BY <1>2 DEF Reload, Recall, AcceptText, CorrectText, Deliver, FinishDelivery, Veto,
                Conclude, ModelRaises, Deciding, Driving, Idle, Ended
  <2> QED BY <1>2, <2>1, TurnMoves DEF Moves
<1>3. CASE Propose(d) \/ Refuse(d) \/ Await(d) \/ Pause(d) \/ Disown(d)
  <2>1. Driving(d)
    BY <1>3 DEF Propose, Refuse, Await, Pause, Disown, Deciding, Driving, Idle, Ended
  <2> QED BY <1>3, <2>1, CallMoves DEF Moves
<1>4. CASE Renew(d) \/ Leave(d)
  <2>1. Driving(d)
    BY <1>4 DEF Renew, Leave, Driving, Idle, Ended
  <2>2. {"decide", "unwind", "returned", "raised"} \subseteq Labels
    BY DEF Labels, Ended
  <2>3. \E l \in Labels : Goto(d, l)
    BY <1>4, <2>2 DEF Renew, Leave
  <2> QED BY <1>4, <2>1, <2>3 DEF Renew, Leave, Touches, Kept
<1>5. CASE AskModel(d) \/ Execute(d) \/ Complete(d) \/ Cancel(d) \/ Crash(d) \/ StoreRaises(d)
  <2>1. Driving(d)
    BY <1>5 DEF AskModel, Execute, Complete, Cancel, Crash, StoreRaises, Deciding, Calling,
              Driving, Idle, Ended
  <2>2. {"record", "execute", "unwind", "broken", "crashed"} \subseteq Labels
    BY DEF Labels, Ended
  <2>3. \E l \in Labels : Goto(d, l)
    BY <1>5, <2>2 DEF AskModel, Execute, Complete, Cancel, Crash, StoreRaises
  <2>4. Kept /\ UNCHANGED lease
    BY <1>5 DEF AskModel, Execute, Complete, Cancel, Crash, StoreRaises, Kept
  <2> QED BY <2>1, <2>3, <2>4 DEF Touches
<1>6. CASE Intend(d)
  <2>1. Driving(d) /\ UNCHANGED lease
    BY <1>6 DEF Intend, Deciding, Driving, Idle, Ended
  <2>2. {"reload", LoopHead} \subseteq Labels
    BY HeadLabel DEF Labels
  <2>3. \E l \in Labels : Goto(d, l)
    BY <1>6, <2>2 DEF Intend
  <2>4. NextCall(view[d]).id \in CallIds
    BY <1>6, ViewTyped, NextId DEF Intend, Serial
  <2>5. Attempts(d)
    BY <1>6, <2>4, CallEvents DEF Intend, Attempts
  <2> QED BY <2>1, <2>3, <2>5 DEF Touches
<1>7. CASE Record(d) \/ CancelShielded(d)
  <2>1. Driving(d) /\ UNCHANGED lease
    BY <1>7 DEF Record, CancelShielded, Driving, Idle, Ended
  <2>2. {"record", "reload", "unwind", LoopHead} \subseteq Labels
    BY HeadLabel DEF Labels
  <2>3. \E l \in Labels : Goto(d, l)
    BY <1>7, <2>2 DEF Record, CancelShielded
  <2>4. NextOut(d) \in EngineEvents
    BY <1>7 DEF Record, CancelShielded, NextOut, TypeInv, TypeOK, WorkTyped
  <2>5. Attempts(d)
    BY <1>7, <2>4 DEF Record, CancelShielded, Attempts
  <2> QED BY <2>1, <2>3, <2>5 DEF Touches
<1>8. CASE ToolRaises(d)
  <2>1. Driving(d) /\ UNCHANGED lease
    BY <1>8 DEF ToolRaises, Driving, Idle, Ended
  <2>2. "unwind" \in Labels /\ Goto(d, "unwind") /\ (Attempts(d) \/ Kept)
    BY <1>8, TurnEvents DEF ToolRaises, FailRun, Attempts, Kept, Labels
  <2> QED BY <2>1, <2>2 DEF Touches
<1> QED BY <1>1, <1>2, <1>3, <1>4, <1>5, <1>6, <1>7, <1>8 DEF Drive, Loop, Fault

\* A driver acts only on what it has loaded.
LEMMA LoadsFirst ==
    ASSUME TypeInv, NEW d \in Drivers, Drive(d) \/ Fault(d), Acting(d)'
    PROVE  Acting(d) \/ Open(d)
<1>1. d \in Writers /\ pc' \in [Writers -> Labels]
  BY StepTyped DEF TypedStep, TypeInv, TypeOK, Writers, Next
<1>2. CASE pc[d] = "load"
  <2>1. Open(d) \/ Cancel(d) \/ Crash(d) \/ StoreRaises(d)
    BY <1>2, HeadLabel
       DEF Drive, Enter, Loop, Fault, Begin, FollowUp, BlockTurn, Renew, Reload, Recall,
           AcceptText, CorrectText, Deliver, FinishDelivery, Veto, Conclude, AskModel,
           Propose, Refuse, Await, Pause, Disown, Intend, Execute, Complete, Record,
           Leave, ModelRaises, ToolRaises, CancelShielded, Deciding
  <2>2. CASE Cancel(d) \/ Crash(d) \/ StoreRaises(d)
    <3>1. pc'[d] \in {"unwind", "broken", "crashed"}
      BY <1>1, <2>2 DEF Cancel, Crash, StoreRaises, Goto, TypeInv, TypeOK
    <3> QED BY <3>1 DEF Acting, Ended
  <2> QED BY <2>1, <2>2
<1>3. CASE pc[d] \in {"unwind", "broken"}
  <2>1. Leave(d) \/ Crash(d)
    BY <1>3, HeadLabel
       DEF Drive, Enter, Loop, Fault, Open, Begin, FollowUp, BlockTurn, Renew, Reload, Recall,
           AcceptText, CorrectText, Deliver, FinishDelivery, Veto, Conclude, AskModel,
           Propose, Refuse, Await, Pause, Disown, Intend, Execute, Complete, Record,
           Cancel, ModelRaises, ToolRaises, StoreRaises, Calling, CancelShielded, Deciding
  <2>2. pc'[d] \in Ended
    BY <1>1, <1>3, <2>1 DEF Leave, Crash, Goto, Ended, TypeInv, TypeOK
  <2> QED BY <2>2 DEF Acting
<1>4. Driving(d)
  BY DriverSteps
<1> QED BY <1>2, <1>3, <1>4 DEF Acting, Driving, Idle

LEMMA HumanStays ==
    ASSUME TypeInv, NEW h \in Humans, Human(h)
    PROVE  /\ \A d \in Drivers : pc'[d] = pc[d] /\ view'[d] = view[d]
           /\ UNCHANGED <<lease, running>>
           /\ \/ UNCHANGED log
              \/ \E e \in Verdicted, seq \in Nat : seq \notin DOMAIN log /\ log' = With(log, seq, e)
<1>1. \A d \in Drivers : d \in Writers /\ d # h
  BY ActorsAssumption DEF Writers
<1>2. pc \in [Writers -> Labels] /\ DOMAIN view = Writers
  BY DEF TypeInv, TypeOK, StoreTyped
<1>3. \E l : Goto(h, l)
  BY DEF Human, Review, Rule, Reconsider, Forsake
<1>4. \A d \in Drivers : pc'[d] = pc[d]
  BY <1>1, <1>2, <1>3 DEF Goto
<1>5. UNCHANGED <<lease, running>>
  BY DEF Human, Review, Rule, Reconsider, Forsake, drivers
<1>6. CASE Load(h)
  <2>1. \A d \in Drivers : view'[d] = view[d]
    BY <1>1, <1>2, <1>6 DEF Load
  <2> QED BY <1>4, <1>5, <1>6, <2>1 DEF Load
<1>7. CASE Rule(h)
  <2>1. verdict[h] \in Verdicted /\ NextSeq(view[h]) \in Nat
    BY <1>7 DEF Rule, TypeInv, TypeOK, Located, StoreTyped, EventList, Writers
  <2>2. Stored(h, verdict[h]) \/ Conflict(h, verdict[h])
    BY <1>7 DEF Rule
  <2>3. \A d \in Drivers : view'[d] = view[d]
    BY <1>1, <1>2, <2>2 DEF Stored, Conflict
  <2>4. \/ UNCHANGED log
        \/ /\ NextSeq(view[h]) \notin DOMAIN log
           /\ log' = With(log, NextSeq(view[h]), verdict[h])
    BY <2>2 DEF Stored, Conflict
  <2> QED BY <1>4, <1>5, <2>1, <2>3, <2>4
<1>8. CASE Forsake(h)
  BY <1>4, <1>5, <1>8 DEF Forsake
<1> QED BY <1>6, <1>7, <1>8 DEF Human, Review, Reconsider

\* Only a dispatch puts tools in flight.
LEMMA OnlyDispatches ==
    ASSUME TypeInv, Next, NEW e \in Drivers, ~Execute(e)
    PROVE  running'[e] \subseteq running[e]
<1>1. running \in [Drivers -> SUBSET Task]
  BY DEF TypeInv, TypeOK, WorkTyped
<1>2. CASE UNCHANGED running
  BY <1>2
<1>3. ASSUME NEW d \in Drivers, NEW S \in SUBSET running[d], running' = [running EXCEPT ![d] = S]
      PROVE  running'[e] \subseteq running[e]
  BY <1>1, <1>3
<1>4. ASSUME NEW d \in Drivers, Execute(d) PROVE running'[e] \subseteq running[e]
  <2>1. d # e
    BY <1>4
  <2> QED BY <1>1, <1>4, <2>1 DEF Execute
<1>5. CASE \E d \in Drivers : ToolRaises(d) \/ Cancel(d) \/ Crash(d) \/ Effect(d)
  <2>1. PICK d \in Drivers : ToolRaises(d) \/ Cancel(d) \/ Crash(d) \/ Effect(d)
    BY <1>5
  <2>2. \E S \in SUBSET running[d] : running' = [running EXCEPT ![d] = S]
    BY <2>1 DEF ToolRaises, Cancel, Crash, Effect
  <2> QED BY <1>3, <2>2
<1>6. CASE Lapse \/ \E h \in Humans : Human(h)
  BY <1>2, <1>6, HumanStays DEF Lapse
<1>7. ASSUME NEW d \in Drivers,
             \/ Invoke(d) \/ Enter(d) \/ Leave(d) \/ ModelRaises(d) \/ CancelShielded(d)
             \/ Renew(d) \/ Reload(d) \/ Recall(d) \/ AcceptText(d) \/ CorrectText(d)
             \/ Deliver(d) \/ FinishDelivery(d) \/ Veto(d) \/ Conclude(d) \/ AskModel(d)
             \/ Propose(d) \/ Refuse(d) \/ Await(d) \/ Pause(d) \/ Disown(d)
             \/ Intend(d) \/ Complete(d) \/ Record(d) \/ StoreRaises(d)
      PROVE  UNCHANGED running
  BY <1>7
     DEF Invoke, Enter, Open, Begin, FollowUp, BlockTurn, Leave, ModelRaises, CancelShielded,
         Renew, Reload, Recall, AcceptText, CorrectText, Deliver, FinishDelivery, Veto,
         Conclude, AskModel, Propose, Refuse, Await, Pause, Disown, Intend, Complete,
         Record, StoreRaises, work
<1> QED BY <1>2, <1>4, <1>5, <1>6, <1>7 DEF Next, Drive, Loop, Fault

-----------------------------------------------------------------------------
(* Appends are legal: what a driver or a human has decided to append is    *)
(* legal after its own view (Ready), and the store takes an event only     *)
(* from a writer whose view is the log.                                    *)

\* A writer is behind, never wrong, and meets an occupied seq if it is behind.
Synced ==
    /\ NextSeq(log) \in Nat
    /\ DOMAIN log = 0..(NextSeq(log) - 1)
    /\ log = [i \in DOMAIN log |-> log[i]]
    /\ \A w \in Writers :
          /\ NextSeq(view[w]) \in 0..NextSeq(log)
          /\ DOMAIN view[w] = 0..(NextSeq(view[w]) - 1)
          /\ \A i \in DOMAIN view[w] : view[w][i] = log[i]
          /\ NextSeq(view[w]) \notin DOMAIN log => view[w] = log
          /\ view[w] = Before(log, NextSeq(view[w]))

LEMMA SyncedHolds == Spec => []Synced
<1>1. SharedLog!Inv => Synced
  <2> SUFFICES ASSUME SharedLog!Inv PROVE Synced
    OBVIOUS
  <2>1. \A v : SharedLog!NextSeq(v) = NextSeq(v)
    BY DEF NextSeq, Last, SharedLog!NextSeq, SharedLog!Last
  <2>2. /\ NextSeq(log) \in Nat
        /\ DOMAIN log = 0..(NextSeq(log) - 1)
        /\ log = [i \in 0..(NextSeq(log) - 1) |-> log[i]]
        /\ log = [i \in DOMAIN log |-> log[i]]
    BY <2>1 DEF SharedLog!Inv, SharedLog!Fills
  <2>3. ASSUME NEW w \in Writers
        PROVE  /\ NextSeq(view[w]) \in Nat
               /\ DOMAIN view[w] = 0..(NextSeq(view[w]) - 1)
               /\ view[w] = [i \in 0..(NextSeq(view[w]) - 1) |-> view[w][i]]
               /\ NextSeq(view[w]) <= NextSeq(log)
               /\ \A i \in DOMAIN view[w] : view[w][i] = log[i]
    BY <2>1 DEF SharedLog!Inv, SharedLog!Fills
  <2>4. ASSUME NEW w \in Writers, NextSeq(view[w]) \notin DOMAIN log
        PROVE  view[w] = log
    <3> DEFINE n == NextSeq(view[w])
               m == NextSeq(log)
    <3>1. n \in Nat /\ m \in Nat /\ n <= m /\ n \notin 0..(m - 1)
      BY <2>2, <2>3, <2>4
    <3>2. n = m
      <4> HIDE DEF n, m
      <4> QED BY <3>1
    <3> QED BY <2>2, <2>3, <3>2
  <2>5. ASSUME NEW w \in Writers PROVE NextSeq(view[w]) \in 0..NextSeq(log)
    <3>1. NextSeq(view[w]) \in Nat /\ NextSeq(view[w]) <= NextSeq(log)
      BY <2>3
    <3> QED BY <2>2, <3>1
  <2>6. ASSUME NEW w \in Writers PROVE view[w] = Before(log, NextSeq(view[w]))
    <3> DEFINE n == NextSeq(view[w])
               m == NextSeq(log)
               D == {j \in DOMAIN log : j < n}
    <3>1. n \in Nat /\ m \in Nat /\ n <= m /\ DOMAIN log = 0..(m - 1)
      BY <2>2, <2>3
    <3>2. D = 0..(n - 1)
      <4>1. D = {j \in 0..(m - 1) : j < n}
        BY <3>1
      <4> HIDE DEF n, m, D
      <4> QED BY <3>1, <4>1
    <3>3. DOMAIN view[w] = D /\ view[w] = [i \in D |-> view[w][i]]
          /\ \A i \in D : view[w][i] = log[i]
      BY <2>3, <3>2
    <3> HIDE DEF D
    <3>4. view[w] = [i \in D |-> log[i]]
      BY <3>3
    <3> QED BY <3>4 DEF Before, D
  <2> QED BY <2>2, <2>3, <2>4, <2>5, <2>6 DEF Synced
<1> QED BY <1>1, ProtocolImplemented, SharedIsRunLog, SharedLog!InvHolds, PTL

\* What is stored comes behind the view.
LEMMA StoredAdds ==
    ASSUME TypeInv, Synced, NEW w \in Writers, NEW e, Stored(w, e)
    PROVE  /\ Adds(view[w], e, view'[w])
           /\ \/ UNCHANGED log
              \/ view[w] = log /\ Adds(log, e, log') /\ log' = view'[w]
<1>1. /\ DOMAIN view = Writers /\ NextSeq(view[w]) \in Nat
      /\ \A i \in DOMAIN view[w] : i \in Nat /\ i < NextSeq(view[w])
  BY DEF TypeInv, TypeOK, StoreTyped, EventList
<1>2. view'[w] = With(view[w], NextSeq(view[w]), e)
  BY <1>1 DEF Stored
<1>3. Adds(view[w], e, With(view[w], NextSeq(view[w]), e))
  BY <1>1 DEF Adds, With
<1>4. CASE NextSeq(view[w]) \in DOMAIN log
  BY <1>2, <1>3, <1>4 DEF Stored
<1>5. CASE NextSeq(view[w]) \notin DOMAIN log
  <2>1. view[w] = log /\ log' = With(log, NextSeq(view[w]), e)
    BY <1>5 DEF Stored, Synced
  <2> QED BY <1>2, <1>3, <2>1
<1> QED BY <1>4, <1>5

LEMMA NextCallPending ==
    ASSUME NEW v, EventList(v), Pending(v) # {}
    PROVE  NextCall(v).id \in PendingIds(v)
BY PendingType DEF NextCall, PendingIds

\* A turn that is recorded as finished is finished.
LEMMA RecordedIsFinished ==
    ASSUME NEW v, EventList(v), FinishRecorded(v)
    PROVE  Finished(v)
<1> DEFINE S == At(v, {"schema_feedback", "user_message", "run_finished"})
           E == {i \in At(v, {"model_decision"}) : v[i].calls = <<>>}
           f == Last(S)
           c == Last(S \cup E)
<1>1. f # -1 /\ v[f].type = "run_finished"
  BY DEF FinishRecorded
<1>2. S # {} /\ S \subseteq DOMAIN v /\ E \subseteq DOMAIN v
  BY <1>1 DEF Last, At
<1>3. DOMAIN v \subseteq Nat /\ NextSeq(v) \in Nat /\ \A i \in DOMAIN v : i <= NextSeq(v)
  BY DEF EventList
<1>4. f \in S /\ \A j \in S : j <= f
  <2> HIDE DEF S
  <2> QED BY <1>2, <1>3, LastExists
<1>5. c \in S \cup E /\ \A j \in S \cup E : j <= c
  <2>1. S \cup E \subseteq Nat /\ S \cup E # {} /\ \A i \in S \cup E : i <= NextSeq(v)
    BY <1>2, <1>3
  <2> HIDE DEF S, E
  <2> QED BY <1>3, <2>1, LastExists
<1>6. c \in Nat /\ f \in Nat
  BY <1>2, <1>3, <1>4, <1>5
<1>7. v[c].type \in {"run_finished", "model_decision"}
  <2>1. CASE c \in E
    BY <2>1 DEF At
  <2>2. CASE c \in S
    <3>1. c <= f /\ f <= c
      BY <1>4, <1>5, <2>2
    <3>2. c = f
      BY <1>6, <3>1
    <3> QED BY <1>1, <3>2
  <2> QED BY <1>5, <2>1, <2>2
<1> QED BY <1>6, <1>7 DEF Finished, Closing

\* An event that is not the end of a turn leaves the record of one as it is.
LEMMA AddsUnfinished ==
    ASSUME NEW v, NEW e, NEW w, Adds(v, e, w), ~FinishRecorded(v), e.type # "run_finished"
    PROVE  ~FinishRecorded(w)
<1> DEFINE types == {"schema_feedback", "user_message", "run_finished"}
           f == Last(At(v, types))
           g == Last(At(w, types))
<1>1. CASE e.type \in types
  <2>1. g = NextSeq(v) /\ w[NextSeq(v)] = e
    BY <1>1, AddsLast DEF Adds
  <2> QED BY <2>1 DEF FinishRecorded
<1>2. CASE e.type \notin types
  <2>1. g = f
    BY <1>2, AddsLast
  <2>2. At(v, types) \subseteq DOMAIN v
    BY DEF At
  <2>3. f # -1 => w[f] = v[f]
    <3> HIDE DEF types
    <3> QED BY <2>2, LastIsThere
  <2> QED BY <2>1, <2>3 DEF FinishRecorded
<1> QED BY <1>1, <1>2

-----------------------------------------------------------------------------
(* The places of a batch.                                                  *)

Place(B, i) == Cardinality({j \in B : j < i})

LEMMA PlaceType ==
    ASSUME NEW B, B \subseteq Nat, IsFiniteSet(B), NEW i \in Nat
    PROVE  Place(B, i) \in Nat
<1>1. {j \in B : j < i} \in SUBSET B
  OBVIOUS
<1>2. IsFiniteSet({j \in B : j < i})
  BY <1>1, FS_Subset
<1> QED BY <1>2, FS_CardinalityType DEF Place

\* A member further back has a later place.
LEMMA PlaceGrows ==
    ASSUME NEW B, B \subseteq Nat, IsFiniteSet(B), NEW i \in B, NEW k \in B, i < k
    PROVE  Place(B, i) < Place(B, k)
<1> DEFINE S == {j \in B : j < i}
           T == {j \in B : j < k}
<1>1. i \in Nat /\ k \in Nat
  OBVIOUS
<1>2. ASSUME NEW j \in B PROVE j \in Nat /\ (j < i => j < k)
  <2>1. j \in Nat
    OBVIOUS
  <2> QED BY <1>1, <2>1
<1>3. S \in SUBSET T /\ T \in SUBSET B /\ i \in T /\ i \notin S
  <2>1. ~(i < i)
    BY <1>1
  <2>2. S \in SUBSET T /\ T \in SUBSET B /\ i \in T
    BY <1>2
  <2> QED BY <2>1, <2>2
<1>4. IsFiniteSet(T)
  <2> HIDE DEF S, T
  <2> QED BY <1>3, FS_Subset
<1>5. IsFiniteSet(S) /\ Cardinality(S) <= Cardinality(T) /\ Cardinality(S) # Cardinality(T)
  <2> HIDE DEF S, T
  <2> QED BY <1>3, <1>4, FS_Subset
<1>6. Cardinality(S) \in Nat /\ Cardinality(T) \in Nat
  BY <1>4, <1>5, FS_CardinalityType
<1> HIDE DEF S, T
<1>7. Cardinality(S) < Cardinality(T)
  BY <1>5, <1>6
<1> QED BY <1>7 DEF Place, S, T

LEMMA PlaceUnique ==
    ASSUME NEW B, B \subseteq Nat, IsFiniteSet(B), NEW i \in B, NEW k \in B,
           Place(B, i) = Place(B, k)
    PROVE  i = k
<1>1. i \in Nat /\ k \in Nat /\ Place(B, i) \in Nat
  BY PlaceType
<1>2. ~(i < k)
  <2> SUFFICES ASSUME i < k PROVE FALSE
    OBVIOUS
  <2>1. Place(B, i) < Place(B, k)
    BY PlaceGrows
  <2> QED BY <1>1, <2>1
<1>3. ~(k < i)
  <2> SUFFICES ASSUME k < i PROVE FALSE
    OBVIOUS
  <2>1. Place(B, k) < Place(B, i)
    BY PlaceGrows
  <2> QED BY <1>1, <2>1
<1> QED BY <1>1, <1>2, <1>3

\* The first has place 0, and the others move up when it is gone.
LEMMA PlaceAfterFirst ==
    ASSUME NEW B, B \subseteq Nat, IsFiniteSet(B), B # {}
    PROVE  /\ First(B) \in B /\ Place(B, First(B)) = 0
           /\ \A i \in B \ {First(B)} : Place(B \ {First(B)}, i) + 1 = Place(B, i)
<1> DEFINE f == First(B)
<1>1. f \in B /\ \A j \in B : f <= j
  BY FirstExists
<1>2. f \in Nat
  BY <1>1
<1>3. Place(B, f) = 0
  <2>1. ASSUME NEW j \in B PROVE ~(j < f)
    <3>1. f <= j /\ j \in Nat
      BY <1>1
    <3> HIDE DEF f
    <3> QED BY <1>2, <3>1
  <2>2. {j \in B : j < f} = {}
    BY <2>1
  <2> QED BY <2>2, FS_EmptySet DEF Place
<1>4. ASSUME NEW i \in B \ {f} PROVE Place(B \ {f}, i) + 1 = Place(B, i)
  <2> DEFINE S == {j \in B \ {f} : j < i}
             T == {j \in B : j < i}
  <2>1. f < i
    <3>1. f <= i /\ i # f /\ i \in Nat
      BY <1>1
    <3> QED BY <1>2, <3>1
  <2>2. T = S \cup {f} /\ f \notin S
    <3>1. f \in T /\ f \notin S /\ S \subseteq T
      <4> HIDE DEF f
      <4> QED BY <1>1, <2>1
    <3>2. ASSUME NEW j \in T, j # f PROVE j \in S
      BY <3>2
    <3> HIDE DEF S, T
    <3> QED BY <3>1, <3>2
  <2>3. S \in SUBSET B
    OBVIOUS
  <2>4. IsFiniteSet(S)
    <3> HIDE DEF S
    <3> QED BY <2>3, FS_Subset
  <2>5. Cardinality(T) = Cardinality(S) + 1
    <3> HIDE DEF S, T
    <3> QED BY <2>2, <2>4, FS_AddElement
  <2> HIDE DEF f
  <2> QED BY <2>5 DEF Place
<1> QED BY <1>1, <1>3, <1>4
-----------------------------------------------------------------------------
(* Induction along a log, and its beginnings.                              *)

\* What holds at a and is passed on up to b holds in between.
LEMMA UpTo ==
    ASSUME NEW a \in Nat, NEW b \in Nat, NEW S, a \in S,
           \A n \in Nat : a <= n /\ n < b /\ n \in S => n + 1 \in S
    PROVE  \A n \in Nat : a <= n /\ n <= b => n \in S
<1> DEFINE T == {n \in Nat : a <= n /\ n <= b /\ n \notin S}
           f == First(T)
<1> SUFFICES ASSUME T # {} PROVE FALSE
  OBVIOUS
<1>1. f \in T /\ \A n \in T : f <= n
  <2>1. T \subseteq Nat
    OBVIOUS
  <2> HIDE DEF T
  <2> QED BY <2>1, FirstExists
<1>2. f \in Nat /\ a <= f /\ f <= b /\ f \notin S
  BY <1>1
<1> HIDE DEF f
<1>3. f # a
  BY <1>2
<1>4. f - 1 \in Nat /\ a <= f - 1 /\ f - 1 < b /\ f - 1 <= b /\ ~(f <= f - 1) /\ (f - 1) + 1 = f
  BY <1>2, <1>3
<1>5. f - 1 \notin T
  <2> HIDE DEF T
  <2> QED BY <1>1, <1>4
<1>6. f - 1 \in S
  BY <1>4, <1>5
<1> QED BY <1>2, <1>4, <1>6

\* A list without gaps.
Gapless(l) == EventList(l) /\ DOMAIN l = 0..(NextSeq(l) - 1)

LEMMA BeforeIsList ==
    ASSUME NEW l, Gapless(l), NEW n \in 0..NextSeq(l)
    PROVE  /\ EventList(Before(l, n)) /\ NextSeq(Before(l, n)) = n
           /\ DOMAIN Before(l, n) = 0..(n - 1)
           /\ \A i \in 0..(n - 1) : Before(l, n)[i] = l[i]
<1> DEFINE D == {j \in DOMAIN l : j < n}
           m == NextSeq(l)
<1>1. n \in Nat /\ m \in Nat /\ n <= m /\ DOMAIN l = 0..(m - 1)
  BY DEF Gapless, EventList
<1>2. D = 0..(n - 1)
  <2>1. D = {j \in 0..(m - 1) : j < n}
    BY <1>1
  <2> HIDE DEF D, m
  <2> QED BY <1>1, <2>1
<1>3. Before(l, n) = [i \in D |-> l[i]]
  BY DEF Before
<1>4. DOMAIN Before(l, n) = 0..(n - 1) /\ \A i \in 0..(n - 1) : Before(l, n)[i] = l[i]
  BY <1>2, <1>3
<1>5. NextSeq(Before(l, n)) = n
  <2>1. CASE n = 0
    <3>1. 0..(n - 1) = {}
      BY <2>1
    <3> QED BY <1>4, <2>1, <3>1 DEF NextSeq, Last
  <2>2. CASE n # 0
    <3>1. 0..(n - 1) \subseteq Nat /\ n - 1 \in 0..(n - 1) /\ \A i \in 0..(n - 1) : i <= n - 1
      BY <1>1, <2>2
    <3> DEFINE x == Last(0..(n - 1))
    <3>2. x \in 0..(n - 1) /\ n - 1 <= x
      BY <1>1, <3>1, LastExists
    <3> HIDE DEF x
    <3>3. x = n - 1
      BY <1>1, <3>2
    <3>4. Last(0..(n - 1)) = n - 1
      BY <3>3 DEF x
    <3> QED BY <1>1, <1>4, <3>4 DEF NextSeq
  <2> QED BY <2>1, <2>2
<1>6. ASSUME NEW i \in 0..(n - 1) PROVE i \in Nat /\ i < n /\ l[i] \in EngineEvents
  <2>1. i \in D
    BY <1>2
  <2>2. i \in DOMAIN l /\ i < n
    BY <2>1
  <2> QED BY <2>2 DEF Gapless, EventList
<1>7. EventList(Before(l, n))
  BY <1>1, <1>4, <1>5, <1>6 DEF EventList
<1> QED BY <1>4, <1>5, <1>7

\* Each event comes behind the ones before it.
LEMMA BeforeAdds ==
    ASSUME NEW l, Gapless(l), NEW n \in DOMAIN l
    PROVE  /\ n \in 0..NextSeq(l) /\ n + 1 \in 0..NextSeq(l)
           /\ Adds(Before(l, n), l[n], Before(l, n + 1))
<1> DEFINE m == NextSeq(l)
<1>1. m \in Nat /\ n \in 0..(m - 1)
  BY DEF Gapless, EventList
<1>2. n \in Nat /\ n \in 0..m /\ n + 1 \in 0..m /\ (n + 1) - 1 = n
      /\ 0..((n + 1) - 1) = 0..(n - 1) \cup {n} /\ n \notin 0..(n - 1)
  <2> HIDE DEF m
  <2> QED BY <1>1
<1>3. /\ NextSeq(Before(l, n)) = n
      /\ DOMAIN Before(l, n) = 0..(n - 1) /\ \A i \in 0..(n - 1) : Before(l, n)[i] = l[i]
  BY <1>2, BeforeIsList
<1>4. /\ DOMAIN Before(l, n + 1) = 0..(n - 1) \cup {n}
      /\ \A i \in 0..(n - 1) \cup {n} : Before(l, n + 1)[i] = l[i]
  BY <1>2, BeforeIsList
<1>5. \A i \in 0..(n - 1) : i \in Nat /\ i < n
  BY <1>2
<1> QED BY <1>2, <1>3, <1>4, <1>5 DEF Adds

LEMMA BeforeAll ==
    ASSUME NEW l, Gapless(l), l = [i \in DOMAIN l |-> l[i]]
    PROVE  Before(l, NextSeq(l)) = l
<1>1. {j \in DOMAIN l : j < NextSeq(l)} = DOMAIN l
  BY DEF Gapless, EventList
<1> QED BY <1>1 DEF Before

-----------------------------------------------------------------------------
(* What one event more does to the turn and to the requests.               *)

LEMMA AddsFinished ==
    ASSUME NEW v, NEW e, NEW w, Adds(v, e, w)
    PROVE  /\ \/ e.type \notin {"schema_feedback", "user_message", "run_finished",
                                "model_decision"}
              \/ e.type = "model_decision" /\ e.calls # <<>>
              => (Finished(w) <=> Finished(v))
           /\ e.type = "run_finished" => Finished(w)
           /\ e.type \in {"schema_feedback", "user_message"} => ~Finished(w)
<1> DEFINE types == {"schema_feedback", "user_message", "run_finished"}
           E(x) == {i \in At(x, {"model_decision"}) : x[i].calls = <<>>}
           C(x) == At(x, types) \cup E(x)
           n == NextSeq(v)
<1>1. n \in Nat /\ w[n] = e
  BY DEF Adds
<1>2. C(v) \subseteq Nat /\ (\A i \in C(v) : i < n /\ w[i] = v[i]) /\ C(v) \subseteq DOMAIN v
  <2>1. \A i \in C(v) : i \in DOMAIN v
    BY DEF At
  <2> HIDE DEF C
  <2> QED BY <2>1 DEF Adds
<1>3. ASSUME e.type \in types \/ (e.type = "model_decision" /\ e.calls = <<>>)
      PROVE  Closing(w) = n
  <2>1. C(w) = C(v) \cup {n}
    <3>1. \A i \in At(v, {"model_decision"}) : w[i] = v[i]
      BY AddsAt
    <3>2. CASE e.type \in types
      <4>1. At(w, types) = At(v, types) \cup {n} /\ At(w, {"model_decision"}) = At(v, {"model_decision"})
        BY <3>2, AddsAt
      <4> QED BY <3>1, <4>1
    <3>3. CASE e.type = "model_decision" /\ e.calls = <<>>
      <4>1. At(w, types) = At(v, types)
            /\ At(w, {"model_decision"}) = At(v, {"model_decision"}) \cup {n}
        BY <3>3, AddsAt
      <4>2. E(w) = E(v) \cup {n}
        BY <1>1, <3>1, <3>3, <4>1
      <4> QED BY <4>1, <4>2
    <3> QED BY <1>3, <3>2, <3>3
  <2>2. Last(C(v) \cup {n}) = n
    <3> HIDE DEF C, n
    <3> QED BY <1>1, <1>2, LastOfGrown
  <2> QED BY <2>1, <2>2 DEF Closing
<1>4. ASSUME \/ e.type \notin types \cup {"model_decision"}
             \/ e.type = "model_decision" /\ e.calls # <<>>
      PROVE  Finished(w) <=> Finished(v)
  <2>1. C(w) = C(v)
    <3>1. \A i \in At(v, {"model_decision"}) : w[i] = v[i]
      BY AddsAt
    <3>2. At(w, types) = At(v, types)
      BY <1>4, AddsAt
    <3>3. CASE e.type # "model_decision"
      <4>1. At(w, {"model_decision"}) = At(v, {"model_decision"})
        BY <3>3, AddsAt
      <4> QED BY <3>1, <3>2, <4>1
    <3>4. CASE e.type = "model_decision" /\ e.calls # <<>>
      <4>1. At(w, {"model_decision"}) = At(v, {"model_decision"}) \cup {n}
        BY <3>4, AddsAt
      <4>2. E(w) = E(v)
        BY <1>1, <3>1, <3>4, <4>1
      <4> QED BY <3>2, <4>2
    <3> QED BY <1>4, <3>3, <3>4
  <2>2. Closing(w) = Last(C(v)) /\ Closing(v) = Last(C(v))
    BY <2>1 DEF Closing
  <2>3. Last(C(v)) # -1 => w[Last(C(v))] = v[Last(C(v))]
    <3> HIDE DEF C
    <3> QED BY <1>2, LastIsThere
  <2> QED BY <2>2, <2>3 DEF Finished
<1>5. n # -1
  <2> HIDE DEF n
  <2> QED BY <1>1
<1>6. Closing(w) = n => (Finished(w) <=> e.type \in {"run_finished", "model_decision"})
  BY <1>1, <1>5 DEF Finished
<1>7. e.type = "run_finished" => Finished(w)
  BY <1>3, <1>6
<1>8. e.type \in {"schema_feedback", "user_message"} => ~Finished(w)
  BY <1>3, <1>6
<1> QED BY <1>4, <1>7, <1>8

\* Events that neither end a turn nor concern calls leave the next step as it is.
LEMMA AddsStep ==
    ASSUME NEW v, NEW e, NEW w, Adds(v, e, w),
           e.type \notin {"schema_feedback", "user_message", "run_finished",
                          "model_decision", "tool_result"}
    PROVE  Step(w) = Step(v) /\ (Delivering(w) <=> Delivering(v))
<1>1. Finished(w) <=> Finished(v)
  BY AddsFinished
<1>2. Pending(w) = Pending(v) /\ ModelCalls(w) = ModelCalls(v) /\ NextCall(w) = NextCall(v)
  BY AddsAside
<1>3. Step(w) = Step(v)
  BY <1>1, <1>2 DEF Step, NextStep
<1> QED BY <1>2, <1>3 DEF Delivering

LEMMA AddsOpen ==
    ASSUME NEW v, NEW e, NEW w, Adds(v, e, w)
    PROVE  /\ OpenRequests(w) \subseteq OpenRequests(v) \cup {NextSeq(v)}
           /\ e.type # "approval_requested" => OpenRequests(w) \subseteq OpenRequests(v)
           /\ e.type \notin Verdictal \cup {"approval_requested"}
                => OpenRequests(w) = OpenRequests(v)
           /\ \A i \in OpenRequests(v) : i \in DOMAIN v /\ w[i] = v[i]
<1> DEFINE A(x) == At(x, {"approval_requested"})
           V(x) == At(x, {"approval_granted", "approval_denied"})
           n == NextSeq(v)
<1>1. /\ \A i \in A(v) : w[i] = v[i] /\ i \in DOMAIN v
      /\ A(w) \subseteq A(v) \cup {n} /\ A(v) \subseteq A(w)
      /\ e.type # "approval_requested" => A(w) = A(v)
  BY AddsAt
<1>2. /\ V(v) \subseteq V(w) /\ \A i \in V(v) : w[i] = v[i]
      /\ e.type \notin Verdictal => V(w) = V(v)
  BY AddsAt DEF Verdictal
<1>3. \A id : Verdicts(w, id) = {} => Verdicts(v, id) = {}
  BY <1>2 DEF Verdicts
<1>4. e.type \notin Verdictal => \A id : Verdicts(w, id) = Verdicts(v, id)
  BY <1>2 DEF Verdicts
<1>5. \A i \in OpenRequests(v) : i \in DOMAIN v /\ w[i] = v[i]
  BY <1>1 DEF OpenRequests
<1>6. OpenRequests(w) \subseteq OpenRequests(v) \cup {n}
  BY <1>1, <1>3 DEF OpenRequests
<1>7. e.type # "approval_requested" => OpenRequests(w) \subseteq OpenRequests(v)
  BY <1>1, <1>3 DEF OpenRequests
<1>8. e.type \notin Verdictal \cup {"approval_requested"} => OpenRequests(w) = OpenRequests(v)
  BY <1>1, <1>4 DEF OpenRequests
<1> QED BY <1>5, <1>6, <1>7, <1>8

-----------------------------------------------------------------------------
(* Legal histories.                                                        *)

EndsWith(v, type) == v[Last(DOMAIN v)].type = type

\* Legal after p and, if it is about a call, about the one the orchestrator
\* would handle next, on which no human has yet to decide.
Rightful(p, e) ==
    /\ Legal(p, e)
    /\ e.type \in {"tool_result", "step_started", "approval_requested"} =>
          Step(p) = "tool" /\ e.call = NextCall(p).id /\ OpenRequests(p) = {}
    /\ e.type = "step_started" => NextCall(p).tool \in Irreversible
    /\ e.type = "approval_requested" =>
          /\ ~Delivering(p) /\ Mode[NextCall(p).tool] = "assisted"
          /\ ApprovalDecision(p, e.call) = "pending"
    /\ e.type = "model_decision" => e.calls \in Replies[ModelCalls(p)]
    /\ e.type = "run_finished" /\ e.output = "structured" => HasSchema

\* Each event was rightful when it came.
History(l) == \A n \in DOMAIN l : Rightful(Before(l, n), l[n])

\* A request that is open is about the next call, has come since the turn
\* began, and nothing but a decision can be about calls before it is closed.
Orderly(v) ==
    OpenRequests(v) # {} =>
        /\ Step(v) = "tool" /\ ~Delivering(v) /\ Mode[NextCall(v).tool] = "assisted"
        /\ ~EndsWith(v, "tool_result") /\ ~EndsWith(v, "user_message")
        /\ \A i \in OpenRequests(v) :
              /\ v[i].call = NextCall(v).id
              /\ \A j \in At(v, {"user_message", "run_finished"}) : j < i

LEMMA FinishOutputs ==
    ASSUME NEW e \in EngineEvents, e.type = "run_finished"
    PROVE  e.output \in {"answer", "stopped", "blocked", "structured"}
BY DEF EngineEvents, Verdicted, RunStarted, UserMessage, MemoryRecalled, Decision,
       StepStarted, ToolResult, ApprovalRequested, Verdict, RunFinished,
       SchemaFeedback, RunFailed

LEMMA OrderlyKept ==
    ASSUME NEW v, NEW e \in EngineEvents, NEW w, Adds(v, e, w), Rightful(v, e), Orderly(v)
    PROVE  Orderly(w)
<1> SUFFICES ASSUME OpenRequests(w) # {} PROVE Orderly(w)
  BY DEF Orderly
<1> DEFINE n == NextSeq(v)
<1>1. Legal(v, e)
  BY DEF Rightful
<1>2. w[Last(DOMAIN w)] = e
  BY AddsNext DEF Adds
<1>3. n \in DOMAIN w /\ w[n] = e /\ n \in Nat
  BY DEF Adds
<1>4. CASE e.type \in {"step_started", "tool_result"}
  <2>1. OpenRequests(v) = {}
    BY <1>4 DEF Rightful
  <2> QED BY <1>4, <2>1, AddsOpen
<1>5. CASE e.type \in {"run_started", "user_message", "run_finished", "schema_feedback",
                       "model_decision"}
  <2>1. OpenRequests(v) = {}
    <3> SUFFICES ASSUME OpenRequests(v) # {} PROVE FALSE
      OBVIOUS
    <3>1. /\ Step(v) = "tool" /\ ~Finished(v)
          /\ ~EndsWith(v, "tool_result") /\ ~EndsWith(v, "user_message")
      BY StepTool DEF Orderly
    <3>2. DOMAIN v # {}
      BY DEF OpenRequests, At
    <3>3. CASE e.type = "run_finished"
      <4>1. Closes(v, e.output) /\ ~TextFinish(v) /\ ~Vetoed(v) /\ ~OverBudget(v)
        BY <1>1, <3>1, <3>3 DEF Legal, TextFinish, Vetoed, OverBudget
      <4>2. e.output \in {"answer", "stopped", "blocked", "structured"}
        BY <3>3, FinishOutputs
      <4> QED BY <3>1, <4>1, <4>2 DEF Closes, EndsWith
    <3> QED BY <1>1, <1>5, <3>1, <3>2, <3>3 DEF Legal, TextFinish
  <2> QED BY <1>5, <2>1, AddsOpen DEF Verdictal
<1>6. CASE e.type = "approval_requested"
  <2>1. OpenRequests(v) = {} /\ OpenRequests(w) \subseteq {n}
    BY <1>6, AddsOpen DEF Rightful
  <2>2. /\ Step(v) = "tool" /\ ~Delivering(v) /\ Mode[NextCall(v).tool] = "assisted"
        /\ e.call = NextCall(v).id
    BY <1>6 DEF Rightful
  <2>3. Step(w) = Step(v) /\ (Delivering(w) <=> Delivering(v)) /\ NextCall(w) = NextCall(v)
    BY <1>6, AddsStep, AddsAside
  <2>4. \A j \in At(w, {"user_message", "run_finished"}) : j < n
    BY <1>6, AddsAt
  <2> QED BY <1>2, <1>3, <1>6, <2>1, <2>2, <2>3, <2>4 DEF Orderly, EndsWith
<1>7. CASE e.type \in {"approval_granted", "approval_denied", "memory_recalled", "run_failed"}
  <2>1. OpenRequests(w) \subseteq OpenRequests(v) /\ \A i \in OpenRequests(v) : w[i] = v[i]
    BY <1>7, AddsOpen
  <2>2. Step(w) = Step(v) /\ (Delivering(w) <=> Delivering(v)) /\ NextCall(w) = NextCall(v)
    BY <1>7, AddsStep, AddsAside
  <2>3. At(w, {"user_message", "run_finished"}) = At(v, {"user_message", "run_finished"})
    BY <1>7, AddsAt
  <2>4. OpenRequests(v) # {}
    BY <2>1
  <2>5. /\ Step(v) = "tool" /\ ~Delivering(v) /\ Mode[NextCall(v).tool] = "assisted"
        /\ \A i \in OpenRequests(v) :
              /\ v[i].call = NextCall(v).id
              /\ \A j \in At(v, {"user_message", "run_finished"}) : j < i
    BY <2>4 DEF Orderly
  <2>6. ~EndsWith(w, "tool_result") /\ ~EndsWith(w, "user_message")
    BY <1>2, <1>7 DEF EndsWith
  <2> QED BY <2>1, <2>2, <2>3, <2>5, <2>6 DEF Orderly
<1> QED BY <1>1, <1>4, <1>5, <1>6, <1>7 DEF Legal

\* So every beginning of a legal history is orderly.
LEMMA HistoryOrderly ==
    ASSUME NEW l, Gapless(l), History(l)
    PROVE  \A n \in 0..NextSeq(l) : Orderly(Before(l, n))
<1> DEFINE m == NextSeq(l)
           S == {n \in 0..m : Orderly(Before(l, n))}
<1>1. m \in Nat /\ DOMAIN l = 0..(m - 1)
  BY DEF Gapless, EventList
<1>2. 0 \in S
  <2>1. 0 \in 0..m /\ 0..(0 - 1) = {}
    BY <1>1
  <2>2. DOMAIN Before(l, 0) = {}
    BY <2>1, BeforeIsList
  <2>3. OpenRequests(Before(l, 0)) = {}
    BY <2>2 DEF OpenRequests, At
  <2> QED BY <2>1, <2>3 DEF Orderly
<1>3. ASSUME NEW n \in Nat, 0 <= n, n < m, n \in S PROVE n + 1 \in S
  <2>1. n \in DOMAIN l
    <3> HIDE DEF m
    <3> QED BY <1>1, <1>3
  <2>2. n + 1 \in 0..m /\ Adds(Before(l, n), l[n], Before(l, n + 1))
    BY <2>1, BeforeAdds
  <2>3. Rightful(Before(l, n), l[n]) /\ Orderly(Before(l, n))
    BY <1>3, <2>1 DEF History
  <2>4. l[n] \in EngineEvents
    BY <2>1 DEF Gapless, EventList
  <2>5. Orderly(Before(l, n + 1))
    BY <2>2, <2>3, <2>4, OrderlyKept
  <2> QED BY <2>2, <2>5
<1>4. \A n \in Nat : 0 <= n /\ n <= m => n \in S
  <2> HIDE DEF S, m
  <2> QED BY <1>1, <1>2, <1>3, UpTo
<1> QED BY <1>4, <1>1

\* A rightful event makes a longer history.
LEMMA HistoryGrows ==
    ASSUME NEW l, Gapless(l), History(l), l = [i \in DOMAIN l |-> l[i]],
           NEW e, Rightful(l, e), NEW k, Adds(l, e, k)
    PROVE  History(k)
<1>1. ASSUME NEW n \in DOMAIN l PROVE Rightful(Before(k, n), k[n])
  <2>1. n \in Nat /\ n < NextSeq(l) /\ k[n] = l[n]
    BY DEF Adds
  <2>2. {j \in DOMAIN k : j < n} = {j \in DOMAIN l : j < n}
    <3>1. NextSeq(l) \in Nat /\ ~(NextSeq(l) < n)
      BY <2>1 DEF Adds
    <3>2. DOMAIN k = DOMAIN l \cup {NextSeq(l)}
      BY DEF Adds
    <3> QED BY <3>1, <3>2
  <2>3. Before(k, n) = Before(l, n)
    BY <2>2 DEF Before, Adds
  <2> QED BY <2>1, <2>3 DEF History
<1>2. Before(k, NextSeq(l)) = l
  <2>1. {j \in DOMAIN k : j < NextSeq(l)} = DOMAIN l
    <3>1. \A j \in DOMAIN l : j < NextSeq(l)
      BY DEF Adds
    <3>2. ~(NextSeq(l) < NextSeq(l))
      BY DEF Adds
    <3>3. DOMAIN k = DOMAIN l \cup {NextSeq(l)}
      BY DEF Adds
    <3> QED BY <3>1, <3>2, <3>3
  <2>2. \A j \in DOMAIN l : k[j] = l[j]
    BY DEF Adds
  <2> QED BY <2>1, <2>2 DEF Before
<1>3. Rightful(Before(k, NextSeq(l)), k[NextSeq(l)])
  BY <1>2 DEF Adds
<1> QED BY <1>1, <1>3 DEF History, Adds

-----------------------------------------------------------------------------
(* Readiness.                                                              *)

\* o numbers one result for each call of B, in call order.
Numbered(o, v, B) ==
    /\ DOMAIN o = {NextSeq(v) + Place(B, i) : i \in B}
    /\ \A i \in B : /\ o[NextSeq(v) + Place(B, i)].type = "tool_result"
                    /\ o[NextSeq(v) + Place(B, i)].call = CurrentCalls(v)[i].id
                    /\ o[NextSeq(v) + Place(B, i)].content \in Contents \cup {"timeout"}

\* What an executed step has left to record: the decision that was due, or the
\* results of all pending calls, or of the first.
Outgoing(v, o) ==
    \/ /\ DOMAIN o = {NextSeq(v)}
       /\ o[NextSeq(v)].type = "model_decision"
       /\ o[NextSeq(v)].calls \in Replies[ModelCalls(v)]
       /\ Step(v) = "model" /\ ~NeedsRecall(v) /\ ~OverBudget(v) /\ ~Vetoed(v)
    \/ /\ Step(v) = "tool" /\ OpenRequests(v) = {}
       /\ \E B \in {Pending(v), {First(Pending(v))}} : Numbered(o, v, B)

\* A driver at label l, with view v and steps o to record, may go on.
Ready(l, v, o) ==
    /\ l = "begin" => DOMAIN v = {}
    /\ l \in {"loop", "decide", "reload", "followup", "blockturn", "finish", "execute",
              "record"} => DOMAIN v # {}
    /\ l = "followup" => Finished(v)
    /\ l = "blockturn" =>
          /\ ~FinishRecorded(v) /\ EndsWith(v, "user_message")
          /\ v[Last(DOMAIN v)].input \in BlockedInputs
    /\ l = "finish" =>
          /\ ~FinishRecorded(v) /\ EndsWith(v, "tool_result")
          /\ v[Last(DOMAIN v)].content = "accepted"
          /\ HasSchema
    /\ l = "execute" => Step(v) = "tool" /\ ~Delivering(v) /\ OpenRequests(v) = {}
    /\ l = "record" => Outgoing(v, o)

\* Whoever is about to append has what is legal after its own view.
Poised ==
    /\ History(log)
    /\ \A d \in Drivers : Ready(pc[d], view[d], out[d])
    /\ \A h \in Humans : pc[h] = "deciding" => verdict[h].call \in PendingApprovals(view[h])

\* What driver d appends: rightful after its view, no decision of a human, and
\* the disowning of none of its own intents.
Proper(d, e) ==
    /\ Rightful(view[d], e)
    /\ e.type \notin Verdictal
    /\ e.type = "tool_result" /\ e.content = "unknown_outcome" =>
          e.call \notin mine[d] \/ "unknown_outcome" \in Contents

\* A step of w leaves the store alone, loads, or appends what is rightful.
Rightly(w) ==
    \/ Kept
    \/ Load(w)
    \/ \E e \in EngineEvents :
          /\ Rightful(view[w], e)
          /\ w \in Drivers => Proper(w, e)
          /\ Stored(w, e) \/ Conflict(w, e)

RightStep(d) == Rightly(d) /\ Ready(pc'[d], view'[d], out'[d])

\* A view is a beginning of the log, so it is orderly.
LEMMA ViewsOrderly ==
    ASSUME TypeInv, Synced, History(log)
    PROVE  /\ Gapless(log) /\ log = [i \in DOMAIN log |-> log[i]] /\ Orderly(log)
           /\ \A w \in Writers : Gapless(view[w]) /\ Orderly(view[w])
<1>1. Gapless(log) /\ log = [i \in DOMAIN log |-> log[i]] /\ NextSeq(log) \in Nat
  BY DEF Gapless, Synced, TypeInv, TypeOK, StoreTyped
<1>2. \A n \in 0..NextSeq(log) : Orderly(Before(log, n))
  BY <1>1, HistoryOrderly
<1>3. Orderly(log)
  BY <1>1, <1>2, BeforeAll
<1>4. ASSUME NEW w \in Writers PROVE Gapless(view[w]) /\ Orderly(view[w])
  <2>1. /\ NextSeq(view[w]) \in 0..NextSeq(log) /\ view[w] = Before(log, NextSeq(view[w]))
        /\ DOMAIN view[w] = 0..(NextSeq(view[w]) - 1)
    BY DEF Synced
  <2> QED BY <1>2, <2>1 DEF Gapless, TypeInv, TypeOK, StoreTyped
<1> QED BY <1>1, <1>3, <1>4

LEMMA PcAfter ==
    ASSUME TypeInv, NEW w \in Writers, NEW l, Goto(w, l)
    PROVE  pc'[w] = l /\ \A x \in Writers : x # w => pc'[x] = pc[x]
BY DEF TypeInv, TypeOK, Goto

\* Labels at which nothing but a view that is not empty is asked for.
Easy == {"loop", "decide", "reload", "pause", "return", "unwind"}

LEMMA EasyLabels == LoopHead \in Easy /\ {"reload", "pause", "return", "unwind"} \subseteq Easy
BY DEF LoopHead, Easy

LEMMA EasyReady ==
    ASSUME NEW l \in Easy, NEW v, NEW o, DOMAIN v # {}
    PROVE  Ready(l, v, o)
BY DEF Easy, Ready

LEMMA UnwindReady == \A v, o : Ready("unwind", v, o)
BY DEF Ready

\* A driver that posts what is rightful, and is ready where that leads.
LEMMA PostRight ==
    ASSUME TypeInv, Synced, NEW d \in Drivers, NEW e \in EngineEvents, NEW l,
           Proper(d, e),
           \/ Post(d, e, l) /\ DOMAIN view[d] # {}
           \/ PostOrRaise(d, e, l),
           \A w : Adds(view[d], e, w) => Ready(l, w, out'[d])
    PROVE  RightStep(d)
<1>1. d \in Writers
  BY DEF Writers
<1>2. CASE Stored(d, e) /\ Goto(d, l)
  <2>1. Adds(view[d], e, view'[d]) /\ pc'[d] = l
    BY <1>1, <1>2, StoredAdds, PcAfter
  <2> QED BY <1>2, <2>1 DEF RightStep, Rightly, Proper
<1>3. CASE Conflict(d, e) /\ Goto(d, "reload") /\ DOMAIN view[d] # {}
  <2>1. pc'[d] = "reload" /\ view'[d] = view[d]
    BY <1>1, <1>3, PcAfter DEF Conflict
  <2> QED BY <1>3, <2>1, EasyLabels, EasyReady DEF RightStep, Rightly, Proper
<1>4. CASE Conflict(d, e) /\ Goto(d, "unwind")
  <2>1. pc'[d] = "unwind"
    BY <1>1, <1>4, PcAfter
  <2> QED BY <1>4, <2>1, UnwindReady DEF RightStep, Rightly, Proper
<1> QED BY <1>2, <1>3, <1>4 DEF Post, PostOrRaise

\* The same, where only a view that is not empty is needed afterwards.
LEMMA PostEasy ==
    ASSUME TypeInv, Synced, NEW d \in Drivers, NEW e \in EngineEvents, NEW l \in Easy,
           Proper(d, e),
           \/ Post(d, e, l) /\ DOMAIN view[d] # {}
           \/ PostOrRaise(d, e, l)
    PROVE  RightStep(d)
<1>1. ASSUME NEW w, Adds(view[d], e, w) PROVE Ready(l, w, out'[d])
  BY <1>1, EasyReady DEF Adds
<1> QED BY <1>1, PostRight

\* A driver that loads a log it knows not to be empty.
LEMMA LoadEasy ==
    ASSUME TypeInv, Synced, NEW d \in Drivers, NEW l \in Easy, Load(d), Goto(d, l),
           DOMAIN view[d] # {} \/ DOMAIN log # {}
    PROVE  RightStep(d)
<1>1. d \in Writers /\ view'[d] = log /\ pc'[d] = l
  BY PcAfter DEF Writers, Load, TypeInv, TypeOK, StoreTyped
<1>2. DOMAIN log # {}
  BY <1>1 DEF Synced
<1> QED BY <1>1, <1>2, EasyReady DEF RightStep, Rightly, Proper

\* The types of the events, which is what legality turns on.
LEMMA EventTypes ==
    /\ \A x : RunStarted(x).type = "run_started" /\ UserMessage(x).type = "user_message"
              /\ UserMessage(x).input = x
    /\ \A x : MemoryRecalled(x).type = "memory_recalled"
    /\ \A x : RunFinished(x).type = "run_finished" /\ RunFinished(x).output = x
    /\ \A x : StepStarted(x).type = "step_started" /\ StepStarted(x).call = x
    /\ \A x : ApprovalRequested(x).type = "approval_requested" /\ ApprovalRequested(x).call = x
    /\ \A x, y : ToolResult(x, y).type = "tool_result" /\ ToolResult(x, y).call = x
                 /\ ToolResult(x, y).content = y
    /\ \A x, y : Decision(x, y).type = "model_decision" /\ Decision(x, y).calls = x
    /\ SchemaFeedback.type = "schema_feedback"
    /\ RunFailed.type = "run_failed"
BY DEF RunStarted, UserMessage, MemoryRecalled, RunFinished, StepStarted, ApprovalRequested,
       ToolResult, Decision, SchemaFeedback, RunFailed

\* An open turn is not recorded as finished.
LEMMA OpenTurn ==
    ASSUME NEW v, EventList(v), Step(v) \in {"tool", "model"}
    PROVE  ~Finished(v) /\ ~FinishRecorded(v)
BY RecordedIsFinished DEF Step, NextStep

\* No request is open if the next call cannot have one.
LEMMA Unasked ==
    ASSUME NEW v, Orderly(v), Step(v) = "tool",
           \/ Delivering(v)
           \/ Mode[NextCall(v).tool] # "assisted"
           \/ ApprovalDecision(v, NextCall(v).id) # "pending"
           \/ ~HasApprovalRequest(v, NextCall(v).id)
    PROVE  OpenRequests(v) = {}
<1> SUFFICES ASSUME NEW i \in OpenRequests(v) PROVE FALSE
  OBVIOUS
<1>1. /\ ~Delivering(v) /\ Mode[NextCall(v).tool] = "assisted"
      /\ v[i].call = NextCall(v).id
  BY DEF Orderly
<1>2. i \in At(v, {"approval_requested"}) /\ Verdicts(v, NextCall(v).id) = {}
  BY <1>1 DEF OpenRequests
<1> QED BY <1>1, <1>2 DEF HasApprovalRequest, ApprovalDecision

\* Events about the next call are rightful while it is pending and no human
\* has to decide on it.
LEMMA CallRight ==
    ASSUME NEW d \in Drivers, EventList(view[d]), Step(view[d]) = "tool",
           OpenRequests(view[d]) = {}
    PROVE  /\ \A content : content # "unknown_outcome" \/ NextCall(view[d]).id \notin mine[d]
                 => Proper(d, ToolResult(NextCall(view[d]).id, content))
           /\ /\ NextCall(view[d]).tool \in Irreversible
              /\ NextCall(view[d]).id \notin Started(view[d])
              => Proper(d, StepStarted(NextCall(view[d]).id))
           /\ /\ ~Delivering(view[d]) /\ Mode[NextCall(view[d]).tool] = "assisted"
              /\ ApprovalDecision(view[d], NextCall(view[d]).id) = "pending"
              /\ ~HasApprovalRequest(view[d], NextCall(view[d]).id)
              => Proper(d, ApprovalRequested(NextCall(view[d]).id))
<1> DEFINE v == view[d]
<1>1. NextCall(v).id \in PendingIds(v)
  BY NextCallPending, StepTool
<1>2. ASSUME NEW content, content # "unknown_outcome" \/ NextCall(v).id \notin mine[d]
      PROVE  Proper(d, ToolResult(NextCall(v).id, content))
  BY <1>1, <1>2, EventTypes DEF Proper, Rightful, Legal, Verdictal
<1>3. ASSUME NextCall(v).tool \in Irreversible, NextCall(v).id \notin Started(v)
      PROVE  Proper(d, StepStarted(NextCall(v).id))
  BY <1>1, <1>3, EventTypes DEF Proper, Rightful, Legal, Verdictal
<1>4. ASSUME ~Delivering(v), Mode[NextCall(v).tool] = "assisted",
             ApprovalDecision(v, NextCall(v).id) = "pending",
             ~HasApprovalRequest(v, NextCall(v).id)
      PROVE  Proper(d, ApprovalRequested(NextCall(v).id))
  BY <1>1, <1>4, EventTypes DEF Proper, Rightful, Legal, Verdictal
<1> QED BY <1>2, <1>3, <1>4

\* Why a turn may be closed.
LEMMA FinishRight ==
    ASSUME NEW d \in Drivers, NEW output, ~FinishRecorded(view[d]), Closes(view[d], output),
           output = "structured" => HasSchema
    PROVE  Proper(d, RunFinished(output))
BY EventTypes DEF Proper, Rightful, Legal, Verdictal

-----------------------------------------------------------------------------
(* Every action is right.                                                  *)

LEMMA EnterRight ==
    ASSUME TypeInv, Synced, Poised, NEW d \in Drivers, Enter(d)
    PROVE  RightStep(d)
<1> DEFINE v == view[d]
<1>1. d \in Writers /\ Ready(pc[d], v, out[d]) /\ EventList(v)
  BY ViewTyped DEF Poised, Writers
<1>2. ask[d] \in Inputs \cup {NoInput}
  BY DEF TypeInv, TypeOK, WorkTyped
<1>3. CASE Open(d)
  <2>1. view'[d] = log
    BY <1>1, <1>3 DEF Open, Load, TypeInv, TypeOK, StoreTyped
  <2>2. CASE DOMAIN log = {} /\ Goto(d, "begin")
    <3>1. pc'[d] = "begin"
      BY <1>1, <2>2, PcAfter
    <3> QED BY <1>3, <2>1, <2>2, <3>1 DEF Ready, RightStep, Rightly, Open
  <2>3. CASE DOMAIN log # {} /\ Goto(d, LoopHead)
    BY <1>3, <2>3, EasyLabels, LoadEasy DEF Open
  <2>4. CASE DOMAIN log # {} /\ Finished(log) /\ Goto(d, "followup")
    <3>1. pc'[d] = "followup"
      BY <1>1, <2>4, PcAfter
    <3> QED BY <1>3, <2>1, <2>4, <3>1 DEF Ready, RightStep, Rightly, Open
  <2>5. CASE DOMAIN log # {} /\ Goto(d, "unwind")
    BY <1>3, <2>5, EasyLabels, LoadEasy DEF Open
  <2> QED BY <1>3, <2>2, <2>3, <2>4, <2>5 DEF Open
<1>4. CASE Begin(d)
  <2>1. RunStarted(ask[d]) \in EngineEvents /\ Proper(d, RunStarted(ask[d]))
    BY <1>1, <1>2, <1>4, TurnEvents, EventTypes DEF Begin, Ready, Proper, Rightful, Legal, Verdictal
  <2> QED BY <1>4, <2>1, EasyLabels, PostEasy DEF Begin
<1>5. CASE FollowUp(d)
  <2> DEFINE e == UserMessage(ask[d])
  <2>1. e \in EngineEvents /\ Proper(d, e)
    BY <1>1, <1>2, <1>5, TurnEvents, EventTypes DEF FollowUp, Ready, Proper, Rightful, Legal, Verdictal
  <2>2. CASE ask[d] \in BlockedInputs
    <3>1. ASSUME NEW w, Adds(v, e, w) PROVE Ready("blockturn", w, out'[d])
      <4>1. w[Last(DOMAIN w)] = e /\ DOMAIN w # {}
        BY <3>1, AddsNext DEF Adds
      <4>2. ~FinishRecorded(w)
        <5>1. e.type = "user_message"
          BY EventTypes
        <5>2. Last(At(w, {"schema_feedback", "user_message", "run_finished"})) = NextSeq(v)
          BY <3>1, <5>1, AddsLast
        <5>3. w[NextSeq(v)].type = "user_message"
          BY <3>1, <5>1 DEF Adds
        <5> QED BY <5>2, <5>3 DEF FinishRecorded
      <4> QED BY <2>2, <4>1, <4>2, EventTypes DEF Ready, EndsWith
    <3>2. PostOrRaise(d, e, "blockturn")
      BY <1>5, <2>2 DEF FollowUp
    <3> QED BY <2>1, <3>1, <3>2, PostRight
  <2>3. CASE ask[d] \notin BlockedInputs
    <3>1. PostOrRaise(d, e, LoopHead)
      BY <1>5, <2>3 DEF FollowUp
    <3> QED BY <2>1, <3>1, EasyLabels, PostEasy
  <2> QED BY <2>2, <2>3
<1>6. CASE BlockTurn(d)
  <2>1. ~FinishRecorded(v) /\ Closes(v, "blocked")
    BY <1>1, <1>6 DEF BlockTurn, Ready, Closes, EndsWith
  <2>2. Proper(d, RunFinished("blocked")) /\ RunFinished("blocked") \in EngineEvents
    BY <2>1, FinishRight, TurnEvents
  <2> QED BY <1>6, <2>2, EasyLabels, PostEasy DEF BlockTurn
<1> QED BY <1>3, <1>4, <1>5, <1>6 DEF Enter

\* The branches of the loop that answer, correct or close the turn.
LEMMA TurnRight ==
    ASSUME TypeInv, Synced, Poised, NEW d \in Drivers,
           \/ Reload(d) \/ Recall(d) \/ AcceptText(d) \/ CorrectText(d) \/ Deliver(d)
           \/ FinishDelivery(d) \/ Veto(d) \/ Conclude(d) \/ ModelRaises(d)
    PROVE  RightStep(d)
<1> DEFINE v == view[d]
<1>1. d \in Writers /\ Ready(pc[d], v, out[d]) /\ EventList(v) /\ Orderly(v)
  BY ViewTyped, ViewsOrderly DEF Poised, Writers
<1>2. DOMAIN v # {}
  BY <1>1 DEF Ready, Reload, Recall, AcceptText, CorrectText, Deliver, FinishDelivery, Veto,
              Conclude, ModelRaises, Deciding
<1>3. CASE Reload(d)
  BY <1>2, <1>3, EasyLabels, LoadEasy DEF Reload
<1>4. CASE Recall(d)
  <2>1. Proper(d, MemoryRecalled(d)) /\ MemoryRecalled(d) \in EngineEvents
    BY <1>4, EventTypes, TurnEvents DEF Recall, Proper, Rightful, Legal, Verdictal
  <2> QED BY <1>2, <1>4, <2>1, EasyLabels, PostEasy DEF Recall
<1>5. CASE AcceptText(d)
  <2>1. ~FinishRecorded(v) /\ Closes(v, "structured") /\ HasSchema
    BY <1>5 DEF AcceptText, TextFinish, Closes
  <2>2. Proper(d, RunFinished("structured")) /\ RunFinished("structured") \in EngineEvents
    BY <2>1, FinishRight, TurnEvents
  <2> QED BY <1>2, <1>5, <2>2, EasyLabels, PostEasy DEF AcceptText
<1>6. CASE CorrectText(d)
  <2>1. Proper(d, SchemaFeedback) /\ SchemaFeedback \in EngineEvents
    BY <1>6, EventTypes, TurnEvents DEF CorrectText, Proper, Rightful, Legal, Verdictal
  <2> QED BY <1>2, <1>6, <2>1, EasyLabels, PostEasy DEF CorrectText
<1>7. CASE Deliver(d)
  <2> DEFINE id == NextCall(v).id
  <2>1. Pending(v) # {} /\ Step(v) = "tool" /\ id \in CallIds
    BY <1>7, StepTool, NextId DEF Deliver, Delivering
  <2>2. \A content \in {"invalid", "accepted"} : Proper(d, ToolResult(id, content))
    <3>1. OpenRequests(v) = {}
      BY <1>1, <1>7, <2>1, Unasked DEF Deliver
    <3> QED BY <1>1, <2>1, <3>1, CallRight
  <2>3. ToolResult(id, "invalid") \in EngineEvents /\ ToolResult(id, "accepted") \in EngineEvents
    BY <2>1, CallEvents
  <2>4. CASE id \in BadArguments
    BY <1>2, <1>7, <2>2, <2>3, <2>4, EasyLabels, PostEasy DEF Deliver
  <2>5. CASE id \notin BadArguments
    <3> DEFINE e == ToolResult(id, "accepted")
    <3>1. ASSUME NEW w, Adds(v, e, w) PROVE Ready("finish", w, out'[d])
      <4>1. w[Last(DOMAIN w)] = e /\ DOMAIN w # {}
        BY <3>1, AddsNext DEF Adds
      <4>2. ~FinishRecorded(w)
        <5>1. e.type # "run_finished"
          BY EventTypes
        <5>2. ~FinishRecorded(v)
          BY <1>1, <2>1, OpenTurn
        <5> QED BY <3>1, <5>1, <5>2, AddsUnfinished
      <4>3. HasSchema
        BY <1>7 DEF Deliver, Delivering
      <4> QED BY <4>1, <4>2, <4>3, EventTypes DEF Ready, EndsWith
    <3>2. Post(d, e, "finish")
      BY <1>7, <2>5 DEF Deliver
    <3> HIDE DEF e
    <3>3. e \in EngineEvents /\ Proper(d, e)
      BY <2>2, <2>3 DEF e
    <3> QED BY <1>2, <3>1, <3>2, <3>3, PostRight
  <2> QED BY <2>4, <2>5
<1>8. CASE FinishDelivery(d)
  <2>1. ~FinishRecorded(v) /\ Closes(v, "structured") /\ HasSchema
    BY <1>1, <1>8 DEF FinishDelivery, Ready, EndsWith, Closes
  <2>2. Proper(d, RunFinished("structured")) /\ RunFinished("structured") \in EngineEvents
    BY <2>1, FinishRight, TurnEvents
  <2> QED BY <1>2, <1>8, <2>2, EasyLabels, PostEasy DEF FinishDelivery
<1>9. CASE Veto(d)
  <2>1. Closes(v, "blocked") /\ Step(v) = "model"
    BY <1>9 DEF Veto, Vetoed, Closes
  <2>2. ~FinishRecorded(v)
    BY <1>1, <2>1, OpenTurn
  <2>3. Proper(d, RunFinished("blocked")) /\ RunFinished("blocked") \in EngineEvents
    BY <2>1, <2>2, FinishRight, TurnEvents
  <2> QED BY <1>2, <1>9, <2>3, EasyLabels, PostEasy DEF Veto
<1>10. CASE Conclude(d)
  <2>1. CASE FinishRecorded(v)
    <3>1. Goto(d, "return") /\ Kept
      BY <1>10, <2>1 DEF Conclude, Kept
    <3>2. pc'[d] = "return" /\ view'[d] = v
      BY <1>1, <3>1, PcAfter DEF Kept
    <3> QED BY <1>2, <3>1, <3>2, EasyLabels, EasyReady DEF RightStep, Rightly
  <2>2. CASE ~FinishRecorded(v)
    <3> DEFINE output == IF Finished(v) THEN "answer" ELSE "stopped"
    <3>1. Closes(v, output)
      <4>1. OverBudget(v) => ~Finished(v)
        BY DEF OverBudget, Step, NextStep
      <4>2. CASE Finished(v)
        BY <1>10, <2>2, <4>1, <4>2 DEF Conclude, Concludes, Closes, TextFinish
      <4>3. CASE ~Finished(v)
        BY <1>10, <2>2, <4>3 DEF Conclude, Concludes, Closes
      <4> QED BY <4>2, <4>3
    <3>2. RunFinished(output) \in EngineEvents /\ Proper(d, RunFinished(output))
      <4>1. output \in {"answer", "stopped", "blocked", "structured"}
        OBVIOUS
      <4>2. output # "structured"
        OBVIOUS
      <4> HIDE DEF output
      <4> QED BY <2>2, <3>1, <4>1, <4>2, FinishRight, TurnEvents
    <3>3. Post(d, RunFinished(output), "return")
      BY <1>10, <2>2 DEF Conclude
    <3> HIDE DEF output
    <3> QED BY <1>2, <3>2, <3>3, EasyLabels, PostEasy
  <2> QED BY <2>1, <2>2
<1>11. CASE ModelRaises(d)
  <2>1. Step(v) = "model"
    BY <1>11 DEF ModelRaises
  <2>2. Proper(d, RunFailed) /\ RunFailed \in EngineEvents
    BY <1>1, <1>2, <2>1, OpenTurn, EventTypes, TurnEvents DEF Proper, Rightful, Legal, Verdictal
  <2>3. CASE PostOrRaise(d, RunFailed, "unwind")
    BY <2>2, <2>3, EasyLabels, PostEasy
  <2>4. CASE Kept /\ Goto(d, "unwind")
    BY <1>1, <2>4, PcAfter, UnwindReady DEF RightStep, Rightly
  <2> QED BY <1>11, <2>3, <2>4 DEF ModelRaises, FailRun, PostOrRaise, Kept
<1> QED BY <1>3, <1>4, <1>5, <1>6, <1>7, <1>8, <1>9, <1>10, <1>11

\* The branches that settle a call without running it, or prepare to.
LEMMA CallStepRight ==
    ASSUME TypeInv, Synced, Poised, NEW d \in Drivers,
           Propose(d) \/ Refuse(d) \/ Await(d) \/ Pause(d) \/ Disown(d) \/ Intend(d)
    PROVE  RightStep(d)
<1> DEFINE v == view[d]
           id == NextCall(v).id
<1>0. CASE Pause(d)
  <2>1. Load(d) /\ pc'[d] = "return"
    BY <1>0, PcAfter DEF Pause, Writers
  <2> QED BY <2>1 DEF RightStep, Rightly, Ready
<1> SUFFICES ASSUME ~Pause(d) PROVE RightStep(d)
  BY <1>0
<1>1. d \in Writers /\ Ready(pc[d], v, out[d]) /\ EventList(v) /\ Orderly(v)
  BY ViewTyped, ViewsOrderly DEF Poised, Writers
<1>2. DOMAIN v # {}
  BY <1>1 DEF Ready, Propose, Refuse, Await, Disown, Intend, Deciding
<1>3. Step(v) = "tool" /\ Pending(v) # {} /\ id \in CallIds
  BY StepTool, NextId DEF Propose, Refuse, Await, Disown, Intend, Serial
<1>4. /\ ApprovalRequested(id) \in EngineEvents /\ StepStarted(id) \in EngineEvents
      /\ \A content \in {"shadow", "denied", "unknown_outcome"} :
            ToolResult(id, content) \in EngineEvents
  BY <1>3, CallEvents
<1>6. CASE Propose(d)
  <2>1. OpenRequests(v) = {}
    BY <1>1, <1>3, <1>6, Unasked DEF Propose
  <2>2. Proper(d, ToolResult(id, "shadow"))
    BY <1>1, <1>3, <2>1, CallRight
  <2> QED BY <1>2, <1>4, <1>6, <2>2, EasyLabels, PostEasy DEF Propose
<1>7. CASE Refuse(d)
  <2>1. OpenRequests(v) = {}
    BY <1>1, <1>3, <1>7, Unasked DEF Refuse
  <2>2. Proper(d, ToolResult(id, "denied"))
    BY <1>1, <1>3, <2>1, CallRight
  <2> QED BY <1>2, <1>4, <1>7, <2>2, EasyLabels, PostEasy DEF Refuse
<1>8. CASE Await(d)
  <2>1. CASE HasApprovalRequest(v, id)
    <3>1. Goto(d, "pause") /\ Kept
      BY <1>8, <2>1 DEF Await, Kept
    <3>2. pc'[d] = "pause" /\ view'[d] = v
      BY <1>1, <3>1, PcAfter DEF Kept
    <3> QED BY <1>2, <3>1, <3>2, EasyLabels, EasyReady DEF RightStep, Rightly
  <2>2. CASE ~HasApprovalRequest(v, id)
    <3>1. OpenRequests(v) = {}
      BY <1>1, <1>3, <2>2, Unasked
    <3>2. Proper(d, ApprovalRequested(id))
      BY <1>1, <1>3, <1>8, <2>2, <3>1, CallRight DEF Await, Serial
    <3> QED BY <1>2, <1>4, <1>8, <2>2, <3>2, EasyLabels, PostEasy DEF Await
  <2> QED BY <2>1, <2>2
<1>9. CASE Disown(d)
  <2>1. OpenRequests(v) = {}
    BY <1>1, <1>3, <1>9, Unasked DEF Disown, Cleared
  <2>2. Proper(d, ToolResult(id, "unknown_outcome"))
    BY <1>1, <1>3, <1>9, <2>1, CallRight DEF Disown
  <2> QED BY <1>2, <1>4, <1>9, <2>2, EasyLabels, PostEasy DEF Disown
<1>10. CASE Intend(d)
  <2>1. OpenRequests(v) = {}
    BY <1>1, <1>3, <1>10, Unasked DEF Intend, Cleared
  <2>2. Proper(d, StepStarted(id)) /\ Post(d, StepStarted(id), LoopHead)
    BY <1>1, <1>3, <1>10, <2>1, CallRight DEF Intend, Post
  <2> QED BY <1>2, <1>4, <2>2, EasyLabels, PostEasy
<1> QED BY <1>6, <1>7, <1>8, <1>9, <1>10

\* The calls a view is working on are told apart by their ids.
LEMMA CallsDistinct ==
    ASSUME DistinctIds, NEW v, EventList(v)
    PROVE  \A i, j \in DOMAIN CurrentCalls(v) :
              CurrentCalls(v)[i].id = CurrentCalls(v)[j].id => i = j
<1>1. CASE LastDecision(v) = -1
  BY <1>1 DEF CurrentCalls
<1>2. CASE LastDecision(v) # -1
  <2>1. At(v, {"model_decision"}) # {} /\ At(v, {"model_decision"}) \subseteq DOMAIN v
    BY <1>2 DEF LastDecision, Last, At
  <2>2. LastDecision(v) \in At(v, {"model_decision"})
    BY <2>1, LastOfEventList DEF LastDecision
  <2>3. v[LastDecision(v)].calls \in Lists
    BY <2>2, DecisionsHoldCalls DEF At, EventList
  <2> QED BY <1>2, <2>3 DEF CurrentCalls, DistinctIds
<1> QED BY <1>1, <1>2

\* What is numbered first is the result of the first pending call; once it is
\* appended, the rest is numbered for what is then pending.
LEMMA NumberedFirst ==
    ASSUME NEW v, EventList(v), NEW o, Pending(v) # {},
           NEW B \in {Pending(v), {First(Pending(v))}}, Numbered(o, v, B)
    PROVE  /\ B \subseteq Nat /\ IsFiniteSet(B) /\ B # {}
           /\ First(B) = First(Pending(v)) /\ First(B) \in B
           /\ NextSeq(v) \in DOMAIN o
           /\ o[NextSeq(v)].type = "tool_result" /\ o[NextSeq(v)].call = NextCall(v).id
           /\ o[NextSeq(v)].content \in Contents \cup {"timeout"}
<1> DEFINE f == First(Pending(v))
<1>1. f \in Pending(v) /\ Pending(v) \subseteq Nat /\ IsFiniteSet(Pending(v))
  BY PendingType
<1>2. B \subseteq Nat /\ IsFiniteSet(B) /\ B # {} /\ f \in B
  <2>1. IsFiniteSet({f}) /\ {f} \subseteq Nat
    <3> HIDE DEF f
    <3> QED BY <1>1, FS_Singleton
  <2>2. CASE B = {f}
    <3> HIDE DEF f
    <3> QED BY <2>1, <2>2
  <2>3. CASE B = Pending(v)
    BY <1>1, <2>3
  <2> QED BY <2>2, <2>3
<1>3. First(B) = f
  <2>1. CASE B = {f}
    <3>1. First({f}) \in {f}
      <4> HIDE DEF f
      <4> QED BY <1>1, <1>2, FirstExists
    <3> QED BY <2>1, <3>1
  <2> QED BY <2>1
<1>4. Place(B, f) = 0
  BY <1>2, <1>3, PlaceAfterFirst
<1>5. NextSeq(v) + Place(B, f) = NextSeq(v)
  BY <1>4 DEF EventList
<1>6. /\ NextSeq(v) + Place(B, f) \in DOMAIN o
      /\ o[NextSeq(v) + Place(B, f)].type = "tool_result"
      /\ o[NextSeq(v) + Place(B, f)].call = CurrentCalls(v)[f].id
      /\ o[NextSeq(v) + Place(B, f)].content \in Contents \cup {"timeout"}
  BY <1>2 DEF Numbered
<1> QED BY <1>2, <1>3, <1>5, <1>6 DEF NextCall

LEMMA NumberedRest ==
    ASSUME DistinctIds, NEW v, EventList(v), NEW o, Pending(v) # {},
           NEW B \in {Pending(v), {First(Pending(v))}}, Numbered(o, v, B),
           NEW w, Adds(v, o[NextSeq(v)], w), NEW r,
           DOMAIN r = DOMAIN o \ {NextSeq(v)}, \A i \in DOMAIN r : r[i] = o[i],
           DOMAIN r # {}
    PROVE  Pending(w) # {} /\ Numbered(r, w, Pending(w))
<1> DEFINE f == First(B)
           n == NextSeq(v)
           C == B \ {f}
<1>1. /\ B \subseteq Nat /\ IsFiniteSet(B) /\ B # {} /\ f = First(Pending(v)) /\ f \in B
      /\ o[n].type = "tool_result" /\ o[n].call = CurrentCalls(v)[f].id
      /\ n \in Nat
  BY NumberedFirst DEF NextCall, EventList
<1>2. Place(B, f) = 0 /\ \A i \in C : Place(C, i) + 1 = Place(B, i)
  BY <1>1, PlaceAfterFirst
<1>3. C \subseteq Nat /\ IsFiniteSet(C) /\ C \subseteq B
  BY <1>1, FS_RemoveElement
<1>4. ASSUME NEW i \in C
      PROVE  Place(C, i) \in Nat /\ n + 1 + Place(C, i) = n + Place(B, i) /\ n + Place(B, i) # n
  <2>1. Place(C, i) \in Nat /\ Place(C, i) + 1 = Place(B, i)
    <3>1. i \in Nat
      BY <1>3
    <3> HIDE DEF C
    <3> QED BY <1>2, <1>3, <3>1, PlaceType
  <2> HIDE DEF n, C
  <2> QED BY <1>1, <2>1
<1>5. NextSeq(w) = n + 1
  BY AddsNext
<1>6. DOMAIN r = {n + 1 + Place(C, i) : i \in C}
  <2>1. DOMAIN o = {n + Place(B, i) : i \in B}
    BY DEF Numbered
  <2>2. n + Place(B, f) = n
    <3> HIDE DEF n
    <3> QED BY <1>1, <1>2
  <2>3. DOMAIN r = {n + Place(B, i) : i \in C}
    <3>1. \A i \in C : n + Place(B, i) # n
      BY <1>4
    <3>2. B = C \cup {f} /\ DOMAIN r = DOMAIN o \ {n} /\ DOMAIN o = {n + Place(B, i) : i \in B}
      BY <1>1, <2>1
    <3> HIDE DEF n, C, f
    <3> QED BY <2>2, <3>1, <3>2
  <2> HIDE DEF n, C
  <2> QED BY <1>4, <2>3
<1>7. C # {}
  BY <1>6
<1>8. Pending(w) = C
  <2>1. B = Pending(v)
    BY <1>1, <1>7
  <2>2. CurrentCalls(w) = CurrentCalls(v)
        /\ Pending(w) = {i \in Pending(v) : CurrentCalls(v)[i].id # o[n].call}
    BY <1>1, AddsResult
  <2>3. \A i \in Pending(v) : CurrentCalls(v)[i].id = CurrentCalls(v)[f].id => i = f
    BY <1>1, <2>1, CallsDistinct DEF Pending
  <2> QED BY <1>1, <2>1, <2>2, <2>3
<1>9. ASSUME NEW i \in C
      PROVE  /\ r[n + 1 + Place(C, i)].type = "tool_result"
             /\ r[n + 1 + Place(C, i)].call = CurrentCalls(w)[i].id
             /\ r[n + 1 + Place(C, i)].content \in Contents \cup {"timeout"}
  <2>1. n + 1 + Place(C, i) = n + Place(B, i) /\ n + 1 + Place(C, i) \in DOMAIN r
    BY <1>4, <1>6
  <2>2. r[n + 1 + Place(C, i)] = o[n + Place(B, i)]
    BY <2>1
  <2>3. CurrentCalls(w) = CurrentCalls(v)
    BY <1>1, AddsResult
  <2>4. /\ o[n + Place(B, i)].type = "tool_result"
        /\ o[n + Place(B, i)].call = CurrentCalls(v)[i].id
        /\ o[n + Place(B, i)].content \in Contents \cup {"timeout"}
    <3>1. i \in B
      OBVIOUS
    <3> QED BY <3>1 DEF Numbered
  <2> HIDE DEF n, C, f
  <2> QED BY <2>2, <2>3, <2>4
<1>10. Numbered(r, w, C)
  <2> DEFINE m == n + 1
  <2>1. DOMAIN r = {m + Place(C, i) : i \in C}
    BY <1>6
  <2>2. ASSUME NEW i \in C
        PROVE  /\ r[m + Place(C, i)].type = "tool_result"
               /\ r[m + Place(C, i)].call = CurrentCalls(w)[i].id
               /\ r[m + Place(C, i)].content \in Contents \cup {"timeout"}
    BY <1>9
  <2>3. m = NextSeq(w)
    BY <1>5
  <2> HIDE DEF m, C
  <2>4. DOMAIN r = {NextSeq(w) + Place(C, i) : i \in C}
    BY <2>1, <2>3
  <2>5. ASSUME NEW i \in C
        PROVE  /\ r[NextSeq(w) + Place(C, i)].type = "tool_result"
               /\ r[NextSeq(w) + Place(C, i)].call = CurrentCalls(w)[i].id
               /\ r[NextSeq(w) + Place(C, i)].content \in Contents \cup {"timeout"}
    BY <2>2, <2>3
  <2> QED BY <2>4, <2>5, Zenon DEF Numbered
<1> QED BY <1>7, <1>8, <1>10

LEMMA AskModelRight ==
    ASSUME TypeInv, Poised, NEW d \in Drivers, AskModel(d)
    PROVE  RightStep(d)
<1> DEFINE v == view[d]
<1>1. d \in Writers /\ Ready(pc[d], v, out[d]) /\ pc[d] = "decide"
  BY DEF Poised, Writers, AskModel, Deciding
<1>2. PICK calls \in Replies[ModelCalls(v)], text \in Texts :
        out' = [out EXCEPT ![d] = With(EmptyLog, NextSeq(v), Decision(calls, text))]
  BY DEF AskModel
<1>3. /\ DOMAIN out'[d] = {NextSeq(v)}
      /\ out'[d][NextSeq(v)].type = "model_decision"
      /\ out'[d][NextSeq(v)].calls \in Replies[ModelCalls(v)]
  <2>1. out'[d] = With(EmptyLog, NextSeq(v), Decision(calls, text))
    BY <1>2 DEF TypeInv, TypeOK, WorkTyped
  <2> QED BY <2>1, EventTypes DEF With, EmptyLog
<1>4. pc'[d] = "record" /\ view'[d] = v /\ Kept
  BY <1>1, PcAfter DEF AskModel, Kept
<1>5. Outgoing(v, out'[d])
  BY <1>1, <1>3 DEF AskModel, Deciding, Outgoing
<1>6. DOMAIN v # {}
  BY <1>1 DEF Ready
<1> QED BY <1>4, <1>5, <1>6 DEF RightStep, Rightly, Ready

LEMMA ExecuteRight ==
    ASSUME TypeInv, Synced, Poised, NEW d \in Drivers, Execute(d)
    PROVE  RightStep(d)
<1> DEFINE v == view[d]
<1>1. /\ d \in Writers /\ Ready(pc[d], v, out[d]) /\ pc[d] = "decide"
      /\ EventList(v) /\ Orderly(v)
  BY ViewTyped, ViewsOrderly DEF Poised, Writers, Execute, Deciding
<1>2. pc'[d] = "execute" /\ view'[d] = v /\ Kept
  BY <1>1, PcAfter DEF Execute, Kept
<1>3. Step(v) = "tool" /\ ~Delivering(v) /\ Pending(v) # {}
  BY StepTool DEF Execute
<1>4. OpenRequests(v) = {}
  <2>1. CASE Parallel(v)
    <3>1. Mode[NextCall(v).tool] = "autonomous"
      BY <1>1, <1>3, <2>1, PendingType DEF Parallel, CanParallelize, ToolAt, NextCall
    <3> QED BY <1>1, <1>3, <3>1, Unasked
  <2>2. CASE Cleared(v)
    BY <1>1, <1>3, <2>2, Unasked DEF Cleared
  <2> QED BY <2>1, <2>2 DEF Execute
<1> QED BY <1>1, <1>2, <1>3, <1>4 DEF RightStep, Rightly, Ready

\* The tasks of a view, told apart by their seqs.
LEMMA TaskIsUnique ==
    ASSUME NEW v, EventList(v), Pending(v) # {}, NEW i \in Batch(v)
    PROVE  /\ Batch(v) \in {Pending(v), {First(Pending(v))}}
           /\ \E t \in Tasks(v) : t.seq = NextSeq(v) + Place(Batch(v), i)
           /\ \A t \in Tasks(v) : t.seq = NextSeq(v) + Place(Batch(v), i)
                                    => t.call = CurrentCalls(v)[i].id
           /\ \A t \in Tasks(v) : \E k \in Batch(v) : t.seq = NextSeq(v) + Place(Batch(v), k)
<1> DEFINE B == Batch(v)
           n == NextSeq(v)
           T(k) == [seq |-> n + Place(B, k), call |-> CurrentCalls(v)[k].id]
<1>1. B \in {Pending(v), {First(Pending(v))}}
  BY DEF Batch
<1>2. B \subseteq Nat /\ IsFiniteSet(B)
  <2>1. B \subseteq Pending(v)
    BY <1>1, PendingType
  <2> HIDE DEF B
  <2> QED BY <2>1, PendingType, FS_Subset
<1>3. Tasks(v) = {T(k) : k \in B}
  BY DEF Tasks, Place
<1>4. \A k \in B : T(k).seq = n + Place(B, k) /\ T(k).call = CurrentCalls(v)[k].id
  <2> HIDE DEF B, n
  <2> QED OBVIOUS
<1>5. ASSUME NEW k \in B, n + Place(B, k) = n + Place(B, i) PROVE k = i
  <2>1. n \in Nat /\ Place(B, k) \in Nat /\ Place(B, i) \in Nat
    <3>1. i \in Nat /\ k \in Nat
      BY <1>2
    <3> HIDE DEF B
    <3> QED BY <1>2, <3>1, PlaceType DEF EventList
  <2>2. Place(B, k) = Place(B, i)
    <3> HIDE DEF n, B
    <3> QED BY <1>5, <2>1
  <2> HIDE DEF B
  <2> QED BY <1>2, <2>2, PlaceUnique DEF B
<1> HIDE DEF T, n
<1> QED BY <1>1, <1>3, <1>4, <1>5 DEF n

LEMMA CompleteRight ==
    ASSUME TypeInv, Poised, NEW d \in Drivers, Complete(d)
    PROVE  RightStep(d)
<1> DEFINE v == view[d]
           tasks == Tasks(v)
           TaskAt(seq) == CHOOSE t \in tasks : t.seq = seq
           n(i) == NextSeq(v) + Place(Batch(v), i)
<1>1. d \in Writers /\ Ready(pc[d], v, out[d]) /\ pc[d] = "execute" /\ EventList(v)
  BY ViewTyped DEF Poised, Writers, Complete
<1>2. PICK content \in [tasks -> Contents] :
        out' = [out EXCEPT ![d] =
                  [seq \in {t.seq : t \in tasks} |->
                     ToolResult(TaskAt(seq).call,
                        IF TaskAt(seq) \in running[d] \cap tasks THEN "timeout"
                        ELSE content[TaskAt(seq)])]]
  BY DEF Complete
<1>3. Pending(v) # {}
  BY <1>1, StepTool DEF Ready
<1>4. ASSUME NEW i \in Batch(v)
      PROVE  /\ Batch(v) \in {Pending(v), {First(Pending(v))}}
             /\ \E t \in tasks : t.seq = n(i)
             /\ \A t \in tasks : t.seq = n(i) => t.call = CurrentCalls(v)[i].id
             /\ \A t \in tasks : \E k \in Batch(v) : t.seq = n(k)
  BY <1>1, <1>3, TaskIsUnique
<1>5. Batch(v) # {} /\ Batch(v) \in {Pending(v), {First(Pending(v))}}
  BY <1>3 DEF Batch
<1>6. {t.seq : t \in tasks} = {n(i) : i \in Batch(v)}
  <2> HIDE DEF tasks, n
  <2> QED BY <1>4, <1>5
<1>7. /\ DOMAIN out'[d] = {t.seq : t \in tasks}
      /\ \A seq \in {t.seq : t \in tasks} :
            /\ out'[d][seq].type = "tool_result" /\ out'[d][seq].call = TaskAt(seq).call
            /\ out'[d][seq].content \in Contents \cup {"timeout"}
  <2> DEFINE r(seq) == IF TaskAt(seq) \in running[d] \cap tasks THEN "timeout"
                       ELSE content[TaskAt(seq)]
  <2>1. out'[d] = [seq \in {t.seq : t \in tasks} |-> ToolResult(TaskAt(seq).call, r(seq))]
    BY <1>2 DEF TypeInv, TypeOK, WorkTyped
  <2>2. ASSUME NEW seq \in {t.seq : t \in tasks} PROVE r(seq) \in Contents \cup {"timeout"}
    <3>1. TaskAt(seq) \in tasks
      <4> HIDE DEF tasks
      <4> QED OBVIOUS
    <3> HIDE DEF tasks, TaskAt
    <3> QED BY <3>1
  <2> HIDE DEF tasks, r, TaskAt
  <2> QED BY <2>1, <2>2, EventTypes
<1>8. ASSUME NEW i \in Batch(v)
      PROVE  /\ out'[d][n(i)].type = "tool_result"
             /\ out'[d][n(i)].call = CurrentCalls(v)[i].id
             /\ out'[d][n(i)].content \in Contents \cup {"timeout"}
  <2>1. n(i) \in {t.seq : t \in tasks}
    BY <1>6
  <2>2. TaskAt(n(i)).call = CurrentCalls(v)[i].id
    <3> HIDE DEF tasks, n
    <3>1. TaskAt(n(i)) \in tasks /\ TaskAt(n(i)).seq = n(i)
      BY <1>4
    <3> QED BY <1>4, <3>1
  <2> HIDE DEF tasks, TaskAt, n
  <2> QED BY <1>7, <2>1, <2>2
<1>9. Numbered(out'[d], v, Batch(v))
  BY <1>6, <1>7, <1>8 DEF Numbered
<1>10. pc'[d] = "record" /\ view'[d] = v /\ Kept
  BY <1>1, PcAfter DEF Complete, Kept
<1>11. Outgoing(v, out'[d]) /\ DOMAIN v # {}
  BY <1>1, <1>3, <1>5, <1>9 DEF Outgoing, Ready
<1> QED BY <1>10, <1>11 DEF RightStep, Rightly, Ready

\* The next event of an executed step is rightful after the view, and what is
\* left of the step is what there is to record after it.
LEMMA OutgoingRight ==
    ASSUME NEW d \in Drivers, EventList(view[d]), NEW o, Outgoing(view[d], o)
    PROVE  NextSeq(view[d]) \in DOMAIN o /\ Proper(d, o[NextSeq(view[d])])
<1> DEFINE v == view[d]
           e == o[NextSeq(v)]
<1>1. CASE /\ DOMAIN o = {NextSeq(v)}
           /\ e.type = "model_decision" /\ e.calls \in Replies[ModelCalls(v)]
           /\ Step(v) = "model" /\ ~NeedsRecall(v) /\ ~OverBudget(v) /\ ~Vetoed(v)
  BY <1>1 DEF Proper, Rightful, Legal, Verdictal
<1>2. ASSUME Step(v) = "tool", OpenRequests(v) = {},
             NEW B \in {Pending(v), {First(Pending(v))}}, Numbered(o, v, B)
      PROVE  NextSeq(v) \in DOMAIN o /\ Proper(d, e)
  <2>1. /\ NextSeq(v) \in DOMAIN o
        /\ e.type = "tool_result" /\ e.call = NextCall(v).id
        /\ e.content \in Contents \cup {"timeout"}
    BY <1>2, StepTool, NumberedFirst
  <2>2. NextCall(v).id \in PendingIds(v)
    BY <1>2, StepTool, NextCallPending
  <2>3. e.content = "unknown_outcome" => "unknown_outcome" \in Contents
    BY <2>1
  <2> QED BY <1>2, <2>1, <2>2, <2>3 DEF Proper, Rightful, Legal, Verdictal
<1> QED BY <1>1, <1>2 DEF Outgoing

LEMMA OutgoingRest ==
    ASSUME DistinctIds, NEW v, EventList(v), NEW o, Outgoing(v, o),
           NEW w, Adds(v, o[NextSeq(v)], w), NEW r,
           DOMAIN r = DOMAIN o \ {NextSeq(v)}, \A i \in DOMAIN r : r[i] = o[i],
           DOMAIN r # {}
    PROVE  Outgoing(w, r)
<1>1. Step(v) = "tool" /\ OpenRequests(v) = {}
  BY DEF Outgoing
<1>2. PICK B \in {Pending(v), {First(Pending(v))}} : Numbered(o, v, B)
  BY DEF Outgoing
<1>3. Pending(v) # {} /\ ~Finished(v)
  BY <1>1, StepTool
<1>4. Pending(w) # {} /\ Numbered(r, w, Pending(w))
  BY <1>2, <1>3, NumberedRest
<1>5. o[NextSeq(v)].type = "tool_result"
  BY <1>2, <1>3, NumberedFirst
<1>6. Step(w) = "tool"
  <2>1. ~Finished(w)
    BY <1>3, <1>5, AddsFinished
  <2> QED BY <1>4, <2>1 DEF Step, NextStep
<1>7. OpenRequests(w) = {}
  BY <1>1, <1>5, AddsOpen
<1> QED BY <1>4, <1>6, <1>7 DEF Outgoing

LEMMA RecordRight ==
    ASSUME DistinctIds, TypeInv, Synced, Poised, NEW d \in Drivers,
           Record(d) \/ CancelShielded(d)
    PROVE  RightStep(d)
<1> DEFINE v == view[d]
           o == out[d]
           e == NextOut(d)
           rest == DOMAIN o \ {NextSeq(v)}
<1>1. d \in Writers /\ Ready(pc[d], v, o) /\ pc[d] = "record" /\ EventList(v)
  BY ViewTyped DEF Poised, Writers, Record, CancelShielded
<1>2. Outgoing(v, o) /\ DOMAIN v # {}
  BY <1>1 DEF Ready
<1>3. e = o[NextSeq(v)] /\ Proper(d, e) /\ e \in EngineEvents
  <2>1. NextSeq(v) \in DOMAIN o /\ Proper(d, o[NextSeq(v)])
    BY <1>1, <1>2, OutgoingRight
  <2> QED BY <2>1 DEF NextOut, TypeInv, TypeOK, WorkTyped
<1>4. CASE CancelShielded(d)
  <2>1. PostOrRaise(d, e, "unwind")
    BY <1>4 DEF CancelShielded, PostOrRaise
  <2> QED BY <1>3, <2>1, EasyLabels, PostEasy
<1>5. CASE Record(d)
  <2>1. CASE Conflict(d, e) /\ Goto(d, "reload")
    <3>1. Post(d, e, LoopHead)
      BY <2>1 DEF Post
    <3> QED BY <1>2, <1>3, <3>1, EasyLabels, PostEasy
  <2>2. CASE Stored(d, e) /\ rest = {}
    <3>1. Post(d, e, LoopHead)
      BY <1>5, <2>2 DEF Record, Post, Conflict, Stored
    <3> QED BY <1>2, <1>3, <3>1, EasyLabels, PostEasy
  <2>3. CASE Stored(d, e) /\ rest # {}
    <3>1. Goto(d, "record") /\ out' = [out EXCEPT ![d] = [seq \in rest |-> o[seq]]]
      BY <1>5, <2>3 DEF Record, Conflict, Stored
    <3>2. out'[d] = [seq \in rest |-> o[seq]]
      BY <3>1 DEF TypeInv, TypeOK, WorkTyped
    <3>3. ASSUME NEW w, Adds(v, e, w) PROVE Ready("record", w, out'[d])
      <4>1. Outgoing(w, out'[d])
        BY <1>1, <1>2, <1>3, <2>3, <3>2, <3>3, OutgoingRest
      <4>2. DOMAIN w # {}
        BY <3>3 DEF Adds
      <4> QED BY <4>1, <4>2 DEF Ready
    <3>4. Post(d, e, "record")
      BY <2>3, <3>1 DEF Post
    <3> QED BY <1>2, <1>3, <3>3, <3>4, PostRight
  <2> QED BY <1>5, <2>1, <2>2, <2>3 DEF Record
<1> QED BY <1>4, <1>5

\* Renewing, leaving, failing, being cancelled and dying.
LEMMA OtherRight ==
    ASSUME TypeInv, Synced, Poised, NEW d \in Drivers,
           \/ Invoke(d) \/ Renew(d) \/ Leave(d) \/ ToolRaises(d) \/ StoreRaises(d)
           \/ Cancel(d) \/ Crash(d) \/ Effect(d)
    PROVE  RightStep(d)
<1> DEFINE v == view[d]
<1>1. d \in Writers /\ Ready(pc[d], v, out[d]) /\ EventList(v)
  BY ViewTyped DEF Poised, Writers
<1>2. CASE Effect(d)
  <2>1. Kept /\ pc'[d] = pc[d] /\ view'[d] = v /\ out'[d] = out[d]
    BY <1>2 DEF Effect, Kept
  <2> QED BY <1>1, <2>1 DEF RightStep, Rightly
<1>3. CASE Renew(d)
  <2>1. Kept /\ view'[d] = v /\ pc'[d] \in {"decide", "unwind"}
    BY <1>1, <1>3, PcAfter DEF Renew, Kept
  <2>2. DOMAIN v # {}
    BY <1>1, <1>3 DEF Renew, Ready
  <2> QED BY <2>1, <2>2, EasyReady DEF RightStep, Rightly, Easy
<1>4. CASE Invoke(d) \/ Leave(d) \/ Cancel(d) \/ Crash(d) \/ StoreRaises(d)
  <2>1. Kept
    BY <1>4 DEF Invoke, Leave, Cancel, Crash, StoreRaises, Kept
  <2>2. pc'[d] \in {"load", "unwind", "broken"} \cup Ended
    BY <1>1, <1>4, PcAfter DEF Invoke, Leave, Cancel, Crash, StoreRaises, Ended
  <2> QED BY <2>1, <2>2 DEF RightStep, Rightly, Ready, Ended
<1>5. CASE ToolRaises(d)
  <2>1. Step(v) = "tool" /\ DOMAIN v # {}
    BY <1>1, <1>5 DEF ToolRaises, Ready
  <2>2. Proper(d, RunFailed) /\ RunFailed \in EngineEvents
    BY <1>1, <2>1, OpenTurn, EventTypes, TurnEvents DEF Proper, Rightful, Legal, Verdictal
  <2>3. CASE PostOrRaise(d, RunFailed, "unwind")
    BY <2>2, <2>3, EasyLabels, PostEasy
  <2>4. CASE Kept /\ Goto(d, "unwind")
    BY <1>1, <2>4, PcAfter, UnwindReady DEF RightStep, Rightly
  <2> QED BY <1>5, <2>3, <2>4 DEF ToolRaises, FailRun, PostOrRaise, Kept
<1> QED BY <1>2, <1>3, <1>4, <1>5

LEMMA DriverRight ==
    ASSUME DistinctIds, TypeInv, Synced, Poised, NEW d \in Drivers,
           Invoke(d) \/ Drive(d) \/ Effect(d) \/ Fault(d)
    PROVE  RightStep(d)
<1>1. CASE Enter(d)
  BY <1>1, EnterRight
<1>2. CASE \/ Reload(d) \/ Recall(d) \/ AcceptText(d) \/ CorrectText(d) \/ Deliver(d)
           \/ FinishDelivery(d) \/ Veto(d) \/ Conclude(d) \/ ModelRaises(d)
  BY <1>2, TurnRight
<1>3. CASE Propose(d) \/ Refuse(d) \/ Await(d) \/ Pause(d) \/ Disown(d) \/ Intend(d)
  BY <1>3, CallStepRight
<1>4. CASE AskModel(d) \/ Execute(d) \/ Complete(d)
  BY <1>4, AskModelRight, ExecuteRight, CompleteRight
<1>5. CASE Record(d) \/ CancelShielded(d)
  BY <1>5, RecordRight
<1>6. CASE \/ Invoke(d) \/ Renew(d) \/ Leave(d) \/ ToolRaises(d) \/ StoreRaises(d)
           \/ Cancel(d) \/ Crash(d) \/ Effect(d)
  BY <1>6, OtherRight
<1> QED BY <1>1, <1>2, <1>3, <1>4, <1>5, <1>6 DEF Drive, Loop, Fault

\* A driver's step leaves the others where they are.
LEMMA OthersRest ==
    ASSUME TypeInv, NEW d \in Drivers, Invoke(d) \/ Drive(d) \/ Effect(d) \/ Fault(d)
    PROVE  /\ \A x \in Writers : x # d => pc'[x] = pc[x] /\ view'[x] = view[x]
           /\ \A x \in Drivers : x # d => out'[x] = out[x]
           /\ UNCHANGED human
<1>1. d \in Writers
  BY DEF Writers
<1>2. Touches(d)
  BY DriverSteps DEF Invoke, Effect, Touches, Kept
<1>3. \A x \in Writers : x # d => view'[x] = view[x]
  BY <1>1, <1>2, StoredTyped DEF TypeInv
<1>4. \A x \in Writers : x # d => pc'[x] = pc[x]
  <2>1. (\E l : Goto(d, l)) \/ UNCHANGED pc
    BY DriverSteps DEF Invoke, Effect
  <2> QED BY <1>1, <2>1, PcAfter
<1>5. /\ UNCHANGED human
      /\ UNCHANGED out \/ \E o : out' = [out EXCEPT ![d] = o]
  <2>1. CASE Invoke(d) \/ Effect(d) \/ Enter(d) \/ Leave(d)
    BY <2>1 DEF Invoke, Effect, Enter, Open, Begin, FollowUp, BlockTurn, Leave, work
  <2>2. CASE Fault(d)
    BY <2>2 DEF Fault, ModelRaises, ToolRaises, Cancel, CancelShielded, Crash, StoreRaises, work
  <2>3. CASE Loop(d)
    BY <2>3 DEF Loop, Renew, Reload, Recall, AcceptText, CorrectText, Deliver, FinishDelivery,
                Veto, Conclude, AskModel, Propose, Refuse, Await, Pause, Disown, Intend,
                Execute, Complete, Record, work
  <2> QED BY <2>1, <2>2, <2>3 DEF Drive
<1>6. \A x \in Drivers : x # d => out'[x] = out[x]
  BY <1>5 DEF TypeInv, TypeOK, WorkTyped
<1> QED BY <1>3, <1>4, <1>5, <1>6

\* A human decides only what is pending in its view.
LEMMA HumanRight ==
    ASSUME TypeInv, Synced, Poised, NEW h \in Humans, Human(h)
    PROVE  /\ Rightly(h)
           /\ pc'[h] = "deciding" => verdict'[h].call \in PendingApprovals(view'[h])
           /\ \A x \in Writers : x # h => pc'[x] = pc[x] /\ view'[x] = view[x]
           /\ \A g \in Humans : g # h => verdict'[g] = verdict[g]
           /\ UNCHANGED out
<1>1. h \in Writers /\ h \notin Drivers /\ verdict \in [Humans -> Verdicted \cup {NoVerdict}]
      /\ DOMAIN view = Writers
  BY ActorsAssumption DEF Writers, TypeInv, TypeOK, HumanTyped, StoreTyped
<1>2. \A id, granted : Verdict(id, granted).call = id
  BY DEF Verdict
<1>3. UNCHANGED out
  BY DEF Human, Review, Rule, Reconsider, Forsake, drivers
<1>4. \A x \in Writers : x # h => pc'[x] = pc[x]
  <2>1. \E l : Goto(h, l)
    BY DEF Human, Review, Rule, Reconsider, Forsake
  <2> QED BY <1>1, <2>1, PcAfter
<1>5. CASE Review(h)
  <2>1. PICK request \in OpenRequests(log), granted \in BOOLEAN :
          verdict' = [verdict EXCEPT ![h] = Verdict(log[request].call, granted)]
    BY <1>5 DEF Review
  <2>2. view' = [view EXCEPT ![h] = log] /\ Load(h)
    BY <1>5 DEF Review, Load
  <2>3. verdict'[h].call = log[request].call
    BY <1>1, <1>2, <2>1
  <2>4. verdict'[h].call \in PendingApprovals(view'[h])
    BY <1>1, <2>2, <2>3 DEF PendingApprovals
  <2> QED BY <1>1, <1>3, <1>4, <2>1, <2>2, <2>4 DEF Rightly
<1>6. CASE Rule(h)
  <2> DEFINE e == verdict[h]
  <2>1. e \in Verdicted /\ e.call \in PendingApprovals(view[h])
    BY <1>6 DEF Rule, TypeInv, Located, Poised
  <2>2. e.type \in {"approval_granted", "approval_denied"}
    BY <2>1 DEF Verdicted, Verdict
  <2>3. Rightful(view[h], e) /\ e \in EngineEvents
    BY <2>1, <2>2, VerdictedEvents DEF Rightful, Legal
  <2>4. Stored(h, e) \/ Conflict(h, e)
    BY <1>6 DEF Rule
  <2>5. \A x \in Writers : x # h => view'[x] = view[x]
    BY <1>1, <2>4 DEF Stored, Conflict
  <2>6. pc'[h] # "deciding" /\ UNCHANGED verdict
    BY <1>1, <1>6, PcAfter DEF Rule
  <2> QED BY <1>1, <1>3, <1>4, <2>3, <2>4, <2>5, <2>6 DEF Rightly
<1>7. CASE Reconsider(h)
  <2>1. view' = [view EXCEPT ![h] = log] /\ Load(h)
    BY <1>7 DEF Reconsider, Forsake, Load
  <2>2. OpenRequests(log) # {} => First(OpenRequests(log)) \in OpenRequests(log)
    <3>1. OpenRequests(log) \subseteq Nat
      BY DEF OpenRequests, At, EventList, TypeInv, TypeOK, StoreTyped
    <3> QED BY <3>1, FirstExists
  <2>3. verdict[h] \in Verdicted
    BY <1>7 DEF Reconsider, Forsake, TypeInv, Located
  <2>4. \A id : [verdict[h] EXCEPT !.call = id].call = id
    BY <2>3 DEF Verdicted, Verdict
  <2>5. pc'[h] = "deciding" => verdict'[h].call \in PendingApprovals(log)
    <3>1. CASE verdict[h].call \in PendingApprovals(log) /\ UNCHANGED verdict
      BY <3>1
    <3>2. CASE /\ OpenRequests(log) # {}
               /\ verdict' = [verdict EXCEPT ![h].call = log[First(OpenRequests(log))].call]
      BY <1>1, <2>2, <2>4, <3>2 DEF PendingApprovals
    <3>3. CASE Goto(h, "raised")
      BY <1>1, <3>3, PcAfter
    <3> QED BY <1>7, <3>1, <3>2, <3>3 DEF Reconsider, Forsake
  <2>6. \A g \in Humans : g # h => verdict'[g] = verdict[g]
    BY <1>1, <1>7 DEF Reconsider, Forsake
  <2> QED BY <1>1, <1>3, <1>4, <2>1, <2>5, <2>6 DEF Rightly
<1>8. CASE Forsake(h)
  <2>1. Kept /\ UNCHANGED <<view, verdict>> /\ pc'[h] # "deciding"
    BY <1>1, <1>8, PcAfter DEF Forsake, Kept
  <2> QED BY <1>3, <1>4, <2>1 DEF Rightly
<1> QED BY <1>5, <1>6, <1>7, <1>8 DEF Human

\* What is appended rightfully makes a longer legal history.
LEMMA HistoryKept ==
    ASSUME TypeInv, Synced, Poised, NEW w \in Writers, Rightly(w)
    PROVE  History(log)'
<1>1. CASE UNCHANGED log
  BY <1>1 DEF Poised, History, Rightful, Legal
<1>2. CASE log' # log
  <2>1. PICK e \in EngineEvents : Rightful(view[w], e) /\ Stored(w, e)
    BY <1>2 DEF Rightly, Kept, Load, Conflict
  <2>2. view[w] = log /\ Adds(log, e, log')
    BY <1>2, <2>1, StoredAdds
  <2>3. Gapless(log) /\ log = [i \in DOMAIN log |-> log[i]] /\ History(log)
    BY ViewsOrderly DEF Poised
  <2>4. History(log')
    BY <2>1, <2>2, <2>3, HistoryGrows
  <2> QED BY <2>4 DEF History
<1> QED BY <1>1, <1>2

\* Some writer takes every step that is taken, and takes it rightly.
LEMMA StepRight ==
    ASSUME DistinctIds, TypeInv, Synced, Poised, Next
    PROVE  Poised' /\ (Kept \/ \E w \in Writers : Rightly(w))
<1>1. \A d \in Drivers : d \in Writers /\ d \notin Humans
  BY ActorsAssumption DEF Writers
<1>2. ASSUME \A d \in Drivers : Ready(pc'[d], view'[d], out'[d]),
             \A h \in Humans : pc'[h] = "deciding"
                                 => verdict'[h].call \in PendingApprovals(view'[h]),
             NEW w \in Writers, Rightly(w)
      PROVE  Poised'
  BY <1>2, HistoryKept DEF Poised
<1>3. ASSUME NEW d \in Drivers, Invoke(d) \/ Drive(d) \/ Effect(d) \/ Fault(d)
      PROVE  Poised' /\ Rightly(d)
  <2>1. RightStep(d)
    BY <1>3, DriverRight
  <2>2. /\ \A x \in Writers : x # d => pc'[x] = pc[x] /\ view'[x] = view[x]
        /\ \A x \in Drivers : x # d => out'[x] = out[x]
        /\ UNCHANGED human
    BY <1>3, OthersRest
  <2>3. ASSUME NEW x \in Drivers PROVE Ready(pc'[x], view'[x], out'[x])
    <3>1. CASE x = d
      BY <2>1, <3>1 DEF RightStep
    <3>2. CASE x # d
      BY <1>1, <2>2, <3>2 DEF Poised
    <3> QED BY <3>1, <3>2
  <2>4. ASSUME NEW h \in Humans, pc'[h] = "deciding"
        PROVE  verdict'[h].call \in PendingApprovals(view'[h])
    <3>1. h \in Writers /\ h # d
      BY <1>1 DEF Writers
    <3> QED BY <2>2, <2>4, <3>1 DEF Poised, human
  <2> QED BY <1>1, <1>2, <2>1, <2>3, <2>4 DEF RightStep
<1>4. ASSUME NEW h \in Humans, Human(h)
      PROVE  Poised' /\ Rightly(h)
  <2>1. /\ Rightly(h)
        /\ pc'[h] = "deciding" => verdict'[h].call \in PendingApprovals(view'[h])
        /\ \A x \in Writers : x # h => pc'[x] = pc[x] /\ view'[x] = view[x]
        /\ \A g \in Humans : g # h => verdict'[g] = verdict[g]
        /\ UNCHANGED out
    BY <1>4, HumanRight
  <2>2. ASSUME NEW x \in Drivers PROVE Ready(pc'[x], view'[x], out'[x])
    BY <1>1, <2>1 DEF Poised
  <2>3. ASSUME NEW g \in Humans, pc'[g] = "deciding"
        PROVE  verdict'[g].call \in PendingApprovals(view'[g])
    <3>1. g \in Writers
      BY DEF Writers
    <3> QED BY <2>1, <2>3, <3>1 DEF Poised
  <2>4. h \in Writers
    BY DEF Writers
  <2> QED BY <1>2, <2>1, <2>2, <2>3, <2>4
<1>5. CASE Lapse
  BY <1>5 DEF Lapse, Poised, Kept, human, History
<1> QED BY <1>3, <1>4, <1>5 DEF Next, Writers

LEMMA InitPoised == Init => Poised
BY DEF Init, Poised, Ready, Writers, History, EmptyLog

LEMMA PoisedHolds == DistinctIds => (Spec => []Poised)
<1> SUFFICES ASSUME DistinctIds PROVE Spec => []Poised
  OBVIOUS
<1>1. TypeInv /\ Synced /\ Poised /\ [Next]_vars => Poised'
  <2>1. UNCHANGED vars /\ Poised => Poised'
    BY DEF vars, Poised, History
  <2> QED BY <2>1, StepRight
<1> QED BY <1>1, InitPoised, TypeInvHolds, SyncedHolds, PTL DEF Spec

\* However stale the views and however many drivers and humans race, every event
\* the store takes is one that a single, never interrupted driver could have
\* appended there.
THEOREM LegalAppends ==
    ASSUME DistinctIds
    PROVE  Spec => AppendsAreLegal
<1>1. TypeInv /\ Synced /\ Poised /\ [Next]_vars
        => [\A i \in DOMAIN log' \ DOMAIN log : Legal(log, log'[i])]_log
  <2> SUFFICES ASSUME TypeInv, Synced, Poised, Next,
                      NEW i \in DOMAIN log' \ DOMAIN log
               PROVE  Legal(log, log'[i])
    BY DEF vars
  <2>1. PICK w \in Writers : Rightly(w)
    BY StepRight DEF Kept
  <2>2. PICK e \in EngineEvents : Rightful(view[w], e) /\ Stored(w, e)
    BY <2>1 DEF Rightly, Kept, Load, Conflict
  <2>3. view[w] = log /\ Adds(log, e, log')
    BY <2>2, StoredAdds
  <2>4. log'[i] = e
    BY <2>3 DEF Adds
  <2> QED BY <2>2, <2>3, <2>4 DEF Rightful
<1> QED BY <1>1, InitPoised, PoisedHolds, TypeInvHolds, SyncedHolds, PTL DEF Spec, AppendsAreLegal

=============================================================================
