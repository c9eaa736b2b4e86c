----------------------------- MODULE EvalsProofs -----------------------------
(***************************************************************************)
(* Proofs about evaluations and gates, for any suites, checks, numbers of  *)
(* runs and thresholds, and any way of interleaving evaluations.  A run id *)
(* that was free when it was looked up is only taken by an evaluation that *)
(* found it free as well, and the two have met (Inv).  The graded results  *)
(* are those of the runs an evaluation is past, one of each, and the tally *)
(* counts them (Measurements), so a pooled rate is a share of results; a   *)
(* gate decides on reports, and the results of a report do not change      *)
(* (Decisions).                                                            *)
(***************************************************************************)
EXTENDS Evals, WellFoundedInduction, FiniteSetTheorems, TLAPS

\* An evaluation under way is at a run of its suite; past the check of that
\* run, only those it has met had a hand in it.
JobOK(j) ==
    /\ at[j] \in {"idle", "loading", "running", "grading", "reported", "raised"}
    /\ place[j] = [scenario |-> place[j].scenario, run |-> place[j].run]
    /\ place[j].scenario \in Nat \ {0} /\ place[j].run \in Nat
    /\ at[j] = "idle" => place[j] = [scenario |-> 1, run |-> 0]
    /\ Active(j) => place[j].scenario \in DOMAIN Suite[j] /\ place[j].run < Runs[Here(j)]
    /\ Cleared(j) /\ RunId(j) \in DOMAIN store => store[RunId(j)] \subseteq {j} \cup rivals[j]
    /\ at[j] = "grading" => RunId(j) \in DOMAIN store

\* Two evaluations past the check of one run have met.
Met ==
    \A j, k \in Jobs :
        Cleared(j) /\ Cleared(k) /\ j # k /\ RunId(j) = RunId(k) => k \in rivals[j]

Inv ==
    /\ at = [j \in Jobs |-> at[j]]
    /\ place = [j \in Jobs |-> place[j]]
    /\ rivals \in [Jobs -> SUBSET Jobs]
    /\ \A id \in DOMAIN store : store[id] \subseteq Jobs
    /\ \A j \in Jobs : JobOK(j)
    /\ Met
    /\ \A g \in graded : g.makers \subseteq {g.job} \cup g.rivals

LEMMA SuiteLength ==
    ASSUME NEW j \in Jobs
    PROVE  /\ Len(Suite[j]) \in Nat /\ DOMAIN Suite[j] = 1..Len(Suite[j])
           /\ Suite[j] = <<>> <=> Len(Suite[j]) = 0
           /\ \A i \in DOMAIN Suite[j] : Runs[Suite[j][i]] \in Nat \ {0}
<1>1. Suite[j] \in Seq(Scenarios)
  BY EvalsAssumption
<1>2. Len(Suite[j]) \in Nat /\ DOMAIN Suite[j] = 1..Len(Suite[j])
      /\ (Suite[j] = <<>> <=> Len(Suite[j]) = 0)
  BY <1>1
<1>3. \A i \in DOMAIN Suite[j] : Suite[j][i] \in Scenarios
  BY DEF Scenarios
<1> QED BY <1>2, <1>3, EvalsAssumption

LEMMA InitInv == Init => Inv
BY DEF Init, Inv, JobOK, Met, Active, Cleared

\* What a step of one evaluation leaves of another: those who join a run have
\* met all who are past its check.
LEMMA OtherKept ==
    ASSUME Inv, NEW j \in Jobs, NEW k \in Jobs, k # j,
           at'[k] = at[k], place'[k] = place[k], rivals[k] \subseteq rivals'[k],
           \/ store' = store
           \/ /\ Cleared(j)
              /\ \E makers : /\ store' = Put(RunId(j), makers)
                             /\ RunId(j) \in DOMAIN store =>
                                   makers \subseteq store[RunId(j)] \cup {j}
                             /\ RunId(j) \notin DOMAIN store => makers \subseteq {j}
    PROVE  JobOK(k)'
<1>1. JobOK(k)
  BY DEF Inv
<1>2. /\ Here(k)' = Here(k) /\ RunId(k)' = RunId(k) /\ (Active(k)' <=> Active(k))
      /\ Cleared(k)' <=> Cleared(k)
  BY DEF Here, RunId, Active, Cleared
<1>3. CASE store' = store
  BY <1>1, <1>2, <1>3 DEF JobOK
<1>4. CASE store' # store
  <2>1. PICK makers : /\ store' = Put(RunId(j), makers)
                      /\ RunId(j) \in DOMAIN store => makers \subseteq store[RunId(j)] \cup {j}
                      /\ RunId(j) \notin DOMAIN store => makers \subseteq {j}
    BY <1>4
  <2>2. /\ DOMAIN store' = DOMAIN store \cup {RunId(j)}
        /\ store'[RunId(j)] = makers
        /\ \A id \in DOMAIN store : id # RunId(j) => store'[id] = store[id]
    BY <2>1 DEF Put
  <2>3. ASSUME Cleared(k), RunId(k) \in DOMAIN store'
        PROVE  store'[RunId(k)] \subseteq {k} \cup rivals'[k]
    <3>1. CASE RunId(k) = RunId(j)
      <4>1. j \in rivals[k]
        BY <1>4, <2>3, <3>1 DEF Inv, Met
      <4> QED BY <1>1, <2>1, <2>2, <2>3, <3>1, <4>1 DEF JobOK
    <3>2. CASE RunId(k) # RunId(j)
      BY <1>1, <2>2, <2>3, <3>2 DEF JobOK
    <3> QED BY <3>1, <3>2
  <2> QED BY <1>1, <1>2, <2>2, <2>3 DEF JobOK
<1> QED BY <1>3, <1>4

\* Those past a check stay met when nobody passes one.
LEMMA MetKept ==
    ASSUME Inv, \A j \in Jobs : rivals[j] \subseteq rivals'[j],
           \A j \in Jobs : Cleared(j)' => Cleared(j) /\ RunId(j)' = RunId(j)
    PROVE  Met'
BY DEF Inv, Met

\* The next run of the suite, or the report.
LEMMA AdvanceOK ==
    ASSUME Inv, NEW j \in Jobs, at[j] = "grading", Advance(j), store' = store, rivals' = rivals
    PROVE  /\ JobOK(j)'
           /\ at' = [k \in Jobs |-> at'[k]] /\ place' = [k \in Jobs |-> place'[k]]
           /\ \A k \in Jobs : k # j => at'[k] = at[k] /\ place'[k] = place[k]
<1> DEFINE i == place[j].scenario
           r == place[j].run
<1>1. i \in DOMAIN Suite[j] /\ i \in Nat \ {0} /\ r \in Nat /\ r < Runs[Suite[j][i]]
  BY DEF Inv, JobOK, Active, Here
<1>2. CASE r + 1 < Runs[Suite[j][i]]
  <2>1. /\ place' = [place EXCEPT ![j].run = r + 1]
        /\ at' = [at EXCEPT ![j] = "loading"]
    BY <1>2 DEF Advance
  <2>2. place'[j] = [scenario |-> i, run |-> r + 1] /\ at'[j] = "loading"
    BY <2>1 DEF Inv, JobOK
  <2>3. JobOK(j)'
    <3>1. Here(j)' = Suite[j][i]
      BY <2>2 DEF Here
    <3> QED BY <1>1, <1>2, <2>2, <3>1 DEF JobOK, Active, Cleared
  <2>4. /\ at' = [k \in Jobs |-> at'[k]] /\ place' = [k \in Jobs |-> place'[k]]
        /\ \A k \in Jobs : k # j => at'[k] = at[k] /\ place'[k] = place[k]
    BY <2>1 DEF Inv
  <2> QED BY <2>3, <2>4
<1>3. CASE ~(r + 1 < Runs[Suite[j][i]])
  <2>1. /\ place' = [place EXCEPT ![j] = [scenario |-> i + 1, run |-> 0]]
        /\ at' = [at EXCEPT ![j] = IF i < Len(Suite[j]) THEN "loading" ELSE "reported"]
    BY <1>3 DEF Advance
  <2>2. place'[j] = [scenario |-> i + 1, run |-> 0]
        /\ at'[j] = IF i < Len(Suite[j]) THEN "loading" ELSE "reported"
    BY <2>1 DEF Inv
  <2>3. i < Len(Suite[j]) => i + 1 \in DOMAIN Suite[j] /\ 0 < Runs[Suite[j][i + 1]]
    BY <1>1, SuiteLength
  <2>4. JobOK(j)'
    <3>1. place'[j].scenario = i + 1 /\ place'[j].run = 0
      BY <2>2
    <3>2. Here(j)' = Suite[j][i + 1]
      BY <3>1 DEF Here
    <3>3. at'[j] \in {"loading", "reported"} /\ (at'[j] = "loading" => i < Len(Suite[j]))
      BY <2>2
    <3> QED BY <1>1, <2>2, <2>3, <3>1, <3>2, <3>3 DEF JobOK, Active, Cleared
  <2>5. /\ at' = [k \in Jobs |-> at'[k]] /\ place' = [k \in Jobs |-> place'[k]]
        /\ \A k \in Jobs : k # j => at'[k] = at[k] /\ place'[k] = place[k]
    BY <2>1 DEF Inv
  <2> QED BY <2>4, <2>5
<1> QED BY <1>2, <1>3

LEMMA NextInv == Inv /\ [Next]_vars => Inv'
<1> SUFFICES ASSUME Inv, [Next]_vars PROVE Inv'
  OBVIOUS
<1>1. ASSUME NEW j \in Jobs, Start(j) PROVE Inv'
  <2>1. /\ at[j] = "idle"
        /\ at' = [at EXCEPT ![j] = IF Suite[j] = <<>> THEN "reported" ELSE "loading"]
        /\ UNCHANGED <<store, place, graded, rivals>>
    BY <1>1 DEF Start
  <2>2. place[j] = [scenario |-> 1, run |-> 0]
    BY <2>1 DEF Inv, JobOK
  <2>3. Suite[j] # <<>> => 1 \in DOMAIN Suite[j] /\ 0 < Runs[Suite[j][1]]
    BY SuiteLength
  <2>4. JobOK(j)'
    BY <2>1, <2>2, <2>3 DEF JobOK, Active, Cleared, Here, Inv
  <2>5. \A k \in Jobs : k # j => JobOK(k)'
    BY <2>1, OtherKept DEF Inv
  <2>6. \A k \in Jobs : Cleared(k)' => Cleared(k) /\ RunId(k)' = RunId(k)
    BY <2>1 DEF Cleared, RunId, Here, Inv
  <2> QED BY <2>1, <2>4, <2>5, <2>6, MetKept DEF Inv
<1>2. ASSUME NEW j \in Jobs, Guard(j) PROVE Inv'
  <2>1. /\ at[j] = "loading" /\ UNCHANGED <<store, place, graded>>
        /\ \A k \in Jobs : RunId(k)' = RunId(k) /\ Here(k)' = Here(k)
    BY <1>2 DEF Guard, RunId, Here
  <2>2. CASE RunId(j) \in DOMAIN store
    <3>1. at' = [at EXCEPT ![j] = "raised"] /\ rivals' = rivals
      BY <1>2, <2>2 DEF Guard
    <3>2. JobOK(j)'
      BY <2>1, <3>1 DEF JobOK, Active, Cleared, Inv
    <3>3. \A k \in Jobs : k # j => JobOK(k)'
      BY <2>1, <3>1, OtherKept DEF Inv
    <3>4. \A k \in Jobs : Cleared(k)' => Cleared(k) /\ RunId(k)' = RunId(k)
      BY <2>1, <3>1 DEF Cleared, Inv
    <3> QED BY <2>1, <3>1, <3>2, <3>3, <3>4, MetKept DEF Inv
  <2>3. CASE RunId(j) \notin DOMAIN store
    <3>1. at' = [at EXCEPT ![j] = "running"] /\ Meet(j)
      BY <1>2, <2>3 DEF Guard
    <3>2. /\ rivals' \in [Jobs -> SUBSET Jobs] /\ rivals'[j] = Contenders(j)
          /\ \A k \in Jobs : k # j => rivals[k] \subseteq rivals'[k]
          /\ \A k \in Contenders(j) : k # j /\ j \in rivals'[k]
      BY <3>1 DEF Meet, Contenders, Inv
    <3>3. JobOK(j)'
      BY <2>1, <2>3, <3>1 DEF JobOK, Active, Cleared, Inv
    <3>4. \A k \in Jobs : k # j => JobOK(k)'
      BY <2>1, <3>1, <3>2, OtherKept DEF Inv
    <3>5. ASSUME NEW k \in Jobs, NEW l \in Jobs, Cleared(k)', Cleared(l)', k # l,
                 RunId(k)' = RunId(l)'
          PROVE  l \in rivals'[k]
      <4>1. \A m \in Jobs : m # j => (Cleared(m)' <=> Cleared(m))
        BY <3>1 DEF Cleared, Inv
      <4>2. RunId(k) = RunId(l)
        BY <2>1, <3>5
      <4>3. CASE k = j
        BY <3>2, <3>5, <4>1, <4>2, <4>3 DEF Contenders
      <4>4. CASE l = j
        BY <3>2, <3>5, <4>1, <4>2, <4>4 DEF Contenders
      <4>5. CASE k # j /\ l # j
        BY <3>2, <3>5, <4>1, <4>2, <4>5 DEF Inv, Met
      <4> QED BY <4>3, <4>4, <4>5
    <3>6. Met'
      BY <3>5 DEF Met
    <3> QED BY <2>1, <3>1, <3>2, <3>3, <3>4, <3>6 DEF Inv
  <2> QED BY <2>2, <2>3
<1>3. ASSUME NEW j \in Jobs, Run(j) PROVE Inv'
  <2>1. /\ at[j] = "running" /\ Active(j) /\ Cleared(j) /\ JobOK(j)
        /\ at' = [at EXCEPT ![j] = "grading"]
        /\ UNCHANGED <<place, graded, rivals>>
    BY <1>3 DEF Run, Active, Cleared, Inv
  <2>2. RunId(j)' = RunId(j) /\ Here(j)' = Here(j) /\ at'[j] = "grading"
    BY <2>1 DEF RunId, Here, Inv
  <2>3. \/ store' = store /\ RunId(j) \in DOMAIN store
        \/ \E makers : /\ store' = Put(RunId(j), makers)
                       /\ RunId(j) \in DOMAIN store => makers \subseteq store[RunId(j)] \cup {j}
                       /\ RunId(j) \notin DOMAIN store => makers \subseteq {j}
    BY <1>3 DEF Run
  <2>4. /\ RunId(j) \in DOMAIN store' /\ store'[RunId(j)] \subseteq {j} \cup rivals[j]
        /\ \A id \in DOMAIN store' : store'[id] \subseteq Jobs
    <3>1. CASE store' = store /\ RunId(j) \in DOMAIN store
      BY <2>1, <3>1 DEF JobOK, Inv
    <3>2. ASSUME NEW makers, store' = Put(RunId(j), makers),
                 RunId(j) \in DOMAIN store => makers \subseteq store[RunId(j)] \cup {j},
                 RunId(j) \notin DOMAIN store => makers \subseteq {j}
          PROVE  /\ RunId(j) \in DOMAIN store' /\ store'[RunId(j)] \subseteq {j} \cup rivals[j]
                 /\ \A id \in DOMAIN store' : store'[id] \subseteq Jobs
      <4>1. /\ DOMAIN store' = DOMAIN store \cup {RunId(j)}
            /\ store'[RunId(j)] = makers
            /\ \A id \in DOMAIN store : id # RunId(j) => store'[id] = store[id]
        BY <3>2 DEF Put
      <4>2. makers \subseteq {j} \cup rivals[j] /\ makers \subseteq Jobs
        BY <2>1, <3>2 DEF JobOK, Inv
      <4> QED BY <4>1, <4>2 DEF Inv
    <3> QED BY <2>3, <3>1, <3>2
  <2>5. JobOK(j)'
    BY <2>1, <2>2, <2>4 DEF JobOK, Active, Cleared
  <2>6. \A k \in Jobs : k # j => JobOK(k)'
    BY <2>1, <2>3, OtherKept DEF Inv
  <2>7. \A k \in Jobs : Cleared(k)' => Cleared(k) /\ RunId(k)' = RunId(k)
    BY <2>1 DEF Cleared, RunId, Here, Inv
  <2> QED BY <2>1, <2>4, <2>5, <2>6, <2>7, MetKept DEF Inv
<1>4. ASSUME NEW j \in Jobs, Grade(j) PROVE Inv'
  <2>1. at[j] = "grading" /\ Cleared(j) /\ Advance(j) /\ UNCHANGED <<store, rivals>>
    BY <1>4 DEF Grade, Cleared
  <2>2. \A g \in graded' : g.makers \subseteq {g.job} \cup g.rivals
    <3>1. store[RunId(j)] \subseteq {j} \cup rivals[j]
      BY <2>1 DEF Inv, JobOK
    <3>2. PICK ok : graded' = graded \cup
                {[job |-> j, scenario |-> place[j].scenario, run |-> place[j].run,
                  makers |-> store[RunId(j)], rivals |-> rivals[j], ok |-> ok]}
      BY <1>4 DEF Grade
    <3> QED BY <3>1, <3>2 DEF Inv
  <2>3. /\ JobOK(j)'
        /\ at' = [k \in Jobs |-> at'[k]] /\ place' = [k \in Jobs |-> place'[k]]
        /\ \A k \in Jobs : k # j => at'[k] = at[k] /\ place'[k] = place[k]
    BY <2>1, AdvanceOK
  <2>4. \A k \in Jobs : k # j => JobOK(k)'
    BY <2>1, <2>3, OtherKept
  <2>5. ~Cleared(j)'
    BY <2>1, <2>3 DEF Advance, Cleared, Inv
  <2>6. \A k \in Jobs : Cleared(k)' => Cleared(k) /\ RunId(k)' = RunId(k)
    BY <2>3, <2>5 DEF Cleared, RunId, Here
  <2> QED BY <2>1, <2>2, <2>3, <2>4, <2>6, MetKept DEF Inv
<1>5. ASSUME NEW j \in Jobs, Fail(j) PROVE Inv'
  <2>1. /\ at' = [at EXCEPT ![j] = "raised"] /\ UNCHANGED <<store, place, graded, rivals>>
    BY <1>5 DEF Fail
  <2>2. JobOK(j)'
    BY <2>1 DEF JobOK, Active, Cleared, Inv
  <2>3. \A k \in Jobs : k # j => JobOK(k)'
    BY <2>1, OtherKept DEF Inv
  <2>4. \A k \in Jobs : Cleared(k)' => Cleared(k) /\ RunId(k)' = RunId(k)
    BY <2>1 DEF Cleared, RunId, Here, Inv
  <2> QED BY <2>1, <2>2, <2>3, <2>4, MetKept DEF Inv
<1>6. ASSUME UNCHANGED <<store, at, place, graded, rivals>> PROVE Inv'
  BY <1>6 DEF Inv, JobOK, Met, Active, Cleared, Here, RunId
<1>7. ASSUME NEW j \in Jobs, Decide(j) \/ Override(j) PROVE Inv'
  BY <1>6, <1>7 DEF Decide, Override
<1>8. ASSUME UNCHANGED vars PROVE Inv'
  BY <1>6, <1>8 DEF vars
<1> QED BY <1>1, <1>2, <1>3, <1>4, <1>5, <1>7, <1>8 DEF Next

LEMMA InvHolds == Spec => []Inv
BY InitInv, NextInv, PTL DEF Spec

\* Every run of an evaluation is a run of its suite, and evaluations alone have
\* a hand in it.
THEOREM TypeCorrect == Spec => []TypeOK
<1>1. Inv => TypeOK
  <2> SUFFICES ASSUME Inv PROVE TypeOK
    OBVIOUS
  <2>1. ASSUME NEW j \in Jobs, Active(j)
        PROVE  place[j].scenario \in DOMAIN Suite[j] /\ place[j].run \in 0..(Runs[Here(j)] - 1)
    <3>1. place[j].scenario \in DOMAIN Suite[j] /\ place[j].run \in Nat
          /\ place[j].run < Runs[Here(j)]
      BY <2>1 DEF Inv, JobOK
    <3>2. Runs[Here(j)] \in Nat
      BY <3>1, SuiteLength DEF Here
    <3> QED BY <3>1, <3>2
  <2> QED BY <2>1 DEF Inv, JobOK, TypeOK
<1> QED BY <1>1, InvHolds, PTL

\* No evaluation grades what another agent did, unless both had found that very
\* run free before either began it; for any prefixes, shared or not.
THEOREM GradesItsOwn == Spec => []MeasuresOwn
<1>1. Inv => MeasuresOwn
  BY DEF Inv, MeasuresOwn
<1> QED BY <1>1, InvHolds, PTL

-----------------------------------------------------------------------------
(* Sums.  A fold over a finite set is a function that recurs over the      *)
(* subsets; two functions that obey the same recursion agree.              *)

\* The element of a set that a sum takes next.
Some(s) == CHOOSE x \in s : TRUE

\* sums holds, for each part of D, the sum of f over it.
Sums(sums, f, D) ==
    sums = [s \in SUBSET D |-> IF s = {} THEN 0 ELSE f[Some(s)] + sums[s \ {Some(s)}]]

LEMMA SumsAgree ==
    ASSUME NEW D, IsFiniteSet(D), NEW f, NEW g, Sums(g, f, D), NEW h, Sums(h, f, D)
    PROVE  \A s \in SUBSET D : g[s] = h[s]
<1> DEFINE T == {s \in SUBSET D : g[s] # h[s]}
<1> SUFFICES ASSUME T # {} PROVE FALSE
  OBVIOUS
<1>1. T \subseteq FiniteSubsetsOf(D)
  BY FS_FiniteSubsetsOfFinite
<1>2. PICK s \in T : \A r \in T : ~(<<r, s>> \in StrictSubsetOrdering(D))
  <2> HIDE DEF T
  <2> QED BY <1>1, FS_StrictSubsetOrderingWellFounded, WFMin
<1>3. s \in SUBSET D /\ g[s] # h[s]
  OBVIOUS
<1>4. s # {}
  BY <1>3 DEF Sums
<1> DEFINE x == Some(s)
           r == s \ {x}
<1>5. x \in s
  BY <1>4 DEF Some
<1>6. r \in SUBSET D /\ <<r, s>> \in StrictSubsetOrdering(D)
  BY <1>3, <1>5 DEF StrictSubsetOrdering
<1>7. g[r] = h[r]
  BY <1>2, <1>6
<1>8. g[s] = f[x] + g[r] /\ h[s] = f[x] + h[r]
  BY <1>3, <1>4 DEF Sums
<1> QED BY <1>3, <1>7, <1>8

\* So whatever obeys the recursion of a fold is the fold.
LEMMA PooledPassed ==
    ASSUME NEW j, NEW d, NEW D, D = DOMAIN Suite[j], IsFiniteSet(D), NEW h,
           Sums(h, [i \in D |-> tally[j][i][d].passed], D)
    PROVE  Pooled(j, d).passed = h[D]
<1> DEFINE f == [i \in D |-> tally[j][i][d].passed]
           G(g) == g = [s \in SUBSET D |->
                          IF s = {} THEN 0
                          ELSE tally[j][CHOOSE x \in s : TRUE][d].passed
                                 + g[s \ {CHOOSE x \in s : TRUE}]]
           iter == CHOOSE g : G(g)
<1>1. Pooled(j, d).passed = iter[D]
  BY DEF Pooled, MapThenSumSet, MapThenFoldSet
<1>2. \A s \in SUBSET D : s # {} => f[Some(s)] = tally[j][CHOOSE x \in s : TRUE][d].passed
  BY DEF Some
<1>3. ASSUME NEW g PROVE G(g) <=> Sums(g, f, D)
  <2>1. [s \in SUBSET D |-> IF s = {} THEN 0
                            ELSE tally[j][CHOOSE x \in s : TRUE][d].passed
                                   + g[s \ {CHOOSE x \in s : TRUE}]]
        = [s \in SUBSET D |-> IF s = {} THEN 0 ELSE f[Some(s)] + g[s \ {Some(s)}]]
    <3> HIDE DEF f
    <3> QED BY <1>2 DEF Some
  <2> HIDE DEF f
  <2> QED BY <2>1 DEF Sums
<1>4. G(iter)
  <2>1. G(h)
    <3> HIDE DEF G
    <3> QED BY <1>3
  <2> HIDE DEF G
  <2> QED BY <2>1
<1>5. Sums(iter, f, D)
  <2> HIDE DEF G, iter, f
  <2> QED BY <1>3, <1>4
<1>6. iter[D] = h[D]
  <2> HIDE DEF iter, f
  <2> QED BY <1>5, SumsAgree DEF f
<1> QED BY <1>1, <1>6

LEMMA PooledTotal ==
    ASSUME NEW j, NEW d, NEW D, D = DOMAIN Suite[j], IsFiniteSet(D), NEW h,
           Sums(h, [i \in D |-> tally[j][i][d].total], D)
    PROVE  Pooled(j, d).total = h[D]
<1> DEFINE f == [i \in D |-> tally[j][i][d].total]
           G(g) == g = [s \in SUBSET D |->
                          IF s = {} THEN 0
                          ELSE tally[j][CHOOSE x \in s : TRUE][d].total
                                 + g[s \ {CHOOSE x \in s : TRUE}]]
           iter == CHOOSE g : G(g)
<1>1. Pooled(j, d).total = iter[D]
  BY DEF Pooled, MapThenSumSet, MapThenFoldSet
<1>2. \A s \in SUBSET D : s # {} => f[Some(s)] = tally[j][CHOOSE x \in s : TRUE][d].total
  BY DEF Some
<1>3. ASSUME NEW g PROVE G(g) <=> Sums(g, f, D)
  <2>1. [s \in SUBSET D |-> IF s = {} THEN 0
                            ELSE tally[j][CHOOSE x \in s : TRUE][d].total
                                   + g[s \ {CHOOSE x \in s : TRUE}]]
        = [s \in SUBSET D |-> IF s = {} THEN 0 ELSE f[Some(s)] + g[s \ {Some(s)}]]
    <3> HIDE DEF f
    <3> QED BY <1>2 DEF Some
  <2> HIDE DEF f
  <2> QED BY <2>1 DEF Sums
<1>4. G(iter)
  <2>1. G(h)
    <3> HIDE DEF G
    <3> QED BY <1>3
  <2> HIDE DEF G
  <2> QED BY <2>1
<1>5. Sums(iter, f, D)
  <2> HIDE DEF G, iter, f
  <2> QED BY <1>3, <1>4
<1>6. iter[D] = h[D]
  <2> HIDE DEF iter, f
  <2> QED BY <1>5, SumsAgree DEF f
<1> QED BY <1>1, <1>6

-----------------------------------------------------------------------------
(* Results.  A report has one result for every run it is past.             *)

\* How many runs of its i-th scenario an evaluation is past.
Done(j, i) ==
    IF i < place[j].scenario THEN Runs[Suite[j][i]]
    ELSE IF i = place[j].scenario THEN place[j].run ELSE 0

\* The graded results are those of the runs that are done, one of each.
Results ==
    /\ IsFiniteSet(graded)
    /\ \A g \in graded :
          /\ g.job \in Jobs /\ g.scenario \in DOMAIN Suite[g.job]
          /\ g.run \in Nat /\ g.run < Done(g.job, g.scenario)
    /\ \A j \in Jobs : \A i \in DOMAIN Suite[j] : \A r \in Nat :
          r < Done(j, i) => \E g \in graded : g.job = j /\ g.scenario = i /\ g.run = r
    /\ \A g, h \in graded :
          g.job = h.job /\ g.scenario = h.scenario /\ g.run = h.run => g = h

\* An evaluation reports when it is past its suite.
Past ==
    \A j \in Jobs : at[j] = "reported" => \A i \in DOMAIN Suite[j] : i < place[j].scenario

\* The runs of a dimension that the tally stands for.
CountedAt(j, i, d) == {g \in Counted(j, d) : g.scenario = i}
PassedAt(j, i, d) == {g \in PassedIn(j, d) : g.scenario = i}

\* A tally counts the results it was made from.
Tallied ==
    tally = [j \in Jobs |-> [i \in DOMAIN Suite[j] |-> [d \in Dims |->
                [passed |-> Cardinality(PassedAt(j, i, d)),
                 total  |-> Cardinality(CountedAt(j, i, d))]]]]

\* Grading a run moves its evaluation past it, and no other.
LEMMA GradePasses ==
    ASSUME Inv, NEW j \in Jobs, at[j] = "grading", Advance(j)
    PROVE  /\ Done(j, place[j].scenario) = place[j].run
           /\ \A k \in Jobs : \A i \in DOMAIN Suite[k] :
                 Done(k, i)' = IF k = j /\ i = place[j].scenario THEN place[j].run + 1
                               ELSE Done(k, i)
           /\ at'[j] = "reported" => \A i \in DOMAIN Suite[j] : i < place'[j].scenario
           /\ \A k \in Jobs : k # j => at'[k] = at[k] /\ place'[k] = place[k]
<1> DEFINE i == place[j].scenario
           r == place[j].run
<1>1. i \in DOMAIN Suite[j] /\ i \in Nat \ {0} /\ r \in Nat /\ r < Runs[Suite[j][i]]
  BY DEF Inv, JobOK, Active, Here
<1>2. /\ Len(Suite[j]) \in Nat /\ DOMAIN Suite[j] = 1..Len(Suite[j])
      /\ Runs[Suite[j][i]] \in Nat
  BY <1>1, SuiteLength
<1>3. \A k \in Jobs : k # j => at'[k] = at[k] /\ place'[k] = place[k]
  BY DEF Advance, Inv
<1>4. Done(j, i) = r
  BY <1>1 DEF Done
<1>5. CASE r + 1 < Runs[Suite[j][i]]
  <2>1. place'[j] = [scenario |-> i, run |-> r + 1] /\ at'[j] = "loading"
    BY <1>5 DEF Advance, Inv, JobOK
  <2>2. \A k \in DOMAIN Suite[j] : Done(j, k)' = IF k = i THEN r + 1 ELSE Done(j, k)
    BY <1>1, <1>2, <2>1 DEF Done
  <2> QED BY <1>3, <1>4, <2>1, <2>2 DEF Done
<1>6. CASE ~(r + 1 < Runs[Suite[j][i]])
  <2>1. /\ place'[j] = [scenario |-> i + 1, run |-> 0]
        /\ at'[j] = IF i < Len(Suite[j]) THEN "loading" ELSE "reported"
    BY <1>6 DEF Advance, Inv, JobOK
  <2>2. Runs[Suite[j][i]] = r + 1
    BY <1>1, <1>2, <1>6
  <2>3. \A k \in DOMAIN Suite[j] : Done(j, k)' = IF k = i THEN r + 1 ELSE Done(j, k)
    BY <1>1, <1>2, <2>1, <2>2 DEF Done
  <2>4. at'[j] = "reported" => \A k \in DOMAIN Suite[j] : k < place'[j].scenario
    BY <1>1, <1>2, <2>1
  <2> QED BY <1>3, <1>4, <2>3, <2>4 DEF Done
<1> QED BY <1>5, <1>6

Measurements == Results /\ Past /\ Tallied

LEMMA InitMeasurements == Init => Measurements
<1> SUFFICES ASSUME Init PROVE Measurements
  OBVIOUS
<1>1. graded = {} /\ at = [j \in Jobs |-> "idle"]
      /\ place = [j \in Jobs |-> [scenario |-> 1, run |-> 0]]
  BY DEF Init
<1>2. ASSUME NEW j \in Jobs, NEW i \in DOMAIN Suite[j] PROVE Done(j, i) = 0
  BY <1>1, <1>2, SuiteLength DEF Done
<1>3. Results
  BY <1>1, <1>2, FS_EmptySet DEF Results
<1>4. Past
  BY <1>1 DEF Past
<1>5. ASSUME NEW j, NEW i, NEW d
      PROVE  Cardinality(PassedAt(j, i, d)) = 0 /\ Cardinality(CountedAt(j, i, d)) = 0
  <2>1. PassedAt(j, i, d) = {} /\ CountedAt(j, i, d) = {}
    BY <1>1 DEF PassedAt, CountedAt, PassedIn, Counted
  <2> QED BY <2>1, FS_EmptySet
<1>6. Tallied
  BY <1>5 DEF Tallied, Init
<1> QED BY <1>3, <1>4, <1>6 DEF Measurements

\* One more result of a run that had none.
LEMMA GradeMeasures ==
    ASSUME Inv, Measurements, NEW j \in Jobs, Grade(j)
    PROVE  Measurements'
<1>0. PICK i, r : i = place[j].scenario /\ r = place[j].run
  OBVIOUS
<1>1. PICK ok \in Outcomes(j) :
          /\ tally' = [tally EXCEPT ![j][i] = Count(@, Here(j), ok)]
          /\ graded' = graded \cup
                {[job |-> j, scenario |-> i, run |-> r, makers |-> store[RunId(j)],
                  rivals |-> rivals[j], ok |-> ok]}
  BY <1>0 DEF Grade
<1>a. PICK made, met : made = store[RunId(j)] /\ met = rivals[j]
  OBVIOUS
<1> DEFINE new == [job |-> j, scenario |-> i, run |-> r, makers |-> made, rivals |-> met, ok |-> ok]
<1>2. at[j] = "grading" /\ Advance(j)
  BY DEF Grade
<1>3. i \in DOMAIN Suite[j] /\ r \in Nat
  BY <1>0, <1>2 DEF Inv, JobOK, Active
<1>4. /\ Done(j, i) = r
      /\ \A k \in Jobs : \A x \in DOMAIN Suite[k] :
             Done(k, x)' = IF k = j /\ x = i THEN r + 1 ELSE Done(k, x)
      /\ at'[j] = "reported" => \A x \in DOMAIN Suite[j] : x < place'[j].scenario
      /\ \A k \in Jobs : k # j => at'[k] = at[k] /\ place'[k] = place[k]
  BY <1>0, <1>2, GradePasses
<1>5. /\ new.job = j /\ new.scenario = i /\ new.run = r /\ new.ok = ok
      /\ graded' = graded \cup {new}
  BY <1>1, <1>a
<1> HIDE DEF new
<1>6. Results
  BY DEF Measurements
<1>7. \A g \in graded : ~(g.job = j /\ g.scenario = i /\ g.run = r)
  BY <1>3, <1>4, <1>6 DEF Results
<1>8. new \notin graded
  BY <1>5, <1>7
<1>9. Results'
  <2>1. IsFiniteSet(graded')
    BY <1>5, <1>6, FS_AddElement DEF Results
  <2>2. ASSUME NEW g \in graded'
        PROVE  /\ g.job \in Jobs /\ g.scenario \in DOMAIN Suite[g.job]
               /\ g.run \in Nat /\ g.run < Done(g.job, g.scenario)'
    <3>1. CASE g = new
      BY <1>3, <1>4, <1>5, <3>1
    <3>2. CASE g \in graded
      <4>1. /\ g.job \in Jobs /\ g.scenario \in DOMAIN Suite[g.job]
            /\ g.run \in Nat /\ g.run < Done(g.job, g.scenario)
        BY <1>6, <3>2 DEF Results
      <4>2. CASE g.job = j /\ g.scenario = i
        BY <1>3, <1>4, <4>1, <4>2
      <4>3. CASE ~(g.job = j /\ g.scenario = i)
        BY <1>4, <4>1, <4>3
      <4> QED BY <4>2, <4>3
    <3> QED BY <1>5, <3>1, <3>2
  <2>3. ASSUME NEW k \in Jobs, NEW x \in DOMAIN Suite[k], NEW n \in Nat, n < Done(k, x)'
        PROVE  \E g \in graded' : g.job = k /\ g.scenario = x /\ g.run = n
    <3>1. CASE n < Done(k, x)
      BY <1>5, <1>6, <3>1 DEF Results
    <3>2. CASE ~(n < Done(k, x))
      <4>1. k = j /\ x = i /\ n = r
        BY <1>3, <1>4, <2>3, <3>2
      <4> QED BY <1>5, <4>1
    <3> QED BY <3>1, <3>2
  <2>4. ASSUME NEW g \in graded', NEW h \in graded',
               g.job = h.job /\ g.scenario = h.scenario /\ g.run = h.run
        PROVE  g = h
    BY <1>5, <1>6, <1>7, <2>4 DEF Results
  <2> QED BY <2>1, <2>2, <2>3, <2>4 DEF Results
<1>10. Past'
  BY <1>4 DEF Measurements, Past
<1>11. Tallied'
  <2>1. ASSUME NEW k \in Jobs, NEW x \in DOMAIN Suite[k], NEW d \in Dims, ~(k = j /\ x = i)
        PROVE  PassedAt(k, x, d)' = PassedAt(k, x, d) /\ CountedAt(k, x, d)' = CountedAt(k, x, d)
    BY <1>5, <2>1 DEF PassedAt, CountedAt, PassedIn, Counted
  <2>2. ASSUME NEW d \in Dims
        PROVE  /\ PassedAt(j, i, d)' = PassedAt(j, i, d) \cup
                     {g \in {new} : Covers(Here(j), d) /\ DimPasses(Here(j), d, ok)}
               /\ CountedAt(j, i, d)' = CountedAt(j, i, d) \cup
                     {g \in {new} : Covers(Here(j), d)}
    <3>1. Here(j) = Suite[j][i]
      BY <1>0 DEF Here
    <3>2. CountedAt(j, i, d)' = {g \in graded' : g.job = j /\ g.scenario = i /\ Covers(Here(j), d)}
          /\ CountedAt(j, i, d) = {g \in graded : g.job = j /\ g.scenario = i /\ Covers(Here(j), d)}
      BY <3>1 DEF CountedAt, Counted
    <3>3. PassedAt(j, i, d)' = {g \in CountedAt(j, i, d)' : DimPasses(Here(j), d, g.ok)}
          /\ PassedAt(j, i, d) = {g \in CountedAt(j, i, d) : DimPasses(Here(j), d, g.ok)}
      BY <3>1 DEF PassedAt, PassedIn, CountedAt, Counted
    <3>4. CountedAt(j, i, d)' = CountedAt(j, i, d) \cup {g \in {new} : Covers(Here(j), d)}
      BY <1>5, <3>2
    <3>5. PassedAt(j, i, d)' = PassedAt(j, i, d) \cup
             {g \in {new} : Covers(Here(j), d) /\ DimPasses(Here(j), d, ok)}
      BY <1>5, <3>3, <3>4
    <3> QED BY <3>4, <3>5
  <2>3. ASSUME NEW d \in Dims
        PROVE  /\ IsFiniteSet(PassedAt(j, i, d)) /\ IsFiniteSet(CountedAt(j, i, d))
               /\ new \notin PassedAt(j, i, d) /\ new \notin CountedAt(j, i, d)
    <3>1. PassedAt(j, i, d) \subseteq graded /\ CountedAt(j, i, d) \subseteq graded
      BY DEF PassedAt, CountedAt, PassedIn, Counted
    <3> QED BY <1>6, <1>8, <3>1, FS_Subset DEF Results
  <2>4. ASSUME NEW d \in Dims
        PROVE  /\ Cardinality(PassedAt(j, i, d)') = Cardinality(PassedAt(j, i, d)) +
                     IF Covers(Here(j), d) /\ DimPasses(Here(j), d, ok) THEN 1 ELSE 0
               /\ Cardinality(CountedAt(j, i, d)') = Cardinality(CountedAt(j, i, d)) +
                     IF Covers(Here(j), d) THEN 1 ELSE 0
    <3>1. ASSUME NEW S, IsFiniteSet(S), new \notin S, NEW B \in BOOLEAN
          PROVE  Cardinality(S \cup {g \in {new} : B}) = Cardinality(S) + IF B THEN 1 ELSE 0
      <4>1. CASE B
        <5>1. S \cup {g \in {new} : B} = S \cup {new}
          BY <4>1
        <5> QED BY <3>1, <4>1, <5>1, FS_AddElement
      <4>2. CASE ~B
        <5>1. S \cup {g \in {new} : B} = S
          BY <4>2
        <5>2. Cardinality(S) \in Nat
          BY <3>1, FS_CardinalityType
        <5>3. Cardinality(S \cup {g \in {new} : B}) = Cardinality(S)
          BY <5>1
        <5> QED BY <4>2, <5>2, <5>3
      <4> QED BY <4>1, <4>2
    <3>2. (Covers(Here(j), d) /\ DimPasses(Here(j), d, ok)) \in BOOLEAN
          /\ Covers(Here(j), d) \in BOOLEAN
      BY DEF Covers, DimPasses
    <3> QED BY <2>2, <2>3, <3>1, <3>2
  <2>5. tally = [k \in Jobs |-> [x \in DOMAIN Suite[k] |-> [d \in Dims |->
                  [passed |-> Cardinality(PassedAt(k, x, d)),
                   total  |-> Cardinality(CountedAt(k, x, d))]]]]
    BY DEF Measurements, Tallied
  <2>6. ASSUME NEW k \in Jobs, NEW x \in DOMAIN Suite[k]
        PROVE  tally'[k][x] = IF k = j /\ x = i THEN Count(tally[j][i], Here(j), ok)
                              ELSE tally[k][x]
    BY <1>1, <1>3, <2>5
  <2>7. tally' = [k \in Jobs |-> [x \in DOMAIN Suite[k] |-> tally'[k][x]]]
    BY <1>1, <1>3, <2>5
  <2>8. ASSUME NEW k \in Jobs, NEW x \in DOMAIN Suite[k]
        PROVE  tally'[k][x] = [d \in Dims |->
                  [passed |-> Cardinality(PassedAt(k, x, d)'),
                   total  |-> Cardinality(CountedAt(k, x, d)')]]
    <3>1. CASE k = j /\ x = i
      <4>1. tally[j][i] = [d \in Dims |-> [passed |-> Cardinality(PassedAt(j, i, d)),
                                          total  |-> Cardinality(CountedAt(j, i, d))]]
        BY <1>3, <2>5
      <4>2. tally'[k][x] = Count(tally[j][i], Here(j), ok)
        BY <2>6, <3>1
      <4>3. ASSUME NEW d \in Dims
            PROVE  /\ tally[j][i][d].passed = Cardinality(PassedAt(j, i, d))
                   /\ tally[j][i][d].total = Cardinality(CountedAt(j, i, d))
        BY <4>1
      <4>4. tally'[k][x] = [d \in Dims |->
              [passed |-> Cardinality(PassedAt(j, i, d)) +
                     IF Covers(Here(j), d) /\ DimPasses(Here(j), d, ok) THEN 1 ELSE 0,
               total  |-> Cardinality(CountedAt(j, i, d)) +
                     IF Covers(Here(j), d) THEN 1 ELSE 0]]
        BY <4>2, <4>3 DEF Count
      <4> QED BY <2>4, <3>1, <4>4
    <3>2. CASE ~(k = j /\ x = i)
      <4>1. tally'[k][x] = [d \in Dims |-> [passed |-> Cardinality(PassedAt(k, x, d)),
                                           total  |-> Cardinality(CountedAt(k, x, d))]]
        BY <2>5, <2>6, <3>2
      <4>2. \A d \in Dims : /\ Cardinality(PassedAt(k, x, d)') = Cardinality(PassedAt(k, x, d))
                            /\ Cardinality(CountedAt(k, x, d)') = Cardinality(CountedAt(k, x, d))
        BY <2>1, <3>2
      <4> QED BY <4>1, <4>2
    <3> QED BY <3>1, <3>2
  <2> QED BY <2>7, <2>8 DEF Tallied
<1> QED BY <1>9, <1>10, <1>11 DEF Measurements

LEMMA MeasurementsKept == Inv /\ Measurements /\ [Next]_vars => Measurements'
<1> SUFFICES ASSUME Inv, Measurements, [Next]_vars PROVE Measurements'
  OBVIOUS
<1>1. ASSUME UNCHANGED <<place, tally, graded>>,
             \A k \in Jobs : at'[k] = "reported" => at[k] = "reported" \/ Suite[k] = <<>>
      PROVE  Measurements'
  <2>1. Results' /\ Tallied'
    BY <1>1 DEF Measurements, Results, Done, Tallied, PassedAt, CountedAt, PassedIn, Counted
  <2>2. \A k \in Jobs : Suite[k] = <<>> => DOMAIN Suite[k] = {}
    BY SuiteLength
  <2>3. Past'
    BY <1>1, <2>2 DEF Measurements, Past
  <2> QED BY <2>1, <2>3 DEF Measurements
<1>2. ASSUME NEW j \in Jobs, Start(j) PROVE Measurements'
  BY <1>1, <1>2 DEF Start, Inv
<1>3. ASSUME NEW j \in Jobs, Guard(j) \/ Run(j) \/ Fail(j) PROVE Measurements'
  BY <1>1, <1>3 DEF Guard, Run, Fail, Inv
<1>4. ASSUME NEW j \in Jobs, Decide(j) \/ Override(j) PROVE Measurements'
  BY <1>1, <1>4 DEF Decide, Override
<1>5. ASSUME UNCHANGED vars PROVE Measurements'
  BY <1>1, <1>5 DEF vars
<1> QED BY <1>2, <1>3, <1>4, <1>5, GradeMeasures DEF Next

LEMMA MeasurementsHold == Spec => [](Inv /\ Measurements)
<1>1. Inv /\ Measurements /\ [Next]_vars => (Inv /\ Measurements)'
  BY NextInv, MeasurementsKept
<1> QED BY <1>1, InitInv, InitMeasurements, PTL DEF Spec

\* A report has exactly one result for every run of every scenario, however
\* the evaluations interleave and whichever of them failed.
THEOREM ReportsAreComplete == Spec => []FullyMeasured
<1>1. ASSUME Inv, Measurements PROVE FullyMeasured
  <2> SUFFICES ASSUME NEW j \in Jobs, at[j] = "reported", NEW i \in DOMAIN Suite[j]
               PROVE  /\ {g.run : g \in GradedIn(j, i)} = 0..(Runs[Suite[j][i]] - 1)
                      /\ Cardinality(GradedIn(j, i)) = Runs[Suite[j][i]]
    BY DEF FullyMeasured
  <2> DEFINE R == Runs[Suite[j][i]]
             G == GradedIn(j, i)
  <2>1. R \in Nat \ {0}
    BY SuiteLength
  <2>2. Done(j, i) = R
    BY <1>1 DEF Measurements, Past, Done
  <2>3. /\ \A g \in G : g.run \in Nat /\ g.run < R
        /\ \A r \in Nat : r < R => \E g \in G : g.run = r
        /\ \A g, h \in G : g.run = h.run => g = h
        /\ IsFiniteSet(G)
    <3>1. G \subseteq graded /\ IsFiniteSet(graded) /\ Results
      BY <1>1 DEF GradedIn, Measurements, Results
    <3>2. IsFiniteSet(G)
      <4> HIDE DEF G
      <4> QED BY <3>1, FS_Subset
    <3> QED BY <2>2, <3>1, <3>2 DEF GradedIn, Results
  <2> HIDE DEF G, R
  <2>4. {g.run : g \in G} = 0..(R - 1)
    BY <2>1, <2>3
  <2> DEFINE f == [g \in G |-> g.run]
  <2>5. f \in Bijection(G, 0..(R - 1))
    <3>1. f \in [G -> 0..(R - 1)]
      BY <2>1, <2>3
    <3>2. \A g, h \in G : f[g] = f[h] => g = h
      BY <2>3
    <3>3. \A r \in 0..(R - 1) : \E g \in G : f[g] = r
      BY <2>1, <2>3
    <3> HIDE DEF f
    <3> QED BY <3>1, <3>2, <3>3 DEF Bijection, Injection, Surjection, IsInjective
  <2>6. Cardinality(G) = Cardinality(0..(R - 1))
    <3> HIDE DEF f
    <3> QED BY <2>3, <2>5, FS_Bijection DEF ExistsBijection
  <2>7. Cardinality(0..(R - 1)) = R
    BY <2>1, FS_Interval
  <2> QED BY <2>4, <2>6, <2>7 DEF G, R
<1> QED BY <1>1, MeasurementsHold, PTL

\* The results of a set of scenarios are those of the one and of the others.
LEMMA SumByScenario ==
    ASSUME NEW D, IsFiniteSet(D), NEW G, IsFiniteSet(G), NEW f,
           \A i \in D : f[i] = Cardinality({g \in G : g.scenario = i})
    PROVE  Sums([s \in SUBSET D |-> Cardinality({g \in G : g.scenario \in s})], f, D)
<1> DEFINE Of(s) == {g \in G : g.scenario \in s}
           h == [s \in SUBSET D |-> Cardinality(Of(s))]
<1>1. ASSUME NEW s \in SUBSET D
      PROVE  h[s] = IF s = {} THEN 0 ELSE f[Some(s)] + h[s \ {Some(s)}]
  <2>1. CASE s = {}
    <3>1. Of(s) = {}
      BY <2>1
    <3> QED BY <2>1, <3>1, FS_EmptySet
  <2>2. CASE s # {}
    <3> DEFINE x == Some(s)
               A == {g \in G : g.scenario = x}
               B == Of(s \ {x})
    <3>1. x \in s
      BY <2>2 DEF Some
    <3>2. Of(s) = A \cup B /\ A \cap B = {}
      BY <3>1
    <3>3. IsFiniteSet(A) /\ IsFiniteSet(B)
      <4>1. A \subseteq G /\ B \subseteq G
        OBVIOUS
      <4> HIDE DEF A, B
      <4> QED BY <4>1, FS_Subset
    <3>4. Cardinality(Of(s)) = Cardinality(A) + Cardinality(B)
      <4>1. Cardinality(A \cap B) = 0
        BY <3>2, FS_EmptySet
      <4>2. Cardinality(A) \in Nat /\ Cardinality(B) \in Nat
        <5> HIDE DEF A, B
        <5> QED BY <3>3, FS_CardinalityType
      <4>3. Cardinality(A \cup B) = Cardinality(A) + Cardinality(B) - Cardinality(A \cap B)
        <5> HIDE DEF A, B
        <5> QED BY <3>3, FS_Union
      <4> HIDE DEF A, B, Of
      <4> QED BY <3>2, <4>1, <4>2, <4>3
    <3>5. h[s] = Cardinality(Of(s)) /\ h[s \ {x}] = Cardinality(B)
      BY <3>1
    <3>6. f[x] = Cardinality(A)
      BY <3>1
    <3> HIDE DEF A, B, Of, h
    <3> QED BY <2>2, <3>4, <3>5, <3>6
  <2> QED BY <2>1, <2>2
<1>2. h = [s \in SUBSET D |-> IF s = {} THEN 0 ELSE f[Some(s)] + h[s \ {Some(s)}]]
  <2>1. h = [s \in SUBSET D |-> h[s]]
    OBVIOUS
  <2> HIDE DEF h
  <2> QED BY <1>1, <2>1
<1> QED BY <1>2 DEF Sums

\* What is pooled is what was graded.
LEMMA PooledIsGraded ==
    ASSUME Measurements, NEW j \in Jobs, NEW d \in Dims
    PROVE  /\ Pooled(j, d) = [passed |-> Cardinality(PassedIn(j, d)),
                             total  |-> Cardinality(Counted(j, d))]
           /\ IsFiniteSet(Counted(j, d)) /\ IsFiniteSet(PassedIn(j, d))
           /\ PassedIn(j, d) \subseteq Counted(j, d)
<1> DEFINE D == DOMAIN Suite[j]
           P == PassedIn(j, d)
           C == Counted(j, d)
           hp == [s \in SUBSET D |-> Cardinality({g \in P : g.scenario \in s})]
           hc == [s \in SUBSET D |-> Cardinality({g \in C : g.scenario \in s})]
<1>1. IsFiniteSet(D)
  <2>1. D = 1..Len(Suite[j]) /\ Len(Suite[j]) \in Nat
    BY SuiteLength
  <2> HIDE DEF D
  <2> QED BY <2>1, FS_Interval
<1>2. P \subseteq C /\ C \subseteq graded /\ IsFiniteSet(graded)
  BY DEF PassedIn, Counted, Measurements, Results
<1>3. IsFiniteSet(P) /\ IsFiniteSet(C)
  <2> HIDE DEF P, C
  <2> QED BY <1>2, FS_Subset
<1>4. \A g \in C : g.scenario \in D
  BY DEF Measurements, Results, Counted
<1>5. \A i \in D : /\ tally[j][i][d].passed = Cardinality({g \in P : g.scenario = i})
                   /\ tally[j][i][d].total = Cardinality({g \in C : g.scenario = i})
  BY DEF Measurements, Tallied, PassedAt, CountedAt
<1>6. P = {g \in P : g.scenario \in D} /\ C = {g \in C : g.scenario \in D}
  <2> HIDE DEF P, C, D
  <2> QED BY <1>2, <1>4
<1>7. Pooled(j, d).passed = Cardinality(P)
  <2> DEFINE f == [i \in D |-> tally[j][i][d].passed]
  <2>1. Sums(hp, f, D)
    <3>1. \A i \in D : f[i] = Cardinality({g \in P : g.scenario = i})
      BY <1>5
    <3> HIDE DEF f, P, D
    <3> QED BY <1>1, <1>3, <3>1, SumByScenario
  <2>2. hp[D] = Cardinality(P)
    <3>1. hp[D] = Cardinality({g \in P : g.scenario \in D})
      OBVIOUS
    <3> HIDE DEF hp, P, D
    <3> QED BY <1>6, <3>1
  <2>3. Pooled(j, d).passed = hp[D]
    <3>1. D = DOMAIN Suite[j]
      OBVIOUS
    <3> HIDE DEF hp, P, D
    <3> QED BY <1>1, <2>1, <3>1, PooledPassed
  <2> QED BY <2>2, <2>3
<1>8. Pooled(j, d).total = Cardinality(C)
  <2> DEFINE f == [i \in D |-> tally[j][i][d].total]
  <2>1. Sums(hc, f, D)
    <3>1. \A i \in D : f[i] = Cardinality({g \in C : g.scenario = i})
      BY <1>5
    <3> HIDE DEF f, C, D
    <3> QED BY <1>1, <1>3, <3>1, SumByScenario
  <2>2. hc[D] = Cardinality(C)
    <3>1. hc[D] = Cardinality({g \in C : g.scenario \in D})
      OBVIOUS
    <3> HIDE DEF hc, C, D
    <3> QED BY <1>6, <3>1
  <2>3. Pooled(j, d).total = hc[D]
    <3>1. D = DOMAIN Suite[j]
      OBVIOUS
    <3> HIDE DEF hc, C, D
    <3> QED BY <1>1, <2>1, <3>1, PooledTotal
  <2> QED BY <2>2, <2>3
<1>9. Pooled(j, d) = [passed |-> Cardinality(P), total |-> Cardinality(C)]
  BY <1>7, <1>8 DEF Pooled
<1> QED BY <1>2, <1>3, <1>9

\* The rates that a gate compares are shares of single results, in every
\* state of every evaluation.
THEOREM RatesAreShares == Spec => []ProfileTrue
<1>1. ASSUME Measurements PROVE ProfileTrue
  BY <1>1, PooledIsGraded DEF ProfileTrue
<1> QED BY <1>1, MeasurementsHold, PTL

-----------------------------------------------------------------------------
(* The gate.  A decision is taken on two reports, and reports do not       *)
(* change, so what was true of the results when it was taken stays true.   *)

NamesRegression(j) ==
    /\ \A d \in Hard : Fell(j, d) => d \in decision[j].blocks
    /\ /\ MaxDrop["safety"][1] = 0
       /\ AllPassed(Baseline, "safety") /\ ~AllPassed(j, "safety")
       => "safety" \in decision[j].blocks
    /\ decision[j].passed /\ decision[j].blocks # {} => decision[j].overridden

WarnsOfFew(j) ==
    \/ "noise" \in decision[j].warnings
    \/ \A k \in {j, Baseline}, d \in Dims :
          Counted(k, d) # {} =>
            LET n == (Cardinality(Counted(k, d)) + 6) * MaxDrop["correctness"][1]
            IN  n * n >= 2 * MaxDrop["correctness"][2] * MaxDrop["correctness"][2]

DecisionOK(j) ==
    /\ decision[j] = [blocks |-> decision[j].blocks, warnings |-> decision[j].warnings,
                      passed |-> decision[j].passed, overridden |-> decision[j].overridden]
    /\ decision[j] # Undecided =>
          /\ at[j] = "reported" /\ at[Baseline] = "reported"
          /\ NamesRegression(j) /\ WarnsOfFew(j)

Decisions ==
    /\ decision = [j \in Jobs |-> decision[j]]
    /\ \A j \in Jobs : DecisionOK(j)

\* The Agresti-Coull error of so few runs is wider than the threshold a/b,
\* whatever they say.
LEMMA FewAreNoisy ==
    ASSUME NEW t \in Nat, t > 0, NEW p \in Nat, p <= t, NEW a \in Nat, NEW b \in Nat \ {0},
           ~((p + 2) * ((t + 4) - (p + 2)) * b * b > a * a * (t + 4) * (t + 4) * (t + 4))
    PROVE  ((t + 6) * a) * ((t + 6) * a) >= 2 * b * b
<1> DEFINE n == t + 4
           q == p + 2
           B == b * b
           A == a * a
           m == n - 2
<1>1. n \in Int /\ q \in Int /\ m \in Int /\ n >= 5 /\ q >= 2 /\ n - q >= 2 /\ m >= 3
  OBVIOUS
<1>2. A \in Int /\ A >= 0 /\ B \in Int /\ B >= 1
  OBVIOUS
<1>3. (q * (n - q)) * B <= A * (n * (n * n))
  <2>1. (p + 2) * ((t + 4) - (p + 2)) * b * b = (q * (n - q)) * B
    OBVIOUS
  <2>2. a * a * (t + 4) * (t + 4) * (t + 4) = A * (n * (n * n))
    OBVIOUS
  <2>3. (q * (n - q)) * B \in Int /\ A * (n * (n * n)) \in Int
    OBVIOUS
  <2> HIDE DEF n, q, A, B
  <2> QED BY <2>1, <2>2, <2>3
<1>4. ((t + 6) * a) * ((t + 6) * a) = A * ((n + 2) * (n + 2))
  OBVIOUS
<1>5. 2 * b * b = 2 * B
  OBVIOUS
<1> HIDE DEF q, A, B
<1>6. q * (n - q) >= 2 * m
  <2>1. (q - 2) * ((n - q) - 2) >= 0
    BY <1>1
  <2>2. (q - 2) * ((n - q) - 2) = q * (n - q) - 2 * m
    BY <1>1
  <2>3. q * (n - q) \in Int /\ 2 * m \in Int
    BY <1>1
  <2> QED BY <2>1, <2>2, <2>3
<1>7. n * (n * n) <= ((n + 2) * (n + 2)) * m
  <2>1. ((n + 2) * (n + 2)) * m = n * (n * n) + (2 * (n * n) - 4 * n - 8)
    OBVIOUS
  <2>2. 2 * (n * n) - 4 * n - 8 >= 0
    <3>1. n * n >= 5 * n
      BY <1>1
    <3>2. n * n \in Int
      BY <1>1
    <3> HIDE DEF n
    <3> QED BY <1>1, <3>1, <3>2
  <2>3. n * (n * n) \in Int /\ 2 * (n * n) - 4 * n - 8 \in Int
    BY <1>1
  <2> QED BY <2>1, <2>2, <2>3
<1> DEFINE N == (n + 2) * (n + 2)
<1>8. N \in Int
  BY <1>1
<1>9. n * (n * n) <= N * m
  BY <1>7
<1> HIDE DEF n, m, N
<1>10. (2 * m) * B <= A * (N * m)
  <2>1. (2 * m) * B <= (q * (n - q)) * B
    <3> DEFINE x == q * (n - q)
    <3>1. x \in Int /\ x >= 2 * m
      BY <1>1, <1>6
    <3> HIDE DEF x
    <3>2. (2 * m) * B <= x * B
      BY <1>1, <1>2, <3>1
    <3> QED BY <3>2 DEF x
  <2>2. A * (n * (n * n)) <= A * (N * m)
    <3> DEFINE x == n * (n * n)
               y == N * m
    <3>1. x \in Int /\ y \in Int /\ x <= y
      BY <1>1, <1>8, <1>9
    <3> HIDE DEF x, y
    <3>2. A * x <= A * y
      BY <1>2, <3>1
    <3> QED BY <3>2 DEF x, y
  <2>3. /\ (2 * m) * B \in Int /\ (q * (n - q)) * B \in Int
        /\ A * (n * (n * n)) \in Int /\ A * (N * m) \in Int
    BY <1>1, <1>2, <1>8
  <2> QED BY <1>3, <2>1, <2>2, <2>3
<1>11. 2 * B <= A * N
  <2> SUFFICES ASSUME ~(2 * B <= A * N) PROVE FALSE
    OBVIOUS
  <2> DEFINE x == 2 * B
             y == A * N
  <2>1. x \in Int /\ y \in Int /\ x - y >= 1
    BY <1>2, <1>8
  <2>2. (2 * m) * B = m * x /\ A * (N * m) = m * y
    BY <1>1, <1>2, <1>8
  <2>3. m * x <= m * y
    BY <1>10, <2>2
  <2> HIDE DEF x, y
  <2>4. m * (x - y) >= 1
    BY <1>1, <2>1
  <2>5. m * (x - y) = m * x - m * y /\ m * x \in Int /\ m * y \in Int
    BY <1>1, <2>1
  <2> QED BY <2>3, <2>4, <2>5
<1> QED BY <1>4, <1>5, <1>11 DEF N

\* What is in a gate's arithmetic.
LEMMA PoolBounds ==
    ASSUME Measurements, NEW j \in Jobs, NEW d \in Dims
    PROVE  /\ Pooled(j, d).passed \in Nat /\ Pooled(j, d).total \in Nat
           /\ Pooled(j, d).passed = Cardinality(PassedIn(j, d))
           /\ Pooled(j, d).total = Cardinality(Counted(j, d))
           /\ Pooled(j, d).passed <= Pooled(j, d).total
           /\ Measured(j, d) <=> Counted(j, d) # {}
           /\ Pooled(j, d).passed = Pooled(j, d).total <=> PassedIn(j, d) = Counted(j, d)
<1> DEFINE P == PassedIn(j, d)
           C == Counted(j, d)
<1>1. /\ Pooled(j, d).passed = Cardinality(P) /\ Pooled(j, d).total = Cardinality(C)
      /\ IsFiniteSet(P) /\ IsFiniteSet(C) /\ P \subseteq C
  BY PooledIsGraded
<1> HIDE DEF P, C
<1>2. Cardinality(P) \in Nat /\ Cardinality(C) \in Nat /\ Cardinality(P) <= Cardinality(C)
  BY <1>1, FS_Subset, FS_CardinalityType
<1>3. Cardinality(P) = Cardinality(C) <=> P = C
  BY <1>1, FS_Subset
<1>4. Cardinality(C) > 0 <=> C # {}
  BY <1>1, <1>2, FS_EmptySet
<1> QED BY <1>1, <1>2, <1>3, <1>4 DEF Measured, P, C

\* A decision, as it is taken.
LEMMA DecideOK ==
    ASSUME Inv, Measurements, Decisions, NEW j \in Jobs, Decide(j)
    PROVE  Decisions'
<1>1. /\ at[j] = "reported" /\ at[Baseline] = "reported"
      /\ UNCHANGED <<store, at, place, tally, graded>>
      /\ Baseline \in Jobs
  BY EvalsAssumption DEF Decide
<1> DEFINE definite == {d \in Compared(j) :
                          Regresses(Pooled(Baseline, d), Pooled(j, d), MaxDrop[d])}
           border   == {d \in Compared(j) :
                          Borderline(Pooled(Baseline, d), Pooled(j, d), MaxDrop[d])}
<1>2. PICK some \in SUBSET border :
          decision' = [decision EXCEPT ![j] =
             [blocks     |-> Vanished(j) \cup ((definite \cup some) \cap Hard),
              warnings   |-> New(j) \cup ((definite \cup some) \ Hard)
                               \cup {n \in {"noise"} : NoiseIn(j) \/ NoiseIn(Baseline)},
              passed     |-> Vanished(j) \cup ((definite \cup some) \cap Hard) = {},
              overridden |-> FALSE]]
  BY DEF Decide
<1>3. /\ decision'[j].blocks = Vanished(j) \cup ((definite \cup some) \cap Hard)
      /\ "noise" \in decision'[j].warnings \/ ~(NoiseIn(j) \/ NoiseIn(Baseline))
      /\ decision'[j].passed <=> decision'[j].blocks = {}
      /\ decision'[j] = [blocks |-> decision'[j].blocks, warnings |-> decision'[j].warnings,
                         passed |-> decision'[j].passed, overridden |-> decision'[j].overridden]
      /\ decision' = [k \in Jobs |-> decision'[k]]
      /\ \A k \in Jobs : k # j => decision'[k] = decision[k]
  <2> HIDE DEF definite, border
  <2> QED BY <1>2 DEF Decisions
<1>4. NamesRegression(j)'
  <2>0. ASSUME NEW d \in Hard, Fell(j, d) PROVE d \in decision'[j].blocks
    <3> DEFINE b == Pooled(Baseline, d)
               c == Pooled(j, d)
    <3>1. d \in Dims /\ MaxDrop[d][1] \in Nat /\ MaxDrop[d][2] \in Nat
      BY EvalsAssumption DEF Dims, Hard
    <3>2. /\ b.total = Cardinality(Counted(Baseline, d))
          /\ b.passed = Cardinality(PassedIn(Baseline, d))
          /\ c.total = Cardinality(Counted(j, d)) /\ c.passed = Cardinality(PassedIn(j, d))
          /\ b.total \in Nat /\ c.total \in Nat /\ b.passed \in Nat /\ c.passed \in Nat
      BY <1>1, <3>1, PoolBounds
    <3>3. /\ b.total > 0
          /\ \/ c.total = 0
             \/ (b.passed * c.total - c.passed * b.total) * MaxDrop[d][2]
                  > MaxDrop[d][1] * b.total * c.total
      <4> HIDE DEF b, c
      <4> QED BY <2>0, <3>2 DEF Fell
    <3>4. CASE c.total = 0
      <4>1. d \in Vanished(j)
        BY <3>1, <3>2, <3>3, <3>4 DEF Vanished, Measured
      <4> QED BY <1>3, <4>1
    <3>5. CASE c.total # 0
      <4>1. d \in Compared(j)
        BY <3>1, <3>2, <3>3, <3>5 DEF Compared, Measured
      <4>2. Regresses(b, c, MaxDrop[d])
        BY <3>3, <3>5 DEF Regresses, Drop
      <4> QED BY <1>3, <2>0, <4>1, <4>2
    <3> QED BY <3>4, <3>5
  <2>1. ASSUME MaxDrop["safety"][1] = 0,
               AllPassed(Baseline, "safety"), ~AllPassed(j, "safety")
        PROVE  "safety" \in decision'[j].blocks
    <3>1. "safety" \in Dims /\ "safety" \in Hard /\ MaxDrop["safety"][2] \in Nat \ {0}
      BY EvalsAssumption DEF Dims, Hard
    <3>2. Measured(Baseline, "safety")
      BY <1>1, <2>1, <3>1, PoolBounds DEF AllPassed
    <3>3. CASE Counted(j, "safety") = {}
      <4>1. "safety" \in Vanished(j)
        BY <3>1, <3>2, <3>3, PoolBounds DEF Vanished
      <4> QED BY <1>3, <4>1
    <3>4. CASE Counted(j, "safety") # {}
      <4>1. Measured(j, "safety") /\ PassedIn(j, "safety") # Counted(j, "safety")
        BY <2>1, <3>1, <3>4, PoolBounds DEF AllPassed
      <4> DEFINE b == Pooled(Baseline, "safety")
                 c == Pooled(j, "safety")
      <4>2. /\ b.total \in Nat /\ b.total > 0 /\ b.passed = b.total
            /\ c.total \in Nat /\ c.passed \in Nat /\ c.passed < c.total
        <5>1. b.passed = b.total /\ b.total \in Nat
          BY <1>1, <2>1, <3>1, PoolBounds DEF AllPassed
        <5>2. b.total > 0
          BY <3>2 DEF Measured
        <5>3. /\ c.total \in Nat /\ c.passed \in Nat /\ c.passed <= c.total
              /\ c.passed # c.total
          BY <3>1, <4>1, PoolBounds
        <5> HIDE DEF b, c
        <5> QED BY <5>1, <5>2, <5>3
      <4>3. Drop(b, c) >= 1 /\ Drop(b, c) \in Int
        <5> DEFINE x == b.total
                   y == c.total
                   z == c.passed
        <5>1. Drop(b, c) = x * y - z * x
          BY <4>2 DEF Drop
        <5>2. x \in Nat /\ x > 0 /\ y \in Nat /\ z \in Nat /\ y - z >= 1
          BY <4>2
        <5> HIDE DEF x, y, z
        <5>3. x * y - z * x = x * (y - z)
          BY <5>2
        <5>4. x * (y - z) >= 1
          BY <5>2
        <5>5. x * (y - z) \in Int
          BY <5>2
        <5> QED BY <5>1, <5>3, <5>4, <5>5
      <4>4. Regresses(b, c, MaxDrop["safety"])
        <5>1. MaxDrop["safety"][1] * b.total * c.total = 0
          BY <2>1, <4>2
        <5>2. Drop(b, c) * MaxDrop["safety"][2] >= 1
          <6> DEFINE x == Drop(b, c)
                     y == MaxDrop["safety"][2]
          <6>1. x \in Int /\ x >= 1 /\ y \in Nat /\ y >= 1
            BY <3>1, <4>3
          <6> HIDE DEF x, y
          <6>2. x * y >= 1
            BY <6>1
          <6> QED BY <6>2 DEF x, y
        <5>3. Drop(b, c) * MaxDrop["safety"][2] \in Int
          BY <3>1, <4>3
        <5> HIDE DEF b, c
        <5>4. Drop(b, c) * MaxDrop["safety"][2] > MaxDrop["safety"][1] * b.total * c.total
          BY <5>1, <5>2, <5>3
        <5> QED BY <5>4 DEF Regresses
      <4>5. "safety" \in Compared(j)
        BY <3>1, <3>2, <4>1 DEF Compared
      <4> QED BY <1>3, <3>1, <4>4, <4>5
    <3> QED BY <3>3, <3>4
  <2>2. /\ \A d : Fell(j, d)' <=> Fell(j, d)
        /\ \A k \in {j, Baseline} : AllPassed(k, "safety")' <=> AllPassed(k, "safety")
    BY <1>1 DEF Counted, PassedIn, Fell, AllPassed
  <2> QED BY <1>3, <2>0, <2>1, <2>2 DEF NamesRegression
<1>5. WarnsOfFew(j)'
  <2>1. ASSUME ~(NoiseIn(j) \/ NoiseIn(Baseline)), NEW k \in {j, Baseline}, NEW d \in Dims,
               Counted(k, d) # {}
        PROVE  LET n == (Cardinality(Counted(k, d)) + 6) * MaxDrop["correctness"][1]
               IN  n * n >= 2 * MaxDrop["correctness"][2] * MaxDrop["correctness"][2]
    <3> DEFINE p == Pooled(k, d)
               a == MaxDrop["correctness"][1]
               b == MaxDrop["correctness"][2]
    <3>1. a \in Nat /\ b \in Nat \ {0}
      BY EvalsAssumption DEF Dims
    <3>2. k \in Jobs
      BY <1>1, <2>1
    <3>3. /\ p.passed \in Nat /\ p.total \in Nat /\ p.passed <= p.total /\ p.total > 0
          /\ p.total = Cardinality(Counted(k, d))
      BY <2>1, <3>2, PoolBounds DEF Measured
    <3>4. ~Noisy(p, MaxDrop["correctness"])
      BY <2>1 DEF NoiseIn
    <3> DEFINE t == p.total
               q == p.passed
    <3>5. ~((q + 2) * ((t + 4) - (q + 2)) * b * b > a * a * (t + 4) * (t + 4) * (t + 4))
      BY <3>3, <3>4 DEF Noisy
    <3> HIDE DEF p, t, q, a, b
    <3>6. ((t + 6) * a) * ((t + 6) * a) >= 2 * b * b
      <4>1. t \in Nat /\ t > 0 /\ q \in Nat /\ q <= t
        BY <3>3 DEF t, q
      <4> QED BY <3>1, <3>5, <4>1, FewAreNoisy
    <3>7. t = Cardinality(Counted(k, d))
      BY <3>3 DEF t
    <3> QED BY <3>6, <3>7 DEF a, b
  <2>2. \A k, d : Counted(k, d)' = Counted(k, d)
    BY <1>1 DEF Counted
  <2>3. \/ "noise" \in decision'[j].warnings
        \/ ~(NoiseIn(j) \/ NoiseIn(Baseline))
    BY <1>3
  <2> QED BY <2>1, <2>2, <2>3 DEF WarnsOfFew
<1>6. DecisionOK(j)'
  BY <1>1, <1>3, <1>4, <1>5 DEF DecisionOK
<1>7. ASSUME NEW k \in Jobs, k # j PROVE DecisionOK(k)'
  <2>1. decision'[k] = decision[k] /\ at' = at /\ DecisionOK(k)
    BY <1>1, <1>3, <1>7 DEF Decisions
  <2>2. \A l, d : Counted(l, d)' = Counted(l, d) /\ PassedIn(l, d)' = PassedIn(l, d)
    BY <1>1 DEF Counted, PassedIn
  <2>3. NamesRegression(k) => NamesRegression(k)'
    BY <2>1, <2>2 DEF NamesRegression, Fell, AllPassed
  <2>4. WarnsOfFew(k) => WarnsOfFew(k)'
    BY <2>1, <2>2 DEF WarnsOfFew
  <2> QED BY <2>1, <2>3, <2>4 DEF DecisionOK
<1> QED BY <1>3, <1>6, <1>7 DEF Decisions

LEMMA InitDecisions == Init => Decisions
BY DEF Init, Decisions, DecisionOK, Undecided

LEMMA DecisionsKept == Inv /\ Measurements /\ Decisions /\ [Next]_vars => Decisions'
<1> SUFFICES ASSUME Inv, Measurements, Decisions, [Next]_vars PROVE Decisions'
  OBVIOUS
<1>1. ASSUME UNCHANGED decision,
             \A k \in Jobs : at[k] = "reported" =>
                at'[k] = "reported" /\ \A d : Counted(k, d)' = Counted(k, d)
                                          /\ PassedIn(k, d)' = PassedIn(k, d)
      PROVE  Decisions'
  <2> SUFFICES ASSUME NEW k \in Jobs PROVE DecisionOK(k)'
    BY <1>1 DEF Decisions
  <2>1. DecisionOK(k) /\ Baseline \in Jobs
    BY EvalsAssumption DEF Decisions
  <2>2. CASE decision[k] = Undecided
    BY <1>1, <2>1, <2>2 DEF DecisionOK
  <2>3. CASE decision[k] # Undecided
    <3>1. at[k] = "reported" /\ at[Baseline] = "reported" /\ NamesRegression(k) /\ WarnsOfFew(k)
      BY <2>1, <2>3 DEF DecisionOK
    <3>2. NamesRegression(k)'
      BY <1>1, <2>1, <3>1 DEF NamesRegression, Fell, AllPassed
    <3>3. WarnsOfFew(k)'
      BY <1>1, <2>1, <3>1 DEF WarnsOfFew
    <3>4. decision'[k] = decision[k]
      BY <1>1
    <3> QED BY <1>1, <2>1, <3>1, <3>2, <3>3, <3>4 DEF DecisionOK
  <2> QED BY <2>2, <2>3
<1>2. ASSUME NEW j \in Jobs, at[j] # "reported",
             at' = [at EXCEPT ![j] = at'[j]], UNCHANGED <<graded, decision>>
      PROVE  Decisions'
  BY <1>1, <1>2 DEF Counted, PassedIn, Inv
<1>3. ASSUME NEW j \in Jobs, Start(j) \/ Guard(j) \/ Run(j) \/ Fail(j) PROVE Decisions'
  <2>1. at[j] # "reported" /\ UNCHANGED <<graded, decision>>
    BY <1>3 DEF Start, Guard, Run, Fail, Active
  <2>2. at' = [at EXCEPT ![j] = at'[j]]
    BY <1>3 DEF Start, Guard, Run, Fail, Inv
  <2> QED BY <1>2, <2>1, <2>2
<1>4. ASSUME NEW j \in Jobs, Grade(j) PROVE Decisions'
  <2>1. at[j] = "grading" /\ Advance(j) /\ UNCHANGED decision
    BY <1>4 DEF Grade
  <2>2. \A k \in Jobs : k # j => at'[k] = at[k]
    BY <2>1, GradePasses
  <2>3. ASSUME NEW k \in Jobs, at[k] = "reported"
        PROVE  /\ at'[k] = "reported"
               /\ \A d : Counted(k, d)' = Counted(k, d) /\ PassedIn(k, d)' = PassedIn(k, d)
    <3>1. k # j
      BY <2>1, <2>3
    <3>2. PICK g : g.job = j /\ graded' = graded \cup {g}
      BY <1>4 DEF Grade
    <3>3. \A d : Counted(k, d)' = Counted(k, d)
      BY <3>1, <3>2 DEF Counted
    <3>4. \A d : PassedIn(k, d)' = PassedIn(k, d)
      BY <3>3 DEF PassedIn
    <3> QED BY <2>2, <2>3, <3>1, <3>3, <3>4
  <2> QED BY <1>1, <2>1, <2>3
<1>5. ASSUME NEW j \in Jobs, Decide(j) PROVE Decisions'
  BY <1>5, DecideOK
<1>6. ASSUME NEW j \in Jobs, Override(j) PROVE Decisions'
  <2>1. /\ decision[j] # Undecided /\ UNCHANGED <<at, graded>>
        /\ decision' = [decision EXCEPT ![j] = [@ EXCEPT !.passed = TRUE, !.overridden = TRUE]]
    BY <1>6 DEF Override
  <2>2. DecisionOK(j)
    BY DEF Decisions
  <2>3. /\ decision'[j] = [blocks |-> decision[j].blocks, warnings |-> decision[j].warnings,
                           passed |-> TRUE, overridden |-> TRUE]
        /\ decision' = [k \in Jobs |-> decision'[k]]
        /\ \A k \in Jobs : k # j => decision'[k] = decision[k]
    BY <2>1, <2>2 DEF Decisions, DecisionOK
  <2>4. /\ \A k, d : Counted(k, d)' = Counted(k, d)
        /\ \A k, d : PassedIn(k, d)' = PassedIn(k, d)
    BY <2>1 DEF Counted, PassedIn
  <2>5. NamesRegression(j)' /\ WarnsOfFew(j)'
    BY <2>1, <2>2, <2>3, <2>4 DEF DecisionOK, NamesRegression, WarnsOfFew, Fell, AllPassed
  <2>6. DecisionOK(j)'
    BY <2>1, <2>2, <2>3, <2>5 DEF DecisionOK
  <2>7. ASSUME NEW k \in Jobs, k # j PROVE DecisionOK(k)'
    BY <2>1, <2>3, <2>4, <2>7 DEF Decisions, DecisionOK, NamesRegression, WarnsOfFew, Fell, AllPassed
  <2> QED BY <2>3, <2>6, <2>7 DEF Decisions
<1>7. ASSUME UNCHANGED vars PROVE Decisions'
  BY <1>1, <1>7 DEF vars, Counted, PassedIn
<1> QED BY <1>3, <1>4, <1>5, <1>6, <1>7 DEF Next

LEMMA DecisionsHold == Spec => []Decisions
<1>1. Inv /\ Measurements /\ Decisions /\ [Next]_vars => (Inv /\ Measurements /\ Decisions)'
  BY NextInv, MeasurementsKept, DecisionsKept
<1> QED BY <1>1, InitInv, InitMeasurements, InitDecisions, PTL DEF Spec

\* Whatever the suites, rates and thresholds are, a gate names each of safety
\* and correctness whose share of passed results fell by more than its threshold
\* or is measured no more, under a safety threshold of 0 after a safe baseline
\* for a single unsafe result; and it keeps naming it when it is overridden.
THEOREM UnsafeIsNamed == Spec => []RegressionsNamed
<1>1. Decisions => RegressionsNamed
  BY DEF Decisions, DecisionOK, NamesRegression, RegressionsNamed
<1> QED BY <1>1, DecisionsHold, PTL

\* A decision on too few runs says so, for every number of runs and every
\* threshold of correctness.
THEOREM FewIsSaid == Spec => []FewRunsWarned
<1>1. Decisions => FewRunsWarned
  BY DEF Decisions, DecisionOK, WarnsOfFew, FewRunsWarned
<1> QED BY <1>1, DecisionsHold, PTL
=============================================================================
