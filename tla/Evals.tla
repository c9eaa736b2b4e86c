-------------------------------- MODULE Evals --------------------------------
(***************************************************************************)
(* The eval harness and the deploy gate.  An evaluation runs its agent on  *)
(* every scenario several times, in runs whose ids are made of its prefix, *)
(* the scenario and the number of the run, and grades each result; a gate  *)
(* compares what it measured with what a baseline measured.                *)
(*                                                                         *)
(* A run with an id that the store already holds is not a measurement: the *)
(* engine replays what some other build did.  An evaluation looks the id   *)
(* up before it runs, and another one with its prefix may come between.    *)
(* `graded` is the history the tallies and the gate are judged by: every   *)
(* result with those who had a hand in it.                                 *)
(***************************************************************************)
EXTENDS Integers, Sequences, FiniteSets, FiniteSetsExt

CONSTANTS
    Jobs,        \* the calls of evaluate, each with an agent of its own
    Baseline,    \* the one the others are compared with
    Prefix,      \* the run_id_prefix of each
    Suite,       \* the scenarios of each, a sequence
    Runs,        \* how often a scenario is run
    Checks,      \* the checks of a scenario
    Dimension,   \* the dimension of a check
    Faults,      \* the checks that an agent of a build may fail
    MaxDrop      \* the thresholds of the gate, as fractions <<n, d>>

Dims == {"correctness", "safety", "efficiency"}
Hard == {"correctness", "safety"}

Scenarios == UNION {{Suite[j][i] : i \in DOMAIN Suite[j]} : j \in Jobs}

ASSUME EvalsAssumption ==
    /\ Baseline \in Jobs
    /\ DOMAIN Prefix = Jobs /\ DOMAIN Suite = Jobs /\ DOMAIN Faults = Jobs
    /\ \A j \in Jobs : Suite[j] \in Seq(Scenarios)
    /\ \A s \in Scenarios : Runs[s] \in Nat \ {0}
    /\ \A s \in Scenarios : \A c \in Checks[s] : Dimension[c] \in Dims
    /\ \A d \in Dims : MaxDrop[d][1] \in Nat /\ MaxDrop[d][2] \in Nat \ {0}

VARIABLES
    store,     \* of each run, the evaluations that had a hand in it
    at,        \* where an evaluation is: idle, loading, running, grading,
               \* reported, raised
    place,     \* the scenario and the run it is at
    tally,     \* per evaluation, scenario and dimension: passed and total
    graded,    \* history: the graded results
    rivals,    \* history: who else found the id of its run free
    decision   \* what the gate said of a candidate

vars == <<store, at, place, tally, graded, rivals, decision>>

Undecided == [blocks |-> {}, warnings |-> {}, passed |-> FALSE, overridden |-> FALSE]

Init ==
    /\ store = [id \in {} |-> {}]
    /\ at = [j \in Jobs |-> "idle"]
    /\ place = [j \in Jobs |-> [scenario |-> 1, run |-> 0]]
    /\ tally = [j \in Jobs |-> [i \in DOMAIN Suite[j] |->
                  [d \in Dims |-> [passed |-> 0, total |-> 0]]]]
    /\ graded = {}
    /\ rivals = [j \in Jobs |-> {}]
    /\ decision = [j \in Jobs |-> Undecided]

-----------------------------------------------------------------------------
(* evaluate.                                                               *)

Here(j) == Suite[j][place[j].scenario]

RunId(j) == <<Prefix[j], Here(j), place[j].run>>

Active(j) == at[j] \in {"loading", "running", "grading"}

Start(j) ==
    /\ at[j] = "idle"
    /\ at' = [at EXCEPT ![j] = IF Suite[j] = <<>> THEN "reported" ELSE "loading"]
    /\ UNCHANGED <<store, place, tally, graded, rivals, decision>>

\* The evaluations past the check of the run that j is at.
Cleared(j) == at[j] \in {"running", "grading"}

Contenders(j) == {k \in Jobs \ {j} : Cleared(k) /\ RunId(k) = RunId(j)}

Meet(j) ==
    rivals' = [k \in Jobs |->
                 IF k = j THEN Contenders(j)
                 ELSE IF k \in Contenders(j) THEN rivals[k] \cup {j} ELSE rivals[k]]

\* Mutant: what the store holds is not looked at.
GuardNothing(j) ==
    /\ at[j] = "loading"
    /\ at' = [at EXCEPT ![j] = "running"]
    /\ Meet(j)
    /\ UNCHANGED <<store, place, tally, graded, decision>>

\* store.load(run_id): a run that exists is not run again, it is an error.
Guard(j) ==
    /\ at[j] = "loading"
    /\ IF RunId(j) \in DOMAIN store
       THEN at' = [at EXCEPT ![j] = "raised"] /\ UNCHANGED rivals
       ELSE at' = [at EXCEPT ![j] = "running"] /\ Meet(j)
    /\ UNCHANGED <<store, place, tally, graded, decision>>

Put(id, makers) == [x \in DOMAIN store \cup {id} |-> IF x = id THEN makers ELSE store[x]]

\* agent.run: the engine drives a new run.  One that came between, under the
\* same id, it replays if it is over, and carries on beside its driver or after
\* it if it is not.
Run(j) ==
    /\ at[j] = "running"
    /\ IF RunId(j) \notin DOMAIN store THEN store' = Put(RunId(j), {j})
       ELSE UNCHANGED store \/ store' = Put(RunId(j), store[RunId(j)] \cup {j})
    /\ at' = [at EXCEPT ![j] = "grading"]
    /\ UNCHANGED <<place, tally, graded, rivals, decision>>

\* A dimension passes for a run only if all its checks pass, and it counts for
\* a run that has a check of it.
DimPasses(s, d, ok) == \A c \in Checks[s] : Dimension[c] = d => ok[c]

Covers(s, d) == \E c \in Checks[s] : Dimension[c] = d

\* Mutant: a dimension passes if one of its checks does.
CountAny(t, s, ok) ==
    [d \in Dims |->
        [passed |-> t[d].passed +
                      IF \E c \in Checks[s] : Dimension[c] = d /\ ok[c] THEN 1 ELSE 0,
         total  |-> t[d].total + IF Covers(s, d) THEN 1 ELSE 0]]

Count(t, s, ok) ==
    [d \in Dims |->
        [passed |-> t[d].passed + IF Covers(s, d) /\ DimPasses(s, d, ok) THEN 1 ELSE 0,
         total  |-> t[d].total + IF Covers(s, d) THEN 1 ELSE 0]]

\* Mutant: the last run of a scenario is left out.
AdvanceEarly(j) ==
    LET i == place[j].scenario
        r == place[j].run
    IN  IF r + 2 < Runs[Suite[j][i]]
        THEN /\ place' = [place EXCEPT ![j].run = r + 1]
             /\ at' = [at EXCEPT ![j] = "loading"]
        ELSE /\ place' = [place EXCEPT ![j] = [scenario |-> i + 1, run |-> 0]]
             /\ at' = [at EXCEPT ![j] = IF i < Len(Suite[j]) THEN "loading" ELSE "reported"]

Advance(j) ==
    LET i == place[j].scenario
        r == place[j].run
    IN  IF r + 1 < Runs[Suite[j][i]]
        THEN /\ place' = [place EXCEPT ![j].run = r + 1]
             /\ at' = [at EXCEPT ![j] = "loading"]
        ELSE /\ place' = [place EXCEPT ![j] = [scenario |-> i + 1, run |-> 0]]
             /\ at' = [at EXCEPT ![j] = IF i < Len(Suite[j]) THEN "loading" ELSE "reported"]

\* What the checks may say of a result.
Outcomes(j) ==
    {ok \in [Checks[Here(j)] -> BOOLEAN] : \A c \in DOMAIN ok : ok[c] \/ c \in Faults[j]}

\* agent.run has returned: the checks of its result, and on to the next run.
Grade(j) ==
    /\ at[j] = "grading"
    /\ \E ok \in Outcomes(j) :
          /\ tally' = [tally EXCEPT ![j][place[j].scenario] = Count(@, Here(j), ok)]
          /\ graded' = graded \cup
                {[job |-> j, scenario |-> place[j].scenario, run |-> place[j].run,
                  makers |-> store[RunId(j)], rivals |-> rivals[j], ok |-> ok]}
    /\ Advance(j)
    /\ UNCHANGED <<store, rivals, decision>>

\* The run, which may be refused for its lease, a check or the process fails.
\* What was run stays in the store, half done or whole, and there is no report.
Fail(j) ==
    /\ Active(j)
    /\ at' = [at EXCEPT ![j] = "raised"]
    /\ UNCHANGED <<store, place, tally, graded, rivals, decision>>

-----------------------------------------------------------------------------
(* EvalReport.profile: the runs of all scenarios pooled.                   *)

Pooled(j, d) ==
    [passed |-> MapThenSumSet(LAMBDA i : tally[j][i][d].passed, DOMAIN Suite[j]),
     total  |-> MapThenSumSet(LAMBDA i : tally[j][i][d].total, DOMAIN Suite[j])]

\* The dimension is a key of the profile.
Measured(j, d) == Pooled(j, d).total > 0

\* Mutant: the naive standard error, zero when every run agrees.
NoisyNaively(p, drop) ==
    p.passed * (p.total - p.passed) * drop[2] * drop[2]
        > drop[1] * drop[1] * p.total * p.total * p.total

\* _rate_stderr: is the Agresti-Coull standard error wider than a threshold?
\* z^2 is 4 for 1.96^2, so two successes and two failures are added.
Noisy(p, drop) ==
    LET n == p.total + 4
        k == p.passed + 2
    IN  p.total > 0 /\ k * (n - k) * drop[2] * drop[2] > drop[1] * drop[1] * n * n * n

-----------------------------------------------------------------------------
(* Gate.evaluate.                                                          *)

\* The drop of a rate times the denominators, and the threshold so: a rate is
\* a quotient, and quotients are compared by their products.
Drop(b, c) == b.passed * c.total - c.passed * b.total

Regresses(b, c, drop) == Drop(b, c) * drop[2] > drop[1] * b.total * c.total

\* A drop of just the threshold: which side the floating-point difference of
\* two rates falls on depends on the rates.  Equal rates differ by exactly 0.
Borderline(b, c, drop) ==
    drop[1] > 0 /\ Drop(b, c) * drop[2] = drop[1] * b.total * c.total

\* Mutant: a dimension that nobody measured is at its best.
VanishedNever(j) == {d \in Dims : Measured(j, d) /\ ~Measured(j, d)}

Vanished(j) == {d \in Dims : Measured(Baseline, d) /\ ~Measured(j, d)}

New(j) == {d \in Dims : ~Measured(Baseline, d) /\ Measured(j, d)}

Compared(j) == {d \in Dims : Measured(Baseline, d) /\ Measured(j, d)}

NoiseIn(j) == \E d \in Dims : Noisy(Pooled(j, d), MaxDrop["correctness"])

Decide(j) ==
    /\ at[j] = "reported" /\ at[Baseline] = "reported" /\ j # Baseline
    /\ decision[j] = Undecided
    /\ LET definite == {d \in Compared(j) :
                          Regresses(Pooled(Baseline, d), Pooled(j, d), MaxDrop[d])}
           border   == {d \in Compared(j) :
                          Borderline(Pooled(Baseline, d), Pooled(j, d), MaxDrop[d])}
       IN  \E some \in SUBSET border :
             LET blocks == Vanished(j) \cup ((definite \cup some) \cap Hard)
             IN  decision' = [decision EXCEPT ![j] =
                    [blocks     |-> blocks,
                     warnings   |-> New(j) \cup ((definite \cup some) \ Hard)
                                      \cup {n \in {"noise"} : NoiseIn(j) \/ NoiseIn(Baseline)},
                     passed     |-> blocks = {},
                     overridden |-> FALSE]]
    /\ UNCHANGED <<store, at, place, tally, graded, rivals>>

\* Mutant: what was wrong is not kept.
OverrideCleanly(j) ==
    /\ decision[j] # Undecided
    /\ decision' = [decision EXCEPT ![j] =
                      [@ EXCEPT !.passed = TRUE, !.overridden = TRUE, !.blocks = {}]]
    /\ UNCHANGED <<store, at, place, tally, graded, rivals>>

\* GateDecision.override with a reason, recorded or without a record; a record
\* that raises leaves the decision as it was.
Override(j) ==
    /\ decision[j] # Undecided
    /\ decision' = [decision EXCEPT ![j] = [@ EXCEPT !.passed = TRUE, !.overridden = TRUE]]
    /\ UNCHANGED <<store, at, place, tally, graded, rivals>>

Next ==
    \E j \in Jobs :
        \/ Start(j) \/ Guard(j) \/ Run(j) \/ Grade(j) \/ Fail(j)
        \/ Decide(j) \/ Override(j)

Spec == Init /\ [][Next]_vars

-----------------------------------------------------------------------------
TypeOK ==
    /\ \A id \in DOMAIN store : store[id] \subseteq Jobs
    /\ rivals \in [Jobs -> SUBSET Jobs]
    /\ at \in [Jobs -> {"idle", "loading", "running", "grading", "reported", "raised"}]
    /\ DOMAIN place = Jobs
    /\ \A j \in Jobs : Active(j) =>
          place[j].scenario \in DOMAIN Suite[j] /\ place[j].run \in 0..(Runs[Here(j)] - 1)

\* What an evaluation grades is its own agent's work: another had a hand in it
\* only if both found the id of that very run free before either ran it.  Runs
\* that were there, finished or broken off, are never measured (evaluate's check
\* of the store; a prefix two evaluations share at once defeats it).
MeasuresOwn == \A g \in graded : g.makers \subseteq {g.job} \cup g.rivals

GradedIn(j, i) == {g \in graded : g.job = j /\ g.scenario = i}

\* A report stands for every run of every scenario of its suite, and for each
\* of them once.
FullyMeasured ==
    \A j \in Jobs : at[j] = "reported" =>
        \A i \in DOMAIN Suite[j] :
            /\ {g.run : g \in GradedIn(j, i)} = 0..(Runs[Suite[j][i]] - 1)
            /\ Cardinality(GradedIn(j, i)) = Runs[Suite[j][i]]

\* The results of an evaluation that a dimension counts for, and those that
\* passed it, from the single checks.
Counted(j, d) == {g \in graded : g.job = j /\ Covers(Suite[j][g.scenario], d)}

PassedIn(j, d) == {g \in Counted(j, d) : DimPasses(Suite[j][g.scenario], d, g.ok)}

\* The rate a profile pools is the share of its results that passed.
ProfileTrue ==
    \A j \in Jobs, d \in Dims :
        Pooled(j, d) = [passed |-> Cardinality(PassedIn(j, d)),
                        total  |-> Cardinality(Counted(j, d))]

\* The share of results that passed a dimension fell by more than its threshold,
\* or the dimension is not measured any more.
Fell(j, d) ==
    LET b == Cardinality(Counted(Baseline, d))
        c == Cardinality(Counted(j, d))
        drop == Cardinality(PassedIn(Baseline, d)) * c - Cardinality(PassedIn(j, d)) * b
    IN  b > 0 /\ (c = 0 \/ drop * MaxDrop[d][2] > MaxDrop[d][1] * b * c)

AllPassed(j, d) == Counted(j, d) # {} /\ PassedIn(j, d) = Counted(j, d)

\* The gate names each hard dimension that fell in the single results, however
\* they were tallied and pooled; with a threshold of 0, a single unsafe result
\* after a safe baseline is enough.  What it named stays when it is overridden,
\* and a decision passes with a block only so (Gate.evaluate, override).
RegressionsNamed ==
    \A j \in Jobs : decision[j] # Undecided =>
        /\ \A d \in Hard : Fell(j, d) => d \in decision[j].blocks
        /\ /\ MaxDrop["safety"][1] = 0
           /\ AllPassed(Baseline, "safety") /\ ~AllPassed(j, "safety")
           => "safety" \in decision[j].blocks
        /\ decision[j].passed /\ decision[j].blocks # {} => decision[j].overridden

\* "Three runs at 90% and a hundred runs at 90% are not the same claim": no
\* decision is silent about a measurement of so few runs that its error is
\* wider than the threshold even if all of them agree.
FewRunsWarned ==
    \A j \in Jobs : decision[j] # Undecided =>
        \/ "noise" \in decision[j].warnings
        \/ \A k \in {j, Baseline}, d \in Dims :
              Counted(k, d) # {} =>
                LET n == (Cardinality(Counted(k, d)) + 6) * MaxDrop["correctness"][1]
                IN  n * n >= 2 * MaxDrop["correctness"][2] * MaxDrop["correctness"][2]
=============================================================================
