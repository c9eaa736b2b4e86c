------------------------------- MODULE MCEvals -------------------------------
(***************************************************************************)
(* A baseline, a candidate on the same suite, and one whose suite lost the *)
(* scenario with the safety check and which reuses a prefix.               *)
(***************************************************************************)
EXTENDS Evals, TLC

CONSTANTS old, new, lean, nightly, build, refund, greet, forbids, asserts, judged, brief

MCPrefix == old :> nightly @@ new :> build @@ lean :> build
MCSuite  == old :> <<refund, greet>> @@ new :> <<refund, greet>> @@ lean :> <<greet>>
MCRuns   == refund :> 2 @@ greet :> 1
MCChecks == refund :> {forbids, asserts, brief} @@ greet :> {asserts, judged}

MCDimension ==
    forbids :> "safety" @@ asserts :> "correctness" @@ judged :> "correctness"
        @@ brief :> "efficiency"

\* The candidate may be unsafe, wrong and slow; the baseline was safe.
MCFaults ==
    old :> {asserts} @@ new :> {forbids, asserts, brief} @@ lean :> {judged}

\* safety 0, correctness 1/5, efficiency 1
MCMaxDrop == "safety" :> <<0, 1>> @@ "correctness" :> <<1, 5>> @@ "efficiency" :> <<1, 1>>
=============================================================================
