------------------------------ MODULE MCEngine ------------------------------
(***************************************************************************)
(* Instances of the engine for TLC: the models' replies, the recorded      *)
(* autonomy and the symmetry of the actors, one group per question.       *)
(***************************************************************************)
EXTENDS EngineProperties, TLC

ActorSymmetry == Permutations(Drivers) \cup Permutations(Humans)

Call(id, tool) == [id |-> id, tool |-> tool]

Answer == <<>>

AllAutonomous == [t \in Tools |-> "autonomous"]

\* Two reversible siblings, or an irreversible call; then an answer.
WorkReplies ==
    [k \in 0..(MaxSteps - 1) |->
        IF k = 0
        THEN {<<Call("s1", "search"), Call("s2", "search")>>, <<Call("p1", "pay")>>}
        ELSE {Answer}]

\* A proposed, an approved and a free call in one decision, in two orders;
\* then a delivery.
RolloutMode == [t \in Tools |->
    CASE t = "pay" -> "assisted" [] t = "mail" -> "shadow" [] OTHER -> "autonomous"]

RolloutReplies ==
    [k \in 0..(MaxSteps - 1) |->
        IF k = 0
        THEN {<<Call("s1", "search"), Call("p1", "pay"), Call("m1", "mail")>>,
              <<Call("p1", "pay"), Call("p2", "pay")>>}
        ELSE {<<Call("f1", FinalAnswer)>>}]

\* Structured delivery: a call that validates after or before a sibling, one
\* that does not, or a textual answer.
TurnReplies ==
    [k \in 0..(MaxSteps - 1) |->
        CASE k = 0 -> {<<Call("s1", "search"), Call("f1", FinalAnswer)>>,
                       <<Call("f1", FinalAnswer), Call("s1", "search")>>, Answer}
          [] k = 1 -> {<<Call("f0", FinalAnswer)>>, Answer}
          [] OTHER -> {Answer}]

\* The instances are ones the theorems speak of.
ASSUME RepliesHaveUniqueIds == UniqueIds
=============================================================================
