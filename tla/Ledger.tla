------------------------------- MODULE Ledger -------------------------------
(***************************************************************************)
(* What the store and its protocol promise to the writers of a run: one    *)
(* growing sequence of events, to which a writer adds only when it has     *)
(* read every event before its own.  Nothing is lost, overwritten or       *)
(* reordered, and no decision is recorded that was taken in ignorance of   *)
(* an earlier one.                                                         *)
(***************************************************************************)
EXTENDS Naturals, Sequences

CONSTANTS Writers, Events

VARIABLES entries, read

vars == <<entries, read>>

Init ==
    /\ entries = <<>>
    /\ read = [w \in Writers |-> 0]

\* A writer that is up to date adds an event.
Publish(w) ==
    /\ read[w] = Len(entries)
    /\ \E e \in Events : entries' = Append(entries, e)
    /\ read' = [read EXCEPT ![w] = Len(entries) + 1]

\* A writer reads on.
Advance(w) ==
    /\ \E n \in read[w]..Len(entries) : read' = [read EXCEPT ![w] = n]
    /\ UNCHANGED entries

Next == \E w \in Writers : Publish(w) \/ Advance(w)

Spec == Init /\ [][Next]_vars
=============================================================================
