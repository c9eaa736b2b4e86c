------------------------------- MODULE MCLeases -------------------------------
(***************************************************************************)
(* Instances of the lease for TLC, over small clocks.                      *)
(***************************************************************************)
EXTENDS Lease, TLC

OwnerSymmetry == Permutations(Owners)

\* Invocations of one event loop, or each in a process of its own.
Together(store) == [backend |-> store, process |-> [o \in Owners |-> 1]]
Apart(store) == [backend |-> store, process |-> [o \in Owners |-> o]]

\* The stores as they are meant to be shared.
Intended == {Together("memory"), Together("sqlite"), Apart("postgres")}
=============================================================================
