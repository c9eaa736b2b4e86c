----------------------------- MODULE MCSqliteLog -----------------------------
(***************************************************************************)
(* Two processes over one SQLite file: a driver and a human in the one, a  *)
(* driver or a human in the other.  The length of the log is bounded.      *)
(***************************************************************************)
EXTENDS SqliteLog, TLC

CONSTANTS w1, w2, w3, web, cli

Placed == w1 :> web @@ w2 :> web @@ w3 :> cli
=============================================================================
