-------------------------- MODULE MC_LoggedSolver --------------------------
(* A logger that logs everything, and a multiplexer that may replace it.   *)
EXTENDS LoggedSolver

FullLogging == Flags
=============================================================================
