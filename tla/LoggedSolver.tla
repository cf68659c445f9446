---------------------------- MODULE LoggedSolver ----------------------------
(***************************************************************************)
(* A solver with its observers and the files of one of them: the logger    *)
(* that SolverCallbacks only names, whether it registered itself or is a   *)
(* member of a multiplexer, goes through the stages of its call when the   *)
(* iteration reaches it, and the iteration goes on when it has caught what *)
(* a stage threw and counted the call.                                     *)
(*                                                                         *)
(* The program is single-threaded: while the logger works the solver, the  *)
(* multiplexer and the user's code stand still.                            *)
(***************************************************************************)
EXTENDS SolverCallbacks, OptimizationLogger

CONSTANT Recorder   \* the logger whose files these are

ASSUME RecorderAssumption == Recorder \in Loggers \cup Members

loggedVars == <<vars, loggerVars>>

LoggedInit == Init /\ LoggerInit

\* The iteration has come to the logger, which has not returned.
Recording ==
  phase = "iterating" /\ ~undefined /\ pending # <<>> /\ Head(pending) = Recorder

Record == Recording /\ Log /\ UNCHANGED vars
Recorded == Recording /\ End /\ CallNext
Elsewhere == ~Recording /\ Next /\ UNCHANGED loggerVars

LoggedNext == Record \/ Recorded \/ Elsewhere

LoggedSpec == LoggedInit /\ [][LoggedNext]_loggedVars

=============================================================================
