--------------------------- MODULE SolverCallbacks ---------------------------
(***************************************************************************)
(* A solver, the one iteration callback it has room for, and the objects   *)
(* that put themselves there: callback::Multiplexer and the self-          *)
(* registering OptimizationLogger.  The other SolverCallbacks (Wrapper, a  *)
(* logger made with selfRegister = false) are only ever called through a   *)
(* multiplexer, whose shared pointers keep them alive.                     *)
(*                                                                         *)
(* The solver is one with the interface of GenericDummySolverLastState:    *)
(* while it solves it calls the callback at each iteration, if there is    *)
(* one, and then stores a result; where solvers are free (how many         *)
(* iterations, which result) the choice is left open.                      *)
(***************************************************************************)
EXTENDS Naturals, Sequences, SequencesExt

CONSTANTS
  Multiplexers,   \* callback::Multiplexer objects
  Loggers,        \* OptimizationLogger objects with selfRegister = true
  Members,        \* SolverCallbacks listed by multiplexers
  Raw,            \* a plain function given to setIterationCallback
  NoCallback,     \* the empty boost::function
  Supported,      \* the solver overrides setIterationCallback
  MaxIterations,  \* bound: iterations of one solve ()
  MaxMembers      \* bound: entries of a multiplexer

ASSUME KindsAssumption ==
  /\ Multiplexers \cap Loggers = {}
  /\ {Raw, NoCallback} \cap (Multiplexers \cup Loggers) = {}
  /\ Raw # NoCallback
ASSUME BoundsAssumption ==
  Supported \in BOOLEAN /\ MaxIterations \in Nat /\ MaxMembers \in Nat

VARIABLES
  solver,      \* is the solver alive
  result,      \* result_.which (), as the enumeration solutions
  callback,    \* callback_ of the solver
  life,        \* of each observer: "unborn", "alive", "failed", "destroyed"
  members,     \* callbacks_ of each multiplexer
  phase,       \* "idle", "solving", or "iterating": inside the callback
  iterations,  \* of the running solve ()
  pending,     \* what this iteration's callback has still to call
  undefined    \* a destroyed object was called

vars == <<solver, result, callback, life, members, phase, iterations,
          pending, undefined>>

Observers == Multiplexers \cup Loggers
Solutions == {"NO_SOLUTION", "VALUE", "ERROR", "VALUE_WARNINGS"}
Alive(o) == life[o] = "alive"

Init ==
  /\ solver = "alive"
  /\ result = "NO_SOLUTION"
  /\ callback = NoCallback
  /\ life = [o \in Observers |-> "unborn"]
  /\ members = [m \in Multiplexers |-> <<>>]
  /\ phase = "idle" /\ iterations = 0 /\ pending = <<>>
  /\ undefined = FALSE

-----------------------------------------------------------------------------
(* Observers come and go between two calls of the solver. *)

\* setIterationCallback; attach and unregister catch the runtime_error of a
\* solver without callbacks.
SetCallback(c) == callback' = IF Supported THEN c ELSE callback

Attach(o) == SetCallback(o)
NoUnregister(o) == UNCHANGED callback
Unregister(o) == SetCallback(NoCallback)

Between == phase = "idle" /\ ~undefined
UnchangedSolve == UNCHANGED <<result, phase, iterations, pending>>

Construct(o) ==
  /\ Between /\ solver = "alive" /\ life[o] = "unborn"
  /\ life' = [life EXCEPT ![o] = "alive"]
  /\ Attach(o)
  /\ UnchangedSolve /\ UNCHANGED <<solver, members, undefined>>

\* The logger attaches first, then removes and creates its directories: if
\* that throws there is no logger, and no destructor call either.
ConstructionFails(o) ==
  /\ Between /\ solver = "alive" /\ life[o] = "unborn" /\ o \in Loggers
  /\ life' = [life EXCEPT ![o] = "failed"]
  /\ Attach(o)
  /\ UnchangedSolve /\ UNCHANGED <<solver, members, undefined>>

\* ~Multiplexer, ~OptimizationLogger: they call the solver they refer to.
Destroy(o) ==
  /\ Between /\ Alive(o)
  /\ life' = [life EXCEPT ![o] = "destroyed"]
  /\ IF solver = "alive" THEN Unregister(o) /\ UNCHANGED undefined
     ELSE undefined' = TRUE /\ UNCHANGED callback
  /\ UnchangedSolve /\ UNCHANGED <<solver, members>>

\* The user's own call of setIterationCallback
Register(c) ==
  /\ Between /\ solver = "alive"
  /\ SetCallback(c)
  /\ UnchangedSolve
  /\ UNCHANGED <<solver, life, members, undefined>>

\* The user edits callbacks ().
Edit(m, s) ==
  /\ Between /\ Alive(m)
  /\ members' = [members EXCEPT ![m] = s]
  /\ UnchangedSolve
  /\ UNCHANGED <<solver, callback, life, undefined>>

Add(m, c) == Len(members[m]) < MaxMembers /\ Edit(m, Append(members[m], c))
RemoveLast(m) == members[m] # <<>> /\ Edit(m, Front(members[m]))

\* ~SolverFactory, or the end of the solver's scope
DestroySolver ==
  /\ Between /\ solver = "alive"
  /\ solver' = "destroyed"
  /\ UnchangedSolve
  /\ UNCHANGED <<callback, life, members, undefined>>

-----------------------------------------------------------------------------
(* GenericSolver::minimum and reset, and solve. *)

\* minimum () with a result returns it; without one it solves.  solve () is
\* public as well, and may be called with a result.
Solve ==
  /\ Between /\ solver = "alive"
  /\ phase' = "solving"
  /\ iterations' = 0
  /\ UNCHANGED <<solver, result, callback, life, members, pending, undefined>>

Reset ==
  /\ Between /\ solver = "alive"
  /\ result' = "NO_SOLUTION"
  /\ UNCHANGED <<solver, callback, life, members, phase, iterations, pending, undefined>>

\* What an observer's callback consists of.
ChainOfItself(o) == <<o>>
Chain(o) == IF o \in Multiplexers THEN members[o] ELSE <<o>>

Iterate ==
  /\ phase = "solving" /\ ~undefined /\ iterations < MaxIterations
  /\ iterations' = iterations + 1
  /\ IF callback \in Observers
     THEN /\ undefined' = ~Alive(callback)
          /\ phase' = "iterating"
          /\ pending' = Chain(callback)
     ELSE UNCHANGED <<phase, pending, undefined>>
  /\ UNCHANGED <<solver, result, callback, life, members>>

\* Whether the callback returns or throws: operator () goes through
\* perIterationCallback, which catches everything, and OptimizationLogger
\* overrides it with one that does so too.
CallNext ==
  /\ phase = "iterating" /\ ~undefined /\ pending # <<>>
  /\ pending' = Tail(pending)
  /\ UNCHANGED <<solver, result, callback, life, members, phase, iterations, undefined>>

Return ==
  /\ phase = "iterating" /\ ~undefined /\ pending = <<>>
  /\ phase' = "solving"
  /\ UNCHANGED <<solver, result, callback, life, members, iterations,
                 pending, undefined>>

\* Nothing catches what a plain function throws: it leaves solve ().
RawThrows ==
  /\ phase = "solving" /\ ~undefined
  /\ callback = Raw /\ iterations < MaxIterations
  /\ phase' = "idle"
  /\ UNCHANGED <<solver, result, callback, life, members, iterations,
                 pending, undefined>>

Finish(r) ==
  /\ phase = "solving" /\ ~undefined
  /\ phase' = "idle"
  /\ result' = r
  /\ UNCHANGED <<solver, callback, life, members, iterations, pending, undefined>>

Next ==
  \/ \E o \in Observers : Construct(o) \/ ConstructionFails(o) \/ Destroy(o)
  \/ \E c \in {Raw, NoCallback} : Register(c)
  \/ \E m \in Multiplexers : RemoveLast(m) \/ \E c \in Members : Add(m, c)
  \/ DestroySolver
  \/ Solve \/ Reset
  \/ Iterate \/ CallNext \/ Return
  \/ RawThrows
  \/ \E r \in Solutions \ {"NO_SOLUTION"} : Finish(r)

Spec == Init /\ [][Next]_vars

-----------------------------------------------------------------------------

\* Type correctness: an iteration only ever calls entries of a multiplexer and
\* registered loggers.
TypeOK ==
  /\ solver \in {"alive", "destroyed"}
  /\ result \in Solutions
  /\ callback \in Observers \cup {Raw, NoCallback}
  /\ life \in [Observers -> {"unborn", "alive", "failed", "destroyed"}]
  /\ members \in [Multiplexers -> Seq(Members)]
  /\ phase \in {"idle", "solving", "iterating"}
  /\ iterations \in 0..MaxIterations
  /\ pending \in Seq(Members \cup Loggers)
  /\ undefined \in BOOLEAN

\* While the solver lives its callback is never a destroyed observer, in
\* whatever order observers replaced one another: only a logger whose
\* constructor threw stays behind (optimization-logger.hxx:180-184).
CallbackIsAlive ==
  solver = "alive" /\ callback \in Observers => life[callback] # "destroyed"

\* "Unregister the logger from the solver" (optimization-logger.hh:131),
\* "the multiplexer" (multiplexer.hh:107): a destructor takes its own object out
\* of the solver, not another.
UnregistersItself ==
  [][\A o \in Observers :
       /\ Alive(o) /\ life'[o] = "destroyed"
       /\ callback \in Observers \ {o}
       => callback' = callback]_vars

=============================================================================
