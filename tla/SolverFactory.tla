---------------------------- MODULE SolverFactory ----------------------------
(***************************************************************************)
(* roboptim::SolverFactory (solver-factory.hxx): the constructor loads a   *)
(* plug-in with libltdl and has it create a solver, in stages each of      *)
(* which may fail; the destructor gives the solver and the plug-in back.   *)
(*                                                                         *)
(* libltdl is external: it counts its initialisations and the openings of  *)
(* each plug-in, and unloads everything when the last initialisation is    *)
(* undone.                                                                 *)
(***************************************************************************)
EXTENDS Naturals, Sequences, SequencesExt

CONSTANTS
  Factories,  \* factory objects; also the solver each of them creates
  Plugins     \* names given to the constructor

VARIABLES
  inits,     \* libltdl: lt_dlinit calls not undone by lt_dlexit
  opened,    \* libltdl: openings of each plug-in not undone by lt_dlclose
  factory,   \* of each factory: its stage and its plug-in
  solver_,   \* of each solver_: "unborn", "alive" or "destroyed"
  leaked,    \* history: per plug-in, constructors that create's exception left
  misused    \* a solver was used or destroyed after its destruction

factoryVars == <<inits, opened, factory, solver_, leaked, misused>>

LoadStages == <<"dlinit", "open", "findGetSizeOfProblem",
                "findGetTypeIdOfConstraintsList", "compareSizes",
                "compareTypeIds", "findCreate", "create", "checkSolver">>

At(f, s) == factory[f].stage = s
Constructed(f) == At(f, "constructed")
Constructing(f) == \E i \in DOMAIN LoadStages : At(f, LoadStages[i])
After(s) == LET i == CHOOSE i \in DOMAIN LoadStages : LoadStages[i] = s
            IN IF i = Len(LoadStages) THEN "constructed" ELSE LoadStages[i + 1]
Refs(p) == {f \in Factories : Constructed(f) /\ factory[f].plugin = p}

FactoryInit ==
  /\ inits = 0
  /\ opened = [p \in Plugins |-> 0]
  /\ \E plugin \in [Factories -> Plugins] :
       factory = [f \in Factories |->
                    [stage |-> "none", plugin |-> plugin[f]]]
  /\ solver_ = [f \in Factories |-> "unborn"]
  /\ leaked = [p \in Plugins |-> 0]
  /\ misused = FALSE

\* The application is single-threaded: one constructor runs at a time.
Idle == ~misused /\ \A f \in Factories : ~Constructing(f)

Enter(f, s) == factory' = [factory EXCEPT ![f].stage = s]

-----------------------------------------------------------------------------
(* What libltdl does. *)

LoseOne(n) == IF n = 0 THEN 0 ELSE n - 1

\* lt_dlclose (handle) and then lt_dlexit ()
CloseAndExit(p) ==
  /\ inits' = LoseOne(inits)
  /\ opened' = [q \in Plugins |-> IF inits' = 0 THEN 0
                                  ELSE IF q = p THEN LoseOne(opened[q])
                                  ELSE opened[q]]

\* lt_dlexit () alone
Exit ==
  /\ inits' = LoseOne(inits)
  /\ opened' = [q \in Plugins |-> IF inits' = 0 THEN 0 ELSE opened[q]]

-----------------------------------------------------------------------------
(* The constructor. *)

BeginConstruction(f) ==
  /\ Idle /\ At(f, "none")
  /\ Enter(f, "dlinit")
  /\ UNCHANGED <<inits, opened, solver_, leaked, misused>>

InitialisesTwice(f) == At(f, "dlinit") \/ At(f, "open")
Initialises(f) == At(f, "dlinit")

\* The stage succeeds; after the last one the factory is constructed.
Succeed(f) ==
  /\ Constructing(f) /\ ~At(f, "create")
  /\ At(f, "checkSolver") => solver_[f] = "alive"
  /\ inits' = IF Initialises(f) THEN inits + 1 ELSE inits
  /\ opened' = IF At(f, "open")
               THEN [opened EXCEPT ![factory[f].plugin] = @ + 1] ELSE opened
  /\ Enter(f, After(factory[f].stage))
  /\ UNCHANGED <<solver_, leaked, misused>>

\* The plug-in's create answers a new solver, or null.
Create(f, answer) ==
  /\ At(f, "create")
  /\ solver_' = [solver_ EXCEPT ![f] = answer]
  /\ Enter(f, After("create"))
  /\ UNCHANGED <<inits, opened, leaked, misused>>

\* What a failing stage undoes before it throws runtime_error.
UndoWithoutExit(f) ==
  IF At(f, "dlinit") \/ At(f, "open") THEN UNCHANGED <<inits, opened>>
  ELSE CloseAndExit(factory[f].plugin)
UndoTwice(f) == CloseAndExit(factory[f].plugin)
Undo(f) ==
  IF At(f, "dlinit") THEN UNCHANGED <<inits, opened>>
  ELSE IF At(f, "open") THEN Exit
  ELSE CloseAndExit(factory[f].plugin)

Fail(f) ==
  /\ Constructing(f) /\ ~At(f, "create")
  /\ At(f, "checkSolver") => solver_[f] = "unborn"
  /\ Undo(f)
  /\ Enter(f, "threw")
  /\ UNCHANGED <<solver_, leaked, misused>>

\* create throws: nothing in the constructor catches it.
CreateThrows(f) ==
  /\ At(f, "create")
  /\ Enter(f, "threw")
  /\ leaked' = [leaked EXCEPT ![factory[f].plugin] = @ + 1]
  /\ UNCHANGED <<inits, opened, solver_, misused>>

-----------------------------------------------------------------------------
(* A constructed factory. *)

\* operator ()
Use(f) ==
  /\ Idle /\ Constructed(f)
  /\ misused' = (solver_[f] # "alive"
                 \/ opened[factory[f].plugin] = 0)
  /\ UNCHANGED <<inits, opened, factory, solver_, leaked>>

\* ~SolverFactory; the plug-in may lack the symbol destroy, and then keeps
\* its solver while the plug-in is closed all the same.
DestroyFactory(f, found) ==
  /\ Idle /\ Constructed(f)
  /\ IF found
     THEN /\ misused' = (solver_[f] # "alive"
                         \/ opened[factory[f].plugin] = 0)
          /\ solver_' = [solver_ EXCEPT ![f] = "destroyed"]
     ELSE UNCHANGED <<solver_, misused>>
  /\ CloseAndExit(factory[f].plugin)
  /\ Enter(f, "destroyed")
  /\ UNCHANGED leaked

FactoryNext ==
  \E f \in Factories :
    \/ BeginConstruction(f) \/ Succeed(f) \/ Fail(f) \/ CreateThrows(f)
    \/ \E answer \in {"alive", "unborn"} : Create(f, answer)
    \/ Use(f) \/ \E found \in BOOLEAN : DestroyFactory(f, found)

FactorySpec == FactoryInit /\ [][FactoryNext]_factoryVars

-----------------------------------------------------------------------------

FactoryTypeOK ==
  /\ inits \in 0..Cardinality(Factories)
  /\ opened \in [Plugins -> 0..Cardinality(Factories)]
  /\ factory \in [Factories ->
       [stage : ToSet(LoadStages)
                  \cup {"none", "constructed", "threw", "destroyed"},
        plugin : Plugins]]
  /\ solver_ \in [Factories -> {"unborn", "alive", "destroyed"}]
  /\ leaked \in [Plugins -> 0..Cardinality(Factories)]
  /\ misused \in BOOLEAN

\* Between two constructor or destructor calls libltdl has been initialised
\* once, and each plug-in opened once, for every factory in scope: each of
\* the eight failing stages undoes exactly what was done before it.  Only an
\* exception from create leaves an initialisation and an opening behind.
Balanced ==
  Idle => \A p \in Plugins :
    /\ opened[p] = Cardinality(Refs(p)) + leaked[p]
    /\ inits >= opened[p]
    /\ (\A q \in Plugins : opened[q] = 0) => inits = 0

\* "The solver lifetime is bound to the factory lifetime" (solver-factory.hh:
\* 50): while a factory is in scope its solver is alive, and the plug-in with
\* its code is loaded.
SolverLivesInScope ==
  \A f \in Factories : Constructed(f) =>
    /\ solver_[f] = "alive"
    /\ opened[factory[f].plugin] > 0

=============================================================================
