---------------------------- MODULE SolverProofs ----------------------------
(***************************************************************************)
(* Theorems about what surrounds a solver: SolverCallbacks, whose solver   *)
(* never refers to a destroyed observer; OptimizationLogger, the rows of   *)
(* whose files belong together whatever stages of its calls throw, and the *)
(* two composed, LoggedSolver; and SolverFactory, whose solvers live in    *)
(* scope and whose counters balance whatever stages fail; for any          *)
(* observers, members, requests, constraints, violations, factories and    *)
(* plug-ins.                                                               *)
(***************************************************************************)
EXTENDS LoggedSolver, SolverFactory, SequenceTheorems, FiniteSetTheorems, TLAPS

(***************************************************************************)
(* The observers of a solver.                                              *)
(***************************************************************************)

Callable == Members \cup Loggers

\* What links the solver to its observers: it is alive while it solves, it
\* knows none that was not begun, and none at all if it supports no callback.
Registration ==
  /\ phase # "idle" => solver = "alive"
  /\ callback \in Observers => life[callback] # "unborn"
  /\ ~Supported => callback = NoCallback

IInv == TypeOK /\ Registration /\ CallbackIsAlive

\* The solver starts idle with its observers unborn and its slot empty, and
\* that satisfies the invariant.
LEMMA InitIInv == Init => IInv
<1> SUFFICES ASSUME Init PROVE IInv
  OBVIOUS
<1>1. TypeOK
  <2>1. members \in [Multiplexers -> Seq(Members)]
    BY DEF Init
  <2>2. pending \in Seq(Members \cup Loggers)
    BY DEF Init
  <2>3. iterations \in 0..MaxIterations
    BY BoundsAssumption DEF Init
  <2> QED BY <2>1, <2>2, <2>3 DEF Init, TypeOK, Solutions, Observers
<1>2. callback \notin Observers
  BY KindsAssumption DEF Init, Observers
<1> QED BY <1>1, <1>2 DEF Init, IInv, Registration, CallbackIsAlive

-----------------------------------------------------------------------------
(* Steps between two calls of the solver: no iteration is running. *)

\* An observer that is constructed, or whose constructor throws after it
\* attached itself, takes the slot of the solver.
LEMMA ConstructIInv ==
  ASSUME IInv, NEW o \in Observers, Construct(o) \/ ConstructionFails(o)
  PROVE  IInv'
<1>1. /\ Between /\ solver = "alive" /\ life[o] = "unborn" /\ UnchangedSolve
      /\ UNCHANGED <<solver, members, undefined>>
      /\ callback' = IF Supported THEN o ELSE callback
  BY DEF Construct, ConstructionFails, Attach, SetCallback
<1>2. PICK s \in {"alive", "failed"} : life' = [life EXCEPT ![o] = s]
  BY DEF Construct, ConstructionFails
<1>3. life \in [Observers -> {"unborn", "alive", "failed", "destroyed"}]
  BY DEF IInv, TypeOK
<1>4. TypeOK'
  BY <1>1, <1>2 DEF IInv, TypeOK, UnchangedSolve
<1>5. callback' \in Observers => life'[callback'] \notin {"unborn", "destroyed"}
  BY <1>1, <1>2, <1>3 DEF IInv, Registration, CallbackIsAlive
<1>6. Registration' /\ CallbackIsAlive'
  BY <1>1, <1>5 DEF IInv, Registration, CallbackIsAlive, UnchangedSolve
<1> QED BY <1>4, <1>6 DEF IInv

\* The destructor of an observer empties the slot of a living solver, and is
\* undefined only on one that was destroyed first.
LEMMA DestroyIInv ==
  ASSUME IInv, NEW o \in Observers, Destroy(o)
  PROVE  IInv'
<1>1. /\ Between /\ Alive(o) /\ UnchangedSolve /\ UNCHANGED <<solver, members>>
      /\ life' = [life EXCEPT ![o] = "destroyed"]
  BY DEF Destroy
<1>2. life \in [Observers -> {"unborn", "alive", "failed", "destroyed"}]
  BY DEF IInv, TypeOK
<1>3. phase' = "idle"
  BY <1>1 DEF Between, UnchangedSolve
<1>4. CASE solver = "alive"
  <2>1. /\ callback' = IF Supported THEN NoCallback ELSE callback
        /\ undefined' = undefined
    BY <1>4 DEF Destroy, Unregister, SetCallback
  <2>2. callback' = NoCallback /\ callback' \notin Observers
    BY <2>1, KindsAssumption DEF IInv, Registration, Observers
  <2>3. TypeOK'
    BY <1>1, <2>1, <2>2 DEF IInv, TypeOK, UnchangedSolve
  <2> QED BY <1>3, <2>2, <2>3 DEF IInv, Registration, CallbackIsAlive
<1>5. CASE solver # "alive"
  <2>1. undefined' = TRUE /\ callback' = callback
    BY <1>5 DEF Destroy
  <2>2. TypeOK'
    BY <1>1, <2>1 DEF IInv, TypeOK, UnchangedSolve
  <2>3. solver' = "destroyed"
    BY <1>1, <1>5 DEF IInv, TypeOK
  <2>4. callback' \in Observers => life'[callback'] # "unborn"
    BY <1>1, <1>2, <2>1 DEF IInv, Registration
  <2> QED
    BY <1>3, <2>1, <2>2, <2>3, <2>4
    DEF IInv, Registration, CallbackIsAlive
<1> QED BY <1>4, <1>5

\* A callback that is set by hand, or unset, replaces the observer.
LEMMA RegisterIInv ==
  ASSUME IInv, NEW c \in {Raw, NoCallback}, Register(c)
  PROVE  IInv'
<1>1. /\ Between /\ solver = "alive" /\ UnchangedSolve
      /\ UNCHANGED <<solver, life, members, undefined>>
      /\ callback' = IF Supported THEN c ELSE callback
  BY DEF Register, SetCallback
<1>2. callback' \notin Observers
  BY <1>1, KindsAssumption DEF IInv, Registration, Observers
<1>3. TypeOK'
  BY <1>1 DEF IInv, TypeOK, UnchangedSolve
<1> QED
  BY <1>1, <1>2, <1>3 DEF IInv, Registration, CallbackIsAlive, UnchangedSolve

\* The list of a multiplexer changes between two calls of the solver only.
LEMMA EditIInv ==
  ASSUME IInv, NEW mux \in Multiplexers, NEW s \in Seq(Members), Edit(mux, s)
  PROVE  IInv'
<1>1. /\ Between /\ UnchangedSolve
      /\ members' = [members EXCEPT ![mux] = s]
      /\ UNCHANGED <<solver, callback, life, undefined>>
  BY DEF Edit
<1>2. members' \in [Multiplexers -> Seq(Members)]
  BY <1>1 DEF IInv, TypeOK
<1>3. TypeOK'
  BY <1>1, <1>2 DEF IInv, TypeOK, UnchangedSolve
<1> QED
  BY <1>1, <1>3 DEF IInv, Registration, CallbackIsAlive, UnchangedSolve

\* What Add and RemoveLast make of the list is a list.
LEMMA EditsAreSequences ==
  ASSUME IInv, NEW mux \in Multiplexers
  PROVE  /\ \A c \in Members : Add(mux, c) => Edit(mux, Append(members[mux], c))
         /\ \A c \in Members : Append(members[mux], c) \in Seq(Members)
         /\ RemoveLast(mux) => /\ Edit(mux, Front(members[mux]))
                               /\ Front(members[mux]) \in Seq(Members)
<1>1. members[mux] \in Seq(Members)
  BY DEF IInv, TypeOK
<1>2. \A c \in Members : Append(members[mux], c) \in Seq(Members)
  BY <1>1, AppendProperties
<1>3. members[mux] # <<>> => Front(members[mux]) \in Seq(Members)
  <2>1. SUFFICES ASSUME members[mux] # <<>>
                 PROVE  SubSeq(members[mux], 1, Len(members[mux]) - 1) \in Seq(Members)
    BY DEF Front
  <2>2. Len(members[mux]) \in Nat /\ Len(members[mux]) # 0
    BY <1>1, <2>1, EmptySeq, LenProperties
  <2> QED BY <1>1, <2>2, SubSeqProperties
<1> QED BY <1>2, <1>3 DEF Add, RemoveLast

\* A solver that is destroyed leaves the slot as it was.
LEMMA DestroySolverIInv ==
  ASSUME IInv, DestroySolver
  PROVE  IInv'
<1>1. TypeOK'
  BY DEF DestroySolver, IInv, TypeOK, UnchangedSolve
<1> QED
  BY <1>1
  DEF DestroySolver, IInv, Registration, CallbackIsAlive, Between, UnchangedSolve

-----------------------------------------------------------------------------
(* Steps of the solver. *)

\* Steps of the solver outside of the chain of an iteration leave it be.
LEMMA OutsideIInv ==
  ASSUME IInv,
         Solve \/ Reset \/ RawThrows \/ \E r \in Solutions \ {"NO_SOLUTION"} : Finish(r)
  PROVE  IInv'
<1>1. /\ UNCHANGED <<solver, callback, life, members, pending, undefined>>
      /\ ~undefined
      /\ phase' \in {"idle", "solving"} /\ solver = "alive"
      /\ result' \in Solutions /\ iterations' \in 0..MaxIterations
  BY BoundsAssumption
  DEF Solve, Reset, RawThrows, Finish, Between, IInv, TypeOK, Registration, Solutions
<1>2. TypeOK'
  BY <1>1 DEF IInv, TypeOK
<1> QED
  BY <1>1, <1>2 DEF IInv, Registration, CallbackIsAlive

\* An iteration begins with the whole chain of the registered observer.
LEMMA IterateIInv ==
  ASSUME IInv, Iterate
  PROVE  IInv'
<1>1. /\ phase = "solving" /\ ~undefined /\ solver = "alive"
      /\ iterations' \in 0..MaxIterations
      /\ UNCHANGED <<solver, result, callback, life, members>>
  BY BoundsAssumption DEF Iterate, IInv, TypeOK, Registration
<1>2. CASE callback \notin Observers
  <2>1. UNCHANGED <<phase, pending, undefined>>
    BY <1>2 DEF Iterate
  <2>2. TypeOK'
    BY <1>1, <2>1 DEF IInv, TypeOK
  <2> QED
    BY <1>1, <1>2, <2>1, <2>2 DEF IInv, Registration, CallbackIsAlive
<1>3. CASE callback \in Observers
  <2>1. /\ undefined' = ~Alive(callback) /\ phase' = "iterating"
        /\ pending' = Chain(callback)
    BY <1>3 DEF Iterate
  <2>2. Chain(callback) \in Seq(Callable)
    <3>1. CASE callback \in Multiplexers
      <4>1. members[callback] \in Seq(Members)
        BY <3>1 DEF IInv, TypeOK
      <4> QED BY <3>1, <4>1, SeqMonotonic DEF Chain, Callable
    <3>2. CASE callback \notin Multiplexers
      <4>1. callback \in Callable
        BY <1>3, <3>2 DEF Observers, Callable
      <4> QED BY <3>2, <4>1 DEF Chain
    <3> QED BY <3>1, <3>2
  <2>3. TypeOK'
    BY <1>1, <2>1, <2>2 DEF IInv, TypeOK, Callable
  <2>4. Registration' /\ CallbackIsAlive'
    BY <1>1, <2>1 DEF IInv, Registration, CallbackIsAlive
  <2> QED BY <2>3, <2>4 DEF IInv
<1> QED BY <1>2, <1>3

\* A member that was called is no longer pending.
LEMMA CallNextIInv ==
  ASSUME IInv, CallNext
  PROVE  IInv'
<1>1. /\ phase = "iterating" /\ pending # <<>> /\ pending' = Tail(pending)
      /\ UNCHANGED <<solver, result, callback, life, members, phase, iterations, undefined>>
  BY DEF CallNext
<1>2. Tail(pending) \in Seq(Callable)
  BY <1>1, HeadTailProperties DEF IInv, TypeOK, Callable
<1>3. TypeOK'
  BY <1>1, <1>2 DEF IInv, TypeOK, Callable
<1> QED BY <1>1, <1>3 DEF IInv, Registration, CallbackIsAlive

\* An iteration whose chain is exhausted returns to the solver.
LEMMA ReturnIInv ==
  ASSUME IInv, Return
  PROVE  IInv'
<1>1. TypeOK'
  BY DEF Return, IInv, TypeOK
<1> QED
  BY <1>1 DEF Return, IInv, Registration, CallbackIsAlive

-----------------------------------------------------------------------------

\* The invariant is inductive.
LEMMA NextIInv == IInv /\ [Next]_vars => IInv'
<1> SUFFICES ASSUME IInv, [Next]_vars PROVE IInv'
  OBVIOUS
<1>1. ASSUME NEW o \in Observers, Construct(o) \/ ConstructionFails(o) \/ Destroy(o)
      PROVE  IInv'
  BY <1>1, ConstructIInv, DestroyIInv
<1>2. ASSUME NEW c \in {Raw, NoCallback}, Register(c) PROVE IInv'
  BY <1>2, RegisterIInv
<1>3. ASSUME NEW mux \in Multiplexers, RemoveLast(mux) \/ \E c \in Members : Add(mux, c)
      PROVE  IInv'
  BY <1>3, EditsAreSequences, EditIInv
<1>4. CASE DestroySolver
  BY <1>4, DestroySolverIInv
<1>5. CASE Solve \/ Reset \/ RawThrows \/ \E r \in Solutions \ {"NO_SOLUTION"} : Finish(r)
  BY <1>5, OutsideIInv
<1>6. CASE Iterate
  BY <1>6, IterateIInv
<1>7. CASE CallNext
  BY <1>7, CallNextIInv
<1>8. CASE Return
  BY <1>8, ReturnIInv
<1>9. CASE UNCHANGED vars
  BY <1>9 DEF vars, IInv, TypeOK, Registration, CallbackIsAlive
<1> QED
  BY <1>1, <1>2, <1>3, <1>4, <1>5, <1>6, <1>7, <1>8, <1>9 DEF Next

\* The inductive invariant holds whatever the observers, members and bounds
\* are, and whether or not the solver supports callbacks.
THEOREM CallbackInvariance == Spec => []IInv
BY InitIInv, NextIInv, PTL DEF Spec

\* An iteration only calls registered loggers and members of multiplexers.
THEOREM CallbackTypeCorrectness == Spec => []TypeOK
<1>1. IInv => TypeOK
  BY DEF IInv
<1> QED BY <1>1, CallbackInvariance, PTL

\* A living solver never refers to a destroyed observer: whichever of two that
\* replaced one another dies first, its destructor empties the slot
\* (multiplexer.hxx:103, optimization-logger.hxx:257).
THEOREM ObserverSafety == Spec => []CallbackIsAlive
<1>1. IInv => CallbackIsAlive
  BY DEF IInv
<1> QED BY <1>1, CallbackInvariance, PTL

(***************************************************************************)
(* The files of a logger.                                                  *)
(***************************************************************************)

IsSequence(s) == \E S : s \in Seq(S)

\* Appending a row, whatever it holds.
LEMMA Appended ==
  ASSUME NEW s, IsSequence(s), NEW r
  PROVE  /\ IsSequence(Append(s, r)) /\ Len(s) \in Nat /\ DOMAIN s = 1..Len(s)
         /\ Len(Append(s, r)) = Len(s) + 1
         /\ DOMAIN Append(s, r) = 1..Len(s) + 1
         /\ \A i \in 1..Len(s) : Append(s, r)[i] = s[i]
         /\ Append(s, r)[Len(s) + 1] = r
         /\ IsPrefix(s, Append(s, r))
<1>1. PICK S : s \in Seq(S)
  BY DEF IsSequence
<1> DEFINE T == S \cup {r}
           t == Append(s, r)
<1>2. s \in Seq(T) /\ r \in T
  BY <1>1, SeqMonotonic
<1> HIDE DEF T
<1>3. /\ t \in Seq(T) /\ Len(t) = Len(s) + 1
      /\ \A i \in 1..Len(s) : t[i] = s[i]
      /\ t[Len(s) + 1] = r
  BY <1>2, AppendProperties
<1>4. Len(s) \in Nat /\ DOMAIN s = 1..Len(s) /\ DOMAIN t = 1..Len(s) + 1
  BY <1>2, <1>3, LenProperties
<1> HIDE DEF t
<1>5. IsPrefix(s, t)
  BY <1>2, <1>3, <1>4 DEF IsPrefix
<1> QED BY <1>3, <1>4, <1>5 DEF IsSequence, t

\* A file to which nothing is appended.
LEMMA PrefixOfItself ==
  ASSUME NEW s, IsSequence(s)
  PROVE  IsPrefix(s, s)
<1>1. Len(s) \in Nat
  BY LenProperties DEF IsSequence
<1> QED BY <1>1 DEF IsPrefix

\* No two files are the same.
LEMMA FilesAreDistinct ==
  /\ XFile # CostFile /\ XFile # ViolationFile /\ CostFile # ViolationFile
  /\ \A k \in ConstraintIds : ConstraintFile(k) \notin {XFile, CostFile, ViolationFile}
  /\ \A j, k \in ConstraintIds : ConstraintFile(j) = ConstraintFile(k) => j = k
BY DEF XFile, CostFile, ViolationFile, ConstraintFile

-----------------------------------------------------------------------------
(* The order of the files. *)

\* The running call is past the stage that writes f.
Passed(f) ==
  \/ f = XFile /\ stage \notin {"idle", "directory", "x"}
  \/ f = CostFile /\ stage \notin {"idle", "directory", "x", "cost"}
  \/ \E k \in ConstraintIds :
       /\ f = ConstraintFile(k)
       /\ \/ stage \in {"violation", "done"}
          \/ stage = "jacobian" /\ k <= constraint
          \/ stage = "constraint" /\ k < constraint
  \/ f = ViolationFile /\ stage = "done"

\* f is one of the files of FileOrder.
InOrder(f) ==
  \/ f = XFile /\ Requested("X")
  \/ f = CostFile /\ Requested("COST")
  \/ f \in {ConstraintFile(k) : k \in ConstraintIds} /\ Requested("CONSTRAINT")
  \/ f = ViolationFile /\ LogsViolation

\* f is written before g in every call.
Precedes(f, g) ==
  /\ InOrder(f)
  /\ \/ f # ViolationFile /\ g = ViolationFile
     \/ f = XFile /\ g = CostFile
     \/ f \in {XFile, CostFile} /\ \E k \in ConstraintIds : g = ConstraintFile(k)
     \/ \E j, k \in ConstraintIds :
          j < k /\ f = ConstraintFile(j) /\ g = ConstraintFile(k)

\* ValueFiles lists the files requested in the order they are written.
LEMMA ValueOrderIsKept ==
  /\ ValueFiles \in Seq(Files)
  /\ \A i \in DOMAIN ValueFiles :
       InOrder(ValueFiles[i]) /\ ValueFiles[i] # ViolationFile
  /\ \A i \in 2..Len(ValueFiles) : Precedes(ValueFiles[i - 1], ValueFiles[i])
  /\ DOMAIN ValueFiles = 1..Len(ValueFiles) /\ Len(ValueFiles) \in Nat
<1> DEFINE c == IF Requested("CONSTRAINT")
                THEN [k \in ConstraintIds |-> ConstraintFile(k)] ELSE <<>>
           m == Len(c)
           a == IF Requested("X") THEN <<XFile>> ELSE <<>>
           b == IF Requested("COST") THEN <<CostFile>> ELSE <<>>
<1>1. ValueFiles = a \o b \o c
  BY DEF ValueFiles
<1>2. /\ c \in Seq(Files) /\ m \in Nat /\ DOMAIN c = 1..m
      /\ m > 0 => Requested("CONSTRAINT")
      /\ \A k \in 1..m : k \in ConstraintIds /\ c[k] = ConstraintFile(k)
  <2>1. CASE Requested("CONSTRAINT")
    <3>1. c = [k \in 1..NbConstraints |-> ConstraintFile(k)] /\ NbConstraints \in Nat
      BY <2>1, ConstraintsAssumption DEF ConstraintIds
    <3>2. \A k \in 1..NbConstraints : ConstraintFile(k) \in Files
      BY DEF Files, ConstraintIds
    <3>3. c \in Seq(Files)
      BY <3>1, <3>2, IsASeq
    <3>4. DOMAIN c = 1..NbConstraints /\ \A k \in 1..NbConstraints : c[k] = ConstraintFile(k)
      BY <3>1
    <3> HIDE DEF c
    <3>5. m = NbConstraints
      BY <3>1, <3>3, <3>4, LenProperties
    <3> QED BY <2>1, <3>1, <3>3, <3>4, <3>5 DEF ConstraintIds
  <2>2. CASE ~Requested("CONSTRAINT")
    BY <2>2
  <2> QED BY <2>1, <2>2
<1>3. XFile \in Files /\ CostFile \in Files
  BY DEF Files
<1> HIDE DEF c
<1>4. /\ \A k \in 1..m : InOrder(c[k]) /\ c[k] # ViolationFile
      /\ \A k \in 2..m : Precedes(c[k - 1], c[k])
      /\ \A k \in 1..m : /\ Requested("X") => Precedes(XFile, c[k])
                         /\ Requested("COST") => Precedes(CostFile, c[k])
  BY <1>2, FilesAreDistinct DEF InOrder, Precedes, m
<1>5. /\ XFile # ViolationFile /\ CostFile # ViolationFile
      /\ Requested("X") => InOrder(XFile)
      /\ Requested("COST") => InOrder(CostFile)
      /\ Requested("X") => Precedes(XFile, CostFile)
  BY FilesAreDistinct DEF InOrder, Precedes
<1> HIDE DEF m
<1>6. CASE Requested("X") /\ Requested("COST")
  <2> DEFINE ab == <<XFile>> \o <<CostFile>>
  <2>1. ValueFiles = ab \o c
    BY <1>1, <1>6
  <2>2. <<XFile>> \in Seq(Files) /\ <<CostFile>> \in Seq(Files)
    BY <1>3
  <2>3. ab \in Seq(Files) /\ Len(ab) = 2 /\ ab[1] = XFile /\ ab[2] = CostFile
    BY <2>2, ConcatProperties
  <2> HIDE DEF ab
  <2>4. /\ ValueFiles \in Seq(Files)
        /\ Len(ValueFiles) = m + 2 /\ DOMAIN ValueFiles = 1..m + 2
        /\ ValueFiles[1] = XFile /\ ValueFiles[2] = CostFile
        /\ \A i \in 3..m + 2 : ValueFiles[i] = c[i - 2]
    <3>1. /\ ValueFiles \in Seq(Files) /\ Len(ValueFiles) = 2 + m
          /\ \A i \in 1..2 + m : ValueFiles[i] = IF i <= 2 THEN ab[i] ELSE c[i - 2]
      <4>1. c \in Seq(Files) /\ ab \in Seq(Files)
        BY <1>2, <2>3
      <4>2. /\ ab \o c \in Seq(Files) /\ Len(ab \o c) = Len(ab) + Len(c)
            /\ \A i \in 1..Len(ab) + Len(c) :
                 (ab \o c)[i] = IF i <= Len(ab) THEN ab[i] ELSE c[i - Len(ab)]
        BY <4>1, ConcatProperties
      <4> QED BY <2>1, <2>3, <4>2 DEF m
    <3> QED BY <1>2, <2>3, <3>1, LenProperties
  <2> QED BY <1>2, <1>4, <1>5, <1>6, <2>4
<1>7. CASE Requested("X") /\ ~Requested("COST")
  <2>1. ValueFiles = <<XFile>> \o c
    BY <1>1, <1>7
  <2>2. /\ ValueFiles \in Seq(Files)
        /\ Len(ValueFiles) = m + 1 /\ DOMAIN ValueFiles = 1..m + 1
        /\ ValueFiles[1] = XFile
        /\ \A i \in 2..m + 1 : ValueFiles[i] = c[i - 1]
    BY <1>2, <1>3, <2>1, ConcatProperties DEF m
  <2> QED BY <1>2, <1>4, <1>5, <1>7, <2>2
<1>8. CASE ~Requested("X") /\ Requested("COST")
  <2>1. ValueFiles = <<CostFile>> \o c
    BY <1>1, <1>8
  <2>2. /\ ValueFiles \in Seq(Files)
        /\ Len(ValueFiles) = m + 1 /\ DOMAIN ValueFiles = 1..m + 1
        /\ ValueFiles[1] = CostFile
        /\ \A i \in 2..m + 1 : ValueFiles[i] = c[i - 1]
    BY <1>2, <1>3, <2>1, ConcatProperties DEF m
  <2> QED BY <1>2, <1>4, <1>5, <1>8, <2>2
<1>9. CASE ~Requested("X") /\ ~Requested("COST")
  <2>1. ValueFiles = c
    BY <1>1, <1>2, <1>9, ConcatEmptySeq
  <2> QED BY <1>2, <1>4, <2>1 DEF m
<1> QED BY <1>6, <1>7, <1>8, <1>9

\* FileOrder goes on with that of the violation, if it is written.
LEMMA OrderIsKept ==
  /\ \A i \in DOMAIN FileOrder : InOrder(FileOrder[i])
  /\ \A i \in 2..Len(FileOrder) : Precedes(FileOrder[i - 1], FileOrder[i])
  /\ DOMAIN FileOrder = 1..Len(FileOrder) /\ Len(FileOrder) \in Nat
<1> DEFINE v == ValueFiles
           n == Len(v)
<1>1. /\ v \in Seq(Files) /\ n \in Nat /\ DOMAIN v = 1..n
      /\ \A i \in 1..n : InOrder(v[i]) /\ v[i] # ViolationFile
      /\ \A i \in 2..n : Precedes(v[i - 1], v[i])
  BY ValueOrderIsKept
<1>2. FileOrder = v \o (IF LogsViolation THEN <<ViolationFile>> ELSE <<>>)
  BY DEF FileOrder
<1> HIDE DEF v
<1>3. CASE LogsViolation
  <2>1. <<ViolationFile>> \in Seq(Files)
    BY DEF Files
  <2>2. FileOrder = v \o <<ViolationFile>>
    BY <1>2, <1>3
  <2>3. /\ Len(FileOrder) = n + 1 /\ DOMAIN FileOrder = 1..n + 1
        /\ FileOrder[n + 1] = ViolationFile
        /\ \A i \in 1..n : FileOrder[i] = v[i]
    BY <1>1, <2>1, <2>2, ConcatProperties
  <2>4. InOrder(ViolationFile)
    BY <1>3 DEF InOrder
  <2>5. \A i \in 1..n : Precedes(v[i], ViolationFile)
    BY <1>1 DEF Precedes
  <2> HIDE DEF n
  <2>6. \A i \in 1..n + 1 : InOrder(FileOrder[i])
    BY <1>1, <2>3, <2>4
  <2>7. ASSUME NEW i \in 2..n + 1 PROVE Precedes(FileOrder[i - 1], FileOrder[i])
    <3>1. i - 1 \in 1..n /\ (i \in 2..n \/ i = n + 1)
      BY <1>1
    <3>2. CASE i \in 2..n
      BY <1>1, <2>3, <3>1, <3>2
    <3>3. CASE i = n + 1
      BY <2>3, <2>5, <3>1, <3>3
    <3> QED BY <3>1, <3>2, <3>3
  <2> QED BY <1>1, <2>3, <2>6, <2>7
<1>4. CASE ~LogsViolation
  <2>1. FileOrder = v
    BY <1>1, <1>2, <1>4, ConcatEmptySeq
  <2> QED BY <1>1, <2>1
<1> QED BY <1>3, <1>4

-----------------------------------------------------------------------------
(* The invariant. *)

\* Where a call is, and what it has evaluated of the constraints so far.
Progress ==
  /\ callId \in Nat /\ stage \in Stages
  /\ stage \in {"constraint", "jacobian"} => constraint \in ConstraintIds
  /\ Requested("CONSTRAINT") /\ given = Unknown =>
       /\ stage = "constraint" => evaluated = 1..constraint - 1
       /\ stage = "jacobian" => evaluated = 1..constraint
       /\ stage = "violation" => evaluated = ConstraintIds
  /\ stage \in {"constraint", "jacobian", "violation"} => ProcessesConstraints

\* Rows are of calls up to the running one, and of that one only in the
\* files whose stage it has passed; of these a file requested has one, until
\* the call is over.
RowsAreRecent ==
  /\ DOMAIN rows = Files
  /\ \A f \in Files : IsSequence(rows[f]) /\ Increasing(rows[f])
  /\ \A f \in Files : \A i \in DOMAIN rows[f] :
       /\ rows[f][i].call \in 0..callId
       /\ rows[f][i].call = callId => Passed(f)
  /\ stage # "done" => \A f \in Files : InOrder(f) /\ Passed(f) => callId \in CallsIn(f)

RowsAreCut == \A f, g \in Files : Precedes(f, g) => CallsIn(g) \subseteq CallsIn(f)

\* RowsAlign in the middle of a call, too.
Aligned ==
  failed = {} => \A f \in Files : InOrder(f) =>
    /\ Len(rows[f]) = callId + (IF Passed(f) THEN 1 ELSE 0)
    /\ \A n \in DOMAIN rows[f] : rows[f][n].call = n - 1

\* The directory the running call is going to empty is its own.
JacobiansArePast ==
  stage \in {"idle", "directory"} => \A j \in jacobians : j[1] < callId

JacobiansAreRecent == \A j \in jacobians : j[1] \in 0..callId

\* The rows of the violation are written with the constraints or not at all.
NotWritten == LogsViolation \/ rows[ViolationFile] = <<>>

RowsInv == RowsAreRecent /\ RowsAreCut /\ Aligned
LoggerIInv ==
  /\ Progress /\ RowsInv /\ NotWritten
  /\ JacobiansArePast /\ JacobiansAreRecent
  /\ LoggedViolationIsTrue

\* No call has run, and nothing is logged.
LEMMA LoggerInitIInv == LoggerInit => LoggerIInv
<1> SUFFICES ASSUME LoggerInit PROVE LoggerIInv
  OBVIOUS
<1>1. \A f \in Files : rows[f] = <<>>
  BY DEF LoggerInit
<1>2. /\ IsSequence(<<>>) /\ DOMAIN <<>> = {} /\ Len(<<>>) = 0
  BY EmptySeq DEF IsSequence
<1>3. /\ callId = 0 /\ stage = "idle" /\ DOMAIN rows = Files /\ jacobians = {}
  BY DEF LoggerInit
<1>4. Progress /\ JacobiansArePast /\ JacobiansAreRecent
  BY <1>3 DEF Progress, JacobiansArePast, JacobiansAreRecent, Stages
<1>5. \A f \in Files : ~Passed(f)
  BY <1>3 DEF Passed
<1>6. RowsAreRecent
  BY <1>1, <1>2, <1>3, <1>5 DEF RowsAreRecent, Increasing
<1>7. RowsAreCut
  BY <1>1, <1>2 DEF RowsAreCut, CallsIn
<1>8. Aligned
  BY <1>1, <1>2, <1>3, <1>5 DEF Aligned
<1>9. LoggedViolationIsTrue
  BY <1>1, <1>2 DEF LoggedViolationIsTrue, Files
<1>10. NotWritten
  BY <1>1 DEF NotWritten, Files
<1> QED BY <1>4, <1>6, <1>7, <1>8, <1>9, <1>10 DEF LoggerIInv, RowsInv

-----------------------------------------------------------------------------
(* What a step does to the rows: nothing, or one more in one file. *)

\* A step that writes nothing and passes no stage, or cuts the call short.
LEMMA QuietStep ==
  ASSUME RowsInv, UNCHANGED <<callId, rows>>, failed \subseteq failed',
         \A f \in Files : Passed(f) => Passed(f)',
         \/ /\ stage # "done"
            /\ \A f \in Files : InOrder(f) /\ Passed(f)' => Passed(f)
         \/ stage' = "done" /\ failed' # {}
  PROVE  RowsInv'
<1>1. ASSUME NEW f PROVE CallsIn(f)' = CallsIn(f) /\ InOrder(f)' = InOrder(f)
  BY DEF CallsIn, InOrder
<1>2. RowsAreRecent'
  BY <1>1 DEF RowsInv, RowsAreRecent
<1>3. RowsAreCut'
  BY <1>1 DEF RowsInv, RowsAreCut, Precedes
<1>4. Aligned'
  BY <1>1 DEF RowsInv, Aligned
<1> QED BY <1>2, <1>3, <1>4 DEF RowsInv

\* A step that passes the stage of f and writes its row.
LEMMA WritingStep ==
  ASSUME RowsInv, callId \in Nat, UNCHANGED <<callId, failed>>,
         NEW f \in Files, NEW row, row.call = callId, Write(f, row),
         ~Passed(f), Passed(f)', stage # "done",
         \A g \in Files : Passed(g) => Passed(g)',
         \A g \in Files : g # f /\ InOrder(g) /\ Passed(g)' => Passed(g),
         \A g \in Files : Precedes(g, f) => Passed(g)
  PROVE  RowsInv'
<1> DEFINE s == rows[f]
           t == Append(s, row)
           n == Len(s)
<1>1. /\ rows' = [rows EXCEPT ![f] = t] /\ DOMAIN rows = Files /\ DOMAIN rows' = Files
      /\ rows'[f] = t /\ \A g \in Files : g # f => rows'[g] = rows[g]
  BY DEF Write, RowsInv, RowsAreRecent
<1>2. /\ IsSequence(t) /\ n \in Nat /\ DOMAIN s = 1..n
      /\ Len(t) = n + 1 /\ DOMAIN t = 1..n + 1
      /\ \A i \in 1..n : t[i] = s[i]
      /\ t[n + 1] = row
  <2>1. IsSequence(s)
    BY DEF RowsInv, RowsAreRecent
  <2> QED BY <2>1, Appended
<1>3. /\ Increasing(s)
      /\ \A i \in 1..n : s[i].call \in 0..callId /\ s[i].call # callId
  BY <1>2 DEF RowsInv, RowsAreRecent
<1> HIDE DEF s, t, n
<1>4. Increasing(t)
  <2> SUFFICES ASSUME NEW i \in 1..n + 1, NEW j \in 1..n + 1, i < j
               PROVE  t[i].call < t[j].call
    BY <1>2 DEF Increasing
  <2>1. CASE j \in 1..n
    BY SMTT(30), <1>2, <1>3, <2>1 DEF Increasing
  <2>2. CASE j = n + 1
    BY <1>2, <1>3, <2>2
  <2> QED BY <1>2, <2>1, <2>2
<1>5. \A i \in DOMAIN t : t[i].call \in 0..callId
  <2> SUFFICES ASSUME NEW i \in 1..n + 1 PROVE t[i].call \in 0..callId
    BY <1>2
  <2>1. i \in 1..n \/ i = n + 1
    BY <1>2
  <2> QED BY <1>2, <1>3, <2>1
<1>6. CallsIn(f)' = CallsIn(f) \cup {callId}
  <2>1. CallsIn(f) = {s[i].call : i \in 1..n}
    BY <1>2 DEF CallsIn, s
  <2>2. CallsIn(f)' = {t[i].call : i \in 1..n + 1}
    BY <1>1, <1>2 DEF CallsIn
  <2>3. \A i \in 1..n + 1 : i \in 1..n \/ i = n + 1
    BY <1>2
  <2>4. n + 1 \in 1..n + 1 /\ 1..n \subseteq 1..n + 1
    BY <1>2
  <2> QED BY <1>2, <2>1, <2>2, <2>3, <2>4
<1>7. \A g \in Files : g # f => CallsIn(g)' = CallsIn(g)
  BY <1>1 DEF CallsIn
<1>8. \A g : InOrder(g)' = InOrder(g)
  BY DEF InOrder
<1>9. RowsAreRecent'
  <2>1. ASSUME NEW g \in Files
        PROVE  /\ IsSequence(rows'[g]) /\ Increasing(rows'[g])
               /\ \A i \in DOMAIN rows'[g] :
                    /\ rows'[g][i].call \in 0..callId
                    /\ rows'[g][i].call = callId => Passed(g)'
               /\ InOrder(g) /\ Passed(g)' => callId \in CallsIn(g)'
    <3>1. CASE g = f
      BY <1>1, <1>2, <1>4, <1>5, <1>6, <3>1
    <3>2. CASE g # f
      BY <1>1, <1>7, <3>2 DEF RowsInv, RowsAreRecent
    <3> QED BY <3>1, <3>2
  <2> QED BY <1>1, <1>8, <2>1 DEF RowsAreRecent
<1>10. RowsAreCut'
  <2> SUFFICES ASSUME NEW g \in Files, NEW h \in Files, Precedes(g, h)
               PROVE  CallsIn(h)' \subseteq CallsIn(g)'
    BY DEF RowsAreCut, Precedes, InOrder
  <2>1. CallsIn(h) \subseteq CallsIn(g)
    BY DEF RowsInv, RowsAreCut
  <2>2. CASE h # f
    BY <1>6, <1>7, <2>1, <2>2
  <2>3. CASE h = f /\ g # f
    <3>1. callId \in CallsIn(g)
      BY <2>3 DEF RowsInv, RowsAreRecent, Precedes
    <3> QED BY <1>6, <1>7, <2>1, <2>3, <3>1
  <2> QED BY <2>2, <2>3
<1>11. Aligned'
  <2> SUFFICES ASSUME failed = {}, NEW g \in Files, InOrder(g)
               PROVE  /\ Len(rows'[g]) = callId + (IF Passed(g)' THEN 1 ELSE 0)
                      /\ \A i \in DOMAIN rows'[g] : rows'[g][i].call = i - 1
    BY <1>8 DEF Aligned
  <2>1. /\ Len(rows[g]) = callId + (IF Passed(g) THEN 1 ELSE 0)
        /\ \A i \in DOMAIN rows[g] : rows[g][i].call = i - 1
    BY DEF RowsInv, Aligned
  <2>2. CASE g # f
    BY <1>1, <2>1, <2>2
  <2>3. CASE g = f
    <3>1. n = callId /\ \A i \in 1..n : s[i].call = i - 1
      BY <1>2, <2>1, <2>3 DEF n, s
    <3>2. ASSUME NEW i \in 1..n + 1 PROVE t[i].call = i - 1
      <4>1. i \in 1..n \/ i = n + 1
        BY <1>2
      <4> QED BY <1>2, <3>1, <4>1
    <3> QED BY <1>1, <1>2, <2>3, <3>1, <3>2
  <2> QED BY <2>2, <2>3
<1> QED BY <1>9, <1>10, <1>11 DEF RowsInv

\* The end of a call: all files are behind it, none of the next one's is.
LEMMA EndStep ==
  ASSUME RowsInv, callId \in Nat, End
  PROVE  RowsInv'
<1>1. /\ stage = "done" /\ stage' = "idle" /\ callId' = callId + 1
      /\ UNCHANGED <<rows, failed>>
  BY DEF End, Goto, Advance
<1>2. \A f \in Files : Passed(f) /\ ~Passed(f)'
  BY <1>1 DEF Passed, Files
<1>3. \A f : CallsIn(f)' = CallsIn(f) /\ InOrder(f)' = InOrder(f)
  BY <1>1 DEF CallsIn, InOrder
<1>4. RowsAreRecent'
  <2>1. \A f \in Files : \A i \in DOMAIN rows[f] :
          rows[f][i].call \in 0..callId' /\ rows[f][i].call # callId'
    BY <1>1 DEF RowsInv, RowsAreRecent
  <2> QED BY <1>1, <1>2, <2>1 DEF RowsInv, RowsAreRecent
<1>5. RowsAreCut'
  BY <1>3 DEF RowsInv, RowsAreCut, Precedes
<1>6. Aligned'
  BY <1>1, <1>2, <1>3 DEF RowsInv, Aligned
<1> QED BY <1>4, <1>5, <1>6 DEF RowsInv

-----------------------------------------------------------------------------
(* The actions. *)

\* Which files a call has passed, at each stage.
LEMMA PassedFiles ==
  LET Now == /\ Passed(XFile) <=> stage \notin {"idle", "directory", "x"}
             /\ Passed(CostFile) <=> stage \notin {"idle", "directory", "x", "cost"}
             /\ \A k \in ConstraintIds : Passed(ConstraintFile(k)) <=>
                  \/ stage \in {"violation", "done"}
                  \/ stage = "jacobian" /\ k <= constraint
                  \/ stage = "constraint" /\ k < constraint
             /\ Passed(ViolationFile) <=> stage = "done"
  IN Now /\ Now'
<1>1. /\ Passed(XFile) <=> stage \notin {"idle", "directory", "x"}
      /\ Passed(CostFile) <=> stage \notin {"idle", "directory", "x", "cost"}
      /\ Passed(ViolationFile) <=> stage = "done"
  BY FilesAreDistinct DEF Passed
<1>2. /\ Passed(XFile)' <=> stage' \notin {"idle", "directory", "x"}
      /\ Passed(CostFile)' <=> stage' \notin {"idle", "directory", "x", "cost"}
      /\ Passed(ViolationFile)' <=> stage' = "done"
  BY FilesAreDistinct DEF Passed
<1>3. ASSUME NEW k \in ConstraintIds
      PROVE  /\ Passed(ConstraintFile(k)) <=>
                  \/ stage \in {"violation", "done"}
                  \/ stage = "jacobian" /\ k <= constraint
                  \/ stage = "constraint" /\ k < constraint
             /\ Passed(ConstraintFile(k))' <=>
                  \/ stage' \in {"violation", "done"}
                  \/ stage' = "jacobian" /\ k <= constraint'
                  \/ stage' = "constraint" /\ k < constraint'
  BY FilesAreDistinct DEF Passed
<1> QED BY <1>1, <1>2, <1>3

\* Every file is one of these.
LEMMA FileKinds ==
  /\ {XFile, CostFile, ViolationFile} \subseteq Files
  /\ \A k \in ConstraintIds : ConstraintFile(k) \in Files
  /\ \A f \in Files : \/ f \in {XFile, CostFile, ViolationFile}
                      \/ \E k \in ConstraintIds : f = ConstraintFile(k)
BY DEF Files

\* A call begins with a new argument and nothing logged of it.
LEMMA BeginIInv ==
  ASSUME LoggerIInv, NEW g \in Violations \cup {Unknown},
         NEW a \in [ConstraintIds -> Violations], Begin(g, a)
  PROVE  LoggerIInv'
<1>1. /\ stage = "idle" /\ stage' = "directory"
      /\ UNCHANGED <<callId, constraint, evaluated, rows, jacobians, failed>>
  BY DEF Begin, Goto
<1>2. \A f \in Files : Passed(f)' <=> Passed(f)
  BY <1>1, PassedFiles, FileKinds
<1>3. RowsInv'
  BY <1>1, <1>2, QuietStep DEF LoggerIInv
<1> QED BY <1>1, <1>3
  DEF LoggerIInv, Progress, Stages, JacobiansArePast, JacobiansAreRecent, LoggedViolationIsTrue, NotWritten

\* The directory that is emptied held nothing yet.
LEMMA CreateDirectoryIInv ==
  ASSUME LoggerIInv, CreateDirectory
  PROVE  LoggerIInv'
<1>1. /\ stage = "directory" /\ stage' = "x" /\ jacobians' \subseteq jacobians
      /\ UNCHANGED <<callId, constraint, given, evaluated, rows, failed>>
  BY DEF CreateDirectory, Goto, UnchangedCall
<1>2. \A f \in Files : Passed(f)' <=> Passed(f)
  BY <1>1, PassedFiles, FileKinds
<1>3. RowsInv'
  BY <1>1, <1>2, QuietStep DEF LoggerIInv
<1> QED BY <1>1, <1>3
  DEF LoggerIInv, Progress, Stages, JacobiansArePast, JacobiansAreRecent, LoggedViolationIsTrue, NotWritten

\* The row of the argument.
LEMMA LogXIInv ==
  ASSUME LoggerIInv, LogX
  PROVE  LoggerIInv'
<1>1. /\ stage = "x" /\ stage' = "cost"
      /\ UNCHANGED <<callId, constraint, given, evaluated, jacobians, failed>>
      /\ IF Requested("X") THEN Write(XFile, Row) ELSE UNCHANGED rows
  BY DEF LogX, Goto, UnchangedCall
<1>2. /\ \A f \in Files : f # XFile => (Passed(f)' <=> Passed(f))
      /\ ~Passed(XFile) /\ Passed(XFile)'
  BY <1>1, PassedFiles, FileKinds
<1>3. RowsInv'
  <2>1. CASE Requested("X")
    <3>1. \A g \in Files : ~Precedes(g, XFile)
      BY FilesAreDistinct DEF Precedes
    <3>2. XFile \in Files /\ Row.call = callId /\ callId \in Nat
      BY FileKinds DEF Row, LoggerIInv, Progress
    <3> QED BY <1>1, <1>2, <2>1, <3>1, <3>2, WritingStep DEF LoggerIInv
  <2>2. CASE ~Requested("X")
    <3>1. ~InOrder(XFile)
      BY <2>2, FilesAreDistinct DEF InOrder
    <3> QED BY <1>1, <1>2, <2>2, <3>1, QuietStep DEF LoggerIInv
  <2> QED BY <2>1, <2>2
<1>4. rows'[ViolationFile] = rows[ViolationFile]
  BY <1>1, FilesAreDistinct, FileKinds DEF Write, LoggerIInv, RowsInv, RowsAreRecent
<1> QED BY <1>1, <1>3, <1>4
  DEF LoggerIInv, Progress, Stages, JacobiansArePast, JacobiansAreRecent, LoggedViolationIsTrue, NotWritten

\* The row of the cost, after which the call may be over.
LEMMA LogCostIInv ==
  ASSUME LoggerIInv, LogCost
  PROVE  LoggerIInv'
<1>1. /\ stage = "cost"
      /\ stage' = IF ProcessesConstraints THEN "constraint" ELSE "done"
      /\ constraint' = 1 /\ evaluated' = {}
      /\ UNCHANGED <<callId, given, jacobians, failed>>
      /\ IF Requested("COST") THEN Write(CostFile, Row) ELSE UNCHANGED rows
  BY DEF LogCost, Goto, UnchangedCall
<1>2. ProcessesConstraints => 1 \in ConstraintIds
  BY ConstraintsAssumption DEF ProcessesConstraints, ConstraintIds
<1>3. /\ \A f \in Files : Passed(f) => Passed(f)'
      /\ ~Passed(CostFile) /\ Passed(CostFile)'
  BY <1>1, PassedFiles, FileKinds
<1>4. ASSUME NEW f \in Files, f # CostFile, InOrder(f), Passed(f)' PROVE Passed(f)
  <2>1. CASE f = XFile
    BY <1>1, <2>1, PassedFiles
  <2>2. ASSUME NEW k \in ConstraintIds, f = ConstraintFile(k) PROVE FALSE
    <3>1. Requested("CONSTRAINT")
      BY <1>4, <2>2, FilesAreDistinct DEF InOrder
    <3>2. NbConstraints > 0
      BY ConstraintsAssumption DEF ConstraintIds
    <3>3. stage' = "constraint"
      BY <1>1, <3>1, <3>2 DEF ProcessesConstraints
    <3>4. k < 1
      BY <1>1, <1>4, <2>2, <3>3, PassedFiles
    <3> QED BY <3>4, ConstraintsAssumption DEF ConstraintIds
  <2>3. f # ViolationFile
    <3>1. ProcessesConstraints => ~Passed(ViolationFile)'
      BY <1>1, PassedFiles
    <3>2. InOrder(ViolationFile) => ProcessesConstraints
      BY FilesAreDistinct DEF InOrder, LogsViolation
    <3> QED BY <1>4, <3>1, <3>2
  <2> QED BY <1>4, <2>1, <2>2, <2>3 DEF InOrder
<1>5. RowsInv'
  <2>1. CASE Requested("COST")
    <3>1. \A g \in Files : Precedes(g, CostFile) => Passed(g)
      <4>1. \A g \in Files : Precedes(g, CostFile) => g = XFile
        BY FilesAreDistinct DEF Precedes
      <4> QED BY <1>1, <4>1, PassedFiles
    <3>2. CostFile \in Files /\ Row.call = callId /\ callId \in Nat
      BY FileKinds DEF Row, LoggerIInv, Progress
    <3> QED BY <1>1, <1>3, <1>4, <2>1, <3>1, <3>2, WritingStep DEF LoggerIInv
  <2>2. CASE ~Requested("COST")
    <3>1. ~InOrder(CostFile)
      BY <2>2, FilesAreDistinct DEF InOrder
    <3> QED BY <1>1, <1>3, <1>4, <2>2, <3>1, QuietStep DEF LoggerIInv
  <2> QED BY <2>1, <2>2
<1>6. rows'[ViolationFile] = rows[ViolationFile]
  BY <1>1, FilesAreDistinct, FileKinds DEF Write, LoggerIInv, RowsInv, RowsAreRecent
<1>7. Progress'
  BY <1>1, <1>2 DEF LoggerIInv, Progress, Stages
<1> QED BY <1>1, <1>5, <1>6, <1>7
  DEF LoggerIInv, JacobiansArePast, JacobiansAreRecent, LoggedViolationIsTrue, NotWritten

\* The row of one constraint, which is evaluated with it.
LEMMA LogConstraintIInv ==
  ASSUME LoggerIInv, LogConstraint
  PROVE  LoggerIInv'
<1> DEFINE f == ConstraintFile(constraint)
<1>1. /\ stage = "constraint" /\ stage' = "jacobian"
      /\ UNCHANGED <<callId, constraint, given, jacobians, failed>>
      /\ IF Requested("CONSTRAINT")
         THEN /\ Write(f, Row)
              /\ evaluated' = IF given = Unknown THEN evaluated \cup {constraint}
                              ELSE evaluated
         ELSE UNCHANGED <<rows, evaluated>>
  BY DEF LogConstraint, Goto, UnchangedCall
<1>2. PICK c \in ConstraintIds : c = constraint
  BY <1>1 DEF LoggerIInv, Progress
<1>3. ConstraintIds \subseteq Nat \ {0}
  BY ConstraintsAssumption DEF ConstraintIds
<1>4. /\ \A g \in Files : g # ConstraintFile(c) => (Passed(g)' <=> Passed(g))
      /\ ~Passed(ConstraintFile(c)) /\ Passed(ConstraintFile(c))'
  <2>1. \A k \in ConstraintIds : k # c => (k <= c <=> k < c)
    BY <1>3
  <2>2. ~(c < c) /\ c <= c
    BY <1>3
  <2> QED BY <1>1, <1>2, <2>1, <2>2, PassedFiles, FileKinds
<1>5. RowsInv'
  <2>1. CASE Requested("CONSTRAINT")
    <3>1. ASSUME NEW g \in Files, Precedes(g, ConstraintFile(c)) PROVE Passed(g)
      <4>1. \/ g \in {XFile, CostFile}
            \/ \E j \in ConstraintIds : j < c /\ g = ConstraintFile(j)
        BY <3>1, FilesAreDistinct DEF Precedes
      <4> QED BY <1>1, <1>2, <4>1, PassedFiles
    <3>2. /\ ConstraintFile(c) \in Files /\ Row.call = callId /\ callId \in Nat
          /\ Write(ConstraintFile(c), Row)
      BY <1>1, <1>2, <2>1, FileKinds DEF Row, LoggerIInv, Progress
    <3> QED BY <1>1, <1>4, <2>1, <3>1, <3>2, WritingStep DEF LoggerIInv
  <2>2. CASE ~Requested("CONSTRAINT")
    <3>1. ~InOrder(ConstraintFile(c))
      BY <2>2, FilesAreDistinct DEF InOrder
    <3> QED BY <1>1, <1>4, <2>2, <3>1, QuietStep DEF LoggerIInv
  <2> QED BY <2>1, <2>2
<1>6. rows'[ViolationFile] = rows[ViolationFile]
  BY <1>1, <1>2, FilesAreDistinct, FileKinds DEF Write, LoggerIInv, RowsInv, RowsAreRecent
<1>7. Progress'
  <2>1. ASSUME Requested("CONSTRAINT"), given = Unknown
        PROVE  evaluated' = 1..constraint
    <3>1. evaluated' = (1..c - 1) \cup {c}
      BY <1>1, <1>2, <2>1 DEF LoggerIInv, Progress
    <3>2. (1..c - 1) \cup {c} = 1..c
      BY <1>3
    <3> QED BY <1>2, <3>1, <3>2
  <2> QED BY <1>1, <1>2, <2>1 DEF LoggerIInv, Progress, Stages
<1> QED BY <1>1, <1>5, <1>6, <1>7
  DEF LoggerIInv, JacobiansArePast, JacobiansAreRecent, LoggedViolationIsTrue, NotWritten

\* The jacobian of one constraint, and then the next one, or the violation.
LEMMA LogJacobianIInv ==
  ASSUME LoggerIInv, LogJacobian
  PROVE  LoggerIInv'
<1>1. /\ stage = "jacobian"
      /\ constraint' = IF IsLast(constraint) THEN 1 ELSE constraint + 1
      /\ stage' = IF IsLast(constraint) THEN "violation" ELSE "constraint"
      /\ jacobians' \subseteq jacobians \cup {<<callId, constraint>>}
      /\ UNCHANGED <<callId, given, evaluated, rows, failed>>
  BY DEF LogJacobian, Goto, UnchangedCall
<1>2. /\ constraint \in ConstraintIds /\ NbConstraints \in Nat
      /\ ConstraintIds = 1..NbConstraints
  BY <1>1, ConstraintsAssumption DEF LoggerIInv, Progress, ConstraintIds
<1>3. \A f \in Files : Passed(f)' <=> Passed(f)
  <2>1. CASE IsLast(constraint)
    <3>1. \A k \in ConstraintIds : k <= constraint
      BY <1>2, <2>1 DEF IsLast
    <3> QED BY <1>1, <2>1, <3>1, PassedFiles, FileKinds
  <2>2. CASE ~IsLast(constraint)
    <3>1. \A k \in ConstraintIds : k <= constraint <=> k < constraint'
      BY <1>1, <1>2, <2>2
    <3> QED BY <1>1, <2>2, <3>1, PassedFiles, FileKinds
  <2> QED BY <2>1, <2>2
<1>4. RowsInv'
  BY <1>1, <1>3, QuietStep DEF LoggerIInv
<1>5. Progress'
  <2>1. CASE IsLast(constraint)
    BY <1>1, <1>2, <2>1 DEF LoggerIInv, Progress, Stages, IsLast
  <2>2. CASE ~IsLast(constraint)
    <3>1. constraint' \in ConstraintIds /\ constraint' - 1 = constraint
      BY <1>1, <1>2, <2>2 DEF IsLast
    <3> QED BY <1>1, <2>2, <3>1 DEF LoggerIInv, Progress, Stages
  <2> QED BY <2>1, <2>2
<1>6. JacobiansArePast' /\ JacobiansAreRecent'
  BY <1>1 DEF LoggerIInv, Progress, JacobiansArePast, JacobiansAreRecent
<1> QED BY <1>1, <1>4, <1>5, <1>6 DEF LoggerIInv, LoggedViolationIsTrue, NotWritten

\* The row of the violation: by now all constraints were evaluated, if they
\* are logged and the solver does not know the violation.
LEMMA LogViolationIInv ==
  ASSUME LoggerIInv, LogViolation
  PROVE  LoggerIInv'
<1> DEFINE row == [Row EXCEPT !.value = CstrViol, !.expected = TrueViolation]
<1>1. /\ stage = "violation" /\ stage' = "done"
      /\ UNCHANGED <<callId, constraint, given, evaluated, jacobians, failed>>
      /\ IF Requested("VIOLATION") THEN Write(ViolationFile, row) ELSE UNCHANGED rows
  BY DEF LogViolation, Goto, UnchangedCall
<1>2. /\ row.call = callId /\ row.value = CstrViol /\ row.expected = TrueViolation
  BY DEF Row
<1> HIDE DEF row
<1>3. /\ \A g \in Files : g # ViolationFile => (Passed(g)' <=> Passed(g))
      /\ ~Passed(ViolationFile) /\ Passed(ViolationFile)'
      /\ \A g \in Files : g # ViolationFile /\ InOrder(g) => Passed(g)
  <2>1. /\ \A g \in Files : g # ViolationFile => (Passed(g)' <=> Passed(g))
        /\ ~Passed(ViolationFile) /\ Passed(ViolationFile)'
    BY <1>1, PassedFiles, FileKinds
  <2>2. Passed(XFile) /\ Passed(CostFile)
    BY <1>1, PassedFiles
  <2>3. \A k \in ConstraintIds : Passed(ConstraintFile(k))
    BY <1>1, PassedFiles
  <2>4. \A g \in Files : g # ViolationFile => Passed(g)
    BY <2>2, <2>3, FileKinds
  <2> QED BY <2>1, <2>4
<1>4. RowsInv'
  <2>1. CASE Requested("VIOLATION")
    <3>1. \A g \in Files : Precedes(g, ViolationFile) => Passed(g)
      <4>1. \A g \in Files : Precedes(g, ViolationFile) => g # ViolationFile /\ InOrder(g)
        BY FilesAreDistinct DEF Precedes
      <4> QED BY <1>3, <4>1
    <3>2. ViolationFile \in Files /\ callId \in Nat
      BY FileKinds DEF LoggerIInv, Progress
    <3> QED BY <1>1, <1>2, <1>3, <2>1, <3>1, <3>2, WritingStep DEF LoggerIInv
  <2>2. CASE ~Requested("VIOLATION")
    <3>1. ~InOrder(ViolationFile)
      BY <2>2, FilesAreDistinct DEF InOrder, LogsViolation
    <3> QED BY <1>1, <1>3, <2>2, <3>1, QuietStep DEF LoggerIInv
  <2> QED BY <2>1, <2>2
<1>5. LoggedViolationIsTrue'
  <2> SUFFICES ASSUME Requested("CONSTRAINT"), NEW i \in DOMAIN rows'[ViolationFile]
               PROVE  rows'[ViolationFile][i].value = rows'[ViolationFile][i].expected
    BY DEF LoggedViolationIsTrue
  <2> DEFINE s == rows[ViolationFile]
  <2>1. \A j \in DOMAIN s : s[j].value = s[j].expected
    BY DEF LoggerIInv, LoggedViolationIsTrue
  <2>2. CASE Requested("VIOLATION")
    <3>1. rows'[ViolationFile] = Append(s, row)
      BY <1>1, <2>2, FileKinds DEF Write, LoggerIInv, RowsInv, RowsAreRecent
    <3>2. IsSequence(s)
      BY FileKinds DEF LoggerIInv, RowsInv, RowsAreRecent
    <3> HIDE DEF s
    <3>3. /\ Len(s) \in Nat /\ DOMAIN s = 1..Len(s)
          /\ DOMAIN Append(s, row) = 1..Len(s) + 1
          /\ \A j \in 1..Len(s) : Append(s, row)[j] = s[j]
          /\ Append(s, row)[Len(s) + 1] = row
      BY <3>2, Appended
    <3>4. CstrViol = TrueViolation
      BY <1>1 DEF LoggerIInv, Progress, CstrViol, TrueViolation
    <3>5. i \in 1..Len(s) \/ i = Len(s) + 1
      BY <3>1, <3>3
    <3> QED BY <1>2, <2>1, <3>1, <3>3, <3>4, <3>5
  <2>3. CASE ~Requested("VIOLATION")
    BY <1>1, <2>1, <2>3
  <2> QED BY <2>2, <2>3
<1>6. NotWritten'
  <2>1. Requested("VIOLATION") => LogsViolation
    BY <1>1 DEF LoggerIInv, Progress, LogsViolation
  <2> QED BY <1>1, <2>1 DEF LoggerIInv, NotWritten
<1> QED BY <1>1, <1>4, <1>5, <1>6
  DEF LoggerIInv, Progress, Stages, JacobiansArePast, JacobiansAreRecent

\* An exception passes all the files of the call, but is remembered.
LEMMA ThrowIInv ==
  ASSUME LoggerIInv, Throw
  PROVE  LoggerIInv'
<1>1. /\ stage \in {"directory", "cost", "constraint", "jacobian"} /\ stage' = "done"
      /\ failed' = failed \cup {callId}
      /\ UNCHANGED <<callId, given, evaluated, rows, jacobians>>
  BY DEF Throw, Goto
<1>2. \A f \in Files : Passed(f)'
  BY <1>1, PassedFiles, FileKinds
<1>3. RowsInv'
  BY <1>1, <1>2, QuietStep DEF LoggerIInv
<1> QED BY <1>1, <1>3
  DEF LoggerIInv, Progress, Stages, JacobiansArePast, JacobiansAreRecent, LoggedViolationIsTrue, NotWritten

\* The number advances, and what was logged is past.
LEMMA EndIInv ==
  ASSUME LoggerIInv, End
  PROVE  LoggerIInv'
<1>1. /\ stage' = "idle" /\ callId' = callId + 1
      /\ UNCHANGED <<given, evaluated, rows, jacobians, failed>>
  BY DEF End, Goto, Advance
<1>2. RowsInv'
  BY EndStep DEF LoggerIInv, Progress
<1>3. Progress'
  BY <1>1 DEF LoggerIInv, Progress, Stages
<1>4. JacobiansArePast' /\ JacobiansAreRecent'
  BY <1>1 DEF LoggerIInv, Progress, JacobiansArePast, JacobiansAreRecent
<1> QED BY <1>1, <1>2, <1>3, <1>4 DEF LoggerIInv, LoggedViolationIsTrue, NotWritten

\* The invariant is inductive.
LEMMA LoggerNextIInv == LoggerIInv /\ [LoggerNext]_loggerVars => LoggerIInv'
<1> SUFFICES ASSUME LoggerIInv, [LoggerNext]_loggerVars PROVE LoggerIInv'
  OBVIOUS
<1>1. CASE UNCHANGED loggerVars
  <2>1. UNCHANGED <<callId, stage, constraint, given, evaluated, rows, jacobians, failed>>
    BY <1>1 DEF loggerVars, local
  <2>2. \A f : Passed(f)' = Passed(f) /\ InOrder(f)' = InOrder(f) /\ CallsIn(f)' = CallsIn(f)
    BY <2>1 DEF Passed, InOrder, CallsIn
  <2>3. RowsInv'
    BY <2>1, <2>2 DEF LoggerIInv, RowsInv, RowsAreRecent, RowsAreCut, Aligned, Precedes
  <2> QED BY <2>1, <2>3
    DEF LoggerIInv, Progress, JacobiansArePast, JacobiansAreRecent, LoggedViolationIsTrue, NotWritten
<1> QED
  BY <1>1, BeginIInv, CreateDirectoryIInv, LogXIInv, LogCostIInv, LogConstraintIInv,
     LogJacobianIInv, LogViolationIInv, ThrowIInv, EndIInv DEF LoggerNext, Log

-----------------------------------------------------------------------------

\* The inductive invariant: where a call is tells which files have its row.
THEOREM LoggerInvariance == LoggerSpec => []LoggerIInv
BY LoggerInitIInv, LoggerNextIInv, PTL DEF LoggerSpec

\* An exception cuts off the tail of a call's rows, never its middle, and no
\* call gets two rows of a file (optimization-logger.hxx:422-560).
THEOREM CutRows == LoggerSpec => []RowsAreCutAtTheEnd
<1>1. LoggerIInv => RowsAreCutAtTheEnd
  <2> SUFFICES ASSUME LoggerIInv PROVE RowsAreCutAtTheEnd
    OBVIOUS
  <2>1. \A f : InOrder(f) => f \in Files
    BY FileKinds DEF InOrder
  <2>2. DOMAIN FileOrder = 1..Len(FileOrder) /\ Len(FileOrder) \in Nat
    BY OrderIsKept
  <2>3. ASSUME NEW i \in 2..Len(FileOrder)
        PROVE  CallsIn(FileOrder[i]) \subseteq CallsIn(FileOrder[i - 1])
    <3>1. i \in DOMAIN FileOrder /\ i - 1 \in DOMAIN FileOrder
      BY <2>2
    <3> QED BY <2>1, <3>1, OrderIsKept DEF LoggerIInv, RowsInv, RowsAreCut
  <2> QED BY <2>3 DEF RowsAreCutAtTheEnd, LoggerIInv, RowsInv, RowsAreRecent
<1> QED BY <1>1, LoggerInvariance, PTL

\* Without an exception row n of every file that calls write is of call n - 1,
\* that of the violation included; it has no row at all if the constraints are
\* not gone through (optimization-logger.hxx:529-542).
THEOREM AlignedRows == LoggerSpec => []RowsAlign
<1>1. LoggerIInv => RowsAlign
  <2> SUFFICES ASSUME LoggerIInv, failed = {}, stage = "idle", NEW i \in DOMAIN FileOrder
               PROVE  /\ Len(rows[FileOrder[i]]) = callId
                      /\ \A n \in DOMAIN rows[FileOrder[i]] :
                           rows[FileOrder[i]][n].call = n - 1
    BY DEF RowsAlign, LoggerIInv, NotWritten
  <2>1. InOrder(FileOrder[i]) /\ FileOrder[i] \in Files
    BY OrderIsKept, FileKinds DEF InOrder
  <2>2. ~Passed(FileOrder[i])
    BY <2>1, PassedFiles DEF InOrder
  <2> QED BY <2>1, <2>2 DEF LoggerIInv, Progress, RowsInv, Aligned
<1> QED BY <1>1, LoggerInvariance, PTL

\* If the constraints are logged with it, the violation logged is the true one.
THEOREM TrueViolations == LoggerSpec => []LoggedViolationIsTrue
<1>1. LoggerIInv => LoggedViolationIsTrue
  BY DEF LoggerIInv
<1> QED BY <1>1, LoggerInvariance, PTL

\* A step of a call adds a row at the end of a file, or none.
LEMMA RowsOnlyGrow ==
  ASSUME LoggerIInv, NEW f \in Files, NEW row, Write(f, row)
  PROVE  \A g \in Files : IsPrefix(rows[g], rows'[g])
<1>1. \A g \in Files : IsSequence(rows[g])
  BY DEF LoggerIInv, RowsInv, RowsAreRecent
<1>2. rows'[f] = Append(rows[f], row) /\ \A g \in Files : g # f => rows'[g] = rows[g]
  BY DEF Write, LoggerIInv, RowsInv, RowsAreRecent
<1>3. IsPrefix(rows[f], Append(rows[f], row))
  <2> DEFINE s == rows[f]
  <2>1. IsSequence(s)
    BY <1>1
  <2> HIDE DEF s
  <2>2. IsPrefix(s, Append(s, row))
    BY <2>1, Appended
  <2> QED BY <2>2 DEF s
<1>4. \A g \in Files : IsPrefix(rows[g], rows[g])
  BY <1>1, PrefixOfItself
<1>5. ASSUME NEW g \in Files PROVE IsPrefix(rows[g], rows'[g])
  <2>1. CASE g = f
    BY <1>2, <1>3, <2>1
  <2>2. CASE g # f
    <3>1. rows'[g] = rows[g]
      BY <1>2, <2>2
    <3> QED BY <1>4, <3>1
  <2> QED BY <2>1, <2>2
<1> QED BY <1>5

\* Whatever is logged stays: also calls that failed keep what they wrote, and
\* the directory a call empties is its own (optimization-logger.hxx:438-453).
THEOREM KeptLogs == LoggerSpec => LogsAreKept
<1>1. ASSUME LoggerIInv, [LoggerNext]_loggerVars
      PROVE  \/ /\ jacobians \subseteq jacobians'
                /\ \A f \in Files : IsPrefix(rows[f], rows'[f])
             \/ UNCHANGED loggerVars
  <2>1. UNCHANGED rows => \A f \in Files : IsPrefix(rows[f], rows'[f])
    BY <1>1, PrefixOfItself DEF LoggerIInv, RowsInv, RowsAreRecent
  <2>2. ASSUME NEW g \in Violations \cup {Unknown}, NEW a \in [ConstraintIds -> Violations],
               Begin(g, a)
        PROVE  UNCHANGED <<rows, jacobians>>
    BY <2>2 DEF Begin
  <2>3. CASE CreateDirectory
    <3>1. \A j \in jacobians : j[1] # callId
      BY <1>1, <2>3 DEF CreateDirectory, LoggerIInv, Progress, JacobiansArePast, JacobiansAreRecent
    <3> QED BY <2>1, <2>3, <3>1 DEF CreateDirectory
  <2>4. CASE LogX
    BY <1>1, <2>1, <2>4, RowsOnlyGrow, FileKinds DEF LogX
  <2>5. CASE LogCost
    BY <1>1, <2>1, <2>5, RowsOnlyGrow, FileKinds DEF LogCost
  <2>6. CASE LogConstraint
    <3>1. constraint \in ConstraintIds
      BY <1>1, <2>6 DEF LogConstraint, LoggerIInv, Progress
    <3> QED BY <1>1, <2>1, <2>6, <3>1, RowsOnlyGrow, FileKinds DEF LogConstraint
  <2>7. CASE LogJacobian
    BY <2>1, <2>7 DEF LogJacobian
  <2>8. CASE LogViolation
    BY <1>1, <2>1, <2>8, RowsOnlyGrow, FileKinds DEF LogViolation
  <2>9. CASE Throw \/ End
    BY <2>1, <2>9 DEF Throw, End
  <2> QED BY <1>1, <2>1, <2>2, <2>3, <2>4, <2>5, <2>6, <2>7, <2>8, <2>9 DEF LoggerNext, Log
<1> QED BY <1>1, LoggerInvariance, PTL DEF LoggerSpec, LogsAreKept

(***************************************************************************)
(* The solver and its logger together.                                     *)
(***************************************************************************)

\* A solver with a logger at work is a solver, and a logger: what was proved of
\* either holds of the two together, whichever observer or member the logger
\* is and whatever becomes of it.
THEOREM LoggedSolverIsBoth == LoggedSpec => Spec /\ LoggerSpec
<1>1. LoggedInit => Init /\ LoggerInit
  BY DEF LoggedInit
<1>2. [LoggedNext]_loggedVars => [Next]_vars /\ [LoggerNext]_loggerVars
  <2>1. Record => UNCHANGED vars /\ LoggerNext
    BY DEF Record, LoggerNext
  <2>2. Recorded => Next /\ LoggerNext
    BY DEF Recorded, Next, LoggerNext
  <2>3. Elsewhere => Next /\ UNCHANGED loggerVars
    BY DEF Elsewhere
  <2>4. UNCHANGED loggedVars => UNCHANGED vars /\ UNCHANGED loggerVars
    BY DEF loggedVars
  <2> QED BY <2>1, <2>2, <2>3, <2>4 DEF LoggedNext
<1> QED BY <1>1, <1>2, PTL DEF LoggedSpec, Spec, LoggerSpec

\* So a living solver refers to no destroyed observer, and the files of its
\* logger can be read side by side, while the observers replace one another.
THEOREM LoggedSolverIsSafe ==
  LoggedSpec => [](CallbackIsAlive /\ RowsAlign /\ RowsAreCutAtTheEnd /\ LoggedViolationIsTrue)
BY LoggedSolverIsBoth, ObserverSafety, AlignedRows, CutRows, TrueViolations, PTL

(***************************************************************************)
(* The factory of solvers.                                                 *)
(***************************************************************************)

StageNames == {"dlinit", "open", "findGetSizeOfProblem",
               "findGetTypeIdOfConstraintsList", "compareSizes",
               "compareTypeIds", "findCreate", "create", "checkSolver"}

\* The stages, and the one after each.
LEMMA StageOrder ==
  /\ ToSet(LoadStages) = StageNames
  /\ \A f \in Factories : Constructing(f) <=> factory[f].stage \in StageNames
  /\ After("dlinit") = "open" /\ After("open") = "findGetSizeOfProblem"
  /\ \A s \in StageNames \ {"dlinit", "open", "checkSolver"} :
       After(s) \in StageNames \ {"dlinit", "open"}
  /\ After("checkSolver") = "constructed"
<1>1. DOMAIN LoadStages = 1..9 /\ Len(LoadStages) = 9
  BY DEF LoadStages
<1>2. /\ LoadStages[1] = "dlinit" /\ LoadStages[2] = "open" /\ LoadStages[3] = "findGetSizeOfProblem"
      /\ LoadStages[4] = "findGetTypeIdOfConstraintsList" /\ LoadStages[5] = "compareSizes"
      /\ LoadStages[6] = "compareTypeIds" /\ LoadStages[7] = "findCreate"
      /\ LoadStages[8] = "create" /\ LoadStages[9] = "checkSolver"
  BY DEF LoadStages
<1>3. \A i \in 1..9 : i = 1 \/ i = 2 \/ i = 3 \/ i = 4 \/ i = 5 \/ i = 6 \/ i = 7 \/ i = 8 \/ i = 9
  OBVIOUS
<1>4. ToSet(LoadStages) = StageNames
  <2>1. \A i \in DOMAIN LoadStages : LoadStages[i] \in StageNames
    BY <1>1, <1>2, <1>3 DEF StageNames
  <2>2. \A s \in StageNames : \E i \in DOMAIN LoadStages : LoadStages[i] = s
    BY <1>1, <1>2 DEF StageNames
  <2> QED BY <2>1, <2>2 DEF ToSet
<1>5. \A f \in Factories : Constructing(f) <=> factory[f].stage \in StageNames
  BY <1>4 DEF Constructing, At, ToSet
<1>6. \A i, j \in 1..9 : LoadStages[i] = LoadStages[j] => i = j
  BY <1>2, <1>3
<1>7. ASSUME NEW i \in 1..9
      PROVE  After(LoadStages[i]) = IF i = 9 THEN "constructed" ELSE LoadStages[i + 1]
  <2> DEFINE j == CHOOSE j \in DOMAIN LoadStages : LoadStages[j] = LoadStages[i]
  <2>1. j = i
    BY <1>1, <1>6
  <2> HIDE DEF j
  <2>2. After(LoadStages[i]) = IF j = Len(LoadStages) THEN "constructed" ELSE LoadStages[j + 1]
    BY DEF After, j
  <2> QED BY <1>1, <2>1, <2>2
<1>8. /\ After("dlinit") = "open" /\ After("open") = "findGetSizeOfProblem"
      /\ After("findGetSizeOfProblem") = "findGetTypeIdOfConstraintsList"
      /\ After("findGetTypeIdOfConstraintsList") = "compareSizes"
      /\ After("compareSizes") = "compareTypeIds"
      /\ After("compareTypeIds") = "findCreate" /\ After("findCreate") = "create"
      /\ After("create") = "checkSolver" /\ After("checkSolver") = "constructed"
  BY <1>2, <1>7
<1> QED BY <1>4, <1>5, <1>8 DEF StageNames

-----------------------------------------------------------------------------
(* The openings of all plug-ins, one by one. *)

OpeningsOf(o) == {x \in Plugins \X (Nat \ {0}) : x[2] <= o[x[1]]}

\* Opening a plug-in adds one.
LEMMA OneMore ==
  ASSUME NEW o \in [Plugins -> Nat], NEW p \in Plugins, IsFiniteSet(OpeningsOf(o))
  PROVE  LET more == [o EXCEPT ![p] = @ + 1]
         IN /\ IsFiniteSet(OpeningsOf(more))
            /\ Cardinality(OpeningsOf(more)) = Cardinality(OpeningsOf(o)) + 1
<1> DEFINE more == [o EXCEPT ![p] = @ + 1]
           x == <<p, o[p] + 1>>
<1>1. x \in Plugins \X (Nat \ {0}) /\ x[1] = p /\ x[2] = o[p] + 1 /\ o[p] \in Nat
  OBVIOUS
<1>2. more[p] = o[p] + 1 /\ \A q \in Plugins : q # p => more[q] = o[q]
  OBVIOUS
<1>3. OpeningsOf(more) = OpeningsOf(o) \cup {x}
  <2>1. ASSUME NEW y \in Plugins \X (Nat \ {0})
        PROVE  y[2] <= more[y[1]] <=> y[2] <= o[y[1]] \/ y = x
    <3>1. y[1] \in Plugins /\ y[2] \in Nat /\ y = <<y[1], y[2]>>
      OBVIOUS
    <3>2. CASE y[1] # p
      BY <1>1, <1>2, <3>1, <3>2
    <3>3. CASE y[1] = p
      <4>1. y[2] <= o[p] + 1 <=> y[2] <= o[p] \/ y[2] = o[p] + 1
        BY <1>1, <3>1
      <4>2. y = x <=> y[2] = o[p] + 1
        BY <3>1, <3>3
      <4> QED BY <1>2, <3>3, <4>1, <4>2
    <3> QED BY <3>2, <3>3
  <2> QED BY <1>1, <2>1 DEF OpeningsOf
<1>4. x \notin OpeningsOf(o)
  BY <1>1 DEF OpeningsOf
<1> HIDE DEF x, more
<1>5. /\ IsFiniteSet(OpeningsOf(o) \cup {x})
      /\ Cardinality(OpeningsOf(o) \cup {x}) = Cardinality(OpeningsOf(o)) + 1
  BY <1>4, FS_AddElement
<1>6. /\ IsFiniteSet(OpeningsOf(more))
      /\ Cardinality(OpeningsOf(more)) = Cardinality(OpeningsOf(o)) + 1
  BY <1>3, <1>5
<1> QED BY <1>6 DEF more

\* Closing one takes one away.
LEMMA OneLess ==
  ASSUME NEW o \in [Plugins -> Nat], NEW p \in Plugins, IsFiniteSet(OpeningsOf(o)),
         o[p] > 0
  PROVE  LET less == [o EXCEPT ![p] = @ - 1]
         IN /\ less \in [Plugins -> Nat]
            /\ IsFiniteSet(OpeningsOf(less))
            /\ Cardinality(OpeningsOf(o)) = Cardinality(OpeningsOf(less)) + 1
<1> DEFINE less == [o EXCEPT ![p] = @ - 1]
<1>1. less \in [Plugins -> Nat] /\ o[p] \in Nat
  OBVIOUS
<1>2. o = [less EXCEPT ![p] = @ + 1]
  <2> DEFINE again == [less EXCEPT ![p] = @ + 1]
  <2>1. less[p] = o[p] - 1 /\ again[p] = less[p] + 1
    OBVIOUS
  <2>2. again[p] = o[p]
    BY <1>1, <2>1
  <2>3. \A q \in Plugins : q # p => again[q] = o[q]
    OBVIOUS
  <2>4. again = [q \in Plugins |-> again[q]] /\ o = [q \in Plugins |-> o[q]]
    OBVIOUS
  <2> QED BY <2>2, <2>3, <2>4
<1>3. OpeningsOf(less) \subseteq OpeningsOf(o)
  <2>1. \A q \in Plugins : less[q] <= o[q] /\ less[q] \in Nat /\ o[q] \in Nat
    OBVIOUS
  <2> QED BY <2>1 DEF OpeningsOf
<1>4. IsFiniteSet(OpeningsOf(less))
  BY <1>3, FS_Subset
<1> HIDE DEF less
<1>5. Cardinality(OpeningsOf(o)) = Cardinality(OpeningsOf(less)) + 1
  BY <1>1, <1>2, <1>4, OneMore
<1> QED BY <1>1, <1>4, <1>5 DEF less

\* No plug-in is opened more often than all are, and none is if all are not.
LEMMA EachIsCounted ==
  ASSUME NEW o \in [Plugins -> Nat], IsFiniteSet(OpeningsOf(o))
  PROVE  /\ Cardinality(OpeningsOf(o)) \in Nat
         /\ \A p \in Plugins : o[p] <= Cardinality(OpeningsOf(o))
         /\ (\A p \in Plugins : o[p] = 0) => Cardinality(OpeningsOf(o)) = 0
<1>1. Cardinality(OpeningsOf(o)) \in Nat
  BY FS_CardinalityType
<1>2. ASSUME NEW p \in Plugins PROVE o[p] <= Cardinality(OpeningsOf(o))
  <2> DEFINE n == o[p]
             f == [i \in 1..n |-> <<p, i>>]
  <2>1. n \in Nat
    OBVIOUS
  <2>2. f \in Injection(1..n, OpeningsOf(o))
    BY <2>1 DEF Injection, IsInjective, OpeningsOf
  <2> HIDE DEF n, f
  <2>3. IsFiniteSet(1..n) /\ Cardinality(1..n) = n
    <3>1. ASSUME NEW k \in Nat PROVE IsFiniteSet(1..k) /\ Cardinality(1..k) = k
      BY FS_Interval
    <3> QED BY <2>1, <3>1
  <2>4. n <= Cardinality(OpeningsOf(o))
    BY <2>2, <2>3, FS_Injection
  <2> QED BY <2>4 DEF n
<1>3. ASSUME \A p \in Plugins : o[p] = 0 PROVE Cardinality(OpeningsOf(o)) = 0
  <2>1. OpeningsOf(o) = {}
    BY <1>3 DEF OpeningsOf
  <2> QED BY <2>1, FS_EmptySet
<1> QED BY <1>1, <1>2, <1>3

-----------------------------------------------------------------------------
(* The inductive invariant. *)

AllStages == StageNames \cup {"none", "constructed", "threw", "destroyed"}
Loaded == StageNames \ {"dlinit", "open"}  \* the plug-in is open

One(b) == IF b THEN 1 ELSE 0
AtOpen == \E f \in Factories : At(f, "open")
Held(p) == \E f \in Factories :
             factory[f].stage \in Loaded /\ factory[f].plugin = p

FactoryTyped == factory \in [Factories -> [stage : AllStages, plugin : Plugins]]
Typed ==
  /\ opened \in [Plugins -> Nat] /\ leaked \in [Plugins -> Nat]
  /\ solver_ \in [Factories -> {"unborn", "alive", "destroyed"}]
  /\ FactoryTyped

OneAtATime ==
  \A f, g \in Factories : Constructing(f) /\ Constructing(g) => f = g

\* libltdl is initialised for each opening, and once before the opening.
Counted ==
  /\ IsFiniteSet(OpeningsOf(opened))
  /\ inits = Cardinality(OpeningsOf(opened)) + One(AtOpen)

\* A plug-in is open for each factory in scope, each leak, and a constructor.
FiniteRefs == \A p \in Plugins : IsFiniteSet(Refs(p))
Referred ==
  \A p \in Plugins :
    opened[p] = Cardinality(Refs(p)) + leaked[p] + One(Held(p))

Scope == \A f \in Factories : Constructed(f) => solver_[f] = "alive"

FactoryIInv == Typed /\ OneAtATime /\ Counted /\ FiniteRefs /\ Referred /\ Scope

-----------------------------------------------------------------------------
(* What an operation does to libltdl. *)

\* Closing a plug-in that is open takes one opening and one initialisation
\* away; that libltdl unloads everything at the last adds nothing to that.
LEMMA Closing ==
  ASSUME NEW p \in Plugins, opened \in [Plugins -> Nat], opened[p] > 0,
         Counted, ~AtOpen, CloseAndExit(p)
  PROVE  /\ opened' = [opened EXCEPT ![p] = @ - 1]
         /\ opened' \in [Plugins -> Nat]
         /\ IsFiniteSet(OpeningsOf(opened'))
         /\ inits' = Cardinality(OpeningsOf(opened'))
<1> DEFINE less == [opened EXCEPT ![p] = @ - 1]
<1>1. /\ less \in [Plugins -> Nat] /\ IsFiniteSet(OpeningsOf(less))
      /\ Cardinality(OpeningsOf(opened)) = Cardinality(OpeningsOf(less)) + 1
  BY OneLess DEF Counted
<1>2. /\ Cardinality(OpeningsOf(less)) \in Nat
      /\ \A q \in Plugins : less[q] <= Cardinality(OpeningsOf(less))
  BY <1>1, EachIsCounted
<1>3. inits' = Cardinality(OpeningsOf(less))
  BY <1>1, <1>2 DEF Counted, CloseAndExit, LoseOne, One
<1>4. \A q \in Plugins : opened'[q] = less[q]
  <2>1. CASE inits' = 0
    <3>1. \A q \in Plugins : opened'[q] = 0
      BY <2>1 DEF CloseAndExit
    <3>2. \A q \in Plugins : less[q] \in Nat /\ less[q] <= 0
      <4> HIDE DEF less
      <4> QED BY <1>1, <1>2, <1>3, <2>1
    <3>3. \A q \in Plugins : less[q] = 0
      <4> HIDE DEF less
      <4> QED BY <3>2
    <3> QED BY <3>1, <3>3
  <2>2. CASE inits' # 0
    BY <2>2 DEF CloseAndExit, LoseOne
  <2> QED BY <2>1, <2>2
<1>5. opened' = less
  BY <1>1, <1>4 DEF CloseAndExit
<1> QED BY <1>1, <1>3, <1>5

\* Undoing an initialisation after which nothing was opened takes only that.
LEMMA Exiting ==
  ASSUME opened \in [Plugins -> Nat], Counted, AtOpen, Exit
  PROVE  opened' = opened /\ inits' = Cardinality(OpeningsOf(opened))
<1>1. /\ Cardinality(OpeningsOf(opened)) \in Nat
      /\ \A q \in Plugins : opened[q] <= Cardinality(OpeningsOf(opened))
  BY EachIsCounted DEF Counted
<1>2. inits' = Cardinality(OpeningsOf(opened))
  BY <1>1 DEF Counted, Exit, LoseOne, One
<1>3. \A q \in Plugins : opened'[q] = opened[q]
  BY <1>1, <1>2 DEF Exit
<1> QED BY <1>2, <1>3 DEF Exit

\* A factory goes to another stage while no other is constructing.
LEMMA Moves ==
  ASSUME FactoryTyped, OneAtATime, FiniteRefs,
         NEW f \in Factories, NEW s \in AllStages, Enter(f, s),
         \A g \in Factories : Constructing(g) => g = f
  PROVE  /\ FactoryTyped' /\ OneAtATime' /\ FiniteRefs'
         /\ AtOpen <=> factory[f].stage = "open"
         /\ AtOpen' <=> s = "open"
         /\ \A p \in Plugins :
              /\ Held(p) <=> factory[f].stage \in Loaded /\ p = factory[f].plugin
              /\ Held(p)' <=> s \in Loaded /\ p = factory[f].plugin
              /\ Cardinality(Refs(p)) \in Nat
              /\ Cardinality(Refs(p)') =
                   Cardinality(Refs(p))
                   + One(p = factory[f].plugin /\ s = "constructed")
                   - One(p = factory[f].plugin /\ Constructed(f))
         /\ \A g \in Factories :
              Constructed(g)' <=> IF g = f THEN s = "constructed" ELSE Constructed(g)
<1>1. /\ FactoryTyped'
      /\ factory'[f].stage = s /\ factory'[f].plugin = factory[f].plugin
      /\ factory[f].plugin \in Plugins
      /\ \A g \in Factories : g # f => factory'[g] = factory[g]
  BY DEF FactoryTyped, Enter
<1>2. \A g \in Factories : g # f => factory[g].stage \notin StageNames
                                    /\ factory'[g].stage \notin StageNames
  BY <1>1, StageOrder
<1>3. OneAtATime'
  <2> SUFFICES ASSUME NEW g \in Factories, NEW h \in Factories,
                      Constructing(g)', Constructing(h)'
               PROVE  g = h
    BY DEF OneAtATime
  <2>1. factory'[g].stage \in StageNames /\ factory'[h].stage \in StageNames
    BY StageOrder DEF Constructing, At, ToSet
  <2> QED BY <1>2, <2>1
<1>4. /\ AtOpen <=> factory[f].stage = "open"
      /\ AtOpen' <=> s = "open"
  BY <1>1, <1>2 DEF AtOpen, At, StageNames
<1>5. ASSUME NEW p \in Plugins
      PROVE  /\ Held(p) <=> factory[f].stage \in Loaded /\ p = factory[f].plugin
             /\ Held(p)' <=> s \in Loaded /\ p = factory[f].plugin
  BY <1>1, <1>2 DEF Held, Loaded
<1>6. \A g \in Factories :
        Constructed(g)' <=> IF g = f THEN s = "constructed" ELSE Constructed(g)
  BY <1>1 DEF Constructed, At
<1>7. ASSUME NEW p \in Plugins
      PROVE  /\ IsFiniteSet(Refs(p)') /\ Cardinality(Refs(p)) \in Nat
             /\ Cardinality(Refs(p)') =
                  Cardinality(Refs(p))
                  + One(p = factory[f].plugin /\ s = "constructed")
                  - One(p = factory[f].plugin /\ Constructed(f))
  <2>1. IsFiniteSet(Refs(p)) /\ Cardinality(Refs(p)) \in Nat
    BY FS_CardinalityType DEF FiniteRefs
  <2>2. \A g \in Factories : factory'[g].plugin = factory[g].plugin
    BY <1>1
  <2>3. CASE p # factory[f].plugin \/ (s = "constructed" <=> Constructed(f))
    <3>1. Refs(p)' = Refs(p)
      BY <1>6, <2>2, <2>3 DEF Refs
    <3> QED BY <2>1, <2>3, <3>1 DEF One
  <2>4. CASE p = factory[f].plugin /\ s = "constructed" /\ ~Constructed(f)
    <3>1. Refs(p)' = Refs(p) \cup {f} /\ f \notin Refs(p)
      BY <1>6, <2>2, <2>4 DEF Refs
    <3>2. IsFiniteSet(Refs(p)') /\ Cardinality(Refs(p)') = Cardinality(Refs(p)) + 1
      BY <2>1, <3>1, FS_AddElement
    <3> QED BY <2>1, <2>4, <3>2 DEF One
  <2>5. CASE p = factory[f].plugin /\ s # "constructed" /\ Constructed(f)
    <3>1. Refs(p)' = Refs(p) \ {f} /\ f \in Refs(p)
      BY <1>6, <2>2, <2>5 DEF Refs
    <3>2. IsFiniteSet(Refs(p)') /\ Cardinality(Refs(p)') = Cardinality(Refs(p)) - 1
      BY <2>1, <3>1, FS_RemoveElement
    <3> QED BY <2>1, <2>5, <3>2 DEF One
  <2> QED BY <2>3, <2>4, <2>5
<1>8. FiniteRefs'
  BY <1>7 DEF FiniteRefs
<1> QED BY <1>1, <1>3, <1>4, <1>5, <1>6, <1>7, <1>8

-----------------------------------------------------------------------------
(* Each operation keeps the invariant. *)

\* Before the first constructor nothing is open and no factory in scope.
LEMMA FactoryInitIInv == FactoryInit => FactoryIInv
<1> SUFFICES ASSUME FactoryInit PROVE FactoryIInv
  OBVIOUS
<1>1. Typed
  BY DEF FactoryInit, Typed, FactoryTyped, AllStages
<1>2. \A f \in Factories : factory[f].stage = "none"
  BY DEF FactoryInit
<1>3. OneAtATime /\ ~AtOpen /\ Scope
  BY <1>2, StageOrder DEF OneAtATime, StageNames, AtOpen, At, Scope, Constructed
<1>4. \A p \in Plugins : Refs(p) = {} /\ ~Held(p)
  BY <1>2 DEF Refs, Constructed, At, Held, Loaded, StageNames
<1>5. FiniteRefs /\ Referred
  <2>1. \A p \in Plugins : IsFiniteSet(Refs(p)) /\ Cardinality(Refs(p)) = 0
    <3>1. IsFiniteSet({}) /\ Cardinality({}) = 0
      BY FS_EmptySet
    <3> QED BY <1>4, <3>1
  <2>2. \A p \in Plugins : One(Held(p)) = 0
    BY <1>4 DEF One
  <2>3. \A p \in Plugins : opened[p] = 0 /\ leaked[p] = 0
    BY DEF FactoryInit
  <2> QED BY <2>1, <2>2, <2>3 DEF FiniteRefs, Referred
<1>6. OpeningsOf(opened) = {}
  BY DEF OpeningsOf, FactoryInit
<1>7. Counted
  BY <1>3, <1>6, FS_EmptySet DEF Counted, FactoryInit, One
<1> QED BY <1>1, <1>3, <1>5, <1>7 DEF FactoryIInv

\* A constructor starts: neither counter moves.
LEMMA BeginStep ==
  ASSUME FactoryIInv, NEW f \in Factories, BeginConstruction(f)
  PROVE  FactoryIInv'
<1> USE DEF FactoryIInv
<1>1. "dlinit" \in AllStages /\ "dlinit" \notin Loaded /\ factory[f].stage = "none"
      /\ "none" \notin Loaded
  BY DEF AllStages, StageNames, Loaded, BeginConstruction, At
<1>2. /\ FactoryTyped' /\ OneAtATime' /\ FiniteRefs'
      /\ ~AtOpen /\ ~AtOpen'
      /\ \A p \in Plugins : ~Held(p) /\ ~Held(p)'
           /\ Cardinality(Refs(p)) \in Nat
           /\ Cardinality(Refs(p)') = Cardinality(Refs(p))
      /\ \A g \in Factories : Constructed(g)' <=> Constructed(g)
  BY <1>1, Moves DEF Typed, BeginConstruction, Idle, One, Constructed, At
<1>3. Typed'
  BY <1>2 DEF Typed, BeginConstruction
<1>4. Counted'
  BY <1>2 DEF Counted, BeginConstruction, One
<1>5. Referred'
  BY <1>2 DEF Referred, BeginConstruction, One
<1>6. Scope'
  BY <1>2 DEF Scope, BeginConstruction
<1> QED BY <1>2, <1>3, <1>4, <1>5, <1>6

\* A stage succeeds: the first initialises, the second opens, the last turns
\* what the constructor holds into what a factory in scope holds.
LEMMA SucceedStep ==
  ASSUME FactoryIInv, NEW f \in Factories, Succeed(f)
  PROVE  FactoryIInv'
<1> USE DEF FactoryIInv
<1> DEFINE s == factory[f].stage
           p == factory[f].plugin
<1>1. s \in StageNames /\ p \in Plugins /\ \A g \in Factories : Constructing(g) => g = f
  BY StageOrder DEF Succeed, OneAtATime, Typed, FactoryTyped
<1>2. /\ s = "dlinit" => After(s) = "open"
      /\ s = "open" => After(s) \in Loaded
      /\ s \in Loaded \ {"checkSolver"} => After(s) \in Loaded
      /\ s = "checkSolver" => After(s) = "constructed"
      /\ After(s) \in AllStages
      /\ s \in {"dlinit", "open"} \cup Loaded
  BY <1>1, StageOrder DEF Loaded, AllStages, StageNames
<1>3. Enter(f, After(s))
  BY DEF Succeed
<1> HIDE DEF s
<1>4. /\ FactoryTyped' /\ OneAtATime' /\ FiniteRefs'
      /\ AtOpen <=> s = "open"
      /\ AtOpen' <=> After(s) = "open"
      /\ \A q \in Plugins :
           /\ Held(q) <=> s \in Loaded /\ q = p
           /\ Held(q)' <=> After(s) \in Loaded /\ q = p
           /\ Cardinality(Refs(q)) \in Nat
           /\ Cardinality(Refs(q)') =
                Cardinality(Refs(q)) + One(q = p /\ After(s) = "constructed")
                                     - One(q = p /\ Constructed(f))
      /\ \A g \in Factories :
           Constructed(g)' <=> IF g = f THEN After(s) = "constructed" ELSE Constructed(g)
  BY <1>1, <1>2, <1>3, Moves DEF Typed, s
<1>5. ~Constructed(f) /\ "constructed" \notin Loaded /\ "open" \notin Loaded
      /\ "dlinit" \notin Loaded /\ "checkSolver" \in Loaded
  BY <1>1 DEF Constructed, At, StageNames, Loaded, s
<1>6. Typed'
  BY <1>1, <1>4 DEF Typed, Succeed
<1>7. Scope'
  BY <1>1, <1>2, <1>4, <1>5 DEF Scope, Succeed, At, s
<1>8. CASE s = "dlinit"
  <2>1. opened' = opened /\ leaked' = leaked /\ inits' = inits + 1
    BY <1>8 DEF Succeed, At, Initialises, s
  <2>2. ~AtOpen /\ AtOpen' /\ Cardinality(OpeningsOf(opened)) \in Nat
    BY <1>2, <1>4, <1>8, FS_CardinalityType DEF Counted
  <2>3. Counted'
    BY <2>1, <2>2 DEF Counted, One
  <2>4. Referred'
    BY <1>2, <1>4, <1>5, <1>8, <2>1 DEF Referred, One
  <2> QED BY <1>4, <1>6, <1>7, <2>3, <2>4
<1>9. CASE s = "open"
  <2>1. opened' = [opened EXCEPT ![p] = @ + 1] /\ leaked' = leaked /\ inits' = inits
    BY <1>9 DEF Succeed, At, Initialises, s
  <2>2. AtOpen /\ ~AtOpen' /\ Cardinality(OpeningsOf(opened)) \in Nat
    BY <1>2, <1>4, <1>5, <1>9, FS_CardinalityType DEF Counted
  <2>3. /\ IsFiniteSet(OpeningsOf(opened'))
        /\ Cardinality(OpeningsOf(opened')) = Cardinality(OpeningsOf(opened)) + 1
    BY <1>1, <2>1, OneMore DEF Counted, Typed
  <2>4. Counted'
    BY <2>1, <2>2, <2>3 DEF Counted, One
  <2>5. \A q \in Plugins : opened[q] \in Nat /\ leaked[q] \in Nat
          /\ opened'[q] = opened[q] + One(q = p)
    BY <1>1, <2>1 DEF Typed, One
  <2>6. Referred'
    BY <1>2, <1>4, <1>5, <1>9, <2>1, <2>5 DEF Referred, One
  <2> QED BY <1>4, <1>6, <1>7, <2>4, <2>6
<1>10. CASE s \in Loaded
  <2>1. opened' = opened /\ leaked' = leaked /\ inits' = inits
    BY <1>5, <1>10 DEF Succeed, At, Initialises, s
  <2>2. ~AtOpen /\ ~AtOpen'
    BY <1>2, <1>4, <1>5, <1>10
  <2>3. Counted'
    BY <2>1, <2>2 DEF Counted, One
  <2>4. \A q \in Plugins : opened[q] \in Nat /\ leaked[q] \in Nat
    BY DEF Typed
  <2>5. Referred'
    BY <1>2, <1>4, <1>5, <1>10, <2>1, <2>4 DEF Referred, One
  <2> QED BY <1>4, <1>6, <1>7, <2>3, <2>5
<1> QED BY <1>2, <1>8, <1>9, <1>10

\* A stage fails: Undo closes if the plug-in is open, exits once if libltdl is
\* initialised and it is not, and does nothing before that.
LEMMA FailStep ==
  ASSUME FactoryIInv, NEW f \in Factories, Fail(f)
  PROVE  FactoryIInv'
<1> USE DEF FactoryIInv
<1> DEFINE s == factory[f].stage
           p == factory[f].plugin
<1>1. s \in StageNames /\ p \in Plugins /\ \A g \in Factories : Constructing(g) => g = f
  BY StageOrder DEF Fail, OneAtATime, Typed, FactoryTyped
<1>2. /\ "threw" \in AllStages /\ "threw" \notin Loaded
      /\ s \in {"dlinit", "open"} \cup Loaded
      /\ "open" \notin Loaded /\ "dlinit" \notin Loaded
      /\ ~Constructed(f)
  BY <1>1 DEF Loaded, AllStages, StageNames, Constructed, At
<1> HIDE DEF s
<1>3. /\ FactoryTyped' /\ OneAtATime' /\ FiniteRefs'
      /\ AtOpen <=> s = "open"
      /\ ~AtOpen'
      /\ \A q \in Plugins :
           /\ Held(q) <=> s \in Loaded /\ q = p
           /\ ~Held(q)'
           /\ Cardinality(Refs(q)) \in Nat
           /\ Cardinality(Refs(q)') = Cardinality(Refs(q))
      /\ \A g \in Factories : Constructed(g)' <=> Constructed(g)
  BY <1>1, <1>2, Moves DEF Typed, Fail, One, s
<1>4. Scope'
  BY <1>3 DEF Scope, Fail
<1>5. \A q \in Plugins : opened[q] \in Nat /\ leaked[q] \in Nat
  BY DEF Typed
<1>6. CASE s \in {"dlinit", "open"}
  <2>1. opened' = opened /\ inits' = Cardinality(OpeningsOf(opened))
    <3>1. CASE s = "dlinit"
      <4>1. ~AtOpen /\ opened' = opened /\ inits' = inits
        BY <1>2, <1>3, <3>1 DEF Fail, Undo, At, s
      <4>2. Cardinality(OpeningsOf(opened)) \in Nat
        BY FS_CardinalityType DEF Counted
      <4> QED BY <4>1, <4>2 DEF Counted, One
    <3>2. CASE s = "open"
      <4>1. Exit
        BY <3>2 DEF Fail, Undo, At, s
      <4> QED BY <1>3, <3>2, <4>1, Exiting DEF Typed
    <3> QED BY <1>6, <3>1, <3>2
  <2>2. Counted'
    <3>1. Cardinality(OpeningsOf(opened)) \in Nat
      BY FS_CardinalityType DEF Counted
    <3> QED BY <1>3, <2>1, <3>1 DEF Counted, One
  <2>3. Referred'
    BY <1>2, <1>3, <1>5, <1>6, <2>1 DEF Referred, Fail, One
  <2>4. Typed'
    BY <1>3, <2>1 DEF Typed, Fail
  <2> QED BY <1>3, <1>4, <2>2, <2>3, <2>4
<1>7. CASE s \in Loaded
  <2>1. CloseAndExit(p)
    BY <1>2, <1>7 DEF Fail, Undo, At, s
  <2>2. opened[p] > 0 /\ ~AtOpen
    BY <1>1, <1>2, <1>3, <1>5, <1>7 DEF Referred, One
  <2>3. /\ opened' = [opened EXCEPT ![p] = @ - 1]
        /\ opened' \in [Plugins -> Nat]
        /\ IsFiniteSet(OpeningsOf(opened'))
        /\ inits' = Cardinality(OpeningsOf(opened'))
    BY <1>1, <2>1, <2>2, Closing DEF Typed
  <2>4. Counted'
    <3>1. Cardinality(OpeningsOf(opened')) \in Nat
      BY <2>3, FS_CardinalityType
    <3> QED BY <1>3, <2>3, <3>1 DEF Counted, One
  <2>5. \A q \in Plugins : opened'[q] = opened[q] - One(q = p)
    BY <1>1, <1>5, <2>3 DEF Typed, One
  <2>6. Referred'
    BY <1>2, <1>3, <1>5, <1>7, <2>5 DEF Referred, Fail, One
  <2>7. Typed'
    BY <1>3, <2>3 DEF Typed, Fail
  <2> QED BY <1>3, <1>4, <2>4, <2>6, <2>7
<1> QED BY <1>2, <1>6, <1>7

\* create answers: the plug-in stays held.
LEMMA CreateStep ==
  ASSUME FactoryIInv, NEW f \in Factories, NEW answer \in {"alive", "unborn"},
         Create(f, answer)
  PROVE  FactoryIInv'
<1> USE DEF FactoryIInv
<1>1. /\ factory[f].stage = "create" /\ ~Constructed(f)
      /\ \A g \in Factories : Constructing(g) => g = f
  BY StageOrder DEF Create, At, OneAtATime, StageNames, Constructed
<1>2. /\ After("create") \in AllStages \cap Loaded /\ "create" \in Loaded
      /\ After("create") # "open" /\ After("create") # "constructed"
  BY StageOrder DEF Loaded, AllStages, StageNames
<1>3. /\ FactoryTyped' /\ OneAtATime' /\ FiniteRefs'
      /\ ~AtOpen /\ ~AtOpen'
      /\ \A q \in Plugins :
           /\ Held(q)' <=> Held(q)
           /\ Cardinality(Refs(q)) \in Nat
           /\ Cardinality(Refs(q)') = Cardinality(Refs(q))
      /\ \A g \in Factories : Constructed(g)' <=> Constructed(g)
  BY <1>1, <1>2, Moves DEF Typed, Create, One
<1>4. Typed'
  BY <1>3 DEF Typed, Create
<1>5. Counted'
  BY <1>3 DEF Counted, Create, One
<1>6. Referred'
  BY <1>3 DEF Referred, Create, One
<1>7. Scope'
  BY <1>1, <1>3 DEF Scope, Create
<1> QED BY <1>3, <1>4, <1>5, <1>6, <1>7

\* create throws: what the constructor held is leaked.
LEMMA CreateThrowsStep ==
  ASSUME FactoryIInv, NEW f \in Factories, CreateThrows(f)
  PROVE  FactoryIInv'
<1> USE DEF FactoryIInv
<1> DEFINE p == factory[f].plugin
<1>1. /\ factory[f].stage = "create" /\ ~Constructed(f) /\ p \in Plugins
      /\ \A g \in Factories : Constructing(g) => g = f
  BY StageOrder
  DEF CreateThrows, At, OneAtATime, StageNames, Constructed, Typed, FactoryTyped
<1>2. /\ "threw" \in AllStages /\ "threw" \notin Loaded /\ "create" \in Loaded
  BY DEF Loaded, AllStages, StageNames
<1>3. /\ FactoryTyped' /\ OneAtATime' /\ FiniteRefs'
      /\ ~AtOpen /\ ~AtOpen'
      /\ \A q \in Plugins :
           /\ Held(q) <=> q = p
           /\ ~Held(q)'
           /\ Cardinality(Refs(q)) \in Nat
           /\ Cardinality(Refs(q)') = Cardinality(Refs(q))
      /\ \A g \in Factories : Constructed(g)' <=> Constructed(g)
  BY <1>1, <1>2, Moves DEF Typed, CreateThrows, One
<1>4. Typed'
  BY <1>1, <1>3 DEF Typed, CreateThrows
<1>5. Counted'
  BY <1>3 DEF Counted, CreateThrows, One
<1>6. \A q \in Plugins : opened[q] \in Nat /\ leaked[q] \in Nat
        /\ leaked'[q] = leaked[q] + One(q = p)
  BY <1>1 DEF Typed, CreateThrows, One
<1>7. Referred'
  BY <1>3, <1>6 DEF Referred, CreateThrows, One
<1>8. Scope'
  BY <1>3 DEF Scope, CreateThrows
<1> QED BY <1>3, <1>4, <1>5, <1>7, <1>8

\* A factory leaves its scope: it closes what it refers to.
LEMMA DestroyStep ==
  ASSUME FactoryIInv, NEW f \in Factories, NEW found \in BOOLEAN, DestroyFactory(f, found)
  PROVE  FactoryIInv'
<1> USE DEF FactoryIInv
<1> DEFINE p == factory[f].plugin
<1>1. /\ factory[f].stage = "constructed" /\ Constructed(f) /\ p \in Plugins
      /\ \A g \in Factories : Constructing(g) => g = f
  BY DEF DestroyFactory, Idle, At, Constructed, Typed, FactoryTyped
<1>2. /\ "destroyed" \in AllStages /\ "destroyed" \notin Loaded
      /\ "constructed" \notin Loaded
  BY DEF Loaded, AllStages, StageNames
<1>3. /\ FactoryTyped' /\ OneAtATime' /\ FiniteRefs'
      /\ ~AtOpen /\ ~AtOpen'
      /\ \A q \in Plugins :
           /\ ~Held(q) /\ ~Held(q)'
           /\ Cardinality(Refs(q)) \in Nat
           /\ Cardinality(Refs(q)') = Cardinality(Refs(q)) - One(q = p)
      /\ \A g \in Factories : Constructed(g)' <=> g # f /\ Constructed(g)
  BY <1>1, <1>2, Moves DEF Typed, DestroyFactory, One
<1>4. \A q \in Plugins : opened[q] \in Nat /\ leaked[q] \in Nat
  BY DEF Typed
<1>5. opened[p] > 0
  <2>1. f \in Refs(p) /\ IsFiniteSet(Refs(p)) /\ Refs(p) # {}
    BY <1>1 DEF Refs, FiniteRefs
  <2>2. Cardinality(Refs(p)) # 0
    BY <2>1, FS_EmptySet
  <2> QED BY <1>1, <1>3, <1>4, <2>2 DEF Referred, One
<1>6. /\ opened' = [opened EXCEPT ![p] = @ - 1]
      /\ opened' \in [Plugins -> Nat]
      /\ IsFiniteSet(OpeningsOf(opened'))
      /\ inits' = Cardinality(OpeningsOf(opened'))
  BY <1>1, <1>3, <1>5, Closing DEF Typed, DestroyFactory
<1>7. Counted'
  <2>1. Cardinality(OpeningsOf(opened')) \in Nat
    BY <1>6, FS_CardinalityType
  <2> QED BY <1>3, <1>6, <2>1 DEF Counted, One
<1>8. \A q \in Plugins : opened'[q] = opened[q] - One(q = p)
  BY <1>1, <1>4, <1>6 DEF Typed, One
<1>9. Referred'
  BY <1>3, <1>4, <1>8 DEF Referred, DestroyFactory, One
<1>10. Typed'
  BY <1>3, <1>6 DEF Typed, DestroyFactory
<1>11. Scope'
  BY <1>3 DEF Scope, DestroyFactory, Typed
<1> QED BY <1>3, <1>7, <1>9, <1>10, <1>11

\* FactoryIInv holds in every reachable state.
THEOREM FactoryInvariance == FactorySpec => []FactoryIInv
<1>1. FactoryIInv /\ [FactoryNext]_factoryVars => FactoryIInv'
  <2> SUFFICES ASSUME FactoryIInv, [FactoryNext]_factoryVars PROVE FactoryIInv'
    OBVIOUS
  <2>1. ASSUME NEW f \in Factories, BeginConstruction(f) PROVE FactoryIInv'
    BY <2>1, BeginStep
  <2>2. ASSUME NEW f \in Factories, Succeed(f) PROVE FactoryIInv'
    BY <2>2, SucceedStep
  <2>3. ASSUME NEW f \in Factories, Fail(f) PROVE FactoryIInv'
    BY <2>3, FailStep
  <2>4. ASSUME NEW f \in Factories, CreateThrows(f) PROVE FactoryIInv'
    BY <2>4, CreateThrowsStep
  <2>5. ASSUME NEW f \in Factories, NEW answer \in {"alive", "unborn"},
               Create(f, answer)
        PROVE  FactoryIInv'
    BY <2>5, CreateStep
  <2>6. ASSUME NEW f \in Factories, NEW found \in BOOLEAN, DestroyFactory(f, found)
        PROVE  FactoryIInv'
    BY <2>6, DestroyStep
  <2>7. CASE UNCHANGED <<inits, opened, factory, solver_, leaked>>
    <3>1. \A f \in Factories : /\ Constructing(f)' <=> Constructing(f)
                               /\ Constructed(f)' <=> Constructed(f)
      BY <2>7 DEF Constructing, Constructed, At
    <3>2. (AtOpen' <=> AtOpen) /\ \A p \in Plugins : Held(p)' <=> Held(p)
      BY <2>7 DEF AtOpen, At, Held
    <3>3. \A p \in Plugins : Refs(p)' = Refs(p)
      BY <2>7, <3>1 DEF Refs
    <3>4. Typed' /\ OneAtATime' /\ Scope'
      BY <2>7, <3>1 DEF FactoryIInv, Typed, FactoryTyped, OneAtATime, Scope
    <3>5. Counted' /\ FiniteRefs' /\ Referred'
      BY <2>7, <3>2, <3>3 DEF FactoryIInv, Counted, FiniteRefs, Referred, One
    <3> QED BY <3>4, <3>5 DEF FactoryIInv
  <2>8. ASSUME NEW f \in Factories, Use(f) PROVE FactoryIInv'
    BY <2>7, <2>8 DEF Use
  <2> QED BY <2>1, <2>2, <2>3, <2>4, <2>5, <2>6, <2>7, <2>8 DEF FactoryNext, factoryVars
<1> QED BY <1>1, FactoryInitIInv, PTL DEF FactorySpec

-----------------------------------------------------------------------------

\* Between two calls libltdl's counters are those of the factories in scope
\* and of the exceptions that left create, whichever stages failed before.
THEOREM BalancedCounters == FactorySpec => []Balanced
<1>1. FactoryIInv => Balanced
  <2> SUFFICES ASSUME FactoryIInv, Idle,
                      NEW p \in Plugins
               PROVE  /\ opened[p] = Cardinality(Refs(p)) + leaked[p]
                      /\ inits >= opened[p]
                      /\ (\A q \in Plugins : opened[q] = 0) => inits = 0
    BY DEF Balanced
  <2> USE DEF FactoryIInv
  <2>1. \A f \in Factories : factory[f].stage \notin StageNames
    BY StageOrder DEF Idle
  <2>2. ~AtOpen /\ \A q \in Plugins : ~Held(q)
    BY <2>1 DEF AtOpen, At, Held, Loaded, StageNames
  <2>3. opened[p] = Cardinality(Refs(p)) + leaked[p]
    <3>1. Cardinality(Refs(p)) \in Nat /\ leaked[p] \in Nat
      BY FS_CardinalityType DEF FiniteRefs, Typed
    <3> QED BY <2>2, <3>1 DEF Referred, One
  <2>4. /\ Cardinality(OpeningsOf(opened)) \in Nat
        /\ opened[p] <= Cardinality(OpeningsOf(opened))
        /\ (\A q \in Plugins : opened[q] = 0) => Cardinality(OpeningsOf(opened)) = 0
    BY EachIsCounted DEF Typed, Counted
  <2>5. inits = Cardinality(OpeningsOf(opened)) /\ opened[p] \in Nat
    BY <2>2, <2>4 DEF Counted, One, Typed
  <2> QED BY <2>3, <2>4, <2>5
<1> QED BY <1>1, FactoryInvariance, PTL

\* A factory in scope has its solver, and the plug-in its code is in.
THEOREM SolverLifetime == FactorySpec => []SolverLivesInScope
<1>1. FactoryIInv => SolverLivesInScope
  <2> SUFFICES ASSUME FactoryIInv, NEW f \in Factories, Constructed(f)
               PROVE  solver_[f] = "alive" /\ opened[factory[f].plugin] > 0
    BY DEF SolverLivesInScope
  <2> USE DEF FactoryIInv
  <2> DEFINE p == factory[f].plugin
  <2>1. p \in Plugins
    BY DEF Typed, FactoryTyped
  <2>2. Cardinality(Refs(p)) \in Nat /\ Cardinality(Refs(p)) # 0
    <3>1. f \in Refs(p) /\ IsFiniteSet(Refs(p)) /\ Refs(p) # {}
      BY <2>1 DEF Refs, FiniteRefs
    <3> QED BY <3>1, FS_EmptySet, FS_CardinalityType
  <2>3. opened[p] > 0
    BY <2>1, <2>2 DEF Referred, Typed, One
  <2> QED BY <2>3 DEF Scope
<1> QED BY <1>1, FactoryInvariance, PTL

=============================================================================
