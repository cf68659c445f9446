------------------------- MODULE OptimizationLogger -------------------------
(***************************************************************************)
(* What roboptim::OptimizationLogger (optimization-logger.hxx) writes as   *)
(* the solver calls it back: a row of x-evolution.csv, of                  *)
(* cost-evolution.csv, of one file per constraint and of                   *)
(* constraint-violation-evolution.csv, and a directory per call with the   *)
(* jacobians.  Each stage of a call may throw; perIterationCallback        *)
(* catches, and the solver goes on to the next iteration.                  *)
(*                                                                         *)
(* A row is the number of the call that wrote it, with the value where the *)
(* value matters: how much the constraints are violated.  Headers, the     *)
(* journal and the formatting of the values are left out.                  *)
(***************************************************************************)
EXTENDS Naturals, Sequences, SequencesExt

CONSTANTS
  Requests,       \* requests_: of "X", "COST", "CONSTRAINT", "JACOBIAN", "VIOLATION"
  NbConstraints,  \* constraints ().size ()
  Differentiable, \* those whose jacobian can be logged
  Violations,     \* by how much a constraint may be violated
  Unknown,        \* an optional of SolverState that is not set
  MaxCalls        \* bound: calls of the callback

Flags == {"X", "COST", "CONSTRAINT", "JACOBIAN", "VIOLATION"}
ASSUME RequestsAssumption == Requests \subseteq Flags
ASSUME ConstraintsAssumption ==
  /\ NbConstraints \in Nat /\ Differentiable \subseteq 1..NbConstraints
  /\ Violations \subseteq Nat /\ Violations # {} /\ Unknown \notin Violations

VARIABLES
  callId,     \* callbackCallId_
  stage,      \* where the running call is
  constraint, \* the constraint it is at
  given,      \* the solver state's constraintViolation ()
  actual,     \* by how much each constraint is violated at the solver's x
  evaluated,  \* constraintsOneIteration: the constraints evaluated for it
  rows,       \* file -> the rows written after the header
  jacobians,  \* the jacobian.csv files: pairs of a call and a constraint
  failed      \* history: the calls that an exception cut short

local == <<stage, constraint, given, actual, evaluated>>
loggerVars == <<callId, local, rows, jacobians, failed>>

Requested(f) == f \in Requests
ConstraintIds == 1..NbConstraints
XFile == <<"x", 0>>
CostFile == <<"cost", 0>>
ViolationFile == <<"violation", 0>>
ConstraintFile(k) == <<"constraint", k>>
Files == {XFile, CostFile, ViolationFile} \cup {ConstraintFile(k) : k \in ConstraintIds}
Stages == {"idle", "directory", "x", "cost", "constraint", "jacobian",
           "violation", "done"}

LoggerInit ==
  /\ callId = 0
  /\ stage = "idle" /\ constraint = 1
  /\ given = Unknown /\ evaluated = {}
  /\ actual \in [ConstraintIds -> Violations]
  /\ rows = [f \in Files |-> <<>>]
  /\ jacobians = {} /\ failed = {}

-----------------------------------------------------------------------------

Row == [call |-> callId, value |-> 0, expected |-> 0]
Write(f, row) == rows' = [rows EXCEPT ![f] = Append(@, row)]
Goto(s) == stage' = s
UnchangedCall == UNCHANGED <<callId, given, actual, failed>>

\* The solver calls back with a new x; it may know the violation there.
Begin(g, a) ==
  /\ stage = "idle" /\ callId < MaxCalls
  /\ given' = g /\ actual' = a
  /\ Goto("directory")
  /\ UNCHANGED <<callId, constraint, evaluated, rows, jacobians, failed>>

\* remove_all and create_directories of iteration-<callId>
CreateDirectory ==
  /\ stage = "directory"
  /\ jacobians' = {j \in jacobians : j[1] # callId}
  /\ Goto("x")
  /\ UNCHANGED <<constraint, evaluated, rows>> /\ UnchangedCall

LogX ==
  /\ stage = "x"
  /\ IF Requested("X") THEN Write(XFile, Row) ELSE UNCHANGED rows
  /\ Goto("cost")
  /\ UNCHANGED <<constraint, evaluated, jacobians>> /\ UnchangedCall

\* The constraints are gone through only if their values or jacobians are
\* requested; constraintsOneIteration starts empty.
ProcessedIfUnknown == given = Unknown /\ NbConstraints > 0
ProcessesConstraints ==
  (Requested("CONSTRAINT") \/ Requested("JACOBIAN")) /\ NbConstraints > 0

LogCost ==
  /\ stage = "cost"
  /\ IF Requested("COST") THEN Write(CostFile, Row) ELSE UNCHANGED rows
  /\ Goto(IF ProcessesConstraints THEN "constraint" ELSE "done")
  /\ constraint' = 1 /\ evaluated' = {}
  /\ UNCHANGED jacobians /\ UnchangedCall

\* The values of one constraint; they are kept if the violation is not known.
LogConstraint ==
  /\ stage = "constraint"
  /\ IF Requested("CONSTRAINT")
     THEN /\ Write(ConstraintFile(constraint), Row)
          /\ evaluated' = IF given = Unknown THEN evaluated \cup {constraint}
                          ELSE evaluated
     ELSE UNCHANGED <<rows, evaluated>>
  /\ Goto("jacobian")
  /\ UNCHANGED <<constraint, jacobians>> /\ UnchangedCall

IsLast(k) == k = NbConstraints

LogJacobian ==
  /\ stage = "jacobian"
  /\ jacobians' = IF Requested("JACOBIAN") /\ constraint \in Differentiable
                  THEN jacobians \cup {<<callId, constraint>>} ELSE jacobians
  /\ constraint' = IF IsLast(constraint) THEN 1 ELSE constraint + 1
  /\ Goto(IF IsLast(constraint) THEN "violation" ELSE "constraint")
  /\ UNCHANGED <<evaluated, rows>> /\ UnchangedCall

\* EvaluateConstraintViolation::uniformNorm over the constraints evaluated
UniformNorm(S) ==
  CHOOSE n \in {0} \cup {actual[k] : k \in S} : \A k \in S : actual[k] <= n

\* cstrViol: the solver's violation if the constraints are logged, else the
\* norm of what was evaluated for it.
NormOfEvaluated == UniformNorm(evaluated)
CstrViol ==
  IF given = Unknown THEN UniformNorm(evaluated)
  ELSE IF Requested("CONSTRAINT") THEN given ELSE 0

TrueViolation == IF given = Unknown THEN UniformNorm(ConstraintIds) ELSE given

LogViolation ==
  /\ stage = "violation"
  /\ IF Requested("VIOLATION")
     THEN Write(ViolationFile, [Row EXCEPT !.value = CstrViol,
                                          !.expected = TrueViolation])
     ELSE UNCHANGED rows
  /\ Goto("done")
  /\ UNCHANGED <<constraint, evaluated, jacobians>> /\ UnchangedCall

\* A stage may throw before it writes: a file system error, or the cost, a
\* constraint or a jacobian that cannot be evaluated.
Throw ==
  /\ stage \in {"directory", "cost", "constraint", "jacobian"}
  /\ failed' = failed \cup {callId}
  /\ constraint' = 1
  /\ Goto("done")
  /\ UNCHANGED <<callId, given, actual, evaluated, rows, jacobians>>

\* "Turn is finished": the number advances after an exception, too.
AdvanceOnSuccess == IF callId \in failed THEN callId ELSE callId + 1
Advance == callId + 1

End ==
  /\ stage = "done"
  /\ callId' = Advance
  /\ Goto("idle")
  /\ UNCHANGED <<constraint, given, actual, evaluated, rows, jacobians, failed>>

Log ==
  \/ \E g \in Violations \cup {Unknown}, a \in [ConstraintIds -> Violations] :
       Begin(g, a)
  \/ CreateDirectory \/ LogX \/ LogCost
  \/ LogConstraint \/ LogJacobian \/ LogViolation
  \/ Throw

LoggerNext == Log \/ End

LoggerSpec == LoggerInit /\ [][LoggerNext]_loggerVars

-----------------------------------------------------------------------------

Rows == [call : 0..MaxCalls, value : Violations \cup {0},
         expected : Violations \cup {0}]

LoggerTypeOK ==
  /\ callId \in 0..MaxCalls
  /\ stage \in Stages /\ constraint \in ConstraintIds \cup {1}
  /\ given \in Violations \cup {Unknown}
  /\ actual \in [ConstraintIds -> Violations]
  /\ evaluated \subseteq ConstraintIds
  /\ DOMAIN rows = Files /\ \A f \in Files : rows[f] \in Seq(Rows)
  /\ jacobians \subseteq (0..MaxCalls) \X Differentiable
  /\ failed \subseteq 0..MaxCalls

CallsIn(f) == {rows[f][i].call : i \in DOMAIN rows[f]}
Increasing(s) == \A i, j \in DOMAIN s : i < j => s[i].call < s[j].call

\* The files that a call writes, in the order it writes them.  The violation
\* is logged with the constraints or not at all: if neither their values nor
\* their jacobians are requested, or there is none, its file is not written.
ValueFiles ==
  (IF Requested("X") THEN <<XFile>> ELSE <<>>)
    \o (IF Requested("COST") THEN <<CostFile>> ELSE <<>>)
    \o (IF Requested("CONSTRAINT")
        THEN [k \in ConstraintIds |-> ConstraintFile(k)] ELSE <<>>)
LogsViolation == Requested("VIOLATION") /\ ProcessesConstraints
FileOrder == ValueFiles \o (IF LogsViolation THEN <<ViolationFile>> ELSE <<>>)

\* A call writes at most one row of each file, and a file gets its row only
\* if the files before it got theirs: an exception cuts off the tail of a
\* call's rows, never its middle, and never gives a call two rows.
RowsAreCutAtTheEnd ==
  /\ \A f \in Files : Increasing(rows[f])
  /\ \A i \in 2..Len(FileOrder) : CallsIn(FileOrder[i]) \subseteq CallsIn(FileOrder[i - 1])

\* As long as nothing was thrown, row n of every file that calls write is of
\* call n - 1, so that the files can be read side by side.  That of the
\* violation is one of them or, though it be requested, has no row at all
\* (optimization-logger.hxx:529-542).
RowsAlign ==
  /\ failed = {} /\ stage = "idle" =>
       \A i \in DOMAIN FileOrder :
         LET s == rows[FileOrder[i]]
         IN Len(s) = callId /\ \A n \in DOMAIN s : s[n].call = n - 1
  /\ LogsViolation \/ rows[ViolationFile] = <<>>

\* What a call has logged stays: the directory a call empties is its own,
\* also after calls that failed (optimization-logger.hxx:438-441, 450-453).
LogsAreKept ==
  [][/\ jacobians \subseteq jacobians'
     /\ \A f \in Files : IsPrefix(rows[f], rows'[f])]_loggerVars

\* If the constraints are requested with it, the violation logged is the one
\* the solver reports, else that of all the constraints at x.  Without them
\* it would be 0, as nothing looks for it (optimization-logger.hxx:534).
LoggedViolationIsTrue ==
  Requested("CONSTRAINT") =>
    \A i \in DOMAIN rows[ViolationFile] :
      rows[ViolationFile][i].value = rows[ViolationFile][i].expected

=============================================================================
