CONSTANTS
  Jobs <- MCJobs
  TaskOf <- MCTaskOf
  Compiler <- MCCompiler
  Judge <- MCJudge
  Interpreter <- MCInterpreter
  Generator <- MCGenerator
  Chip <- MCHopper
  Dialect <- MCDialect
SPECIFICATION Spec
INVARIANT TypeOK
INVARIANT AcceptedNeverGoesWrong
INVARIANT BudgetCovers
INVARIANT BuildsChecked
INVARIANT ComputesItsFunction
INVARIANT NoRace
INVARIANT LoweredAgrees
CHECK_DEADLOCK FALSE
