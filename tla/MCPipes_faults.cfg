CONSTANTS
  pipeKV = pipeKV
  pipeBack = pipeBack
  role1 = role1
  role2 = role2
  role3 = role3
  Pipe = {pipeKV, pipeBack}
  Role = {role1, role2}
  Stages <- TwoStages
  Consumers <- TwoConsumers
  Producer <- TwoProducer
  Consumer <- TwoConsumer
  Transfers <- TwoTransfers
  MayFail = {role1, role2}
  Patient = FALSE
  Disciplined = FALSE
SPECIFICATION Spec
INVARIANT RootCause
PROPERTY Broadcasts
PROPERTY Joins
CHECK_DEADLOCK FALSE
