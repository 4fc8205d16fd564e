CONSTANTS
  pipeKV = pipeKV
  pipeBack = pipeBack
  role1 = role1
  role2 = role2
  role3 = role3
  Pipe = {pipeKV}
  Role = {role1, role2, role3}
  Stages <- OneStages
  Consumers <- OneConsumers
  Producer <- OneProducer
  Consumer <- OneConsumer
  Transfers <- OneTransfers
  MayFail = {}
  Patient = TRUE
  Disciplined = TRUE
SPECIFICATION Spec
INVARIANT TypeOK
INVARIANT SharesStand
INVARIANT NoLostWakeup
INVARIANT NoDeadlock
PROPERTY Completes
CHECK_DEADLOCK FALSE
