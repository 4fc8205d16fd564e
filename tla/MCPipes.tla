------------------------------- MODULE MCPipes -------------------------------
(* Small instances of Pipes for TLC. *)
EXTENDS Pipes, TLC

CONSTANTS pipeKV, pipeBack, role1, role2, role3 \* two pipes, three roles

(* One pipe from a role to two, as a specialised attention kernel has it.  *)
OneStages == pipeKV :> 3
OneConsumers == pipeKV :> 2
OneProducer == pipeKV :> role1
OneConsumer == pipeKV :> <<role2, role3>>
OneTransfers == pipeKV :> 5

(* A pipe each way between two roles.                                      *)
TwoStages == pipeKV :> 2 @@ pipeBack :> 1
TwoConsumers == pipeKV :> 1 @@ pipeBack :> 1
TwoProducer == pipeKV :> role1 @@ pipeBack :> role2
TwoConsumer == pipeKV :> <<role2>> @@ pipeBack :> <<role1>>
TwoTransfers == pipeKV :> 3 @@ pipeBack :> 2
=============================================================================
