------------------------------ MODULE MCPasses ------------------------------
(***************************************************************************)
(* The Runner's passes over a linear, an attention and another linear      *)
(* layer, on each kind of device.                                          *)
(***************************************************************************)
EXTENDS Passes

Model == <<"linear", "attn", "linear">>

OnMetal ==
  {RolledRound(Model, split, FALSE) : split \in BOOLEAN}
    \cup {ReplayedRound(Model, split, FALSE, kept) : split, kept \in BOOLEAN}
    \cup {Prefilled(Model, split, sync) : split, sync \in BOOLEAN}
    \cup {Resumed(Model, split, FALSE) : split \in BOOLEAN}
    \cup {<<StepPass(Model, split, FALSE, sync)>> : split, sync \in BOOLEAN}

OnCuda ==
  {RolledRound(Model, split, TRUE) : split \in BOOLEAN}
    \cup {ReplayedRound(Model, split, TRUE, kept) : split, kept \in BOOLEAN}

On(devices, sessions) == {[encoder |-> d, steps |-> Steps(s)] : d \in devices, s \in sessions}

MCPrograms == On({"concurrent", "serial"}, OnMetal) \cup On({"stream"}, OnCuda)

MCSessions == OnMetal \cup OnCuda

MCBuffers == AllBuffers(Model)
=============================================================================
