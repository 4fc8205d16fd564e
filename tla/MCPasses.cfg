SPECIFICATION Spec
CONSTANTS
  Layers <- Model
  Sessions <- MCSessions
  Programs <- MCPrograms
  Buffers <- MCBuffers
INVARIANTS
  TypeOK
  SeesSerial
  HostSeesSerial
  BarrierNeeded
  NothingStale
  QuantOfItsInput
  PutsBackItsOwn
