SPECIFICATION Spec
CONSTANTS
  PLIC_MAX_IRQ = 31
  Devices = {1, 2}
  IntBits = {"used"}
  RTC_FREQ_DIV = 2
  CycleModulus = 64
  MaxCycle = 3
  MstatusValues <- SmallMstatus
  MieValues <- AllIrqs
  MipValues <- TwoMips
  MidelegValues <- SomeMidelegs
  TimeCmpValues = {0, 1}
INVARIANTS AssertNoBrk LinesReachTheHart RunsCanBeCut TargetReached
PROPERTY RunReturns
