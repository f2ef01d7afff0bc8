SPECIFICATION Spec
CONSTANTS
  Kinds = {"block", "net_host", "net_tap", "console", "htif"}
  IdxModulus = 4
  Queues = {0, 1}
  Desc = {0, 1}
  MaxFrame = 1
  MaxQueuedPackets = 2
  OutputSize = 2
  InputSize = 1
  IoBufSize = 1
  Num = 2
  AreaChoices <- MCAreas
  Chains <- MCChains
  Dests <- MCDests
  Sources <- MCSources
  MaxPublish <- MCMaxPublish
  MaxSent = 3
  MaxGiven = 3
  MaxResets <- MCMaxResets
INVARIANTS NothingWaits NothingReordered CharactersKept
PROPERTIES UsedInOrder
