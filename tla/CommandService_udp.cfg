SPECIFICATION FairSpec
CONSTANTS
  Hosts = {h1, h2}
  Commands <- MirrorCommands
  MaxDatagrams = 3
  StorageSize = 2
INVARIANTS BufferIsStable OneReply DropsFollowPasses
PROPERTIES EveryDatagramSettled KeepsReceiving
