SPECIFICATION FairSpec
CONSTANTS
  Conns = {c1, c2}
  NumThreads = 2
  Faults = {"option", "endpoint"}
  NoConn = NoConn
INVARIANTS TypeOK CountMatches OneOwner OpenIsOwned LeastLoaded NoUseAfterDelete
PROPERTIES OnlyClosedDropped RegistrySpec ClosedIsReleased GoneIsReleased ShutdownTerminates BacklogServed
