CONSTANTS
  h1 = h1  h2 = h2  a1 = a1  a2 = a2  a3 = a3  c1 = c1  c2 = c2
  NoConn = NoConn  NoAction = NoAction
  Hosts <- OneHost
  Actions = {a1, a2}
  Conns = {c1, c2}
  HostOf <- OneHostActions
  OwnerOf <- OneHostConns
  Signable = {a1, a2}
  Lenient = {a1}
  DryRun = {}
  BatchLimit = 2
  AppliedCap = 3
  MaxFaults = 1
  MaxKey = 1
SPECIFICATION FairSpec
INVARIANTS AppliedWasRun RunOncePerProcess BatchIsPending RegistryEntryHasHandler
PROPERTIES LifecycleSpec RegisteredIsServed
