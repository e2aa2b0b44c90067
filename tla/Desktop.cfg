SPECIFICATION FairShellSpec
CONSTANTS
  Ports = {50001}
  BuiltInPort = 8000
  SkippedPort = 8017
  NoPort = 0
  NoSecret = NoSecret
  NewSecret = NewSecret
  Machines <- SomeMachines
  Accounts = {ana}
  MaxProbes = 1
  MaxWindows = 2
  ana = ana
  carl = carl
  s1 = s1
  s2 = s2
  Actors = {ana, carl}
  Sids = {s1, s2}
  NoActor = NoActor
  MaxReloads = 0
  Admins = {ana}
  LocalActor = LocalActor
  Nobody = Nobody
  MaxCalls = 3
CHECK_DEADLOCK FALSE
INVARIANTS
  ClientsReachTheirBackend
  ExitStopsBackend
  WaitingHoldsThePort
  CodesAreOfTheirSession
  ActsForTheUserShown
PROPERTIES
  DialogEndsConnected
  PollingStops
