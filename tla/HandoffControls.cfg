SPECIFICATION FairHandoffSpec
CONSTANTS
  k1 = k1
  k2 = k2
  h = h
  a1 = a1
  q1 = q1
  Keys = {k1}
  HandoffId = h
  Approvals = {}
  Controls = {"pause", "resume", "cancel"}
  Edges <- UploadEdges
  Replayed <- AllJobs
  MaxPacks = 1
  Files = 2
  NoKey = NoKey
  Jobs <- AllJobs
  Handled <- AllJobs
  Reported = {}
  Requests = {}
  MaxAttempts <- OneAttempt
  NoJob = NoJob
  Open = Open
  MaxCrashes = 0
  MaxTimeouts = 0
  MaxLetters = 2
INVARIANTS
  CompletedWasSent
PROPERTIES
  DeliveriesEnd
