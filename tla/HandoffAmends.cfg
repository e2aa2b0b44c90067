SPECIFICATION HandoffSpec
CONSTANTS
  k1 = k1
  k2 = k2
  h = h
  a1 = a1
  q1 = q1
  Keys = {k1, k2}
  HandoffId = h
  Approvals = {a1}
  Controls = {}
  Edges <- AmendEdges
  Replayed = {k1}
  MaxPacks = 2
  Files = 2
  NoKey = NoKey
  Jobs <- AllJobs
  Handled <- AllJobs
  Reported = {}
  Requests = {q1}
  MaxAttempts <- OneRetry
  NoJob = NoJob
  Open = Open
  MaxCrashes = 0
  MaxTimeouts = 0
  MaxLetters = 2
INVARIANTS
  CompletedWasSent
  ReviewFollowsDelivery
