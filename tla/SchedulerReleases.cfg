SPECIFICATION FairReleaseSpec
CONSTANTS
  s1 = s1
  r1 = r1
  r2 = r2
  o1 = o1
  q1 = q1
  Submissions = {s1}
  TriggerIds = {r1}
  OverrideIds = {o1}
  MaxVersion = 3
  Nobody = Nobody
  Jobs <- AllJobs
  Handled <- AllJobs
  Reported <- AllJobs
  Requests = {}
  MaxAttempts <- TwoAttempts
  NoJob = NoJob
  Open = Open
  MaxCrashes = 0
  MaxTimeouts = 0
  MaxLetters = 3
INVARIANTS
  ScheduledHasJob
PROPERTIES
  ScheduledIsReleased
