SPECIFICATION ReleaseSpec
CONSTANTS
  s1 = s1
  r1 = r1
  r2 = r2
  o1 = o1
  q1 = q1
  Submissions = {s1}
  TriggerIds = {r1}
  OverrideIds = {}
  MaxVersion = 3
  Nobody = Nobody
  Jobs <- AllJobs
  Handled <- AllJobs
  Reported <- AllJobs
  Requests = {q1}
  MaxAttempts <- TwoAttempts
  NoJob = NoJob
  Open = Open
  MaxCrashes = 1
  MaxTimeouts = 0
  MaxLetters = 6
INVARIANTS
  ReleaseRecorded
  ReleasedOnce
