SPECIFICATION FairSpec
CONSTANTS
  j1 = j1
  j2 = j2
  q1 = q1
  Jobs = {j1, j2}
  Handled = {j1, j2}
  Reported = {j1}
  Requests = {q1}
  MaxAttempts <- OneOrTwo
  NoJob = NoJob
  Open = Open
  MaxCrashes = 1
  MaxTimeouts = 1
  MaxLetters = 2
INVARIANTS
  TypeOK
  ReplaysOnce
  DeadLettersReplayable
  RunsWithinBudget
  RunningIsWorkedOn
  OpenLettersAreOfTheDead
PROPERTIES
  SettledForGood
  OnlyFaultsForgetJobs
CHECK_DEADLOCK FALSE
