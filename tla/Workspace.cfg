SPECIFICATION PageSpec
CONSTANTS
  Drafts = {s1, s2}
  Folders = {f1, f2}
  Stays = TRUE
  MaxEarlier = 1
  MaxClicks = 3
  MaxAutosaves = 1
  MaxFaults = 1
INVARIANTS
  SubmittedFolderPassedQc
  VerdictIsKeptWithItsFolder
  UploadIsWatched
CHECK_DEADLOCK FALSE
SYMMETRY Alike
