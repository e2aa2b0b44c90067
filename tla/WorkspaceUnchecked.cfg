SPECIFICATION PageSpec
CONSTANTS
  Drafts = {s1, s2}
  Folders = {f1, f2}
  Stays = FALSE
  MaxEarlier = 1
  MaxClicks = 4
  MaxAutosaves = 0
  MaxFaults = 0
INVARIANTS
  SubmittedFolderPassedQc
CHECK_DEADLOCK FALSE
SYMMETRY Alike
