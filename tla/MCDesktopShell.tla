--------------------------- MODULE MCDesktopShell ---------------------------
(* Instances of DesktopShell for TLC.                                         *)
EXTENDS DesktopShell, TLC

CONSTANTS ana, carl, s1, s2

On(platform, skip, token, bypass) ==
  [platform |-> platform, skip |-> skip, token |-> token, bypass |-> bypass]
SomeMachines == {On("darwin", FALSE, TRUE, FALSE), On("linux", TRUE, TRUE, TRUE),
                 On("win32", FALSE, FALSE, FALSE)}
=============================================================================
