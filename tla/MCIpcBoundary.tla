--------------------------- MODULE MCIpcBoundary ---------------------------
EXTENDS IpcBoundary
=============================================================================
