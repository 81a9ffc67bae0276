--------------------------- MODULE MCFileTransfer ---------------------------
\* Instances of FileTransfer for TLC.
EXTENDS FileTransfer

CONSTANTS c1, c2, c3, online, offline, offline2
=============================================================================
