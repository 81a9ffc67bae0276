--------------------------- MODULE MCPcLoginStatus ---------------------------
\* An instance of PcLoginStatus for TLC.
EXTENDS PcLoginStatus, TLC

CONSTANTS s1, s2, u1, win, mac, ios

MCSymmetry == Permutations(Server) \cup Permutations(PCType)
=============================================================================
