---------------------------- MODULE MCRouteStatus ----------------------------
\* Instances of RouteStatus for TLC.
EXTENDS RouteStatus, TLC

CONSTANTS s1, s2, u1, win, mac, ios

MCSymmetry == Permutations(Server) \cup Permutations(PCType)
=============================================================================
