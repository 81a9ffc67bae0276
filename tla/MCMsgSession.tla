---------------------------- MODULE MCMsgSession ----------------------------
\* Instances of MsgSession for TLC.
EXTENDS MsgSession, TLC

CONSTANTS c1, c2, c3, n1, n2, n3, u1, u2, o1, o2, o3

\* n1 and n2 are two spellings of the login name of u1; n3 belongs to u2.
MCUidOf == [n \in Name |-> IF n = n3 THEN u2 ELSE u1]

MCSymmetry == Permutations(Conn) \cup Permutations(UserObj)
=============================================================================
