----------------------------- MODULE MCDBProxy ------------------------------
\* Instances of DBProxy for TLC.
EXTENDS DBProxy, TLC

CONSTANTS w1, w2, w3, h1, h2, master, slave, unread, group_member

MCMinConn == [p \in Pool |-> 1]
MCMaxConn == [p \in Pool |-> IF p = Master THEN 2 ELSE 1]
=============================================================================
