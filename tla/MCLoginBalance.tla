--------------------------- MODULE MCLoginBalance ---------------------------
\* Instances of LoginBalance for TLC.
EXTENDS LoginBalance, TLC

CONSTANTS s1, s2

\* One msg_server that fills up within the bound, one that does not.
MCMaxConn == (s1 :> 1) @@ (s2 :> 3)
=============================================================================
