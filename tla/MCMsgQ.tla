------------------------------- MODULE MCMsgQ -------------------------------
EXTENDS MsgQ, TLC

CONSTANTS t1, t2, t3, m1, m2

MCThreads == {t1, t2, t3}
MCObjects == {msgq}
MCMsgs == {m1, m2}
MCPrios == {0}
Symmetric == Permutations(MCThreads) \cup Permutations(MCMsgs)
=============================================================================
