----------------------------- MODULE MCSchedUP ------------------------------
EXTENDS SchedUP, TLC

CONSTANTS t1, t2, t3, sem

MCThreads == {t1, t2, t3}
MCObjects == {sem}
MCPrios == {-1, 0}
MCCoopPrios == {-2, -1, 0}
ThreadSymmetry == Permutations(MCThreads)
=============================================================================
