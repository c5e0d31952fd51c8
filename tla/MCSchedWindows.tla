--------------------------- MODULE MCSchedWindows ---------------------------
EXTENDS SchedWindows, TLC

CONSTANTS t1, t2, t3, sem

MCThreads == {t1, t2, t3}
MCObjects == {sem}
MCPrios == {-1, 0, 1}
ThreadSymmetry == Permutations(MCThreads)
=============================================================================
