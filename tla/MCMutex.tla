------------------------------ MODULE MCMutex -------------------------------
EXTENDS Mutex, TLC

CONSTANTS t1, t2, t3, m1, cv1

MCThreads == {t1, t2, t3}
MCMutexes == {m1}
MCCondvars == {cv1}
MCObjects == {m1, cv1}
MCPrios == {0, 1, 2}
ThreadSymmetry == Permutations(MCThreads)
=============================================================================
