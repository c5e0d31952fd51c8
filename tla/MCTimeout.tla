----------------------------- MODULE MCTimeout ------------------------------
EXTENDS Timeout, TLC

CONSTANTS a, b, c, cpu0, cpu1

MCTimeouts == {a, b, c}
OneCpu == {cpu0}
TwoCpus == {cpu0, cpu1}
MCDelays == {0, 2}
MCDeadlines == {3}
TimeoutSymmetry == Permutations(MCTimeouts)
=============================================================================
