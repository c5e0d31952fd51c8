------------------------------- MODULE MCSem --------------------------------
EXTENDS Sem, TLC

CONSTANTS t1, t2, t3

MCThreads == {t1, t2, t3}
MCObjects == {sem}
MCPrios == {0, 1}
=============================================================================
