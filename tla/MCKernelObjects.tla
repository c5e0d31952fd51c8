--------------------------- MODULE MCKernelObjects --------------------------
EXTENDS KernelObjects
CONSTANTS t1, t2, a1, c1, c2, c3, b1, b2, e1, e2, o1, o2, o3, tw
MCStarterSets == {{ISR}, {t2}}
MCEventArrays == (t1 :> <<o1, o2>>) @@ (t2 :> <<o3>>) @@ (tw :> <<o1, o2>>)
=============================================================================
