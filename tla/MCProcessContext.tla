-------------------------- MODULE MCProcessContext --------------------------
EXTENDS ProcessContext, TLC

CONSTANTS t1, t2, t3, a, b

MCCopyOf == t1 :> a @@ t2 :> a @@ t3 :> b
=============================================================================
