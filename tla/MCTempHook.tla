----------------------------- MODULE MCTempHook -----------------------------
EXTENDS TempHook, TLC

HookSymmetry == Permutations(Threads) \cup Permutations(Hooks)
=============================================================================
