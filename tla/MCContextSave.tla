---------------------------- MODULE MCContextSave ----------------------------
EXTENDS ContextSave

(* Each kind of place, every length of one register, and registers that    *)
(* the assembly saves in different ways.                                   *)
ClosurePlaces ==
  {<<"r64", 0>>, <<"r32", 0>>, <<"r16", 3>>, <<"r32", 9>>, <<"flag", 0>>, <<"flag", 6>>,
   <<"st", 7>>, <<"xmm", 1>>, <<"ymm", 1>>, <<"zmm", 1>>, <<"zmm", 16>>, <<"k", 0>>}
=============================================================================
