----------------------------- MODULE MCFuncEval -----------------------------
(* FuncEval with the limits a run may set: none (-1), one thread or two.   *)
EXTENDS FuncEval

MCLimits == {-1, 1, 2}
=============================================================================
