---------------------------- MODULE MCToolDispatch ----------------------------
(***************************************************************************)
(* ToolDispatch for TLC: a step with two calls, or this and a step with    *)
(* one, before the model replies.                                          *)
(***************************************************************************)
EXTENDS ToolDispatch

CONSTANTS c1, c2, c3

OneStep == <<<<c1, c2>>>>
TwoSteps == <<<<c1, c2>>, <<c3>>>>
===============================================================================
