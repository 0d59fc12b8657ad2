---------------------------- MODULE MCMethodCall ----------------------------
(***************************************************************************)
(* The calls of command.ts, with lists of up to two elements.              *)
(***************************************************************************)
EXTENDS MethodCall
=============================================================================
