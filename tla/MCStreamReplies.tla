-------------------------- MODULE MCStreamReplies --------------------------
(***************************************************************************)
(* Values for the constants of StreamReplies.  With Safe = 3, the integer  *)
(* 5 stands for those a double cannot hold.                                *)
(***************************************************************************)
EXTENDS StreamReplies

Pair(f, v) == <<Word(f), Word(v)>>

MCIds == {<<1, 0>>, <<1, 1>>, <<2, 5>>}
MCStarts == {<<0, 0>>, <<1, 0>>}
MCBodies == {Pair("a", "x") \o Pair("a", "y"), Pair("", "x") \o Pair("b", "x")}
=============================================================================
