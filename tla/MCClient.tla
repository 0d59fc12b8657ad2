------------------------------ MODULE MCClient ------------------------------
(***************************************************************************)
(* Values for the constants of Client.                                     *)
(***************************************************************************)
EXTENDS Client, TLC

CONSTANTS c1, c2, c3, mux

MCFibers == {mux}
MCRequests == Commands \cup {"AUTH", "SELECT", "SETNAME", "PING"}
MCHello == <<"AUTH", "SELECT">>
MCHello1 == <<"SELECT">>
MCRejectable == {c1, "AUTH", "SELECT", "PING"}
=============================================================================
