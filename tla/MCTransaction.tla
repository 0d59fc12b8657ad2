--------------------------- MODULE MCTransaction ---------------------------
(***************************************************************************)
(* Values for the constants of Transaction.                                *)
(***************************************************************************)
EXTENDS Transaction, TLC

CONSTANTS mux, c1, c2, c3

MCFibers == {mux}
MCRequests == Commands \cup {"AUTH", "SELECT", "SETNAME", "PING"}
MCHello == <<"SELECT">>
=============================================================================
