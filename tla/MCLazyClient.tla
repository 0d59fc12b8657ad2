---------------------------- MODULE MCLazyClient ----------------------------
(***************************************************************************)
(* Values for the constants of LazyClient.                                 *)
(***************************************************************************)
EXTENDS LazyClient, TLC

CONSTANTS c1, c2, mux, boot

MCFibers == {mux, boot}
MCRequests == Commands \cup {"AUTH", "SELECT", "SETNAME", "PING"}
MCHello == <<"SELECT">>
MCRejectable == {"SELECT"}
MCNumbers == ("0" :> 0) @@ ("2" :> 2) @@ ("6380" :> 6380)
MCURLs ==
    [secure : BOOLEAN, hostname : {"", "host"}, port : {"", "6380"},
     username : {"", "user"}, password : {"", "pass"}, path : {"", "0", "2", "x"},
     queryDb : {Undefined, "", "2"}, querySsl : {FALSE},
     queryPassword : {Undefined, "", "other"}]
\* In halves: multipliers of 0, 0.5, 1 and 1.5.
MCBackoffs ==
    [multiplier : {0, 1, 2, 3}, minInterval : {0, 10}, maxInterval : {6, 90, Inf}]
=============================================================================
