------------------------------ MODULE MCService ------------------------------
(***************************************************************************)
(* A service with an HTTP and an HTTPS server, and two versions of its key *)
(* pair.                                                                   *)
(***************************************************************************)
EXTENDS Service
=============================================================================
