-------------------------------- MODULE MCHttp --------------------------------
(* A small instance of Http. *)
EXTENDS Http
=============================================================================
