---------------------------- MODULE MCServerCall ----------------------------
(* Instances of ServerCall for TLC; the constants are given by each cfg.   *)
EXTENDS ServerCall
=============================================================================
