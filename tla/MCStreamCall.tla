---------------------------- MODULE MCStreamCall ----------------------------
(* Instances of StreamCall for TLC; the constants are given by each cfg.   *)
EXTENDS StreamCall
=============================================================================
