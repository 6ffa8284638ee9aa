---------------------------- MODULE MCUnaryCall ----------------------------
(* Instances of UnaryCall for TLC; the constants are given by each cfg.    *)
EXTENDS UnaryCall
=============================================================================
