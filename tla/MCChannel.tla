------------------------------ MODULE MCChannel ------------------------------
(* Instances of Channel for TLC; the constants are given by each cfg.       *)
EXTENDS Channel
=============================================================================
