------------------------- MODULE MCServerLifecycle -------------------------
(* Instances of ServerLifecycle for TLC; the constants are given by a cfg.  *)
EXTENDS ServerLifecycle
=============================================================================
