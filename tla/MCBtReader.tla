----------------------------- MODULE MCBtReader ------------------------------
(* Two connections, so that the readers of the first may still be stopping  *)
(* while those of the second come up.                                       *)
EXTENDS BtReader
==============================================================================
