---------------------------- MODULE MCBootGuard ----------------------------
(* The boot wrapper with two recovery attempts, so that one can fail before *)
(* another succeeds and all of them can fail.                               *)
EXTENDS BootGuard
=============================================================================
