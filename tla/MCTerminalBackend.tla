-------------------------- MODULE MCTerminalBackend --------------------------
(* The whole state space: there is nothing to bound but the one instance    *)
(* of each object, which is what one mux owns.                              *)
EXTENDS TerminalBackend
==============================================================================
