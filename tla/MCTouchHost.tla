---------------------------- MODULE MCTouchHost ----------------------------
(* Two readers (Bluetooth, USB), two contact ids so that a frame can be     *)
(* full, two positions, and a clock that stays short of its wrap.           *)
EXTENDS TouchHost
=============================================================================
