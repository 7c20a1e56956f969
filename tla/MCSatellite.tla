----------------------------- MODULE MCSatellite -----------------------------
(* The whole state space: one mux, one reader of either transport, one AMD. *)
EXTENDS Satellite
==============================================================================
