------------------------------ MODULE MCPaneShow ------------------------------
(***************************************************************************)
(* One battery level that is not empty, two changes of the presence, and   *)
(* a few visits to each pane.                                              *)
(***************************************************************************)
EXTENDS PaneShow
==============================================================================
