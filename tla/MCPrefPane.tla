----------------------------- MODULE MCPrefPane -----------------------------
(* The two MT2BTReader instances of a link, and enough changes for a        *)
(* handoff in each direction with a replug while the first is still held.   *)
EXTENDS PrefPane
=============================================================================
