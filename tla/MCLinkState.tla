---------------------------- MODULE MCLinkState -----------------------------
(* One MT2BTReader stands for both channels (MCPrefPane has the two), and   *)
(* enough changes for a link that is replaced by USB and comes back.        *)
EXTENDS LinkState
=============================================================================
