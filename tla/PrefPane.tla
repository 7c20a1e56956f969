------------------------------ MODULE PrefPane ------------------------------
(***************************************************************************)
(* The Trackpad preference pane as a consumer of the presence observer     *)
(* (voodooinputmavericks_prefpane_refresh.c: on_presence, perform,         *)
(* capture_pane).  The injected code suppresses the pane's own redraws and *)
(* redraws only for what the machine reports; a 2 s tick polls.  The pane  *)
(* is captured and its replay target found before the model starts.        *)
(***************************************************************************)
EXTENDS PresenceObserver

VARIABLE shown   \* "NoTrackpad", "TrackpadWithBattery" or "TrackpadNoBattery"

paneVars == <<observer, shown>>

Views == {"NoTrackpad", "TrackpadWithBattery", "TrackpadNoBattery"}

\* Mutant: a hold blanks the view at once.
PerformEagerly(action) ==
  CASE action \in {"ABSENT", "START_HOLD"} -> "NoTrackpad"
    [] action = "ON_BT"  -> "TrackpadWithBattery"
    [] action = "ON_USB" -> "TrackpadNoBattery"
    [] OTHER             -> shown

\* perform: the view a reported action leaves on screen.
Perform(action) ==
  CASE action = "ABSENT" -> "NoTrackpad"
    [] action = "ON_BT"  -> "TrackpadWithBattery"
    [] action = "ON_USB" -> "TrackpadNoBattery"
    [] OTHER             -> shown

PaneEdge == Edge /\ shown' = Perform(EdgeReported)

PaneHoldFires == HoldFires /\ shown' = Perform(FiredOutcome(Head(holds)).action)

PanePoll == Reconcile /\ shown' = Perform(Reconciled.action)

PaneTypeOK == TypeOK /\ shown \in Views

ViewOf(s) ==
  CASE s = "NONE" -> "NoTrackpad"
    [] s = "BT"   -> "TrackpadWithBattery"
    [] s = "USB"  -> "TrackpadNoBattery"

PaneInit == ObserverInit /\ shown = ViewOf(state)

PaneNext ==
  \/ Kernel /\ UNCHANGED shown
  \/ PaneEdge
  \/ PaneHoldFires
  \/ PanePoll

PaneSpec == PaneInit /\ [][PaneNext]_paneVars

(* The run loop serves its port, the timers fire, and the tick repeats for *)
(* as long as the pane lives.                                              *)
PaneFairSpec ==
  PaneSpec /\ WF_paneVars(PaneEdge) /\ WF_paneVars(PaneHoldFires) /\ WF_paneVars(PanePoll)

---------------------------------------------------------------------------
(* The screen shows the machine's state whenever the machine is settled,   *)
(* although it is redrawn only on reported actions and the pane's own      *)
(* redraws are suppressed; while a removal is held it never goes blank     *)
(* (test_presence.c: a handoff is "NEVER NoTrackpad in between").          *)
ScreenAgrees ==
  IF state = "HOLD" THEN shown # "NoTrackpad" ELSE shown = ViewOf(state)

(* Once the readers stop changing, the screen comes to show the transport  *)
(* really present and stays there, however many notifications were merged  *)
(* or are stale (test_presence.c: displayed == view_for(truth)).           *)
SettlesOnTruth == <>[](shown = ViewOf(ViewFor(bt # {}, usb)))

=============================================================================
