------------------------------- MODULE PaneShow -------------------------------
(***************************************************************************)
(* What the code injected into System Preferences puts on the screen       *)
(* (voodooinputmavericks_prefpane_refresh.c): the trackpad view it forces, *)
(* the battery row it paints over Apple's, the Change-Batteries button it  *)
(* keeps hidden, its About tab, and the trackpad's icon and battery glyph  *)
(* in the Bluetooth pane's list.  Everything runs on the main thread, one  *)
(* turn of the run loop at a time, so a turn is one action: an operator on *)
(* the screen u for every function of the code, and an action that         *)
(* composes them in the order of the calls.  PrefPane has the presence     *)
(* machine with its real notifications; here its edges come as they like.  *)
(*                                                                         *)
(* Levels are battery levels in percent; 0 is an empty battery or a node   *)
(* that has no level yet.  A level of -1 is not known.                     *)
(***************************************************************************)
EXTENDS Presence, Integers

CONSTANTS Levels,                  \* the levels a working trackpad may have
          ListGlyph,               \* what is found in the Bluetooth pane, see FindBatteryRow
          MaxEdges, MaxVisits      \* bounds: presence edges, panes selected

ASSUME ShowAssumption ==
    /\ Levels \subseteq 1 .. 100 /\ Levels # {}
    /\ ListGlyph \in {"none", "bare", "labelled"}
    /\ MaxEdges \in Nat /\ MaxVisits \in Nat

VARIABLES
    u,          \* the screen, and what the code remembers of it
    state,      \* the presence machine's
    present,    \* the transport really present
    front,      \* the pane in the window: Trackpad, Bluetooth, other
    bluetooth,  \* is IOBluetooth loaded?
    staged,     \* is an update waiting for a restart?
    edges, visits,
    ours,       \* history: was the row painted by us, and not rebuilt by Apple since?
    missed      \* history: did the machine's view change behind another pane since then?

vars == <<u, state, present, front, bluetooth, staged, edges, visits, ours, missed>>

\* "other" has a tab strip of its own, with a delegate, as Keyboard has.
Panes == {"Trackpad", "Bluetooth", "other"}
Strips == {"Trackpad", "other"}
Readings == {0} \cup Levels

-----------------------------------------------------------------------------
(* The battery row                                                         *)

(* find_battery_row: the first view whose class is some BatteryControl. In *)
(* the Trackpad pane's window it is the row, in the bottom bar. In the     *)
(* Bluetooth pane's it may be the BT_BatteryControl of our own row of the  *)
(* list, with two text fields after it or without; the nib, which is       *)
(* Apple's, decides, so ListGlyph is any of that. (A glyph that belongs to *)
(* another device, or is too deep, is "none": nothing here shows it.)      *)
FindBatteryRow(root) ==
    CASE root = "Trackpad"  -> "row"
      [] root = "Bluetooth" -> ListGlyph
      [] OTHER -> "none"

(* mavericks_battery_now: the level a Bluetooth node gives, if it has one, *)
(* is held for both transports.                                            *)
BatteryNow(s, st, reading) ==
    IF st = "BT" /\ reading # 0 THEN [s EXCEPT !.gDevicePct = reading] ELSE s

(* mavericks_paint_battery: a control and its two text fields, or nothing. *)
PaintBattery(s, st, root) ==
    LET found == FindBatteryRow(root)
    IN  IF s.gDevicePct < 0 \/ found \in {"none", "bare"} THEN s
        ELSE IF found = "row"
        THEN [s EXCEPT !.pct = s.gDevicePct, !.charging = (st = "USB"), !.hidden = FALSE,
                       !.gBattPainted = TRUE]
        ELSE [s EXCEPT !.glyph = s.gDevicePct, !.glyphHidden = FALSE, !.gBattPainted = TRUE]

(* mavericks_usb_read_battery: a level, or 0 for a read that fails; a      *)
(* level of 0 changes nothing either.                                      *)
UsbRead == Readings

(* mavericks_refresh_usb_battery: one read at a time, one in 30 s.         *)
RefreshUsb(s) ==
    IF s.gUsbReadInFlight \/ s.throttled THEN s
    ELSE [s EXCEPT !.gUsbReadInFlight = TRUE, !.throttled = TRUE]

(* Mutant: the row is left alone when the device goes.                     *)
RenderBatteryKeepsRow(s, st, root, reading) ==
    LET b == PaintBattery(BatteryNow(s, st, reading), st, root)
    IN  CASE st \in {"HOLD", "NONE"} -> s
          [] st = "BT"  -> b
          [] st = "USB" -> RefreshUsb(b)

(* mavericks_render_battery. In NONE it hides whatever control it finds,   *)
(* and takes the row for hidden whether or not that was the row.           *)
RenderBattery(s, st, root, reading) ==
    LET b == PaintBattery(BatteryNow(s, st, reading), st, root)
        hides(where) == s.gBattPainted /\ root = where /\ FindBatteryRow(root) # "none"
    IN  CASE st = "HOLD" -> s
          [] st = "NONE" -> [s EXCEPT !.hidden = @ \/ hides("Trackpad"),
                                      !.glyphHidden = @ \/ hides("Bluetooth"),
                                      !.gBattPainted = FALSE, !.throttled = FALSE]
          [] st = "BT"   -> b
          [] st = "USB"  -> RefreshUsb(b)

(* _checkBatteryTimer: Apple paints what its own node says, empty while    *)
(* that is gone, and offers to change the batteries of an empty one; the   *)
(* swizzle hides the button and puts the known level back.                 *)
CheckBatteryTimer(s, reading) ==
    IF ~s.gPane
    THEN [s EXCEPT !.pct = reading, !.charging = FALSE, !.button = (reading = 0)]
    ELSE [s EXCEPT !.pct = IF reading = 0 /\ s.gDevicePct >= 1 THEN s.gDevicePct ELSE reading,
                   !.charging = FALSE, !.button = FALSE]

-----------------------------------------------------------------------------
(* The view and its controller                                             *)

(* current_view_is_trackpad                                                *)
IsTrackpadView(s) == s.view = "Trackpad"

(* The nib Apple asks for is NoTrackpad, for nothing it knows is present;  *)
(* my_controlerForNIB makes it the trackpad's while the machine says one   *)
(* is. A new view has a new tab strip and the nib's hidden button.         *)
LoadMainView(s, st) ==
    [s EXCEPT !.view = IF s.gPane /\ st # "NONE" THEN "Trackpad" ELSE "NoTrackpad",
              !.about["Trackpad"] = 0, !.label = "none", !.button = FALSE]

(* find_mt_controller: the controller is there with the trackpad's view.   *)
ControllerFound(s) == s.gPane /\ IsTrackpadView(s)

(* eager_capture_magic                                                     *)
EagerCapture(s) == [s EXCEPT !.gMagicCtrl = @ \/ ControllerFound(s)]

(* gOrigMagicAction_call: Apple shows the row on Bluetooth, hides it on    *)
(* USB; without the controller the replay is skipped.                      *)
MagicAction(s, connected) ==
    LET c == EagerCapture(s)
    IN  IF c.gMagicCtrl THEN [c EXCEPT !.hidden = ~connected] ELSE c

-----------------------------------------------------------------------------
(* The About tab                                                           *)

Wanted == IF staged THEN "restart" ELSE "version"

(* find_tabview, under the content of the window that shows root: is there *)
(* a strip?                                                                *)
HasStrip(s, root) == root \in Strips /\ (root = "Trackpad" => IsTrackpadView(s))

(* mavericks_build_about_view: a new view always shows the bare version.   *)
BuildAbout(s, root) ==
    [s EXCEPT !.about[root] = @ + 1, !.label = IF root = "Trackpad" THEN "version" ELSE @,
              !.gAboutVer = "version"]

(* install_tab_delegate_swizzle: once, for the class of the delegate of    *)
(* the first strip it is given.                                            *)
GuardTabs(s, root) == IF s.guarded = "none" THEN [s EXCEPT !.guarded = root] ELSE s

(* Mutant: a tab is added wherever there is a strip.                       *)
InjectAboutAlways(s, root) ==
    IF HasStrip(s, root) THEN BuildAbout(GuardTabs(s, root), root) ELSE s

(* mavericks_inject_about_tab: once into a strip, with its delegate        *)
(* swizzled, for Apple's fails on a tab it does not know.                  *)
InjectAbout(s, root) ==
    IF ~HasStrip(s, root) THEN s
    ELSE LET g == GuardTabs(s, root)
         IN  IF g.about[root] > 0 THEN g ELSE BuildAbout(g, root)

(* mavericks_about_refresh: the label is set when what is wanted is not    *)
(* what gAboutVer says is shown.                                           *)
AboutRefresh(s) ==
    IF IsTrackpadView(s) /\ s.about["Trackpad"] > 0 /\ Wanted # s.gAboutVer
    THEN [s EXCEPT !.label = Wanted, !.gAboutVer = Wanted]
    ELSE s

-----------------------------------------------------------------------------
(* The Bluetooth pane's list                                               *)

(* install_device_icon_swizzle                                             *)
IconSwizzle(s, loaded) == [s EXCEPT !.iconSwizzled = @ \/ loaded]

(* Mutant: the icon is not bound again.                                    *)
RebindNever(s, root) == s

(* kvo_refresh_mavericks_icon, once: what the row bound before the swizzle *)
(* is read again.                                                          *)
RebindIcon(s, root) ==
    IF root = "Bluetooth" /\ s.iconSwizzled /\ ~s.gIconRebound
    THEN [s EXCEPT !.icon = "art", !.gIconRebound = TRUE]
    ELSE s

(* mavericks_paint_bt_list_battery: the value of the glyph in the          *)
(* trackpad's row; whether that is hidden is left to a binding of Apple's. *)
PaintGlyph(s, root) ==
    IF root = "Bluetooth" /\ s.gDevicePct >= 0 THEN [s EXCEPT !.glyph = s.gDevicePct] ELSE s

(* aux_reassert, for whatever pane is in front. Only our Bluetooth AMD has *)
(* a level to read.                                                        *)
Reassert(s, root, reading) ==
    LET r == RebindIcon(IconSwizzle(s, bluetooth), root)
    IN  PaintGlyph(BatteryNow(r, present, reading), root)

-----------------------------------------------------------------------------
(* The presence machine's consumer                                         *)

(* The actions that render something.                                      *)
Shows == {"ABSENT", "ON_BT", "ON_USB"}

(* perform, with the pane root in the window: a departure cleans the label *)
(* while the view still exists, an arrival rebuilds the view only if it is *)
(* not the trackpad's and replays the controller's own update; then the    *)
(* battery row and the About tab.                                          *)
Perform(s, a, st, root, reading) ==
    IF ~s.gPane \/ a \notin Shows THEN s
    ELSE LET gone    == LoadMainView(PaintBattery(s, "NONE", root), st)
             arrived == IF IsTrackpadView(s) THEN s ELSE LoadMainView(s, st)
             v == CASE a = "ABSENT" /\ IsTrackpadView(s) -> gone
                    [] a = "ABSENT" /\ ~IsTrackpadView(s) -> s
                    [] OTHER -> MagicAction(arrived, a = "ON_BT")
         IN  InjectAbout(RenderBattery(v, st, root, reading), root)

(* walk_hide_battery_button: the button is in the bottom bar, too.         *)
HideButton(s, root) == [s EXCEPT !.button = @ /\ root # "Trackpad"]

(* hide_battery_button_now: the pane's whole window, if it is in one, else *)
(* its main view alone, which has the tab strip but not the bottom bar.    *)
HideNow(s, st, root) ==
    LET bar      == IF root = "Trackpad" THEN root ELSE "none"
        rendered == {RenderBattery(HideButton(s, bar), st, bar, reading) :
                        reading \in Readings}
    IN  {AboutRefresh(r) : r \in {InjectAbout(r, "Trackpad") : r \in rendered}}

Polled == ReconcileTo(state, present = "BT", present = "USB")

(* A turn in which perform did a, and the row was rendered or not, with    *)
(* root in front. Painted, the row is ours, until Apple builds it anew.    *)
Hands(a, rendered, root) ==
    LET painted == /\ rendered /\ root = "Trackpad"
                   /\ state' \in {"BT", "USB"} /\ u'.gBattPainted
    IN  /\ ours' = (ours \/ painted)
        /\ missed' = ((missed /\ ~painted) \/ (a \in Shows /\ root # "Trackpad"))

(* capture_pane, of a pane that is not captured yet: the swizzles, the     *)
(* observer brought to the truth, the tick, and the first pass at once.    *)
Capture(s, root) ==
    LET c      == [s EXCEPT !.gPane = TRUE]
        polled == {Perform(c, Polled.action, Polled.next, root, reading) : reading \in Readings}
    IN  UNION {HideNow(p, Polled.next, root) : p \in polled}

-----------------------------------------------------------------------------
(* Actions: turns of the run loop                                          *)

(* mavericks_activate, install_swizzle: the plug-in is loaded.             *)
Activate ==
    /\ ~u.active
    /\ u' = IconSwizzle([u EXCEPT !.active = TRUE], bluetooth)
    /\ UNCHANGED <<state, present, front, bluetooth, staged, edges, visits, ours, missed>>

(* IOBluetooth is loaded, and mavericks_dyld_added is told.                *)
BluetoothLoads ==
    /\ ~bluetooth /\ bluetooth' = TRUE
    /\ u' = IconSwizzle(u, u.active)
    /\ UNCHANGED <<state, present, front, staged, edges, visits, ours, missed>>

(* try_capture_current, for a pane that was open before the plug-in; when  *)
(* its three retries come is left open.                                    *)
TryCapture ==
    /\ u.active /\ ~u.gPane /\ front = "Trackpad"
    /\ u' \in Capture(u, front) /\ state' = Polled.next
    /\ Hands(Polled.action, TRUE, front)
    /\ UNCHANGED <<present, front, bluetooth, staged, edges, visits>>

(* Another pane, or a visit before the plug-in is active: Apple may build  *)
(* the Trackpad pane's view anew, with the row as it likes; the Bluetooth  *)
(* pane binds its icons through the swizzle, if it is in.                  *)
Shown(s, p, rebuilt, hidden) ==
    CASE p = "Bluetooth" ->
           [s EXCEPT !.icon = IF s.iconSwizzled THEN "art" ELSE "generic",
                     !.glyph = -1, !.glyphHidden = FALSE]
      [] p = "Trackpad" /\ rebuilt -> [LoadMainView(s, state) EXCEPT !.hidden = hidden]
      [] OTHER -> s

(* my_willSelect, Apple's select, my_didSelect: a Trackpad pane that is    *)
(* seen for the first time is captured, and what we inject is asserted.    *)
SelectPane(p) ==
    /\ p # front /\ visits < MaxVisits /\ visits' = visits + 1
    /\ p = "Bluetooth" => bluetooth
    /\ front' = p
    /\ \E rebuilt, hidden \in BOOLEAN, reading \in Readings :
         LET will  == IF u.active THEN IconSwizzle(u, bluetooth) ELSE u
             shown == Shown(will, p, rebuilt, hidden)
             first == u.active /\ p = "Trackpad" /\ ~u.gPane
             selected == IF first THEN Capture(shown, p) ELSE {shown}
         IN  /\ u' \in IF u.active THEN {Reassert(s, p, reading) : s \in selected}
                       ELSE selected
             /\ state' = IF first THEN Polled.next ELSE state
             /\ IF first THEN Hands(Polled.action, TRUE, p)
                ELSE ours' = (ours /\ ~(p = "Trackpad" /\ rebuilt)) /\ UNCHANGED missed
    /\ UNCHANGED <<present, bluetooth, staged, edges>>

(* on_presence: an edge or the end of the removal window.                  *)
PresenceEvent(e) ==
    /\ u.gPane
    /\ IF e = "REMOVAL_ELAPSED" THEN state = "HOLD" /\ UNCHANGED edges
       ELSE edges < MaxEdges /\ edges' = edges + 1
    /\ LET r == Step(state, e)
       IN  /\ state' = r.next
           /\ \E reading \in Readings : u' = Perform(u, r.action, r.next, front, reading)
           /\ Hands(r.action, r.action \in Shows, front)
    /\ UNCHANGED <<present, front, bluetooth, staged, visits>>

(* The 2 s tick.                                                           *)
Tick ==
    /\ u.gPane
    /\ state' = Polled.next
    /\ \E reading \in Readings :
         \E s \in {Perform(u, Polled.action, state', front, reading)} :
            u' \in HideNow(s, state', front)
    /\ Hands(Polled.action, TRUE, front)
    /\ UNCHANGED <<present, front, bluetooth, staged, edges, visits>>

(* The 1.5 s tick, less the name mirror (NameMirror).                      *)
AuxTick ==
    /\ u.active
    /\ \E reading \in Readings : u' = Reassert(u, front, reading)
    /\ UNCHANGED <<state, present, front, bluetooth, staged, edges, visits, ours, missed>>

(* The block that mavericks_refresh_usb_battery dispatches.                *)
UsbReadDone ==
    /\ u.gUsbReadInFlight
    /\ UNCHANGED <<state, present, front, bluetooth, staged, edges, visits>>
    /\ \E reading \in UsbRead :
         LET r == [u EXCEPT !.gUsbReadInFlight = FALSE,
                            !.gDevicePct = IF reading = 0 THEN @ ELSE reading]
             paints == reading # 0 /\ state = "USB"
         IN  /\ u' = IF paints THEN PaintBattery(r, state, front) ELSE r
             /\ Hands("NO_ACTION", paints, front)

ThrottleEnds ==
    /\ u.throttled /\ ~u.gUsbReadInFlight
    /\ u' = [u EXCEPT !.throttled = FALSE]
    /\ UNCHANGED <<state, present, front, bluetooth, staged, edges, visits, ours, missed>>

(* Apple's timer, and the notifications that end in it.                    *)
AppleTimer ==
    /\ u.view = "Trackpad"
    /\ \E reading \in Readings : u' = CheckBatteryTimer(u, reading)
    /\ UNCHANGED <<state, present, front, bluetooth, staged, edges, visits, ours, missed>>

(* my_magicAction: the pane's own update is suppressed, its controller     *)
(* captured. (Its _ioServiceObserver:deviceConnected: is suppressed        *)
(* without a trace.)                                                       *)
OwnUpdate ==
    /\ u.gPane /\ u.view = "Trackpad"
    /\ u' = [u EXCEPT !.gMagicCtrl = TRUE]
    /\ UNCHANGED <<state, present, front, bluetooth, staged, edges, visits, ours, missed>>

(* The binding of the glyph's hidden to objectValue.showBattery fires.     *)
GlyphBound ==
    /\ u.glyphHidden
    /\ u' = [u EXCEPT !.glyphHidden = FALSE]
    /\ UNCHANGED <<state, present, front, bluetooth, staged, edges, visits, ours, missed>>

DeviceMoves ==
    /\ edges < MaxEdges /\ edges' = edges + 1
    /\ present' \in {"NONE", "BT", "USB"}
    /\ UNCHANGED <<u, state, front, bluetooth, staged, visits, ours, missed>>

UpdateStaged ==
    /\ ~staged /\ staged' = TRUE
    /\ UNCHANGED <<u, state, present, front, bluetooth, edges, visits, ours, missed>>

-----------------------------------------------------------------------------
Init ==
    /\ u = [active |-> FALSE, gPane |-> FALSE, iconSwizzled |-> FALSE,
            guarded |-> "none", gMagicCtrl |-> FALSE, view |-> "NoTrackpad",
            hidden |-> TRUE, pct |-> 0, charging |-> FALSE,
            button |-> FALSE, about |-> [t \in Strips |-> 0], label |-> "none", gAboutVer |-> "none",
            gBattPainted |-> FALSE, gDevicePct |-> -1, gUsbReadInFlight |-> FALSE,
            throttled |-> FALSE, gIconRebound |-> FALSE, icon |-> "none", glyph |-> -1,
            glyphHidden |-> FALSE]
    /\ state = "NONE" /\ present \in {"NONE", "BT", "USB"}
    /\ front \in {"Trackpad", "other"}
    /\ bluetooth = FALSE /\ staged = FALSE /\ edges = 0 /\ visits = 0
    /\ ours = FALSE /\ missed = FALSE

Next ==
    \/ Activate \/ BluetoothLoads \/ TryCapture
    \/ \E p \in Panes : SelectPane(p)
    \/ \E e \in Events : PresenceEvent(e)
    \/ Tick \/ AuxTick \/ UsbReadDone \/ ThrottleEnds
    \/ AppleTimer \/ OwnUpdate \/ GlyphBound \/ DeviceMoves \/ UpdateStaged

Spec == Init /\ [][Next]_vars

(* The main thread keeps turning: its timers fire, its queue is drained.   *)
FairSpec == Spec /\ WF_vars(Tick) /\ WF_vars(AuxTick) /\ WF_vars(UsbReadDone)

-----------------------------------------------------------------------------
(* A row that we painted tells the truth, through every merge of Apple's   *)
(* timer, our ticks, the edges and the USB read: it is never empty; it is  *)
(* hidden exactly when no trackpad is there, and charging only with a      *)
(* cable, unless the view changed behind another pane since we painted it  *)
(* (NoTrackpadNoBattery is about that); and no pane of ours offers to      *)
(* change batteries.  (mavericks_render_battery, my_checkBatteryTimer,     *)
(* perform.)                                                               *)
RowHonest ==
    u.gPane /\ front = "Trackpad" =>
        /\ ~u.button
        /\ ours => u.pct # 0
        /\ ours /\ ~missed => /\ u.hidden <=> state = "NONE"
                              /\ u.charging => state \in {"USB", "HOLD"}

(* A row that we painted is never shown without a trackpad, whatever pane  *)
(* was in front when the trackpad went: the comment at the head of         *)
(* mavericks_render_battery.  Refuted: gBattPainted is cleared although    *)
(* no row was found.                                                       *)
NoTrackpadNoBattery ==
    u.gPane /\ front = "Trackpad" /\ ours /\ state = "NONE" => u.hidden

(* The view is the trackpad's exactly while the machine shows one, however *)
(* it was rebuilt; a strip never has two About tabs, and a label that      *)
(* gAboutVer takes for up to date, and so leaves alone, is what it says.   *)
(* (my_controlerForNIB, mavericks_inject_about_tab, about_refresh.)        *)
ViewAndTabFollow ==
    /\ u.gPane => (u.view = "Trackpad" <=> state # "NONE")
    /\ \A t \in Strips : u.about[t] <= 1
    /\ u.about["Trackpad"] > 0 /\ u.gAboutVer = Wanted => u.label = Wanted

Settled(t) == u.gPane /\ front = "Trackpad" /\ state = t /\ present = t /\ u.gDevicePct >= 1

(* What we own on the screen catches up with the device while nothing      *)
(* moves: the Trackpad pane shows view, level, cable, tab and version, the *)
(* Bluetooth pane our art and the level.  (The 2 s tick, the 1.5 s tick.)  *)
ScreenCatchesUp ==
    /\ \A t \in {"BT", "USB"} :
         Settled(t) ~> \/ ~Settled(t)
                       \/ /\ u.view = "Trackpad" /\ ~u.hidden /\ u.pct = u.gDevicePct
                          /\ u.charging = (t = "USB")
                          /\ u.about["Trackpad"] = 1 /\ u.label = Wanted
    /\ u.active /\ front = "Bluetooth" ~>
         \/ front # "Bluetooth"
         \/ u.icon = "art" /\ (u.gDevicePct >= 1 => u.glyph = u.gDevicePct)

(* An About tab of the Trackpad pane can be selected: its delegate is the  *)
(* one that is swizzled.  Refuted: the first strip found may be another    *)
(* pane's.                                                                 *)
AboutIsGuarded == u.about["Trackpad"] > 0 => u.guarded = "Trackpad"
==============================================================================
