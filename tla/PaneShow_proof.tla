--------------------------- MODULE PaneShow_proof ---------------------------
(***************************************************************************)
(* Proofs about the screen, for any battery levels and any number of edges *)
(* and visits.  Every function of the code is an operator on the screen,   *)
(* so every one has a lemma here that says what it keeps of the parts the  *)
(* invariant relates; an action's step composes them in the order of the   *)
(* calls.                                                                  *)
(***************************************************************************)
EXTENDS PaneShow, TLAPS

(* The fields that the view, the tab and the row are made of, and what the *)
(* argument needs of their values.                                         *)
Fields == {"gPane", "view", "hidden", "pct", "charging", "button", "about", "label",
           "gAboutVer", "gBattPainted", "gDevicePct"}

IsScreen(s) ==
    /\ Fields \subseteq DOMAIN s
    /\ s.gDevicePct \in {-1} \cup Levels
    /\ s.about \in [Strips -> 0 .. 1]
    /\ s.label \in {"none", "version", "restart"}

(* The view follows the machine, which does not move before the capture.   *)
ViewOK(s, st) ==
    /\ s.view = "Trackpad" <=> st # "NONE"
    /\ ~s.gPane => st = "NONE"

(* A tab has a label, and no label or memory of it is ahead of the update. *)
TabOK(s, update) ==
    /\ s.about["Trackpad"] > 0 => s.label # "none"
    /\ s.label = "restart" \/ s.gAboutVer = "restart" => update
    /\ s.about["Trackpad"] > 0 /\ s.gAboutVer = "restart" => s.label = "restart"

(* If the row is still as we left it, o, a level is known, and the row is  *)
(* shown as it was painted.                                                *)
RowOK(s, st, o) ==
    /\ s.gBattPainted => s.gDevicePct # -1
    /\ o => /\ s.gPane /\ s.gDevicePct # -1 /\ s.pct # 0
            /\ st = "NONE" => s.hidden /\ ~s.charging
            /\ st # "NONE" => ~s.hidden /\ s.gBattPainted
            /\ s.charging => st \in {"USB", "HOLD"}

Good(s, st, o, update) == IsScreen(s) /\ ViewOK(s, st) /\ TabOK(s, update) /\ RowOK(s, st, o)

AsLeft == ours /\ ~missed

ShowOK ==
    /\ state \in States /\ present \in {"NONE", "BT", "USB"} /\ front \in Panes
    /\ staged \in BOOLEAN /\ ours \in BOOLEAN /\ missed \in BOOLEAN
    /\ Good(u, state, AsLeft, staged)
    /\ ours => u.gDevicePct # -1 /\ u.pct # 0
    /\ u.gPane => ~u.button

-----------------------------------------------------------------------------
(* What the functions keep                                                 *)

SameView(s, r) == r.gPane = s.gPane /\ r.view = s.view
SameTab(s, r) == r.about = s.about /\ r.label = s.label /\ r.gAboutVer = s.gAboutVer
SameRow(s, r) ==
    /\ r.hidden = s.hidden /\ r.pct = s.pct /\ r.charging = s.charging
    /\ r.gBattPainted = s.gBattPainted

(* A level that is known stays known, a row that is not empty stays so,    *)
(* and no button appears.                                                  *)
Onward(s, r) ==
    /\ s.gDevicePct # -1 => r.gDevicePct # -1
    /\ s.gDevicePct # -1 /\ s.pct # 0 => r.pct # 0
    /\ r.button => s.button

Keeps(s, r) == s.gDevicePct # -1 /\ s.pct # 0 => r.gDevicePct # -1 /\ r.pct # 0

(* r is a screen that differs from s in nothing the properties look at.    *)
Kin(s, r) == IsScreen(r) /\ SameView(s, r) /\ SameTab(s, r) /\ SameRow(s, r) /\ Onward(s, r)

(* The same, but gBattPainted may be set, as it is for the list's glyph.   *)
Near(s, r) ==
    /\ IsScreen(r) /\ SameView(s, r) /\ SameTab(s, r) /\ Onward(s, r)
    /\ r.hidden = s.hidden /\ r.pct = s.pct /\ r.charging = s.charging
    /\ s.gBattPainted => r.gBattPainted
    /\ r.gBattPainted => s.gBattPainted \/ r.gDevicePct # -1

LEMMA LevelFacts ==
    /\ \A l \in Levels : l \in Int /\ l >= 0 /\ l >= 1 /\ l # 0 /\ l # -1
    /\ \A l \in {-1} \cup Levels : l < 0 <=> l = -1
BY ShowAssumption

LEMMA KinIsGood ==
    ASSUME NEW s, NEW r, Kin(s, r), NEW st, NEW o \in BOOLEAN, NEW update \in BOOLEAN,
           Good(s, st, o, update)
    PROVE  Good(r, st, o, update)
BY DEF Kin, Good, ViewOK, TabOK, RowOK, SameView, SameTab, SameRow, Onward

LEMMA NearIsGood ==
    ASSUME NEW s, NEW r, Near(s, r), NEW st, NEW o \in BOOLEAN, NEW update \in BOOLEAN,
           Good(s, st, o, update)
    PROVE  Good(r, st, o, update)
BY DEF Near, Good, ViewOK, TabOK, RowOK, SameView, SameTab, Onward

LEMMA BatteryNowFacts ==
    ASSUME NEW s, IsScreen(s), NEW st, NEW reading \in Readings
    PROVE  Kin(s, BatteryNow(s, st, reading))
BY LevelFacts DEF BatteryNow, IsScreen, Fields, Readings, Kin, SameView, SameTab, SameRow, Onward

LEMMA PaintBatteryFacts ==
    ASSUME NEW s, IsScreen(s), NEW st, NEW root
    PROVE  LET r == PaintBattery(s, st, root)
           IN  /\ IsScreen(r) /\ SameView(s, r) /\ SameTab(s, r) /\ Onward(s, r)
               /\ root = "Trackpad" /\ s.gDevicePct # -1 =>
                    /\ r.pct \in Levels /\ r.charging = (st = "USB")
                    /\ ~r.hidden /\ r.gBattPainted
               /\ ~(root = "Trackpad" /\ s.gDevicePct # -1) => Near(s, r)
<1> DEFINE row == [s EXCEPT !.pct = s.gDevicePct, !.charging = (st = "USB"), !.hidden = FALSE,
                            !.gBattPainted = TRUE]
           glyph == [s EXCEPT !.glyph = s.gDevicePct, !.glyphHidden = FALSE,
                              !.gBattPainted = TRUE]
           r == PaintBattery(s, st, root)
<1>1. /\ root = "Trackpad" /\ s.gDevicePct # -1 => r = row
      /\ ~(root = "Trackpad" /\ s.gDevicePct # -1) =>
           r = s \/ (s.gDevicePct # -1 /\ r = glyph)
  BY LevelFacts, ShowAssumption DEF PaintBattery, FindBatteryRow, IsScreen
<1> SUFFICES
        /\ IsScreen(r) /\ SameView(s, r) /\ SameTab(s, r) /\ Onward(s, r)
        /\ root = "Trackpad" /\ s.gDevicePct # -1 =>
             /\ r.pct \in Levels /\ r.charging = (st = "USB")
             /\ ~r.hidden /\ r.gBattPainted
        /\ ~(root = "Trackpad" /\ s.gDevicePct # -1) => Near(s, r)
  OBVIOUS
<1> HIDE DEF r
<1>2. CASE r = s /\ ~(root = "Trackpad" /\ s.gDevicePct # -1)
  BY <1>1, <1>2 DEF Near, SameView, SameTab, Onward
<1>3. CASE root = "Trackpad" /\ s.gDevicePct # -1
  BY <1>1, <1>3, LevelFacts DEF IsScreen, Fields, SameView, SameTab, Onward
<1>4. CASE s.gDevicePct # -1 /\ r = glyph /\ root # "Trackpad"
  BY <1>4 DEF IsScreen, Fields, Near, SameView, SameTab, Onward
<1> QED BY <1>1, <1>2, <1>3, <1>4

LEMMA RefreshUsbFacts ==
    ASSUME NEW s, IsScreen(s)
    PROVE  Kin(s, RefreshUsb(s))
BY DEF RefreshUsb, IsScreen, Fields, Kin, SameView, SameTab, SameRow, Onward

(* mavericks_render_battery, state by state.                               *)
LEMMA RenderBatteryFacts ==
    ASSUME NEW s, IsScreen(s), NEW st \in States, NEW root, NEW reading \in Readings
    PROVE  LET r == RenderBattery(s, st, root, reading)
           IN  /\ IsScreen(r) /\ SameView(s, r) /\ SameTab(s, r) /\ Onward(s, r)
               /\ st = "HOLD" => r = s
               /\ st = "NONE" =>
                    /\ r.hidden = (s.hidden \/ (s.gBattPainted /\ root = "Trackpad"))
                    /\ r.charging = s.charging /\ ~r.gBattPainted
               /\ st \in {"BT", "USB"} =>
                    \/ /\ root = "Trackpad" /\ r.gDevicePct # -1
                       /\ r.pct \in Levels /\ r.charging = (st = "USB")
                       /\ ~r.hidden /\ r.gBattPainted
                    \/ ~(root = "Trackpad" /\ r.gDevicePct # -1) /\ Near(s, r)
<1> DEFINE n == BatteryNow(s, st, reading)
           p == PaintBattery(n, st, root)
           r == RenderBattery(s, st, root, reading)
<1>1. Kin(s, n)
  BY BatteryNowFacts
<1>2. /\ IsScreen(p) /\ SameView(n, p) /\ SameTab(n, p) /\ Onward(n, p)
      /\ root = "Trackpad" /\ n.gDevicePct # -1 =>
           p.pct \in Levels /\ p.charging = (st = "USB") /\ ~p.hidden /\ p.gBattPainted
      /\ ~(root = "Trackpad" /\ n.gDevicePct # -1) => Near(n, p)
  BY <1>1, PaintBatteryFacts DEF Kin
<1>3. p.gDevicePct = n.gDevicePct
  BY <1>1 DEF PaintBattery, FindBatteryRow, Kin, IsScreen, Fields
<1>4. Kin(p, RefreshUsb(p)) /\ RefreshUsb(p).gDevicePct = p.gDevicePct
  <2>1. RefreshUsb(p).gDevicePct = p.gDevicePct
    BY <1>2 DEF RefreshUsb, IsScreen, Fields
  <2> QED BY <1>2, <2>1, RefreshUsbFacts
<1>5. CASE st = "HOLD"
  BY <1>5 DEF RenderBattery, SameView, SameTab, Onward
<1>6. CASE st = "NONE"
  BY <1>6 DEF RenderBattery, FindBatteryRow, IsScreen, Fields, SameView, SameTab, Onward
<1>7. CASE st = "BT"
  <2>1. r = p
    BY <1>7 DEF RenderBattery
  <2> QED BY <1>1, <1>2, <1>3, <1>7, <2>1 DEF Kin, Near, SameView, SameTab, SameRow, Onward
<1>8. CASE st = "USB"
  <2>1. r = RefreshUsb(p)
    BY <1>8 DEF RenderBattery
  <2> QED BY <1>1, <1>2, <1>3, <1>4, <1>8, <2>1
         DEF Kin, Near, SameView, SameTab, SameRow, Onward
<1> QED BY <1>5, <1>6, <1>7, <1>8 DEF States

LEMMA LoadMainViewFacts ==
    ASSUME NEW s, IsScreen(s), NEW st
    PROVE  LET r == LoadMainView(s, st)
           IN  /\ IsScreen(r) /\ r.gPane = s.gPane
               /\ r.view = "Trackpad" <=> s.gPane /\ st # "NONE"
               /\ r.about["Trackpad"] = 0 /\ r.label = "none" /\ r.gAboutVer = s.gAboutVer
               /\ SameRow(s, r) /\ r.gDevicePct = s.gDevicePct /\ ~r.button
BY DEF LoadMainView, IsScreen, Fields, Strips, SameRow

LEMMA MagicActionFacts ==
    ASSUME NEW s, IsScreen(s), NEW connected \in BOOLEAN
    PROVE  LET r == MagicAction(s, connected)
           IN  /\ IsScreen(r) /\ SameView(s, r) /\ SameTab(s, r)
               /\ r.gBattPainted = s.gBattPainted /\ r.gDevicePct = s.gDevicePct
               /\ r.button = s.button /\ r.pct = s.pct
BY DEF MagicAction, EagerCapture, IsScreen, Fields, SameView, SameTab

(* mavericks_inject_about_tab: one tab, that shows what it says.           *)
LEMMA InjectAboutFacts ==
    ASSUME NEW s, IsScreen(s), NEW root \in Panes, NEW update \in BOOLEAN, TabOK(s, update)
    PROVE  LET r == InjectAbout(s, root)
           IN  /\ IsScreen(r) /\ TabOK(r, update) /\ SameView(s, r) /\ SameRow(s, r)
               /\ Onward(s, r)
<1> DEFINE g == GuardTabs(s, root)
           b == BuildAbout(g, root)
<1>1. Kin(s, g)
  BY DEF GuardTabs, Kin, IsScreen, Fields, SameView, SameTab, SameRow, Onward
<1>2. TabOK(g, update)
  BY <1>1 DEF Kin, SameTab, TabOK
<1>3. ASSUME root \in Strips, ~(g.about[root] > 0)
      PROVE  IsScreen(b) /\ TabOK(b, update) /\ SameView(g, b) /\ SameRow(g, b) /\ Onward(g, b)
  <2> HIDE DEF g
  <2>1. IsScreen(g)
    BY <1>1 DEF Kin
  <2>2. [g.about EXCEPT ![root] = @ + 1] \in [Strips -> 0 .. 1]
    BY <1>3, <2>1 DEF IsScreen
  <2>3. /\ b.about = [g.about EXCEPT ![root] = @ + 1]
        /\ b.label = IF root = "Trackpad" THEN "version" ELSE g.label
        /\ b.gAboutVer = "version"
    BY <2>1 DEF BuildAbout, IsScreen, Fields
  <2>4. IsScreen(b) /\ SameView(g, b) /\ SameRow(g, b) /\ Onward(g, b)
    BY <2>1, <2>2 DEF BuildAbout, IsScreen, Fields, SameView, SameRow, Onward
  <2>5. TabOK(b, update)
    BY <1>2, <1>3, <2>1, <2>3 DEF TabOK, IsScreen, Strips
  <2> QED BY <2>4, <2>5
<1>4. \/ InjectAbout(s, root) = s
      \/ InjectAbout(s, root) = g
      \/ root \in Strips /\ ~(g.about[root] > 0) /\ InjectAbout(s, root) = b
  BY DEF InjectAbout, HasStrip
<1> QED BY <1>1, <1>2, <1>3, <1>4 DEF Kin, SameView, SameRow, Onward

LEMMA AboutRefreshFacts ==
    ASSUME NEW s, IsScreen(s), staged \in BOOLEAN, TabOK(s, staged)
    PROVE  LET r == AboutRefresh(s)
           IN  /\ IsScreen(r) /\ TabOK(r, staged) /\ SameView(s, r) /\ SameRow(s, r)
               /\ Onward(s, r)
BY DEF AboutRefresh, IsScreen, Fields, TabOK, Wanted, SameView, SameRow, Onward

LEMMA HideButtonFacts ==
    ASSUME NEW s, IsScreen(s), NEW root
    PROVE  LET r == HideButton(s, root)
           IN  Kin(s, r) /\ (root = "Trackpad" => ~r.button)
BY DEF HideButton, Kin, IsScreen, Fields, SameView, SameTab, SameRow, Onward

LEMMA ReassertFacts ==
    ASSUME NEW s, IsScreen(s), NEW root, NEW reading \in Readings
    PROVE  Kin(s, IconSwizzle(s, bluetooth)) /\ Kin(s, Reassert(s, root, reading))
<1> DEFINE i == IconSwizzle(s, bluetooth)
           r == RebindIcon(i, root)
           n == BatteryNow(r, present, reading)
           p == PaintGlyph(n, root)
<1>1. Kin(s, i)
  BY DEF IconSwizzle, Kin, IsScreen, Fields, SameView, SameTab, SameRow, Onward
<1>2. Kin(i, r)
  BY <1>1 DEF RebindIcon, Kin, IsScreen, Fields, SameView, SameTab, SameRow, Onward
<1>3. Kin(r, n)
  BY <1>2, BatteryNowFacts DEF Kin
<1>4. Kin(n, p)
  BY <1>3 DEF PaintGlyph, Kin, IsScreen, Fields, SameView, SameTab, SameRow, Onward
<1>5. Reassert(s, root, reading) = p
  BY DEF Reassert
<1> HIDE DEF i, r, n, p
<1>6. Kin(s, p)
  BY <1>1, <1>2, <1>3, <1>4 DEF Kin, SameView, SameTab, SameRow, Onward
<1> QED BY <1>1, <1>5, <1>6 DEF i
-----------------------------------------------------------------------------
(* Turns of the presence machine                                           *)

Moves(st, a, next) ==
    \/ a = "NO_ACTION" /\ next = st
    \/ a = "START_HOLD" /\ st \in {"BT", "USB"} /\ next = "HOLD"
    \/ a = "ABSENT" /\ st # "NONE" /\ next = "NONE"
    \/ a = "ON_BT" /\ next = "BT"
    \/ a = "ON_USB" /\ next = "USB"

LEMMA StepMoves ==
    ASSUME NEW st \in States, NEW e \in Events
    PROVE  Moves(st, Step(st, e).action, Step(st, e).next) /\ Step(st, e).next \in States
BY DEF Step, Stay, Show, Moves, States, Events, Edges

LEMMA PolledMoves ==
    ASSUME state \in States
    PROVE  Moves(state, Polled.action, Polled.next) /\ Polled.next \in States
BY DEF Polled, ReconcileTo, ViewFor, Stay, Show, Moves, States

(* Is the row as we left it once a turn of the loop has, or has not, shown *)
(* another view, and rendered it?                                          *)
Held(moved, rendered, root, st, r, o) ==
    \/ rendered /\ root = "Trackpad" /\ st \in {"BT", "USB"} /\ r.gBattPainted
    \/ o /\ ~(moved /\ root # "Trackpad")

LEMMA HandsIsHeld ==
    ASSUME NEW a, NEW rendered \in BOOLEAN, NEW root, Hands(a, rendered, root),
           ours \in BOOLEAN, missed \in BOOLEAN
    PROVE  /\ AsLeft' = Held(a \in Shows, rendered, root, state', u', AsLeft)
           /\ ours' \in BOOLEAN /\ missed' \in BOOLEAN
           /\ ours' => ours \/ AsLeft'
<1> DEFINE painted == /\ rendered /\ root = "Trackpad"
                      /\ state' \in {"BT", "USB"} /\ u'.gBattPainted
<1>1. /\ ours' = (ours \/ painted)
      /\ missed' = ((missed /\ ~painted) \/ (a \in Shows /\ root # "Trackpad"))
  BY DEF Hands
<1>2. painted => root = "Trackpad"
  OBVIOUS
<1>3. Held(a \in Shows, rendered, root, state', u', AsLeft)
        = (painted \/ (AsLeft /\ ~(a \in Shows /\ root # "Trackpad")))
  BY DEF Held
<1> HIDE DEF painted
<1> QED BY <1>1, <1>2, <1>3 DEF AsLeft

(* A view that only lacks its row, or, if it has not moved, not even that. *)
Ready(v, st, root, o) ==
    /\ IsScreen(v) /\ v.gPane
    /\ v.gBattPainted \/ o => v.gDevicePct # -1
    /\ o => v.pct # 0
    /\ st = "HOLD" => RowOK(v, st, o)
    /\ st = "NONE" /\ o /\ root = "Trackpad" => ~v.charging /\ (v.gBattPainted \/ v.hidden)

LEMMA RenderKeeps ==
    ASSUME NEW st \in States, NEW root, NEW o \in BOOLEAN, NEW v, Ready(v, st, root, o),
           NEW moved \in BOOLEAN, ~moved => RowOK(v, st, o), NEW reading \in Readings
    PROVE  LET r == RenderBattery(v, st, root, reading)
           IN  RowOK(r, st, Held(moved, TRUE, root, st, r, o))
<1> DEFINE r == RenderBattery(v, st, root, reading)
<1> SUFFICES RowOK(r, st, Held(moved, TRUE, root, st, r, o))
  OBVIOUS
<1>1. /\ IsScreen(r) /\ SameView(v, r) /\ SameTab(v, r) /\ Onward(v, r)
      /\ st = "HOLD" => r = v
      /\ st = "NONE" =>
           /\ r.hidden = (v.hidden \/ (v.gBattPainted /\ root = "Trackpad"))
           /\ r.charging = v.charging /\ ~r.gBattPainted
      /\ st \in {"BT", "USB"} =>
           \/ /\ root = "Trackpad" /\ r.gDevicePct # -1
              /\ r.pct \in Levels /\ r.charging = (st = "USB")
              /\ ~r.hidden /\ r.gBattPainted
           \/ ~(root = "Trackpad" /\ r.gDevicePct # -1) /\ Near(v, r)
  BY RenderBatteryFacts DEF Ready
<1> HIDE DEF r
<1>2. CASE st = "HOLD"
  BY <1>1, <1>2 DEF Ready, RowOK, Held
<1>3. CASE st = "NONE"
  BY <1>1, <1>3 DEF Ready, RowOK, Held, SameView, Onward
<1>4. CASE st \in {"BT", "USB"}
  <2>1. CASE root = "Trackpad" /\ r.gDevicePct # -1
    BY <1>1, <1>4, <2>1, LevelFacts DEF Ready, RowOK, Held, SameView, Onward
  <2>2. CASE ~(root = "Trackpad" /\ r.gDevicePct # -1)
    <3>1. Near(v, r) /\ (r.gBattPainted => r.gDevicePct # -1)
      BY <1>1, <1>4, <2>2 DEF Ready, Near, Onward
    <3>2. Held(moved, TRUE, root, st, r, o) => o /\ ~moved
      BY <2>2, <3>1, <1>1 DEF Held, Ready, Onward
    <3>3. o /\ ~moved => RowOK(r, st, o)
      BY <1>4, <3>1 DEF RowOK, Near, SameView, Onward
    <3> QED BY <3>1, <3>2, <3>3 DEF RowOK
  <2> QED BY <2>1, <2>2
<1> QED BY <1>2, <1>3, <1>4 DEF States

(* perform                                                                 *)
LEMMA PerformKeeps ==
    ASSUME NEW st \in States, NEW a, NEW next \in States, Moves(st, a, next),
           NEW o \in BOOLEAN, staged \in BOOLEAN, NEW s, Good(s, st, o, staged), s.gPane,
           NEW root \in Panes, NEW reading \in Readings
    PROVE  LET r == Perform(s, a, next, root, reading)
           IN  /\ Good(r, next, Held(a \in Shows, a \in Shows, root, next, r, o), staged)
               /\ r.gPane /\ (r.button => s.button)
               /\ Keeps(s, r)
<1> DEFINE r == Perform(s, a, next, root, reading)
           painted == PaintBattery(s, "NONE", root)
           gone == LoadMainView(painted, next)
           arrived == IF IsTrackpadView(s) THEN s ELSE LoadMainView(s, next)
           shown == MagicAction(arrived, a = "ON_BT")
           v == CASE a = "ABSENT" /\ IsTrackpadView(s) -> gone
                  [] a = "ABSENT" /\ ~IsTrackpadView(s) -> s
                  [] OTHER -> shown
           b == RenderBattery(v, next, root, reading)
<1>0. IsScreen(s) /\ ViewOK(s, st) /\ TabOK(s, staged) /\ RowOK(s, st, o)
  BY DEF Good
<1>1. CASE a \notin Shows
  <2>1. r = s
    BY <1>1 DEF Perform, Shows
  <2>2. (a = "NO_ACTION" /\ next = st) \/ (st \in {"BT", "USB"} /\ next = "HOLD")
    BY <1>1 DEF Moves, Shows
  <2>3. ViewOK(s, next) /\ RowOK(s, next, o)
    BY <1>0, <2>2 DEF ViewOK, RowOK
  <2>4. Held(a \in Shows, a \in Shows, root, next, s, o) = o
    BY <1>1 DEF Held
  <2> QED BY <1>0, <2>1, <2>3, <2>4 DEF Good, Keeps
<1>2. CASE a \in Shows
  <2>1. r = InjectAbout(b, root)
    BY <1>2 DEF Perform, Shows
  <2>2. /\ Ready(v, next, root, o) /\ ViewOK(v, next) /\ TabOK(v, staged)
        /\ v.button => s.button
        /\ Keeps(s, v)
    <3>1. CASE a = "ABSENT"
      <4>1. next = "NONE" /\ s.view = "Trackpad" /\ st # "NONE"
        BY <1>0, <3>1 DEF Moves, ViewOK
      <4>2. v = gone
        BY <3>1, <4>1 DEF IsTrackpadView
      <4>3. /\ IsScreen(painted) /\ SameView(s, painted) /\ SameTab(s, painted)
            /\ Onward(s, painted)
            /\ root = "Trackpad" /\ s.gDevicePct # -1 =>
                 /\ painted.pct \in Levels /\ painted.charging = ("NONE" = "USB")
                 /\ ~painted.hidden /\ painted.gBattPainted
            /\ ~(root = "Trackpad" /\ s.gDevicePct # -1) => Near(s, painted)
        BY <1>0, PaintBatteryFacts
      <4> HIDE DEF painted
      <4>4. /\ IsScreen(gone) /\ gone.gPane = painted.gPane
            /\ gone.view = "Trackpad" <=> painted.gPane /\ next # "NONE"
            /\ gone.about["Trackpad"] = 0 /\ gone.label = "none"
            /\ gone.gAboutVer = painted.gAboutVer
            /\ SameRow(painted, gone) /\ gone.gDevicePct = painted.gDevicePct /\ ~gone.button
        BY <4>3, LoadMainViewFacts
      <4> HIDE DEF gone, v
      <4>5. Ready(gone, next, root, o)
        BY <1>0, <4>1, <4>3, <4>4 DEF Ready, RowOK, SameView, SameRow, Onward, Near
      <4>6. ViewOK(gone, next) /\ TabOK(gone, staged)
        BY <1>0, <4>1, <4>3, <4>4 DEF ViewOK, TabOK, SameView, SameTab
      <4>7. Keeps(s, gone)
        BY <4>3, <4>4 DEF Keeps, SameRow, Onward
      <4> QED BY <4>2, <4>4, <4>5, <4>6, <4>7
    <3>2. CASE a # "ABSENT"
      <4>1. next \in {"BT", "USB"} /\ v = shown
        BY <1>2, <3>2 DEF Moves, Shows
      <4>2. /\ IsScreen(arrived) /\ arrived.gPane /\ arrived.view = "Trackpad"
            /\ TabOK(arrived, staged) /\ SameRow(s, arrived)
            /\ arrived.gDevicePct = s.gDevicePct /\ (arrived.button => s.button)
        <5>1. CASE s.view = "Trackpad"
          BY <1>0, <5>1 DEF IsTrackpadView, SameRow
        <5>2. CASE s.view # "Trackpad"
          <6>1. arrived = LoadMainView(s, next)
            BY <5>2 DEF IsTrackpadView
          <6> HIDE DEF arrived
          <6>2. /\ IsScreen(arrived) /\ arrived.gPane = s.gPane
                /\ arrived.view = "Trackpad" <=> s.gPane /\ next # "NONE"
                /\ arrived.about["Trackpad"] = 0 /\ arrived.label = "none"
                /\ arrived.gAboutVer = s.gAboutVer
                /\ SameRow(s, arrived) /\ arrived.gDevicePct = s.gDevicePct /\ ~arrived.button
            BY <1>0, <6>1, LoadMainViewFacts
          <6> QED BY <1>0, <4>1, <6>2 DEF TabOK
        <5> QED BY <5>1, <5>2
      <4> HIDE DEF arrived
      <4>3. /\ IsScreen(shown) /\ SameView(arrived, shown) /\ SameTab(arrived, shown)
            /\ shown.gBattPainted = arrived.gBattPainted
            /\ shown.gDevicePct = arrived.gDevicePct /\ shown.button = arrived.button
            /\ shown.pct = arrived.pct
        BY <4>2, MagicActionFacts
      <4> HIDE DEF shown, v
      <4>4. Ready(shown, next, root, o)
        BY <1>0, <4>1, <4>2, <4>3 DEF Ready, RowOK, SameView, SameRow
      <4>5. ViewOK(shown, next) /\ TabOK(shown, staged)
        BY <4>1, <4>2, <4>3 DEF ViewOK, TabOK, SameView, SameTab
      <4>6. shown.gDevicePct = s.gDevicePct /\ shown.pct = s.pct
        BY <4>2, <4>3 DEF SameRow
      <4> QED BY <4>1, <4>2, <4>3, <4>4, <4>5, <4>6 DEF Keeps
    <3> QED BY <3>1, <3>2
  <2> HIDE DEF v
  <2>3. IsScreen(b) /\ SameView(v, b) /\ SameTab(v, b) /\ Onward(v, b)
    BY <2>2, RenderBatteryFacts DEF Ready
  <2>4. RowOK(b, next, Held(TRUE, TRUE, root, next, b, o))
    BY <2>2, RenderKeeps
  <2> HIDE DEF b
  <2>5. TabOK(b, staged)
    BY <2>2, <2>3 DEF TabOK, SameTab
  <2>6. IsScreen(r) /\ TabOK(r, staged) /\ SameView(b, r) /\ SameRow(b, r) /\ Onward(b, r)
    BY <2>1, <2>3, <2>5, InjectAboutFacts
  <2> HIDE DEF r
  <2>7. ViewOK(r, next) /\ r.gPane
    BY <2>2, <2>3, <2>6 DEF ViewOK, SameView, Ready
  <2>8. Held(a \in Shows, a \in Shows, root, next, r, o) <=> Held(TRUE, TRUE, root, next, b, o)
    BY <1>2, <2>6 DEF Held, SameRow
  <2>9. RowOK(r, next, Held(a \in Shows, a \in Shows, root, next, r, o))
    BY <2>4, <2>6, <2>8 DEF RowOK, SameView, SameRow, Onward
  <2>10. r.button => s.button
    BY <2>2, <2>3, <2>6 DEF Onward
  <2>11. Keeps(s, r)
    BY <2>2, <2>3, <2>6 DEF Onward, Keeps
  <2> QED BY <2>6, <2>7, <2>9, <2>10, <2>11 DEF Good, r
<1> QED BY <1>1, <1>2

(* hide_battery_button_now                                                 *)
LEMMA HideNowKeeps ==
    ASSUME NEW st \in States, NEW o \in BOOLEAN, staged \in BOOLEAN,
           NEW s, Good(s, st, o, staged), s.gPane, NEW root \in Panes,
           NEW r \in HideNow(s, st, root)
    PROVE  /\ Good(r, st, Held(FALSE, TRUE, root, st, r, o), staged)
           /\ r.gPane /\ (r.button => s.button /\ root # "Trackpad")
           /\ Keeps(s, r)
<1> DEFINE bar == IF root = "Trackpad" THEN root ELSE "none"
           h == HideButton(s, bar)
<1>1. Kin(s, h) /\ (root = "Trackpad" => ~h.button)
  BY HideButtonFacts DEF Good
<1>2. Good(h, st, o, staged) /\ h.gPane
  <2> HIDE DEF h
  <2>1. Good(h, st, o, staged)
    BY <1>1, KinIsGood
  <2> QED BY <1>1, <2>1 DEF Kin, SameView
<1>3. PICK reading \in Readings :
        r = AboutRefresh(InjectAbout(RenderBattery(h, st, bar, reading), "Trackpad"))
  BY DEF HideNow
<1> DEFINE b == RenderBattery(h, st, bar, reading)
           i == InjectAbout(b, "Trackpad")
<1> HIDE DEF h
<1>4. IsScreen(b) /\ SameView(h, b) /\ SameTab(h, b) /\ Onward(h, b)
  BY <1>2, RenderBatteryFacts DEF Good
<1>5. Ready(h, st, bar, o)
  BY <1>2 DEF Ready, Good, RowOK
<1>6. RowOK(b, st, Held(FALSE, TRUE, bar, st, b, o))
  BY <1>2, <1>5, RenderKeeps DEF Good
<1> HIDE DEF b
<1>7. TabOK(b, staged)
  BY <1>2, <1>4 DEF Good, TabOK, SameTab
<1>8. IsScreen(i) /\ TabOK(i, staged) /\ SameView(b, i) /\ SameRow(b, i) /\ Onward(b, i)
  BY <1>4, <1>7, InjectAboutFacts DEF Panes
<1> HIDE DEF i
<1>9. IsScreen(r) /\ TabOK(r, staged) /\ SameView(i, r) /\ SameRow(i, r) /\ Onward(i, r)
  BY <1>3, <1>8, AboutRefreshFacts DEF i, b
<1>10. Held(FALSE, TRUE, root, st, r, o) <=> Held(FALSE, TRUE, bar, st, b, o)
  BY <1>8, <1>9 DEF Held, SameRow
<1>11. RowOK(r, st, Held(FALSE, TRUE, root, st, r, o))
  BY <1>6, <1>8, <1>9, <1>10 DEF RowOK, SameView, SameRow, Onward
<1>12. ViewOK(r, st) /\ r.gPane
  BY <1>2, <1>4, <1>8, <1>9 DEF Good, ViewOK, SameView
<1>13. r.button => s.button /\ root # "Trackpad"
  BY <1>1, <1>4, <1>8, <1>9 DEF Onward, Kin
<1>14. Keeps(s, r)
  BY <1>1, <1>4, <1>8, <1>9 DEF Onward, Kin, Keeps
<1> QED BY <1>9, <1>11, <1>12, <1>13, <1>14 DEF Good

LEMMA LessIsOurs ==
    ASSUME NEW s, NEW st, NEW o \in BOOLEAN, NEW p \in BOOLEAN, NEW update,
           Good(s, st, o, update), p => o
    PROVE  Good(s, st, p, update)
BY DEF Good, RowOK

(* A tick's part of the machine: the observer is brought to the truth.     *)
LEMMA PolledKeeps ==
    ASSUME state \in States, staged \in BOOLEAN, NEW o \in BOOLEAN,
           NEW s, Good(s, state, o, staged), s.gPane, NEW root \in Panes, NEW reading \in Readings,
           NEW r \in HideNow(Perform(s, Polled.action, Polled.next, root, reading), Polled.next,
                             root)
    PROVE  /\ Good(r, Polled.next,
                   Held(Polled.action \in Shows, TRUE, root, Polled.next, r, o), staged)
           /\ r.gPane /\ (r.button => s.button /\ root # "Trackpad")
           /\ Keeps(s, r)
<1> DEFINE a == Polled.action
           next == Polled.next
           p == Perform(s, a, next, root, reading)
           op == Held(a \in Shows, a \in Shows, root, next, p, o)
<1>1. Moves(state, a, next) /\ next \in States
  BY PolledMoves
<1> HIDE DEF a, next
<1>2. /\ Good(p, next, op, staged) /\ p.gPane /\ (p.button => s.button)
      /\ Keeps(s, p)
  BY <1>1, PerformKeeps
<1>3. op \in BOOLEAN
  BY DEF Held
<1>4. r \in HideNow(p, next, root)
  BY DEF a, next
<1> DEFINE or == Held(FALSE, TRUE, root, next, r, op)
<1>5. o /\ ~(a \in Shows /\ root # "Trackpad") => op
  BY DEF Held
<1> HIDE DEF p, op
<1>6. /\ Good(r, next, or, staged) /\ r.gPane /\ (r.button => p.button /\ root # "Trackpad")
      /\ Keeps(p, r)
  BY <1>1, <1>2, <1>3, <1>4, HideNowKeeps
<1>7. /\ Held(a \in Shows, TRUE, root, next, r, o) => or
      /\ Held(a \in Shows, TRUE, root, next, r, o) \in BOOLEAN /\ or \in BOOLEAN
  BY <1>5 DEF Held
<1> HIDE DEF or
<1>8. Good(r, next, Held(a \in Shows, TRUE, root, next, r, o), staged)
  BY <1>6, <1>7, LessIsOurs
<1> QED BY <1>2, <1>6, <1>8 DEF a, next, Keeps

LEMMA CaptureKeeps ==
    ASSUME state \in States, staged \in BOOLEAN, NEW o \in BOOLEAN,
           NEW s, Good(s, state, o, staged), NEW r \in Capture(s, "Trackpad")
    PROVE  /\ Good(r, Polled.next,
                   Held(Polled.action \in Shows, TRUE, "Trackpad", Polled.next, r, o), staged)
           /\ ~r.button
           /\ Keeps(s, r)
<1> DEFINE c == [s EXCEPT !.gPane = TRUE]
<1>1. Good(c, state, o, staged) /\ c.gPane /\ Keeps(s, c)
  BY DEF Keeps, Good, IsScreen, Fields, ViewOK, TabOK, RowOK
<1>2. PICK reading \in Readings :
        r \in HideNow(Perform(c, Polled.action, Polled.next, "Trackpad", reading), Polled.next,
                      "Trackpad")
  BY DEF Capture
<1> HIDE DEF c
<1>3. /\ Good(r, Polled.next,
              Held(Polled.action \in Shows, TRUE, "Trackpad", Polled.next, r, o), staged)
      /\ ~r.button /\ Keeps(c, r)
  <2>1. "Trackpad" \in Panes
    BY DEF Panes
  <2> QED BY <1>1, <1>2, <2>1, PolledKeeps
<1> QED BY <1>1, <1>3 DEF Keeps

-----------------------------------------------------------------------------
(* The steps                                                               *)

LEMMA KinStep ==
    ASSUME ShowOK, Kin(u, u'), front' \in Panes,
           UNCHANGED <<state, present, staged, ours, missed>>
    PROVE  ShowOK'
<1>1. Good(u', state, AsLeft, staged)
  <2>1. AsLeft \in BOOLEAN
    BY DEF ShowOK, AsLeft
  <2> QED BY <2>1, KinIsGood DEF ShowOK
<1>2. u'.gPane => ~u'.button
  BY DEF ShowOK, Kin, SameView, Onward
<1>3. ours => u'.gDevicePct # -1 /\ u'.pct # 0
  BY DEF ShowOK, Kin, Onward
<1> QED BY <1>1, <1>2, <1>3 DEF ShowOK, AsLeft

LEMMA SelectStep ==
    ASSUME ShowOK, NEW p \in Panes, SelectPane(p)
    PROVE  ShowOK'
<1>1. PICK rebuilt, hidden \in BOOLEAN, reading \in Readings :
        LET will == IF u.active THEN IconSwizzle(u, bluetooth) ELSE u
            shown == Shown(will, p, rebuilt, hidden)
            first == u.active /\ p = "Trackpad" /\ ~u.gPane
            selected == IF first THEN Capture(shown, p) ELSE {shown}
        IN  /\ u' \in IF u.active THEN {Reassert(s, p, reading) : s \in selected}
                      ELSE selected
            /\ state' = IF first THEN Polled.next ELSE state
            /\ IF first THEN Hands(Polled.action, TRUE, p)
               ELSE ours' = (ours /\ ~(p = "Trackpad" /\ rebuilt)) /\ UNCHANGED missed
  BY DEF SelectPane
<1> DEFINE will == IF u.active THEN IconSwizzle(u, bluetooth) ELSE u
           shown == Shown(will, p, rebuilt, hidden)
           first == u.active /\ p = "Trackpad" /\ ~u.gPane
           selected == IF first THEN Capture(shown, p) ELSE {shown}
           still == ours /\ ~(p = "Trackpad" /\ rebuilt)
           kept == AsLeft /\ ~(p = "Trackpad" /\ rebuilt)
<1>2. /\ u' \in IF u.active THEN {Reassert(s, p, reading) : s \in selected} ELSE selected
      /\ state' = IF first THEN Polled.next ELSE state
      /\ IF first THEN Hands(Polled.action, TRUE, p) ELSE ours' = still /\ UNCHANGED missed
      /\ front' = p /\ UNCHANGED <<present, staged>>
  BY <1>1 DEF SelectPane
<1>3. /\ state \in States /\ staged \in BOOLEAN /\ AsLeft \in BOOLEAN /\ IsScreen(u)
      /\ ours \in BOOLEAN /\ missed \in BOOLEAN
      /\ Good(u, state, AsLeft, staged) /\ (u.gPane => ~u.button)
      /\ ~u.gPane => state = "NONE" /\ ~AsLeft
      /\ ours => u.gDevicePct # -1 /\ u.pct # 0
  BY DEF ShowOK, Good, ViewOK, RowOK, AsLeft
<1>4. Kin(u, will)
  BY <1>3, ReassertFacts DEF Kin, SameView, SameTab, SameRow, Onward, Readings
<1> HIDE DEF will
<1>5. /\ Good(will, state, AsLeft, staged)
      /\ will.gPane = u.gPane /\ (will.gPane => ~will.button)
      /\ ours => will.gDevicePct # -1 /\ will.pct # 0
  <2>1. Good(will, state, AsLeft, staged)
    BY <1>3, <1>4, KinIsGood
  <2> QED BY <1>3, <1>4, <2>1 DEF Kin, SameView, Onward
<1>6. /\ Good(shown, state, kept, staged) /\ shown.gPane = u.gPane
      /\ shown.gPane => ~shown.button
      /\ ours => shown.gDevicePct # -1 /\ shown.pct # 0
  <2>1. CASE p = "Trackpad" /\ rebuilt
    <3> DEFINE l == LoadMainView(will, state)
    <3>1. shown = [l EXCEPT !.hidden = hidden]
      BY <2>1 DEF Shown
    <3>2. /\ IsScreen(l) /\ l.gPane = will.gPane
          /\ l.view = "Trackpad" <=> will.gPane /\ state # "NONE"
          /\ l.about["Trackpad"] = 0 /\ l.label = "none" /\ l.gAboutVer = will.gAboutVer
          /\ SameRow(will, l) /\ l.gDevicePct = will.gDevicePct /\ ~l.button
      BY <1>5, LoadMainViewFacts DEF Good
    <3> HIDE DEF l, shown
    <3>3. IsScreen(shown) /\ SameView(l, shown) /\ SameTab(l, shown) /\ ~shown.button
          /\ shown.gBattPainted = l.gBattPainted /\ shown.gDevicePct = l.gDevicePct
          /\ shown.pct = l.pct
      BY <3>1, <3>2 DEF IsScreen, Fields, SameView, SameTab
    <3>4. ViewOK(shown, state)
      BY <1>3, <1>5, <3>2, <3>3 DEF ViewOK, SameView
    <3>5. TabOK(shown, staged)
      BY <1>5, <3>2, <3>3 DEF Good, TabOK, SameTab
    <3>6. RowOK(shown, state, kept)
      BY <1>5, <2>1, <3>2, <3>3 DEF Good, RowOK, SameRow
    <3>7. ours => shown.gDevicePct # -1 /\ shown.pct # 0
      BY <1>5, <3>2, <3>3 DEF SameRow
    <3> QED BY <1>5, <3>2, <3>3, <3>4, <3>5, <3>6, <3>7 DEF Good, SameView
  <2>2. CASE p = "Bluetooth"
    <3> DEFINE i == IF will.iconSwizzled THEN "art" ELSE "generic"
    <3>1. Kin(will, shown) /\ kept = AsLeft
      <4>1. shown = [will EXCEPT !.icon = i, !.glyph = -1, !.glyphHidden = FALSE]
        BY <2>2 DEF Shown
      <4> HIDE DEF shown, i
      <4>2. IsScreen(will)
        BY <1>5 DEF Good
      <4>3. Kin(will, shown)
        BY <4>1, <4>2 DEF Kin, IsScreen, Fields, SameView, SameTab, SameRow, Onward
      <4>4. kept = AsLeft
        BY <1>3, <2>2
      <4> QED BY <4>3, <4>4
    <3> HIDE DEF shown, kept
    <3>2. Good(shown, state, AsLeft, staged)
      BY <1>3, <1>5, <3>1, KinIsGood
    <3> QED BY <1>5, <3>1, <3>2 DEF Kin, SameView, Onward
  <2>3. CASE p # "Bluetooth" /\ ~(p = "Trackpad" /\ rebuilt)
    <3>1. shown = will /\ kept = AsLeft
      BY <1>3, <2>3 DEF Shown
    <3> QED BY <1>5, <3>1
  <2> QED BY <2>1, <2>2, <2>3
<1> HIDE DEF shown, kept
<1>7. PICK s \in selected : u' = s \/ u' = Reassert(s, p, reading)
  BY <1>2
<1>8. /\ Good(s, state', AsLeft', staged) /\ state' \in States /\ AsLeft' \in BOOLEAN
      /\ ours' \in BOOLEAN /\ missed' \in BOOLEAN
      /\ s.gPane => ~s.button
      /\ ours' => s.gDevicePct # -1 /\ s.pct # 0
  <2>1. CASE first
    <3> DEFINE held(x, o) == Held(Polled.action \in Shows, TRUE, "Trackpad", Polled.next, x, o)
    <3>1. /\ s \in Capture(shown, "Trackpad") /\ state' = Polled.next
          /\ Hands(Polled.action, TRUE, "Trackpad")
      BY <1>2, <1>7, <2>1
    <3>2. /\ Good(s, Polled.next, held(s, kept), staged) /\ ~s.button
          /\ Keeps(shown, s)
      BY <1>3, <1>6, <3>1, CaptureKeeps DEF kept
    <3>3. /\ AsLeft' = Held(Polled.action \in Shows, TRUE, "Trackpad", state', u', AsLeft)
          /\ ours' \in BOOLEAN /\ missed' \in BOOLEAN /\ (ours' => ours \/ AsLeft')
      BY <1>3, <3>1, HandsIsHeld
    <3>4. u'.gBattPainted = s.gBattPainted
      BY <1>7, <3>2, ReassertFacts DEF Good, Kin, SameRow
    <3>5. AsLeft' => held(s, kept)
      BY <1>3, <2>1, <3>1, <3>3, <3>4 DEF Held
    <3>6. held(s, kept) \in BOOLEAN /\ AsLeft' \in BOOLEAN
      BY <3>3 DEF Held
    <3>7. Good(s, Polled.next, AsLeft', staged)
      BY <3>2, <3>5, <3>6, LessIsOurs
    <3>8. ours' => s.gDevicePct # -1 /\ s.pct # 0
      <4>1. AsLeft' => s.gDevicePct # -1 /\ s.pct # 0
        BY <3>1, <3>7 DEF Good, RowOK
      <4> QED BY <1>3, <1>6, <2>1, <3>2, <3>3, <4>1 DEF Keeps
    <3> QED BY <1>3, <3>1, <3>2, <3>3, <3>6, <3>7, <3>8, PolledMoves
  <2>2. CASE ~first
    BY <1>2, <1>3, <1>6, <1>7, <2>2 DEF kept, still, AsLeft
  <2> QED BY <2>1, <2>2
<1>9. u' = s \/ Kin(s, u')
  BY <1>7, <1>8, ReassertFacts DEF Good
<1>10. /\ Good(u', state', AsLeft', staged) /\ (u'.gPane => ~u'.button)
       /\ ours' => u'.gDevicePct # -1 /\ u'.pct # 0
  <2>1. CASE u' = s
    BY <1>8, <2>1
  <2>2. CASE Kin(s, u')
    <3>1. Good(u', state', AsLeft', staged)
      BY <1>3, <1>8, <2>2, KinIsGood
    <3> QED BY <1>8, <2>2, <3>1 DEF Kin, SameView, Onward
  <2> QED BY <1>9, <2>1, <2>2
<1> QED BY <1>2, <1>3, <1>8, <1>10 DEF ShowOK

LEMMA EventStep ==
    ASSUME ShowOK, NEW e \in Events, PresenceEvent(e)
    PROVE  ShowOK'
<1> DEFINE m == Step(state, e)
           a == m.action
           next == m.next
           rendered == a \in Shows
<1>1. PICK reading \in Readings : u' = Perform(u, a, next, front, reading)
  BY DEF PresenceEvent
<1>2. /\ u.gPane /\ state' = next /\ Hands(a, rendered, front)
      /\ UNCHANGED <<present, front, staged>>
  BY DEF PresenceEvent
<1>3. /\ state \in States /\ staged \in BOOLEAN /\ front \in Panes
      /\ ours \in BOOLEAN /\ missed \in BOOLEAN /\ AsLeft \in BOOLEAN
      /\ Good(u, state, AsLeft, staged) /\ ~u.button
      /\ ours => u.gDevicePct # -1 /\ u.pct # 0
  BY <1>2 DEF ShowOK, AsLeft
<1>4. Moves(state, a, next) /\ next \in States
  BY <1>3, StepMoves
<1> HIDE DEF a, next
<1>5. /\ Good(u', next, Held(rendered, rendered, front, next, u', AsLeft), staged)
      /\ u'.gPane /\ (u'.button => u.button)
      /\ Keeps(u, u')
  BY <1>1, <1>2, <1>3, <1>4, PerformKeeps
<1>6. /\ AsLeft' = Held(rendered, rendered, front, next, u', AsLeft)
      /\ ours' \in BOOLEAN /\ missed' \in BOOLEAN /\ (ours' => ours \/ AsLeft')
  <2>1. rendered \in BOOLEAN
    OBVIOUS
  <2> QED BY <1>2, <1>3, <2>1, HandsIsHeld
<1>7. Good(u', state', AsLeft', staged')
  BY <1>2, <1>5, <1>6
<1>8. ours' => u'.gDevicePct # -1 /\ u'.pct # 0
  <2>1. AsLeft' => u'.gDevicePct # -1 /\ u'.pct # 0
    BY <1>7 DEF Good, RowOK
  <2> QED BY <1>3, <1>5, <1>6, <2>1 DEF Keeps
<1> QED BY <1>2, <1>3, <1>4, <1>5, <1>6, <1>7, <1>8 DEF ShowOK

LEMMA TickStep ==
    ASSUME ShowOK, Tick
    PROVE  ShowOK'
<1>1. PICK reading \in Readings :
        u' \in HideNow(Perform(u, Polled.action, Polled.next, front, reading), Polled.next, front)
  BY DEF Tick
<1>2. /\ u.gPane /\ state' = Polled.next /\ Hands(Polled.action, TRUE, front)
      /\ UNCHANGED <<present, front, staged>>
  BY DEF Tick
<1>3. /\ state \in States /\ staged \in BOOLEAN /\ front \in Panes
      /\ ours \in BOOLEAN /\ missed \in BOOLEAN /\ AsLeft \in BOOLEAN
      /\ Good(u, state, AsLeft, staged) /\ ~u.button
      /\ ours => u.gDevicePct # -1 /\ u.pct # 0
  BY <1>2 DEF ShowOK, AsLeft
<1>4. /\ Good(u', Polled.next,
              Held(Polled.action \in Shows, TRUE, front, Polled.next, u', AsLeft), staged)
      /\ u'.gPane /\ ~u'.button
      /\ Keeps(u, u')
  BY <1>1, <1>2, <1>3, PolledKeeps
<1>5. /\ AsLeft' = Held(Polled.action \in Shows, TRUE, front, state', u', AsLeft)
      /\ ours' \in BOOLEAN /\ missed' \in BOOLEAN /\ (ours' => ours \/ AsLeft')
  BY <1>2, <1>3, HandsIsHeld
<1>6. Good(u', state', AsLeft', staged')
  BY <1>2, <1>4, <1>5
<1>7. AsLeft' => u'.gDevicePct # -1 /\ u'.pct # 0
  BY <1>6 DEF Good, RowOK
<1> QED BY <1>2, <1>3, <1>4, <1>5, <1>6, <1>7, PolledMoves DEF ShowOK, Keeps

LEMMA TryCaptureStep ==
    ASSUME ShowOK, TryCapture
    PROVE  ShowOK'
<1>1. /\ u' \in Capture(u, "Trackpad") /\ state' = Polled.next
      /\ Hands(Polled.action, TRUE, "Trackpad")
      /\ UNCHANGED <<present, front, staged>>
  BY DEF TryCapture
<1>2. /\ state \in States /\ staged \in BOOLEAN /\ front \in Panes
      /\ ours \in BOOLEAN /\ missed \in BOOLEAN /\ AsLeft \in BOOLEAN
      /\ Good(u, state, AsLeft, staged)
      /\ ours => u.gDevicePct # -1 /\ u.pct # 0
  BY DEF ShowOK, AsLeft
<1>3. /\ Good(u', Polled.next,
              Held(Polled.action \in Shows, TRUE, "Trackpad", Polled.next, u', AsLeft), staged)
      /\ ~u'.button
      /\ Keeps(u, u')
  BY <1>1, <1>2, CaptureKeeps
<1>4. /\ AsLeft' = Held(Polled.action \in Shows, TRUE, "Trackpad", state', u', AsLeft)
      /\ ours' \in BOOLEAN /\ missed' \in BOOLEAN /\ (ours' => ours \/ AsLeft')
  BY <1>1, <1>2, HandsIsHeld
<1>5. Good(u', state', AsLeft', staged')
  BY <1>1, <1>3, <1>4
<1>6. AsLeft' => u'.gDevicePct # -1 /\ u'.pct # 0
  BY <1>5 DEF Good, RowOK
<1> QED BY <1>1, <1>2, <1>3, <1>4, <1>5, <1>6, PolledMoves DEF ShowOK, Keeps

LEMMA UsbReadStep ==
    ASSUME ShowOK, UsbReadDone
    PROVE  ShowOK'
<1>1. PICK reading \in UsbRead :
        LET r == [u EXCEPT !.gUsbReadInFlight = FALSE,
                           !.gDevicePct = IF reading = 0 THEN @ ELSE reading]
            paints == reading # 0 /\ state = "USB"
        IN  /\ u' = IF paints THEN PaintBattery(r, state, front) ELSE r
            /\ Hands("NO_ACTION", paints, front)
  BY DEF UsbReadDone
<1> DEFINE r == [u EXCEPT !.gUsbReadInFlight = FALSE,
                          !.gDevicePct = IF reading = 0 THEN @ ELSE reading]
           paints == reading # 0 /\ state = "USB"
<1>2. /\ u' = IF paints THEN PaintBattery(r, state, front) ELSE r
      /\ Hands("NO_ACTION", paints, front)
  BY <1>1
<1>3. /\ Good(u, state, AsLeft, staged) /\ (u.gPane => ~u.button) /\ IsScreen(u)
      /\ state \in States /\ AsLeft \in BOOLEAN /\ staged \in BOOLEAN
      /\ ours \in BOOLEAN /\ missed \in BOOLEAN
      /\ ours => u.gDevicePct # -1 /\ u.pct # 0
      /\ UNCHANGED <<state, present, front, staged>>
  BY DEF ShowOK, Good, AsLeft, UsbReadDone
<1>4. Kin(u, r)
  BY <1>3, LevelFacts DEF UsbRead, Readings, Kin, IsScreen, Fields, SameView, SameTab, SameRow,
     Onward
<1>5. paints \in BOOLEAN /\ (paints => state = "USB")
  OBVIOUS
<1> HIDE DEF r, paints
<1>6. Good(r, state, AsLeft, staged) /\ IsScreen(r)
  BY <1>3, <1>4, KinIsGood DEF Kin
<1>7. /\ AsLeft' = Held(FALSE, paints, front, state', u', AsLeft)
      /\ ours' \in BOOLEAN /\ missed' \in BOOLEAN /\ (ours' => ours \/ AsLeft')
  <2>1. "NO_ACTION" \notin Shows
    BY DEF Shows
  <2>2. AsLeft' = Held("NO_ACTION" \in Shows, paints, front, state', u', AsLeft)
    BY <1>2, <1>3, <1>5, HandsIsHeld
  <2> QED BY <1>2, <1>3, <1>5, <2>1, <2>2, HandsIsHeld DEF Held
<1>8. /\ Good(u', state, Held(FALSE, paints, front, state, u', AsLeft), staged)
      /\ SameView(r, u') /\ Onward(r, u')
  <2>1. CASE ~paints
    <3>1. u' = r /\ Held(FALSE, paints, front, state, u', AsLeft) = AsLeft
      BY <1>2, <1>3, <2>1 DEF Held
    <3> QED BY <1>6, <3>1 DEF SameView, Onward
  <2>2. CASE paints
    <3>1. /\ IsScreen(u') /\ SameView(r, u') /\ SameTab(r, u') /\ Onward(r, u')
          /\ front = "Trackpad" /\ r.gDevicePct # -1 =>
               u'.pct \in Levels /\ u'.charging = (state = "USB") /\ ~u'.hidden
                 /\ u'.gBattPainted
          /\ ~(front = "Trackpad" /\ r.gDevicePct # -1) => Near(r, u')
      BY <1>2, <1>6, <2>2, PaintBatteryFacts
    <3>2. CASE front = "Trackpad" /\ r.gDevicePct # -1
      <4>1. ViewOK(u', state) /\ TabOK(u', staged)
        BY <1>6, <3>1 DEF Good, ViewOK, TabOK, SameView, SameTab
      <4>2. u'.gPane /\ u'.gDevicePct # -1
        BY <1>5, <1>6, <2>2, <3>1, <3>2 DEF Good, ViewOK, SameView, Onward
      <4>3. \A o \in BOOLEAN : RowOK(u', state, o)
        BY <1>5, <2>2, <3>1, <3>2, <4>2, LevelFacts DEF RowOK
      <4>4. Held(FALSE, paints, front, state, u', AsLeft) \in BOOLEAN
        BY DEF Held
      <4> QED BY <3>1, <4>1, <4>3, <4>4 DEF Good
    <3>3. CASE ~(front = "Trackpad" /\ r.gDevicePct # -1)
      <4>1. Good(u', state, AsLeft, staged)
        BY <1>3, <1>6, <3>1, <3>3, NearIsGood
      <4>2. ~(front = "Trackpad" /\ u'.gBattPainted)
        BY <1>2, <1>6, <2>2, <3>3 DEF Good, RowOK, IsScreen, PaintBattery, FindBatteryRow
      <4>3. Held(FALSE, paints, front, state, u', AsLeft) = AsLeft
        BY <1>3, <4>2 DEF Held
      <4> QED BY <3>1, <4>1, <4>3
    <3> QED BY <3>2, <3>3
  <2> QED BY <2>1, <2>2
<1>9. Good(u', state', AsLeft', staged')
  BY <1>3, <1>7, <1>8
<1>10. ours' => u'.gDevicePct # -1 /\ u'.pct # 0
  <2>1. AsLeft' => u'.gDevicePct # -1 /\ u'.pct # 0
    BY <1>9 DEF Good, RowOK
  <2> QED BY <1>3, <1>4, <1>7, <1>8, <2>1 DEF Kin, Onward
<1>11. u'.gPane => ~u'.button
  BY <1>3, <1>4, <1>8 DEF Kin, SameView, Onward
<1> QED BY <1>3, <1>7, <1>9, <1>10, <1>11 DEF ShowOK

LEMMA AppleTimerStep ==
    ASSUME ShowOK, AppleTimer
    PROVE  ShowOK'
<1>1. PICK reading \in Readings : u' = CheckBatteryTimer(u, reading)
  BY DEF AppleTimer
<1>2. /\ Good(u, state, AsLeft, staged) /\ (u.gPane => ~u.button) /\ IsScreen(u)
      /\ state # "NONE" /\ u.gPane
      /\ ours => u.gDevicePct # -1 /\ u.pct # 0
      /\ UNCHANGED <<state, present, front, staged, ours, missed>>
  BY DEF ShowOK, Good, ViewOK, AppleTimer
<1> DEFINE known == reading = 0 /\ u.gDevicePct >= 1
<1>3. u' = [u EXCEPT !.pct = IF known THEN u.gDevicePct ELSE reading,
                     !.charging = FALSE, !.button = FALSE]
  BY <1>1, <1>2 DEF CheckBatteryTimer
<1>4. /\ u'.pct = IF known THEN u.gDevicePct ELSE reading
      /\ IsScreen(u') /\ SameView(u, u') /\ SameTab(u, u') /\ ~u'.charging /\ ~u'.button
      /\ u'.hidden = u.hidden /\ u'.gBattPainted = u.gBattPainted
      /\ u'.gDevicePct = u.gDevicePct
  BY <1>2, <1>3 DEF IsScreen, Fields, SameView, SameTab
<1>5. u.gDevicePct # -1 => u'.pct # 0
  BY <1>2, <1>4, LevelFacts DEF IsScreen, Readings
<1> HIDE DEF known
<1>6. ViewOK(u', state) /\ TabOK(u', staged) /\ RowOK(u', state, AsLeft)
  BY <1>2, <1>4, <1>5 DEF Good, ViewOK, TabOK, RowOK, SameView, SameTab
<1> QED BY <1>2, <1>4, <1>5, <1>6 DEF ShowOK, Good, AsLeft

LEMMA ShowStep == ShowOK /\ [Next]_vars => ShowOK'
<1> SUFFICES ASSUME ShowOK, [Next]_vars PROVE ShowOK'
  OBVIOUS
<1>0. IsScreen(u) /\ front \in Panes
  BY DEF ShowOK, Good
<1>1. CASE Activate
  <2>1. Kin(u, u')
    BY <1>0, <1>1 DEF Activate, IconSwizzle, Kin, IsScreen, Fields, SameView, SameTab, SameRow,
       Onward
  <2> QED BY <1>0, <1>1, <2>1, KinStep DEF Activate
<1>2. CASE BluetoothLoads
  <2>1. Kin(u, u')
    BY <1>0, <1>2 DEF BluetoothLoads, IconSwizzle, Kin, IsScreen, Fields, SameView, SameTab,
       SameRow, Onward
  <2> QED BY <1>0, <1>2, <2>1, KinStep DEF BluetoothLoads
<1>3. CASE AuxTick
  <2>1. Kin(u, u')
    BY <1>0, <1>3, ReassertFacts DEF AuxTick
  <2> QED BY <1>0, <1>3, <2>1, KinStep DEF AuxTick
<1>4. CASE ThrottleEnds
  <2>1. Kin(u, u')
    BY <1>0, <1>4 DEF ThrottleEnds, Kin, IsScreen, Fields, SameView, SameTab, SameRow, Onward
  <2> QED BY <1>0, <1>4, <2>1, KinStep DEF ThrottleEnds
<1>5. CASE OwnUpdate
  <2>1. Kin(u, u')
    BY <1>0, <1>5 DEF OwnUpdate, Kin, IsScreen, Fields, SameView, SameTab, SameRow, Onward
  <2> QED BY <1>0, <1>5, <2>1, KinStep DEF OwnUpdate
<1>6. CASE DeviceMoves
  BY <1>6 DEF DeviceMoves, ShowOK, AsLeft
<1>7. CASE UpdateStaged
  BY <1>7 DEF UpdateStaged, ShowOK, Good, TabOK, AsLeft
<1>8. CASE UNCHANGED vars
  BY <1>8 DEF vars, ShowOK, AsLeft
<1>9. ASSUME NEW p \in Panes, SelectPane(p) PROVE ShowOK'
  BY <1>9, SelectStep
<1>10. ASSUME NEW e \in Events, PresenceEvent(e) PROVE ShowOK'
  BY <1>10, EventStep
<1>11. CASE GlyphBound
  <2>1. Kin(u, u')
    BY <1>0, <1>11 DEF GlyphBound, Kin, IsScreen, Fields, SameView, SameTab, SameRow, Onward
  <2> QED BY <1>0, <1>11, <2>1, KinStep DEF GlyphBound
<1> QED BY <1>1, <1>2, <1>3, <1>4, <1>5, <1>6, <1>7, <1>8, <1>9, <1>10, <1>11,
           TickStep, TryCaptureStep, UsbReadStep, AppleTimerStep DEF Next

LEMMA ShowInit == Init => ShowOK
<1> SUFFICES ASSUME Init PROVE ShowOK
  OBVIOUS
<1>1. IsScreen(u)
  BY DEF Init, IsScreen, Fields, Strips
<1>2. /\ u.view = "NoTrackpad" /\ u.gPane = FALSE /\ u.label = "none" /\ u.gAboutVer = "none"
      /\ u.gBattPainted = FALSE /\ u.about["Trackpad"] = 0
      /\ state = "NONE" /\ ours = FALSE /\ missed = FALSE /\ staged = FALSE
  BY DEF Init, Strips
<1>3. Good(u, state, AsLeft, staged)
  BY <1>1, <1>2 DEF Good, ViewOK, TabOK, RowOK, AsLeft
<1> QED BY <1>2, <1>3 DEF Init, ShowOK, States, Panes

LEMMA ShowInv == Spec => []ShowOK
BY ShowInit, ShowStep, PTL DEF Spec

(* A row that we painted tells the truth (mavericks_render_battery,        *)
(* my_checkBatteryTimer, perform).                                         *)
THEOREM PaintedRowIsHonest == Spec => []RowHonest
<1>1. ShowOK => RowHonest
  BY DEF ShowOK, Good, RowOK, RowHonest, AsLeft, IsScreen
<1> QED BY <1>1, ShowInv, PTL

(* The view is the trackpad's exactly while the machine shows one, a strip *)
(* has at most one About tab, and its label is what gAboutVer says         *)
(* (my_controlerForNIB, mavericks_inject_about_tab, about_refresh).        *)
THEOREM ViewFollowsMachine == Spec => []ViewAndTabFollow
<1>1. ShowOK => ViewAndTabFollow
  <2> SUFFICES ASSUME ShowOK PROVE ViewAndTabFollow
    OBVIOUS
  <2>1. u.gPane => (u.view = "Trackpad" <=> state # "NONE")
    BY DEF ShowOK, Good, ViewOK
  <2>2. \A t \in Strips : u.about[t] <= 1
    BY DEF ShowOK, Good, IsScreen
  <2>3. u.about["Trackpad"] > 0 /\ u.gAboutVer = Wanted => u.label = Wanted
    BY DEF ShowOK, Good, IsScreen, TabOK, Wanted
  <2> QED BY <2>1, <2>2, <2>3 DEF ViewAndTabFollow
<1> QED BY <1>1, ShowInv, PTL
=============================================================================
