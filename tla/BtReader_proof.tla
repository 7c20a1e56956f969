--------------------------- MODULE BtReader_proof ---------------------------
(***************************************************************************)
(* The safety of BtReader for any number of connections.  DelegateNever-   *)
(* Dangles and InterposeTracked are not inductive: that the shim is never  *)
(* left behind rests on one reader being stopped at a time, and on the     *)
(* interposed channel staying non-zero between the restore and the moment  *)
(* it is forgotten, which keeps a timer from installing in between.        *)
(***************************************************************************)
EXTENDS BtReader, TLAPS

(* Nothing of a connection exists before its control channel comes up.     *)
FreshAbove ==
    \A n \in Conns : n > gConnId =>
        /\ \A c \in Channels : stage[n][c] = "absent" /\ slot[n][c] = "none"
        /\ ~timer[n] /\ ~fStreaming[n]

SlotKinds ==
    \A n \in Conns :
        /\ slot[n]["control"] \in {"none", "controlData", "bt_control_shim"}
        /\ slot[n]["interrupt"] \in {"none", "incomingData"}

TimerNeedsReader ==
    \A n \in Conns :
        timer[n] => stage[n]["control"] \in {"running", "leaving", "detached"}

OneStop ==
    \A m, n \in Conns, c, d \in Channels :
        stage[m][c] \in Stopping /\ stage[n][d] \in Stopping => m = n /\ c = d

RestoreThenForget ==
    \A n \in Conns, c \in Channels :
        stage[n][c] = "restored" =>
            gCtrlInterposedChannel # 0 /\ ~gBtControlState.installed

Steadiness ==
    /\ gSteadyConn <= gConnId
    /\ link # 0 => link = gConnId
    /\ \A n \in Conns : fStreaming[n] => mode[n] = "multitouch"
    /\ gConnId # 0 => (gSteadyConn = gConnId <=> fStreaming[gConnId])

StopInv ==
    /\ FreshAbove /\ SlotKinds /\ TimerNeedsReader /\ OneStop /\ RestoreThenForget
    /\ DelegateNeverDangles /\ InterposeTracked

ReaderInv == TypeOK /\ StopInv /\ Steadiness

(* Updating one channel of one connection changes that entry only.         *)
LEMMA NestedUpdate ==
    ASSUME NEW S, NEW f \in [Conns -> [Channels -> S]],
           NEW n \in Conns, NEW c \in Channels, NEW v \in S
    PROVE  LET g == [f EXCEPT ![n][c] = v] IN
           /\ g \in [Conns -> [Channels -> S]]
           /\ \A m \in Conns, d \in Channels :
                 g[m][d] = IF m = n /\ d = c THEN v ELSE f[m][d]
  OBVIOUS

(* The same for a flag kept per connection.                                *)
LEMMA FlagUpdate ==
    ASSUME NEW f \in [Conns -> BOOLEAN], NEW n \in Conns, NEW v \in BOOLEAN
    PROVE  LET g == [f EXCEPT ![n] = v] IN
           /\ g \in [Conns -> BOOLEAN]
           /\ \A m \in Conns : g[m] = IF m = n THEN v ELSE f[m]
  OBVIOUS

(* What an advance of one reader does to the stages, stated without EXCEPT. *)
Moved(n, c, from, to) ==
    /\ stage[n][c] = from
    /\ stage' \in [Conns -> [Channels -> Stages]]
    /\ \A m \in Conns, d \in Channels :
          stage'[m][d] = IF m = n /\ d = c THEN to ELSE stage[m][d]

LEMMA AdvanceMoves ==
    ASSUME TypeOK, NEW n \in Conns, NEW c \in Channels,
           NEW from \in Stages, NEW to \in Stages, Advance(n, c, from, to)
    PROVE  Moved(n, c, from, to)
  <1>1. stage \in [Conns -> [Channels -> Stages]]
    BY DEF TypeOK
  <1> QED BY <1>1, NestedUpdate DEF Advance, Moved

LEMMA ReaderInit == Init => ReaderInv
  BY MaxConnsAssumption DEF Init, ReaderInv, TypeOK, StopInv, Steadiness, FreshAbove,
     SlotKinds, TimerNeedsReader, OneStop, RestoreThenForget, DelegateNeverDangles,
     InterposeTracked, Alive, None, Conns, Channels, Callbacks, Stages, Stopping

(* Steps that touch neither a stage, a slot, a timer nor the interpose.    *)
LEMMA StopInvStutter ==
    ASSUME StopInv, UNCHANGED <<gConnId, interpose, stage, slot, timer>>,
           \A n \in Conns : n > gConnId => ~fStreaming'[n]
    PROVE  StopInv'
  BY DEF StopInv, FreshAbove, SlotKinds, TimerNeedsReader, OneStop,
     RestoreThenForget, DelegateNeverDangles, InterposeTracked, Alive, interpose

(* One reader of connection n moves on, with nothing but its own slot and  *)
(* its own timer touched: what every step of a stop before the restore     *)
(* has in common.                                                          *)
LEMMA StopStep ==
    ASSUME TypeOK, StopInv, NEW n \in Conns, NEW c \in Channels,
           NEW from \in Stages, NEW to \in Stages, Moved(n, c, from, to),
           UNCHANGED <<gConnId, interpose, fStreaming>>,
           from # "absent", to \notin {"absent", "restored"},
           to \in Stopping =>
               from \in Stopping \/ \A m \in Conns, d \in Channels : stage[m][d] \notin Stopping,
           to # "stopped" \/ gCtrlInterposedChannel = 0,
           \A m \in Conns, d \in Channels :
               \/ slot'[m][d] = slot[m][d] /\ (m = n /\ d = c => slot[m][d] = "none" \/ to = "leaving")
               \/ m = n /\ d = c /\ slot'[m][d] = "none",
           \A m \in Conns :
               \/ timer'[m] = timer[m]
                  /\ (m = n /\ c = "control" => ~timer[m] \/ to \in {"leaving", "detached"})
               \/ m = n /\ ~timer'[m]
    PROVE  StopInv'
  <1>1. FreshAbove'
    BY DEF StopInv, FreshAbove, Moved, TypeOK, Channels
  <1>2. SlotKinds'
    BY DEF StopInv, SlotKinds, Channels
  <1>3. TimerNeedsReader'
    BY DEF StopInv, TimerNeedsReader, Moved, Channels
  <1>4. OneStop'
    BY DEF StopInv, OneStop, Moved
  <1>5. RestoreThenForget'
    BY DEF StopInv, RestoreThenForget, Moved, interpose
  <1>6. DelegateNeverDangles'
    BY DEF StopInv, DelegateNeverDangles, Moved
  <1>7. InterposeTracked'
    BY DEF StopInv, InterposeTracked, Alive, Moved, interpose, Channels, Conns, TypeOK
  <1> QED BY <1>1, <1>2, <1>3, <1>4, <1>5, <1>6, <1>7 DEF StopInv

-----------------------------------------------------------------------------
(* The steps of a stop *)

LEMMA StopStepsKeepInv ==
    ASSUME TypeOK, StopInv, NEW n \in Conns, NEW c \in Channels, Stop(n, c)
    PROVE  TypeOK' /\ StopInv'
  <1>0. /\ stage \in [Conns -> [Channels -> Stages]]
        /\ slot \in [Conns -> [Channels -> Callbacks]]
        /\ fMux \in [Conns -> BOOLEAN] /\ timer \in [Conns -> BOOLEAN]
        /\ gCtrlInterposedChannel \in 0 .. MaxConns
        /\ gBtControlState \in [installed : BOOLEAN, saved : Callbacks]
        /\ gBtControlState.installed => gBtControlState.saved = "controlData"
    BY DEF TypeOK
  <1>1. CASE StopBegins(n, c)
    <2>1. Moved(n, c, "running", "leaving")
      BY <1>0, <1>1, AdvanceMoves DEF StopBegins, Stages, Stopping
    <2>2. TypeOK'
      BY <1>0, <1>1, <2>1, FlagUpdate, MaxConnsAssumption DEF TypeOK, StopBegins, Moved, globals, interpose, device, Conns
    <2>3. StopInv'
      BY <1>0, <1>1, <2>1, StopStep
      DEF StopBegins, globals, interpose, device, Stages, Stopping
    <2> QED BY <2>2, <2>3
  <1>2. CASE TeardownInGate(n, c)
    <2>1. Moved(n, c, "leaving", "detached")
      BY <1>0, <1>2, AdvanceMoves DEF TeardownInGate, Stages, Stopping
    <2>2. /\ slot' \in [Conns -> [Channels -> Callbacks]]
          /\ \A m \in Conns, d \in Channels :
                slot'[m][d] = IF m = n /\ d = c THEN "none" ELSE slot[m][d]
      BY <1>0, <1>2, NestedUpdate DEF TeardownInGate, Callbacks
    <2>3. TypeOK'
      BY <1>0, <1>2, <2>1, <2>2 DEF TypeOK, TeardownInGate, Moved, globals, interpose, frames, device
    <2>4. StopInv'
      BY <1>0, <1>2, <2>1, <2>2, StopStep
      DEF TeardownInGate, globals, interpose, frames, device, Stages, Stopping
    <2> QED BY <2>3, <2>4
  <1>3. CASE RemoveTimer(n, c)
    <2>1. Moved(n, c, "detached", "unarmed")
      BY <1>0, <1>3, AdvanceMoves DEF RemoveTimer, Stages, Stopping
    <2>2. /\ timer' \in [Conns -> BOOLEAN]
          /\ \A m \in Conns :
                timer'[m] = IF m = n /\ c = "control" THEN FALSE ELSE timer[m]
      BY <1>0, <1>3, FlagUpdate DEF RemoveTimer
    <2>3. TypeOK'
      BY <1>0, <1>3, <2>1, <2>2 DEF TypeOK, RemoveTimer, Moved, globals, interpose, frames, device
    <2>4. slot[n][c] = "none"
      BY <1>0, <2>1 DEF StopInv, DelegateNeverDangles, Moved
    <2>5. UNCHANGED <<gConnId, interpose, fStreaming, slot>>
      BY <1>3 DEF RemoveTimer, globals, interpose, frames
    <2>6. StopInv'
      <3>1. \A m \in Conns :
              \/ timer'[m] = timer[m]
                 /\ (m = n /\ c = "control" => ~timer[m])
              \/ m = n /\ ~timer'[m]
        BY <2>2
      <3>2. \A m \in Conns, d \in Channels :
              slot'[m][d] = slot[m][d] /\ (m = n /\ d = c => slot[m][d] = "none")
        BY <2>4, <2>5
      <3> QED BY <2>1, <2>5, <3>1, <3>2, StopStep DEF Stages, Stopping
    <2> QED BY <2>3, <2>6
  <1>4. CASE NothingToRestore(n, c)
    <2>1. Moved(n, c, "unarmed", "stopped")
      BY <1>0, <1>4, AdvanceMoves DEF NothingToRestore, Stages, Stopping
    <2>2. TypeOK'
      BY <1>0, <1>4, <2>1 DEF TypeOK, NothingToRestore, Moved, globals, interpose, frames, device
    <2>3. slot[n][c] = "none" /\ (c = "control" => ~timer[n])
      BY <1>0, <2>1 DEF StopInv, DelegateNeverDangles, TimerNeedsReader, Moved
    <2>4. StopInv'
      BY <1>0, <1>4, <2>1, <2>3, StopStep
      DEF NothingToRestore, globals, interpose, frames, device, Stages, Stopping
    <2> QED BY <2>2, <2>4
  <1>5. CASE ControlRestoreInGate(n, c)
    <2> DEFINE g == gCtrlInterposedChannel
    <2>1. Moved(n, c, "unarmed", "restored")
      BY <1>0, <1>5, AdvanceMoves DEF ControlRestoreInGate, Stages, Stopping
    <2>2. g \in Conns
      BY <1>0, <1>5 DEF ControlRestoreInGate, Conns
    <2>3. /\ slot' \in [Conns -> [Channels -> Callbacks]]
          /\ \A m \in Conns, d \in Channels :
                \/ slot'[m][d] = slot[m][d] /\ slot[m][d] # "bt_control_shim"
                \/ /\ m = g /\ d = "control"
                   /\ slot[m][d] = "bt_control_shim" /\ slot'[m][d] = "controlData"
      <3>1. \A m \in Conns, d \in Channels :
              slot[m][d] = "bt_control_shim"
                => d = "control" /\ m = g /\ gBtControlState.installed
        BY <1>0 DEF StopInv, SlotKinds, InterposeTracked, Channels
      <3>2. CASE ~gBtControlState.installed
        BY <1>0, <1>5, <3>1, <3>2 DEF ControlRestoreInGate
      <3>3. CASE gBtControlState.installed /\ slot[g]["control"] # "bt_control_shim"
        BY <1>0, <1>5, <3>1, <3>3 DEF ControlRestoreInGate, Restored
      <3>4. CASE gBtControlState.installed /\ slot[g]["control"] = "bt_control_shim"
        <4>1. slot' = [slot EXCEPT ![g]["control"] = "controlData"]
          BY <1>0, <1>5, <3>4 DEF ControlRestoreInGate, Restored
        <4>2. /\ slot' \in [Conns -> [Channels -> Callbacks]]
              /\ \A m \in Conns, d \in Channels :
                    slot'[m][d] = IF m = g /\ d = "control" THEN "controlData" ELSE slot[m][d]
          <5>1. "controlData" \in Callbacks /\ "control" \in Channels
            BY DEF Callbacks, Channels
          <5> QED BY <1>0, <4>1, <5>1, <2>2, NestedUpdate
        <4> QED BY <4>2, <3>1, <3>4
      <3> QED BY <3>2, <3>3, <3>4
    <2>4. gBtControlState' = [installed |-> FALSE, saved |-> gBtControlState.saved]
      BY <1>0, <1>5 DEF ControlRestoreInGate
    <2>5. TypeOK'
      BY <1>0, <1>5, <2>1, <2>3, <2>4
      DEF TypeOK, ControlRestoreInGate, Moved, globals, frames, device, Callbacks
    <2>6. UNCHANGED <<gConnId, gCtrlInterposedChannel, timer, fStreaming>>
      BY <1>0, <1>5 DEF ControlRestoreInGate, globals, frames
    <2>7. FreshAbove'
      BY <1>0, <2>1, <2>3, <2>6 DEF StopInv, FreshAbove, Moved
    <2>8. SlotKinds'
      BY <1>0, <2>3 DEF StopInv, SlotKinds, Channels
    <2>9. TimerNeedsReader'
      BY <1>0, <2>1, <2>6 DEF StopInv, TimerNeedsReader, Moved, Channels
    <2>10. OneStop'
      BY <1>0, <2>1 DEF StopInv, OneStop, Moved, Stopping
    <2>11. RestoreThenForget'
      BY <1>0, <2>1, <2>2, <2>4, <2>6 DEF RestoreThenForget, Conns
    <2>12. DelegateNeverDangles'
      <3> SUFFICES ASSUME NEW m \in Conns, NEW d \in Channels, slot'[m][d] # "none"
                   PROVE  stage'[m][d] \in {"running", "leaving"}
        BY DEF DelegateNeverDangles
      <3>1. stage[m][d] \in {"running", "leaving"}
        BY <2>3 DEF StopInv, DelegateNeverDangles
      <3> QED BY <3>1, <2>1 DEF Moved
    <2>13. InterposeTracked'
      BY <1>0, <2>1, <2>3, <2>6 DEF StopInv, InterposeTracked, Alive, Moved, Channels, Conns
    <2> QED BY <2>5, <2>7, <2>8, <2>9, <2>10, <2>11, <2>12, <2>13 DEF StopInv
  <1>6. CASE Forget(n, c)
    <2>1. Moved(n, c, "restored", "stopped")
      BY <1>0, <1>6, AdvanceMoves DEF Forget, Stages, Stopping
    <2>2. TypeOK'
      BY <1>0, <1>6, <2>1, MaxConnsAssumption DEF TypeOK, Forget, Moved, globals, frames, device
    <2>3. ~gBtControlState.installed
      BY <1>0, <2>1 DEF StopInv, RestoreThenForget, Moved
    <2>4. UNCHANGED <<gConnId, gBtControlState, slot, timer, fStreaming>>
      BY <1>0, <1>6 DEF Forget, globals, frames
    <2>5. FreshAbove'
      BY <1>0, <2>1, <2>4 DEF StopInv, FreshAbove, Moved
    <2>6. SlotKinds' /\ TimerNeedsReader'
      BY <1>0, <2>1, <2>4 DEF StopInv, SlotKinds, TimerNeedsReader, Moved, Channels
    <2>7. OneStop'
      BY <1>0, <2>1 DEF StopInv, OneStop, Moved, Stopping
    <2>8. RestoreThenForget'
      BY <1>0, <2>1, <2>7 DEF StopInv, OneStop, RestoreThenForget, Moved, Stopping
    <2>9. DelegateNeverDangles'
      BY <1>0, <2>1, <2>4 DEF StopInv, DelegateNeverDangles, Moved
    <2>10. InterposeTracked'
      BY <1>0, <1>6, <2>3, <2>4 DEF StopInv, InterposeTracked, Forget
    <2> QED BY <2>2, <2>5, <2>6, <2>7, <2>8, <2>9, <2>10 DEF StopInv
  <1> QED BY <1>1, <1>2, <1>3, <1>4, <1>5, <1>6 DEF Stop

-----------------------------------------------------------------------------
(* The other steps *)

(* Setting up one more reader on a channel that has none.                  *)
LEMMA SetupKeepsStopInv ==
    ASSUME TypeOK, StopInv, NEW n \in Conns, NEW c \in Channels,
           Moved(n, c, "absent", "running"), UNCHANGED <<interpose, fStreaming>>,
           gConnId' = gConnId \/ gConnId' = n,
           gConnId' \in Int, n <= gConnId', gConnId <= gConnId',
           \A m \in Conns, d \in Channels :
              slot'[m][d] = IF m = n /\ d = c
                            THEN IF c = "control" THEN "controlData" ELSE "incomingData"
                            ELSE slot[m][d],
           \A m \in Conns : timer'[m] = timer[m] \/ (m = n /\ c = "control")
    PROVE  StopInv'
  <1>1. FreshAbove'
    BY DEF StopInv, FreshAbove, Moved, Conns, TypeOK
  <1>2. SlotKinds'
    BY DEF StopInv, SlotKinds, Channels
  <1>3. TimerNeedsReader'
    BY DEF StopInv, TimerNeedsReader, Moved, Channels
  <1>4. OneStop'
    BY DEF StopInv, OneStop, Moved, Stopping
  <1>5. RestoreThenForget'
    BY DEF StopInv, RestoreThenForget, Moved, interpose
  <1>6. DelegateNeverDangles'
    BY DEF StopInv, DelegateNeverDangles, Moved
  <1>7. InterposeTracked'
    BY DEF StopInv, InterposeTracked, Alive, Moved, interpose, Channels, Conns, TypeOK
  <1> QED BY <1>1, <1>2, <1>3, <1>4, <1>5, <1>6, <1>7 DEF StopInv

LEMMA ControlStartKeepsInv == ReaderInv /\ ControlStart => ReaderInv'
  <1> SUFFICES ASSUME ReaderInv, ControlStart PROVE ReaderInv'
    OBVIOUS
  <1> DEFINE n == gConnId + 1
  <1>1. /\ n \in Conns /\ gConnId \in Nat /\ gConnId' = n /\ link' = n
        /\ Advance(n, "control", "absent", "running")
        /\ slot' = [slot EXCEPT ![n]["control"] = "controlData"]
        /\ timer' = [timer EXCEPT ![n] = TRUE]
        /\ UNCHANGED <<gSteadyConn, interpose, gBtBackend, frames, mode, asked, published>>
    BY DEF ReaderInv, TypeOK, ControlStart
  <1> HIDE DEF n
  <1>2. Moved(n, "control", "absent", "running")
    BY <1>1, AdvanceMoves DEF ReaderInv, Channels, Stages
  <1>3. /\ slot' \in [Conns -> [Channels -> Callbacks]]
        /\ \A m \in Conns, d \in Channels :
              slot'[m][d] = IF m = n /\ d = "control" THEN "controlData" ELSE slot[m][d]
    <2>1. /\ slot \in [Conns -> [Channels -> Callbacks]]
          /\ "control" \in Channels /\ "controlData" \in Callbacks
      BY DEF ReaderInv, TypeOK, Channels, Callbacks
    <2> QED BY <1>1, <2>1, NestedUpdate
  <1>4. /\ timer' \in [Conns -> BOOLEAN]
        /\ \A m \in Conns : timer'[m] = timer[m] \/ m = n
    BY <1>1, FlagUpdate DEF ReaderInv, TypeOK
  <1>5. TypeOK'
    BY <1>1, <1>2, <1>3, <1>4 DEF ReaderInv, TypeOK, Moved, interpose, frames, Conns
  <1>6. StopInv'
    <2>1. UNCHANGED <<interpose, fStreaming>> /\ "control" \in Channels
      BY <1>1 DEF frames, Channels
    <2>2. gConnId' \in Int /\ n <= gConnId' /\ gConnId <= gConnId'
      BY <1>1 DEF n, Conns
    <2>3. /\ \A m \in Conns, d \in Channels :
                slot'[m][d] = IF m = n /\ d = "control"
                              THEN IF "control" = "control" THEN "controlData"
                                                            ELSE "incomingData"
                              ELSE slot[m][d]
          /\ \A m \in Conns : timer'[m] = timer[m] \/ (m = n /\ "control" = "control")
      BY <1>3, <1>4
    <2>4. TypeOK /\ StopInv /\ n \in Conns /\ gConnId' = n
      BY <1>1 DEF ReaderInv
    <2> QED BY <1>2, <2>1, <2>2, <2>3, <2>4, SetupKeepsStopInv
  <1>7. Steadiness'
    <2>1. n > gConnId
      BY <1>1 DEF n
    <2>2. ~fStreaming[n]
      BY <1>1, <2>1 DEF ReaderInv, StopInv, FreshAbove
    <2>3. gSteadyConn \in Int /\ gSteadyConn <= gConnId
      BY DEF ReaderInv, TypeOK, Steadiness, Conns
    <2>4. n \in Int /\ gSteadyConn' = gSteadyConn /\ fStreaming' = fStreaming /\ mode' = mode
      BY <1>1 DEF frames, Conns
    <2>5. gSteadyConn < n /\ gConnId' = n /\ link' = n
      BY <1>1, <2>1, <2>3, <2>4
    <2>6. \A m \in Conns : fStreaming[m] => mode[m] = "multitouch"
      BY DEF ReaderInv, Steadiness
    <2> QED BY <2>2, <2>3, <2>4, <2>5, <2>6 DEF Steadiness
  <1> QED BY <1>5, <1>6, <1>7 DEF ReaderInv

LEMMA InterruptStartKeepsInv ==
    ASSUME ReaderInv, NEW n \in Conns, InterruptStart(n)
    PROVE  ReaderInv'
  <1>1. /\ Moved(n, "interrupt", "absent", "running")
        /\ "interrupt" \in Channels
    BY AdvanceMoves DEF ReaderInv, InterruptStart, Channels, Stages
  <1>2. /\ slot' \in [Conns -> [Channels -> Callbacks]]
        /\ \A m \in Conns, d \in Channels :
              slot'[m][d] = IF m = n /\ d = "interrupt" THEN "incomingData" ELSE slot[m][d]
    <2>1. slot \in [Conns -> [Channels -> Callbacks]] /\ "incomingData" \in Callbacks
      BY DEF ReaderInv, TypeOK, Callbacks
    <2> QED BY <1>1, <2>1, NestedUpdate DEF InterruptStart
  <1>3. UNCHANGED <<globals, interpose, gBtBackend, frames, timer, device>>
    BY DEF InterruptStart
  <1>4. TypeOK'
    BY <1>1, <1>2, <1>3 DEF ReaderInv, TypeOK, Moved, globals, interpose, frames, device
  <1>5. StopInv'
    <2>1. UNCHANGED <<gConnId, interpose, fStreaming, timer>>
      BY <1>3 DEF globals, frames
    <2>2. n = gConnId /\ gConnId \in Int
      BY DEF ReaderInv, TypeOK, Steadiness, InterruptStart, Conns
    <2> QED BY <1>1, <1>2, <2>1, <2>2, SetupKeepsStopInv DEF ReaderInv
  <1>6. Steadiness'
    BY <1>3 DEF ReaderInv, Steadiness, globals, frames, device
  <1> QED BY <1>4, <1>5, <1>6 DEF ReaderInv

LEMMA PollKeepsInv ==
    ASSUME ReaderInv, NEW n \in Conns, PollBattery(n)
    PROVE  ReaderInv'
  <1>1. /\ TypeOK /\ StopInv /\ timer[n]
        /\ UNCHANGED <<globals, gBtBackend, stage, frames, timer, link, mode, published>>
        /\ asked' = [asked EXCEPT ![n] = link = n]
    BY DEF ReaderInv, PollBattery
  <1>2. asked' \in [Conns -> BOOLEAN]
    BY <1>1 DEF TypeOK
  <1>3. Steadiness'
    BY <1>1 DEF ReaderInv, Steadiness, globals, frames
  <1>4. CASE gCtrlInterposedChannel = 0 /\ Spliceable(n)
    <2>1. /\ slot[n]["control"] = "controlData" /\ ~gBtControlState.installed
          /\ \A m \in Conns : slot[m]["control"] # "bt_control_shim"
          /\ \A m \in Conns, d \in Channels : stage[m][d] # "restored"
      BY <1>1, <1>4 DEF StopInv, SlotKinds, InterposeTracked, RestoreThenForget, Spliceable
    <2>2. /\ gBtControlState' = [installed |-> TRUE, saved |-> "controlData"]
          /\ slot' = [slot EXCEPT ![n]["control"] = "bt_control_shim"]
          /\ gCtrlInterposedChannel' = n
      BY <1>4, <2>1 DEF PollBattery
    <2>3. /\ slot' \in [Conns -> [Channels -> Callbacks]]
          /\ \A m \in Conns, d \in Channels :
                slot'[m][d] = IF m = n /\ d = "control" THEN "bt_control_shim" ELSE slot[m][d]
      <3>1. /\ slot \in [Conns -> [Channels -> Callbacks]]
            /\ "control" \in Channels /\ "bt_control_shim" \in Callbacks
        BY <1>1 DEF TypeOK, Channels, Callbacks
      <3> QED BY <2>2, <3>1, NestedUpdate
    <2>4. TypeOK'
      <3>1. /\ gBtControlState' \in [installed : BOOLEAN, saved : Callbacks]
            /\ gBtControlState'.installed => gBtControlState'.saved = "controlData"
            /\ gCtrlInterposedChannel' \in 0 .. MaxConns
        BY <2>2 DEF Callbacks, Conns
      <3> QED BY <1>1, <1>2, <2>3, <3>1 DEF TypeOK, globals, frames
    <2>5. FreshAbove'
      BY <1>1, <2>1, <2>3 DEF StopInv, FreshAbove, globals, frames, Channels
    <2>6. SlotKinds'
      BY <1>1, <2>3 DEF StopInv, SlotKinds, Channels
    <2>7. TimerNeedsReader' /\ OneStop' /\ RestoreThenForget'
      BY <1>1, <2>1 DEF StopInv, TimerNeedsReader, OneStop, RestoreThenForget
    <2>8. DelegateNeverDangles'
      BY <1>1, <2>1, <2>3 DEF StopInv, DelegateNeverDangles, Channels
    <2>9. InterposeTracked'
      <3>1. Alive(n, "control")'
        BY <1>1 DEF StopInv, TimerNeedsReader, Alive
      <3>2. gBtControlState'.installed
        BY <2>2
      <3> QED BY <2>1, <2>2, <2>3, <3>1, <3>2 DEF InterposeTracked, Channels
    <2> QED BY <1>3, <2>4, <2>5, <2>6, <2>7, <2>8, <2>9 DEF ReaderInv, StopInv
  <1>5. CASE ~(gCtrlInterposedChannel = 0 /\ Spliceable(n))
    <2>1. UNCHANGED <<interpose, slot>>
      BY <1>5 DEF PollBattery
    <2>2. TypeOK'
      BY <1>1, <1>2, <2>1 DEF TypeOK, globals, interpose, frames
    <2>3. StopInv'
      BY <1>1, <2>1, StopInvStutter DEF StopInv, FreshAbove, globals, frames
    <2> QED BY <1>3, <2>2, <2>3 DEF ReaderInv
  <1> QED BY <1>4, <1>5

LEMMA FrameKeepsInv ==
    ASSUME ReaderInv, NEW n \in Conns, IncomingData(n)
    PROVE  ReaderInv'
  <1>1. /\ TypeOK /\ StopInv /\ Steadiness /\ n = gConnId /\ mode[n] = "multitouch"
        /\ fStreaming' = [fStreaming EXCEPT ![n] = TRUE]
        /\ gSteadyConn' = IF fStreaming[n] THEN gSteadyConn ELSE gConnId
        /\ UNCHANGED <<gConnId, interpose, stage, slot, timer, mux, device>>
    BY DEF ReaderInv, Steadiness, IncomingData, Decodes, Conns
  <1>2. /\ fStreaming' \in [Conns -> BOOLEAN]
        /\ \A m \in Conns : fStreaming'[m] = IF m = n THEN TRUE ELSE fStreaming[m]
    BY <1>1, FlagUpdate DEF TypeOK
  <1>3. gSteadyConn' = n
    BY <1>1 DEF Steadiness, Conns
  <1>4. TypeOK'
    <2>1. fMux' \in [Conns -> BOOLEAN]
      BY <1>1 DEF TypeOK, IncomingData
    <2>2. gBtBackend' \in 0 .. MaxConns
      BY <1>1 DEF TypeOK, IncomingData, Conns
    <2> QED BY <1>1, <1>2, <1>3, <2>1, <2>2 DEF TypeOK, interpose, device
  <1>5. StopInv'
    <2>1. \A m \in Conns : m > gConnId => ~fStreaming'[m]
      BY <1>1, <1>2 DEF StopInv, FreshAbove, Conns
    <2> QED BY <1>1, <2>1, StopInvStutter
  <1>6. Steadiness'
    BY <1>1, <1>2, <1>3 DEF Steadiness, device, Conns
  <1> QED BY <1>4, <1>5, <1>6 DEF ReaderInv

LEMMA ReEnableKeepsInv ==
    ASSUME ReaderInv, NEW n \in Conns, ReEnable(n)
    PROVE  ReaderInv'
  <1>1. /\ TypeOK /\ StopInv /\ Steadiness
        /\ UNCHANGED <<globals, interpose, gBtBackend, stage, slot, frames, timer,
                       link, asked, published>>
        /\ mode' \in {mode, [mode EXCEPT ![n] = "multitouch"]}
    BY DEF ReaderInv, ReEnable
  <1>2. /\ mode' \in [Conns -> {"mouse", "multitouch"}]
        /\ \A m \in Conns : mode[m] = "multitouch" => mode'[m] = "multitouch"
    BY <1>1 DEF TypeOK
  <1>3. TypeOK'
    BY <1>1, <1>2 DEF TypeOK, globals, interpose, frames
  <1>4. StopInv'
    BY <1>1, StopInvStutter DEF StopInv, FreshAbove, globals, frames
  <1>5. Steadiness'
    BY <1>1, <1>2 DEF Steadiness, globals, frames
  <1> QED BY <1>3, <1>4, <1>5 DEF ReaderInv

(* The mux's coming and going, the battery's answer and the link's end.    *)
LEMMA QuietStepsKeepInv ==
    ASSUME ReaderInv,
           \/ LinkDrops
           \/ \E n \in Conns : MuxAttaches(n) \/ MuxStops(n) \/ BatteryReply(n)
    PROVE  ReaderInv'
  <1>1. /\ UNCHANGED <<gConnId, gSteadyConn, interpose, gBtBackend, stage, slot, fMux,
                       fStreaming, timer, mode>>
        /\ link' = link \/ link' = 0
    BY DEF LinkDrops, MuxAttaches, MuxStops, BatteryReply, globals, device, frames
  <1>2. /\ mux' \in [Conns -> BOOLEAN] /\ asked' \in [Conns -> BOOLEAN]
        /\ published' \in [Conns -> BOOLEAN]
    BY DEF ReaderInv, TypeOK, LinkDrops, MuxAttaches, MuxStops, BatteryReply, frames, device
  <1>3. TypeOK'
    BY <1>1, <1>2, MaxConnsAssumption DEF ReaderInv, TypeOK, interpose
  <1>4. StopInv'
    BY <1>1, StopInvStutter DEF ReaderInv, StopInv, FreshAbove
  <1>5. Steadiness'
    BY <1>1 DEF ReaderInv, Steadiness
  <1> QED BY <1>3, <1>4, <1>5 DEF ReaderInv

LEMMA StopKeepsSteadiness ==
    ASSUME Steadiness, NEW n \in Conns, NEW c \in Channels, Stop(n, c)
    PROVE  Steadiness'
  <1>1. UNCHANGED <<gConnId, gSteadyConn, fStreaming, mode, link>>
    BY DEF Stop, StopBegins, TeardownInGate, RemoveTimer, ControlRestoreInGate, Forget,
       NothingToRestore, globals, frames, device
  <1> QED BY <1>1 DEF Steadiness

LEMMA ReaderStep == ReaderInv /\ [Next]_vars => ReaderInv'
  <1> SUFFICES ASSUME ReaderInv, [Next]_vars PROVE ReaderInv'
    OBVIOUS
  <1>1. CASE ControlStart
    BY <1>1, ControlStartKeepsInv
  <1>2. CASE LinkDrops
    BY <1>2, QuietStepsKeepInv
  <1>3. ASSUME NEW n \in Conns,
               \/ InterruptStart(n) \/ MuxAttaches(n) \/ IncomingData(n)
               \/ ReEnable(n) \/ PollBattery(n) \/ BatteryReply(n)
        PROVE  ReaderInv'
    BY <1>3, InterruptStartKeepsInv, QuietStepsKeepInv, FrameKeepsInv, ReEnableKeepsInv,
       PollKeepsInv
  <1>4. CASE Terminate
    <2>1. ASSUME NEW n \in Conns, MuxStops(n) PROVE ReaderInv'
      BY <2>1, QuietStepsKeepInv
    <2>2. ASSUME NEW n \in Conns, NEW c \in Channels, Stop(n, c) PROVE ReaderInv'
      BY <2>2, StopStepsKeepInv, StopKeepsSteadiness DEF ReaderInv
    <2> QED BY <1>4, <2>1, <2>2 DEF Terminate
  <1>5. CASE UNCHANGED vars
    <2>1. UNCHANGED <<gConnId, gSteadyConn, gCtrlInterposedChannel, gBtControlState,
                      gBtBackend, stage, slot, fMux, fStreaming, mux, timer, link, mode,
                      asked, published>>
      BY <1>5 DEF vars, globals, interpose, frames, device
    <2>2. TypeOK' /\ Steadiness'
      BY <2>1 DEF ReaderInv, TypeOK, Steadiness
    <2>3. StopInv'
      BY <2>1, StopInvStutter DEF ReaderInv, StopInv, FreshAbove, interpose
    <2> QED BY <2>2, <2>3 DEF ReaderInv
  <1> QED BY <1>1, <1>2, <1>3, <1>4, <1>5 DEF Next

-----------------------------------------------------------------------------
(* The strengthened invariant, for every number of connections.            *)
THEOREM ReaderInvariant == Spec => []ReaderInv
  <1>1. Init => ReaderInv
    BY ReaderInit
  <1>2. ReaderInv /\ [Next]_vars => ReaderInv'
    BY ReaderStep
  <1> QED BY <1>1, <1>2, PTL DEF Spec

(* No channel is left with a callback of a reader that let go of it,       *)
(* however the stops of one connection overlap the bring-up of the next.   *)
THEOREM NoDanglingDelegate == Spec => []DelegateNeverDangles
  <1>1. ReaderInv => DelegateNeverDangles
    BY DEF ReaderInv, StopInv
  <1> QED BY <1>1, ReaderInvariant, PTL

(* The interposed channel's raw pointer and the engine's record are right. *)
THEOREM SpliceRecordIsRight == Spec => []InterposeTracked
  <1>1. ReaderInv => InterposeTracked
    BY DEF ReaderInv, StopInv
  <1> QED BY <1>1, ReaderInvariant, PTL

(* The retry of the enable stops exactly when the connection streams.      *)
THEOREM RetryStopsOnFirstFrame == Spec => []SteadyIsMultitouch
  <1>1. ReaderInv => SteadyIsMultitouch
    <2> SUFFICES ASSUME TypeOK, Steadiness PROVE SteadyIsMultitouch
      BY DEF ReaderInv
    <2>1. CASE gConnId = 0
      BY <2>1 DEF TypeOK, Steadiness, SteadyIsMultitouch, Conns
    <2>2. CASE gConnId # 0
      BY <2>2 DEF TypeOK, Steadiness, SteadyIsMultitouch, Conns
    <2> QED BY <2>1, <2>2
  <1> QED BY <1>1, ReaderInvariant, PTL

=============================================================================
