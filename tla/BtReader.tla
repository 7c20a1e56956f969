------------------------------ MODULE BtReader ------------------------------
(***************************************************************************)
(* MT2BTReader over successive connections of the trackpad                 *)
(* (kext-gesture/MT2BTReader.cpp).  A connection has two L2CAP channels    *)
(* and so two readers: the control reader accepts the connection, sends    *)
(* the 0xF1 multitouch enable from its timer until the first frame, then   *)
(* polls the battery; the interrupt reader decodes frames and feeds the    *)
(* mux.  What the file keeps in globals (gConnId, gSteadyConn, gBtBackend, *)
(* the interpose of the control channel's delegate) outlives a connection  *)
(* and is shared by the readers of the next one, while those of the last   *)
(* are still being stopped.                                                *)
(*                                                                         *)
(* Threads: the Bluetooth workloop (setup, frames, replies, the timer and  *)
(* whatever runs in the command gate, one at a time) and IOKit's           *)
(* termination thread, which stops one reader after the other.  A          *)
(* connection is numbered by the gConnId it gets; its channels deliver     *)
(* nothing once its link is down.                                          *)
(***************************************************************************)
EXTENDS Integers, Sequences, FiniteSets

CONSTANT MaxConns   \* bound: connections a behaviour may have

ASSUME MaxConnsAssumption == MaxConns \in Nat \ {0}

VARIABLES
    gConnId, gSteadyConn,
    gCtrlInterposedChannel,  \* 0, or the connection whose control channel it is
    gBtControlState,         \* the splice engine's record of the interpose
    gBtBackend,              \* 0, or the connection whose mux it came from
    stage,       \* per connection and channel: how far its reader is
    slot,        \* per connection and channel: the delegate the channel calls
    fMux, fStreaming,        \* of each interrupt reader
    timer,       \* is each control reader's fInterposeTimer armed?
    mux,         \* is the mux attached to each interrupt reader?
    link,        \* 0, or the connection whose baseband link is up
    mode,        \* what each connection's device sends: "mouse" or "multitouch"
    asked,       \* has it a GET_REPORT(0x90) to answer?
    published    \* has each connection's AMD node a BatteryPercent?

globals == <<gConnId, gSteadyConn>>
interpose == <<gCtrlInterposedChannel, gBtControlState>>
frames == <<fMux, fStreaming, mux>>
device == <<link, mode, asked, published>>
vars == <<globals, interpose, gBtBackend, stage, slot, frames, timer, device>>

Conns == 1 .. MaxConns
Channels == {"control", "interrupt"}
Callbacks == {"none", "incomingData", "controlData", "bt_control_shim"}

(* stop() is under way: between its first line and its last.               *)
Stopping == {"leaving", "detached", "unarmed", "restored"}
Stages == {"absent", "running", "stopped"} \cup Stopping

TypeOK ==
    /\ gConnId \in 0 .. MaxConns
    /\ gSteadyConn \in {-1} \cup Conns
    /\ gCtrlInterposedChannel \in 0 .. MaxConns
    /\ gBtControlState \in [installed : BOOLEAN, saved : Callbacks]
    /\ gBtControlState.installed => gBtControlState.saved = "controlData"
    /\ gBtBackend \in 0 .. MaxConns
    /\ stage \in [Conns -> [Channels -> Stages]]
    /\ slot \in [Conns -> [Channels -> Callbacks]]
    /\ fMux \in [Conns -> BOOLEAN] /\ fStreaming \in [Conns -> BOOLEAN]
    /\ timer \in [Conns -> BOOLEAN] /\ mux \in [Conns -> BOOLEAN]
    /\ asked \in [Conns -> BOOLEAN] /\ published \in [Conns -> BOOLEAN]
    /\ link \in 0 .. MaxConns
    /\ mode \in [Conns -> {"mouse", "multitouch"}]

Alive(n, c) == stage[n][c] \notin {"absent", "stopped"}

Advance(n, c, from, to) ==
    stage[n][c] = from /\ stage' = [stage EXCEPT ![n][c] = to]

-----------------------------------------------------------------------------
(* Bring-up                                                                *)

(* The device connects; start and setupInGate of the control reader: a new *)
(* connection id, accept with an inert delegate, the timer armed last.     *)
(* Every connection starts in mouse mode.                                  *)
ControlStart ==
    LET n == gConnId + 1 IN
    /\ link = 0 /\ n \in Conns
    /\ link' = n
    /\ gConnId' = n
    /\ Advance(n, "control", "absent", "running")
    /\ slot' = [slot EXCEPT ![n]["control"] = "controlData"]
    /\ timer' = [timer EXCEPT ![n] = TRUE]
    /\ UNCHANGED <<gSteadyConn, interpose, gBtBackend, frames, mode, asked, published>>

(* The device, accepted, may open PSM 19; the reader becomes a satellite.  *)
(* A connection whose device never does stays half-open (recover_full of   *)
(* dist/voodooinputmavericks-run).                                         *)
InterruptStart(n) ==
    /\ link = n
    /\ Advance(n, "interrupt", "absent", "running")
    /\ slot' = [slot EXCEPT ![n]["interrupt"] = "incomingData"]
    /\ UNCHANGED <<globals, interpose, gBtBackend, frames, timer, device>>

(* VoodooInput attaches and its backend registers itself on the reader.    *)
MuxAttaches(n) ==
    /\ link = n /\ stage[n]["interrupt"] = "running" /\ ~mux[n]
    /\ mux' = [mux EXCEPT ![n] = TRUE]
    /\ UNCHANGED <<globals, interpose, gBtBackend, stage, slot, fMux, fStreaming,
                   timer, device>>

-----------------------------------------------------------------------------
(* Frames                                                                  *)

(* Mutant: any report on the interrupt channel counts as a frame.          *)
DecodesAnything(n) == TRUE

(* mt2_bt_decode takes report 0x31 only, not the mouse mode's 0x02.        *)
Decodes(n) == mode[n] = "multitouch"

(* Mutant: the backend is looked for at the reader's first frame only.     *)
IncomingDataFindsOnce(n) ==
    /\ link = n /\ slot[n]["interrupt"] = "incomingData"
    /\ Decodes(n)
    /\ fStreaming' = [fStreaming EXCEPT ![n] = TRUE]
    /\ gSteadyConn' = IF fStreaming[n] THEN gSteadyConn ELSE gConnId
    /\ fMux' = [fMux EXCEPT ![n] = mux[n]]
    /\ gBtBackend' = IF mux[n] /\ ~fStreaming[n] THEN n ELSE gBtBackend
    /\ UNCHANGED <<gConnId, interpose, stage, slot, timer, mux, device>>

(* incomingData: the first frame of the reader makes its connection        *)
(* steady; the first one that finds the mux also finds the backend.        *)
IncomingData(n) ==
    /\ link = n /\ slot[n]["interrupt"] = "incomingData"
    /\ Decodes(n)
    /\ fStreaming' = [fStreaming EXCEPT ![n] = TRUE]
    /\ gSteadyConn' = IF fStreaming[n] THEN gSteadyConn ELSE gConnId
    /\ fMux' = [fMux EXCEPT ![n] = mux[n]]
    /\ gBtBackend' = IF mux[n] /\ ~fMux[n] THEN n ELSE gBtBackend
    /\ UNCHANGED <<gConnId, interpose, stage, slot, timer, mux, device>>

-----------------------------------------------------------------------------
(* The timer of the control reader                                         *)

(* Mutant: one enable, and no retry when the device did not obey it.       *)
ReEnableOnce(n) ==
    /\ timer[n] /\ gSteadyConn # gConnId
    /\ mode' \in IF link = n THEN {mode, [mode EXCEPT ![n] = "multitouch"]} ELSE {mode}
    /\ timer' = [timer EXCEPT ![n] = FALSE]
    /\ UNCHANGED <<globals, interpose, gBtBackend, stage, slot, frames,
                   link, asked, published>>

(* interposeTimerFired before the first frame: send the enable again.  The *)
(* device may miss it; a channel that is down carries nothing.             *)
ReEnable(n) ==
    /\ timer[n] /\ gSteadyConn # gConnId
    /\ mode' \in IF link = n THEN {mode, [mode EXCEPT ![n] = "multitouch"]} ELSE {mode}
    /\ UNCHANGED <<globals, interpose, gBtBackend, stage, slot, frames, timer,
                   link, asked, published>>

(* mavericks_splice_install goes ahead: nothing is installed, and the slot *)
(* holds somebody else's callback (MAVERICKS_GATE_SLOT_POPULATED).         *)
Spliceable(n) ==
    /\ ~gBtControlState.installed
    /\ slot[n]["control"] \notin {"none", "bt_control_shim"}

(* interposeTimerFired once frames flow: take the control channel's        *)
(* delegate unless one is taken already, then ask for the battery.         *)
PollBattery(n) ==
    /\ timer[n] /\ gSteadyConn = gConnId
    /\ IF gCtrlInterposedChannel = 0 /\ Spliceable(n)
       THEN /\ gBtControlState' = [installed |-> TRUE, saved |-> slot[n]["control"]]
            /\ slot' = [slot EXCEPT ![n]["control"] = "bt_control_shim"]
            /\ gCtrlInterposedChannel' = n
       ELSE UNCHANGED <<interpose, slot>>
    /\ asked' = [asked EXCEPT ![n] = link = n]
    /\ UNCHANGED <<globals, gBtBackend, stage, frames, timer, link, mode, published>>

(* The answer on the control channel: the shim publishes it through the    *)
(* backend, if it knows one; the inert delegate drops it.                  *)
BatteryReply(n) ==
    /\ link = n /\ asked[n]
    /\ asked' = [asked EXCEPT ![n] = FALSE]
    /\ published' = IF slot[n]["control"] = "bt_control_shim" /\ gBtBackend # 0
                    THEN [published EXCEPT ![gBtBackend] = TRUE]
                    ELSE published
    /\ UNCHANGED <<globals, interpose, gBtBackend, stage, slot, frames, timer,
                   link, mode>>

-----------------------------------------------------------------------------
(* Teardown                                                                *)

LinkDrops ==
    /\ link # 0
    /\ link' = 0
    /\ asked' = [asked EXCEPT ![link] = FALSE]
    /\ UNCHANGED <<globals, interpose, gBtBackend, stage, slot, frames, timer,
                   mode, published>>

(* A mux is stopped before the reader it is a client of.                   *)
MuxStops(n) ==
    /\ link # n /\ mux[n] /\ stage[n]["interrupt"] = "running"
    /\ mux' = [mux EXCEPT ![n] = FALSE]
    /\ UNCHANGED <<globals, interpose, gBtBackend, stage, slot, fMux, fStreaming,
                   timer, device>>

(* stop of either reader forgets the mux, and the backend.                 *)
StopBegins(n, c) ==
    /\ link # n
    /\ c = "interrupt" => ~mux[n]
    /\ \A m \in Conns, d \in Channels : stage[m][d] \notin Stopping
    /\ Advance(n, c, "running", "leaving")
    /\ fMux' = IF c = "interrupt" THEN [fMux EXCEPT ![n] = FALSE] ELSE fMux
    /\ gBtBackend' = 0
    /\ UNCHANGED <<globals, interpose, slot, fStreaming, mux, timer, device>>

(* teardownInGate: listenAt(self, 0)                                       *)
TeardownInGate(n, c) ==
    /\ Advance(n, c, "leaving", "detached")
    /\ slot' = [slot EXCEPT ![n][c] = "none"]
    /\ UNCHANGED <<globals, interpose, gBtBackend, frames, timer, device>>

RemoveTimer(n, c) ==
    /\ Advance(n, c, "detached", "unarmed")
    /\ timer' = IF c = "control" THEN [timer EXCEPT ![n] = FALSE] ELSE timer
    /\ UNCHANGED <<globals, interpose, gBtBackend, slot, frames, device>>

(* Mutant: the saved callback goes back whatever the slot holds now.       *)
RestoredAlways(s) == [s EXCEPT ![gCtrlInterposedChannel]["control"] = gBtControlState.saved]

(* mavericks_splice_restore: put the saved callback back, only if the slot *)
(* is still ours.                                                          *)
Restored(s) ==
    IF s[gCtrlInterposedChannel]["control"] = "bt_control_shim"
    THEN [s EXCEPT ![gCtrlInterposedChannel]["control"] = gBtControlState.saved]
    ELSE s

(* Mutant: the engine still believes the shim installed.                   *)
ControlRestoreKeepsState(n, c) ==
    /\ gCtrlInterposedChannel # 0
    /\ Advance(n, c, "unarmed", "restored")
    /\ slot' = IF gBtControlState.installed THEN Restored(slot) ELSE slot
    /\ UNCHANGED <<globals, interpose, gBtBackend, frames, timer, device>>

(* controlRestoreInGate, on whichever channel is interposed: stop does not *)
(* ask whether it is this reader's, or even this connection's.             *)
ControlRestoreInGate(n, c) ==
    /\ gCtrlInterposedChannel # 0
    /\ Advance(n, c, "unarmed", "restored")
    /\ slot' = IF gBtControlState.installed THEN Restored(slot) ELSE slot
    /\ gBtControlState' = [gBtControlState EXCEPT !.installed = FALSE]
    /\ UNCHANGED <<globals, gCtrlInterposedChannel, gBtBackend, frames, timer, device>>

Forget(n, c) ==
    /\ Advance(n, c, "restored", "stopped")
    /\ gCtrlInterposedChannel' = 0
    /\ UNCHANGED <<globals, gBtControlState, gBtBackend, slot, frames, timer, device>>

NothingToRestore(n, c) ==
    /\ gCtrlInterposedChannel = 0
    /\ Advance(n, c, "unarmed", "stopped")
    /\ UNCHANGED <<globals, interpose, gBtBackend, slot, frames, timer, device>>

-----------------------------------------------------------------------------
None == [n \in Conns |-> FALSE]

Init ==
    /\ gConnId = 0 /\ gSteadyConn = -1
    /\ gCtrlInterposedChannel = 0
    /\ gBtControlState = [installed |-> FALSE, saved |-> "none"]
    /\ gBtBackend = 0
    /\ stage = [n \in Conns |-> [c \in Channels |-> "absent"]]
    /\ slot = [n \in Conns |-> [c \in Channels |-> "none"]]
    /\ fMux = None /\ fStreaming = None /\ mux = None
    /\ timer = None
    /\ link = 0
    /\ mode = [n \in Conns |-> "mouse"]
    /\ asked = None /\ published = None

Stop(n, c) ==
    \/ StopBegins(n, c) \/ TeardownInGate(n, c) \/ RemoveTimer(n, c)
    \/ ControlRestoreInGate(n, c) \/ Forget(n, c) \/ NothingToRestore(n, c)

Terminate == \E n \in Conns : MuxStops(n) \/ \E c \in Channels : Stop(n, c)

Next ==
    \/ ControlStart
    \/ LinkDrops
    \/ \E n \in Conns :
          \/ InterruptStart(n) \/ MuxAttaches(n) \/ IncomingData(n)
          \/ ReEnable(n) \/ PollBattery(n) \/ BatteryReply(n)
    \/ Terminate

Spec == Init /\ [][Next]_vars

(* IOKit matches and terminates, timers fire, and a device that is asked   *)
(* again and again obeys, answers and is touched.  Nothing obliges it to   *)
(* connect, to open its interrupt channel or to stay.                      *)
FairSpec ==
    /\ Spec
    /\ WF_vars(Terminate)
    /\ \A n \in Conns :
          /\ WF_vars(MuxAttaches(n)) /\ WF_vars(IncomingData(n))
          /\ SF_vars(ReEnable(n) /\ mode' # mode)
          /\ WF_vars(PollBattery(n)) /\ WF_vars(BatteryReply(n))

-----------------------------------------------------------------------------
(* Properties                                                              *)

OlderReadersGone(n) == \A m \in 1 .. n - 1, c \in Channels : ~Alive(m, c)

(* A channel never keeps a callback of a reader that has let go of it: not *)
(* its own, which would dereference the freed reader (the comment on       *)
(* teardownInGate), and not the shim or the callback the shim had saved,   *)
(* though every reader's stop may write into the control channel's slot.   *)
DelegateNeverDangles ==
    \A n \in Conns, c \in Channels :
        slot[n][c] # "none" => stage[n][c] \in {"running", "leaving"}

(* The raw pointer to the interposed channel is never that of a channel    *)
(* whose reader is gone, and the engine's record of the splice is right:   *)
(* the shim sits in the slot exactly when it says so, or the slot was      *)
(* cleared by the reader that owns it.                                     *)
InterposeTracked ==
    /\ gCtrlInterposedChannel # 0 => Alive(gCtrlInterposedChannel, "control")
    /\ \A n \in Conns :
          slot[n]["control"] = "bt_control_shim"
              => gBtControlState.installed /\ gCtrlInterposedChannel = n

(* "Steady" is never claimed for a connection whose device still sends     *)
(* mouse reports, so the enable is never given up too early, and never     *)
(* sent to a device that streams (explanation.md, teardown-safe).          *)
SteadyIsMultitouch ==
    gSteadyConn = gConnId <=> gConnId # 0 /\ fStreaming[gConnId] /\ mode[gConnId] = "multitouch"

(* A connection whose interrupt channel opens and that stays up ends up    *)
(* streaming, however many enables the device misses and whatever the      *)
(* teardown of the last one still does.                                    *)
BecomesSteady ==
    \A n \in Conns : link = n /\ stage[n]["interrupt"] = "running"
        ~> fStreaming[n] \/ link # n

(* A streaming connection that stays up has its battery replies caught,    *)
(* also when the stop of an older reader took the shim out again.          *)
InterposeRecovers ==
    \A n \in Conns : link = n /\ fStreaming[n]
        ~> slot[n]["control"] = "bt_control_shim" \/ link # n

(* Once the readers of older connections are gone, a connection with both  *)
(* channels that finds its mux and stays up gets its battery onto its AMD  *)
(* node: the poll is asked, caught, and finds the backend of this          *)
(* connection's mux.                                                       *)
BatteryPublished ==
    \A n \in Conns :
        link = n /\ stage[n]["interrupt"] = "running" /\ ~fMux[n] /\ OlderReadersGone(n)
            ~> published[n] \/ link # n

=============================================================================
