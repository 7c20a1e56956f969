-------------------------- MODULE TerminalBackend ---------------------------
(***************************************************************************)
(* Lifetimes around one VoodooInput mux and its MavericksTerminalBackend:  *)
(* who may still be inside the backend, its lock, its idle timer or its    *)
(* fabricated AMD while IOKit starts and stops them.                       *)
(*                                                                         *)
(* Four threads: the reader's workloop, which decodes a report and runs    *)
(* VoodooInput::message and handleEvent to the end; the backend's own      *)
(* workloop with idleTick; the control channel's battery reply, on the     *)
(* Bluetooth workloop beside the frames; and IOKit's start/stop thread.    *)
(* What the session computes is the subject of TouchHost; here a handler   *)
(* is the places where it touches shared memory.                           *)
(***************************************************************************)

VARIABLES transport,       \* of the satellite the mux attached to
          delivering,      \* may the reader's workloop deliver reports?
          pulled,          \* was the mux terminated while it might?
          fMux,            \* has the reader found the mux?
          identifier,      \* does the mux carry VOODOO_INPUT_IDENTIFIER?
          legacyTerminal,  \* is the mux's pointer to the backend set?
          backend,         \* the backend's memory: absent, raw, started, freed
          fLock,           \* is the pointer to the lock set?
          lock,            \* the lock's memory: absent, free, freed, or its holder
          fSynth,          \* is the pointer to the AMD context set?
          ctx,             \* the context's memory: absent, ready, fenced, freed
          fIdle,           \* the idle timer: absent, off, armed
          property,        \* MT2TerminalBackend on the reader
          gBtBackend,      \* is the battery's pointer to the backend set?
          control,         \* is the control channel's reader attached?
          pc               \* where each thread stands

reader == <<transport, delivering, pulled, fMux, gBtBackend, control>>
pointers == <<identifier, legacyTerminal, fLock, fSynth, property>>
memory == <<backend, lock, ctx, fIdle>>
vars == <<reader, pc, pointers, memory>>

Handlers == {"frame", "idle"}
Inside == {"entered", "feeding", "using", "unlocking"}
Starting == {"matching", "starting", "started"}
Stopping == {"aborting", "barrier", "timer", "fence", "context", "synth", "lock",
             "unlock", "release", "forget", "reader"}

TypeOK ==
  /\ transport \in {"BT", "USB"}
  /\ {delivering, pulled, fMux, identifier, legacyTerminal, fLock, fSynth, property,
      gBtBackend, control} \subseteq BOOLEAN
  /\ backend \in {"absent", "raw", "started", "freed"}
  /\ lock \in {"absent", "free", "freed", "frame", "idle"}
  /\ ctx \in {"absent", "ready", "fenced", "freed"}
  /\ fIdle \in {"absent", "off", "armed"}
  /\ pc.frame \in {"idle", "routing"} \union Inside
  /\ pc.idle \in {"idle"} \union Inside
  /\ pc.battery \in {"idle", "entered", "publishing"}
  /\ pc.mux \in Starting \union {"running", "stopped"} \union Stopping
  /\ pc.idle # "idle" => fIdle # "absent"

At(t, place) == pc[t] = place
Goto(t, place) == pc' = [pc EXCEPT ![t] = place]

---------------------------------------------------------------------------
(* VoodooInput::start and the backend's start *)

AllocTerminal ==
  /\ At("mux", "matching") /\ Goto("mux", "starting")
  /\ legacyTerminal' = TRUE
  /\ backend' = "raw"
  /\ UNCHANGED <<reader, identifier, fLock, fSynth, property, lock, ctx, fIdle>>

\* The AMD is fail-soft: without one the backend starts all the same.
BackendStart ==
  /\ At("mux", "starting") /\ Goto("mux", "started")
  /\ backend' = "started"
  /\ fLock' = TRUE /\ lock' = "free"
  /\ fSynth' \in BOOLEAN /\ ctx' = IF fSynth' THEN "ready" ELSE "absent"
  /\ fIdle' = "off"
  /\ property' = TRUE
  /\ UNCHANGED <<reader, identifier, legacyTerminal>>

TerminalsReady ==
  /\ At("mux", "started") /\ Goto("mux", "running")
  /\ identifier' = TRUE
  /\ UNCHANGED <<reader, legacyTerminal, fLock, fSynth, property, memory>>

---------------------------------------------------------------------------
(* The reader's workloop: a report, decoded, finds the mux once it carries *)
(* the identifier.                                                         *)

FrameArrives ==
  /\ At("frame", "idle") /\ At("battery", "idle") /\ delivering
  /\ fMux' = (fMux \/ identifier)
  /\ gBtBackend' = IF transport = "BT" /\ ~fMux /\ identifier THEN property ELSE gBtBackend
  /\ Goto("frame", IF fMux' THEN "routing" ELSE "idle")
  /\ UNCHANGED <<transport, delivering, pulled, control, pointers, memory>>

\* VoodooInput::message
RouteEvent ==
  /\ At("frame", "routing")
  /\ Goto("frame", IF legacyTerminal THEN "entered" ELSE "idle")
  /\ UNCHANGED <<reader, pointers, memory>>

---------------------------------------------------------------------------
(* handleEvent and idleTick: the same shape, the session under fLock *)

TakeLock(t) ==
  /\ At(t, "entered") /\ Goto(t, "feeding")
  /\ IF fLock THEN lock = "free" /\ lock' = t ELSE UNCHANGED lock
  /\ UNCHANGED <<reader, pointers, backend, ctx, fIdle>>

\* Only a frame arms the timer; the feed looks at the context's fence.
Feed(t) ==
  /\ At(t, "feeding") /\ Goto(t, IF fSynth /\ ctx = "ready" THEN "using" ELSE "unlocking")
  /\ fIdle' \in IF t = "frame" /\ fIdle # "absent" THEN {fIdle, "armed"} ELSE {fIdle}
  /\ UNCHANGED <<reader, pointers, backend, lock, ctx>>

\* handleTouchFrame or handlePointerEventFromDevice on the AMD
UseAmd(t) ==
  /\ At(t, "using") /\ Goto(t, "unlocking")
  /\ UNCHANGED <<reader, pointers, memory>>

Unlock(t) ==
  /\ At(t, "unlocking") /\ Goto(t, "idle")
  /\ lock' = IF fLock THEN "free" ELSE lock
  /\ UNCHANGED <<reader, pointers, backend, ctx, fIdle>>

IdleExpires ==
  /\ At("idle", "idle") /\ fIdle = "armed"
  /\ fIdle' = "off"
  /\ Goto("idle", "entered")
  /\ UNCHANGED <<reader, pointers, backend, lock, ctx>>

---------------------------------------------------------------------------
(* publishBattery, from bt_control_shim; it takes no lock *)

BatteryReply ==
  /\ At("battery", "idle") /\ At("frame", "idle")
  /\ control /\ delivering /\ gBtBackend
  /\ Goto("battery", "entered")
  /\ UNCHANGED <<reader, pointers, memory>>

Publish ==
  /\ At("battery", "entered")
  /\ Goto("battery", IF fSynth /\ ctx = "ready" THEN "publishing" ELSE "idle")
  /\ UNCHANGED <<reader, pointers, memory>>

PublishDone ==
  /\ At("battery", "publishing") /\ Goto("battery", "idle")
  /\ UNCHANGED <<reader, pointers, memory>>

---------------------------------------------------------------------------
(* Termination *)

\* A Bluetooth link that drops closes its channels between two deliveries.
LinkDrops ==
  /\ transport = "BT" /\ delivering
  /\ At("frame", "idle") /\ At("battery", "idle")
  /\ delivering' = FALSE
  /\ UNCHANGED <<transport, pulled, fMux, gBtBackend, control, pc, pointers, memory>>

\* MT2USBReader::willTerminate raises fStopping, then aborts the pipe...
UsbReleases ==
  /\ transport = "USB" /\ At("mux", "running") /\ Goto("mux", "aborting")
  /\ delivering' = FALSE
  /\ UNCHANGED <<transport, pulled, fMux, gBtBackend, control, pointers, memory>>

\* ...which waits, in the USB workloop's gate, for the completion under way.
UsbAborted ==
  /\ At("mux", "aborting") /\ At("frame", "idle") /\ Goto("mux", "barrier")
  /\ fMux' = FALSE
  /\ UNCHANGED <<transport, delivering, pulled, gBtBackend, control, pointers, memory>>

\* A reader that is terminated itself, by an unload of the kext or, on Bluetooth,
\* with its link, is not asked (willTerminate is for a provider's end), so that the
\* mux is stopped before it.
MuxTerminates ==
  /\ At("mux", "running") /\ Goto("mux", "barrier")
  /\ pulled' = (pulled \/ delivering)
  /\ UNCHANGED <<transport, delivering, fMux, gBtBackend, control, pointers, memory>>

\* Mutant: stop keeps the lock it drained with until the lock is freed.
BarrierKeepsLock ==
  /\ At("mux", "barrier") /\ Goto("mux", "timer")
  /\ lock = "free" /\ lock' = "frame"
  /\ property' = FALSE
  /\ UNCHANGED <<reader, identifier, legacyTerminal, fLock, fSynth, backend, ctx, fIdle>>

\* MavericksTerminalBackend::stop: take the lock and let it go, ...
Barrier ==
  /\ At("mux", "barrier") /\ Goto("mux", "timer")
  /\ lock = "free"
  /\ property' = FALSE
  /\ UNCHANGED <<reader, identifier, legacyTerminal, fLock, fSynth, memory>>

\* Mutant: the timer is cancelled but a tick under way is not waited for.
CancelTimerOnly ==
  /\ At("mux", "timer") /\ Goto("mux", "fence")
  /\ fIdle' = "absent"
  /\ UNCHANGED <<reader, pointers, backend, lock, ctx>>

\* ... cancel and remove the timer, which waits for a tick under way, ...
RemoveTimer ==
  /\ At("mux", "timer") /\ At("idle", "idle") /\ Goto("mux", "fence")
  /\ fIdle' = "absent"
  /\ UNCHANGED <<reader, pointers, backend, lock, ctx>>

\* ... mavericks_amd_terminal_teardown: lower the fence, ...
ClearReady ==
  /\ At("mux", "fence") /\ Goto("mux", "context")
  /\ ctx' = IF fSynth THEN "fenced" ELSE ctx
  /\ UNCHANGED <<reader, pointers, backend, lock, fIdle>>

\* ... terminate and release the AMD and its workloop, free the context, ...
FreeContext ==
  /\ At("mux", "context") /\ Goto("mux", "synth")
  /\ ctx' = IF fSynth THEN "freed" ELSE ctx
  /\ UNCHANGED <<reader, pointers, backend, lock, fIdle>>

ClearSynth ==
  /\ At("mux", "synth") /\ Goto("mux", "lock")
  /\ fSynth' = FALSE
  /\ UNCHANGED <<reader, identifier, legacyTerminal, fLock, property, memory>>

\* ... and free the lock.
FreeLock ==
  /\ At("mux", "lock") /\ Goto("mux", "unlock")
  /\ lock' = "freed"
  /\ UNCHANGED <<reader, pointers, backend, ctx, fIdle>>

ClearLock ==
  /\ At("mux", "unlock") /\ Goto("mux", "release")
  /\ fLock' = FALSE
  /\ UNCHANGED <<reader, identifier, legacyTerminal, fSynth, property, memory>>

\* VoodooInput::stop: OSSafeReleaseNULL(legacyTerminal)
ReleaseTerminal ==
  /\ At("mux", "release") /\ Goto("mux", "forget")
  /\ backend' = "freed"
  /\ UNCHANGED <<reader, pointers, lock, ctx, fIdle>>

ForgetTerminal ==
  /\ At("mux", "forget") /\ Goto("mux", "reader")
  /\ legacyTerminal' = FALSE
  /\ UNCHANGED <<reader, identifier, fLock, fSynth, property, memory>>

\* The reader's own stop comes after its client's; it clears its delegate in the gate.
ReaderStop ==
  /\ At("mux", "reader") /\ At("frame", "idle") /\ At("battery", "idle")
  /\ Goto("mux", "stopped")
  /\ delivering' = FALSE /\ fMux' = FALSE /\ gBtBackend' = FALSE
  /\ UNCHANGED <<transport, pulled, control, pointers, memory>>

\* The control channel's reader stops in its own time.
ControlReaderStop ==
  /\ control /\ At("battery", "idle")
  /\ At("mux", "running") => ~delivering
  /\ pc.mux \notin Starting
  /\ control' = FALSE /\ gBtBackend' = FALSE
  /\ UNCHANGED <<transport, delivering, pulled, fMux, pc, pointers, memory>>

---------------------------------------------------------------------------
Init ==
  /\ pc = [frame |-> "idle", idle |-> "idle", battery |-> "idle", mux |-> "matching"]
  /\ transport \in {"BT", "USB"}
  /\ control = (transport = "BT")
  /\ delivering = TRUE /\ pulled = FALSE
  /\ fMux = FALSE /\ identifier = FALSE /\ legacyTerminal = FALSE
  /\ fLock = FALSE /\ fSynth = FALSE /\ property = FALSE /\ gBtBackend = FALSE
  /\ backend = "absent" /\ lock = "absent" /\ ctx = "absent" /\ fIdle = "absent"

Handle(t) == TakeLock(t) \/ Feed(t) \/ UseAmd(t) \/ Unlock(t)

Workloops ==
  \/ FrameArrives \/ RouteEvent \/ IdleExpires
  \/ \E t \in Handlers : Handle(t)
  \/ BatteryReply \/ Publish \/ PublishDone

StartStop ==
  \/ AllocTerminal \/ BackendStart \/ TerminalsReady
  \/ UsbReleases \/ UsbAborted \/ MuxTerminates
  \/ Barrier \/ RemoveTimer \/ ClearReady \/ FreeContext \/ ClearSynth
  \/ FreeLock \/ ClearLock \/ ReleaseTerminal \/ ForgetTerminal \/ ReaderStop

Next == Workloops \/ StartStop \/ LinkDrops \/ ControlReaderStop

Spec == Init /\ [][Next]_vars

---------------------------------------------------------------------------
(* Properties *)

(* No thread is about to touch the backend, its lock or its AMD context    *)
(* before it is built or after it was freed, and the session is only ever  *)
(* run by the holder of the lock (the comments on                          *)
(* MavericksTerminalBackend::stop: "no new handleEvent enters",            *)
(* "UAF-safe", and on mavericks_amd_terminal_amd: "no frame reaches a      *)
(* not-ready / tearing-down AMD").                                         *)
UsesLive ==
  /\ \A t \in Handlers :
       /\ pc[t] \in Inside => backend = "started"
       /\ At(t, "entered") /\ fLock => lock # "freed"
       /\ At(t, "feeding") /\ fSynth => ctx # "freed"
       /\ At(t, "using") => ctx = "ready"
       /\ lock = t <=> pc[t] \in {"feeding", "using", "unlocking"}
  /\ pc.battery # "idle" => backend = "started"
  /\ At("battery", "entered") /\ fSynth => ctx # "freed"
  /\ At("battery", "publishing") => ctx \in {"ready", "fenced"}

=============================================================================
