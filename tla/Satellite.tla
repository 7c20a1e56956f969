------------------------------ MODULE Satellite ------------------------------
(***************************************************************************)
(* One satellite with its terminal: the lifetimes of TerminalBackend, with *)
(* the fabricated AMD of AmdTerminal in the place of its four-valued       *)
(* context and, on USB, the reader of UsbReader in the place of            *)
(* "delivering".  The backend's build and teardown call the AMD's step by  *)
(* step; a USB completion is the frame that enters the backend, and re-    *)
(* arms the read when it comes out.                                        *)
(***************************************************************************)
EXTENDS AmdTerminal, UsbReader

VARIABLES transport, delivering, pulled, fMux, identifier, legacyTerminal, backend, fLock,
          lock, fSynth, fIdle, property, gBtBackend, control, pc

host == <<transport, delivering, pulled, fMux, identifier, legacyTerminal, backend, fLock,
          lock, fSynth, fIdle, property, gBtBackend, control, pc>>
vars == <<host, amdVars, usbVars>>

(* What the backend's pointer to the AMD context leads to: nothing before  *)
(* the build has returned one, then by the fence, then freed memory.       *)
ContextOf ==
    IF pc.mux \in {"matching", "starting"} \/ step = "failed" THEN "absent"
    ELSE IF ready THEN "ready"
    ELSE IF step = "torn" THEN "freed"
    ELSE "fenced"

TB == INSTANCE TerminalBackend WITH ctx <- ContextOf

Usb == transport = "USB"

(* The AMD and the reader stand still.                                     *)
AlsoIdle == UNCHANGED <<amdVars, usbVars>>

(* The mux matches a reader that has called registerService.               *)
Registered == Usb => stage \notin StartStages \cup {"refused"} \/ stage = "arm"

-----------------------------------------------------------------------------
(* The backend's thread through the AMD                                    *)

BuildAmd == TB!At("mux", "starting") /\ Build /\ UNCHANGED <<host, usbVars>>

MuxStart ==
    /\ AlsoIdle
    /\ \/ Registered /\ TB!AllocTerminal
       \/ step \in {"built", "failed"} /\ TB!BackendStart /\ fSynth' = (step = "built")
       \/ TB!TerminalsReady

AmdCalls == CallsIn /\ UNCHANGED <<host, usbVars>>

TearDownAmd ==
    /\ \/ TB!At("mux", "fence") /\ fSynth /\ (CancelBezel \/ Farewell)
       \/ TB!At("mux", "context") /\ fSynth /\ Dismantle
    /\ UNCHANGED <<host, usbVars>>

FenceAndFree ==
    /\ UNCHANGED usbVars
    /\ \/ (IF fSynth THEN ClearFence ELSE UNCHANGED amdVars) /\ TB!ClearReady
       \/ (IF fSynth THEN FreeContextMemory ELSE UNCHANGED amdVars) /\ TB!FreeContext

-----------------------------------------------------------------------------
(* The reader                                                              *)

UsbStarts == Usb /\ StartUp /\ UNCHANGED <<host, amdVars>>

(* A report that decodes enters the mux; any other only re-arms.           *)
FrameIn ==
    /\ UNCHANGED amdVars
    /\ IF Usb THEN ReadCompletes ELSE UNCHANGED usbVars
    /\ TB!FrameArrives

UsbSkips ==
    /\ Usb /\ TB!At("frame", "idle") /\ (ReadCompletes \/ ReadFails \/ ReadComesTooLate)
    /\ UNCHANGED <<host, amdVars>>

UsbRearms == Usb /\ TB!At("frame", "idle") /\ Rearm /\ UNCHANGED <<host, amdVars>>

(* A termination that reaches the mux makes its AMD inactive, if it has    *)
(* one, before anything is stopped.                                        *)
Below == IF fSynth THEN Inactivate ELSE UNCHANGED amdVars

(* The interface goes away: the reader gives it up first.                  *)
UsbTerminates ==
    \/ WillTerminate /\ Below /\ TB!UsbReleases
    \/ AbortPipe /\ UNCHANGED amdVars /\ TB!UsbAborted
    \/ Usb /\ ~pulled /\ CloseInterface /\ UNCHANGED <<host, amdVars>>

(* The reader itself is terminated: the interface is given up in its stop. *)
MuxTerminates ==
    /\ Usb => stage = "running"
    /\ Below /\ UNCHANGED usbVars
    /\ TB!MuxTerminates

PulledReleases ==
    /\ Usb /\ pulled /\ TB!At("mux", "reader")
    /\ WillTerminate \/ AbortPipe \/ CloseInterface
    /\ UNCHANGED <<host, amdVars>>

ReaderStops ==
    /\ UNCHANGED amdVars
    /\ IF ~Usb THEN UNCHANGED usbVars
       ELSE IF pulled THEN UsbStopAtOnce ELSE UsbStop
    /\ TB!ReaderStop

-----------------------------------------------------------------------------
(* The rest of the mux and its backend touches neither.                    *)
Elsewhere ==
    /\ AlsoIdle
    /\ \/ TB!RouteEvent \/ TB!IdleExpires
       \/ \E t \in TB!Handlers : TB!Handle(t)
       \/ TB!BatteryReply \/ TB!Publish \/ TB!PublishDone
       \/ TB!LinkDrops \/ TB!ControlReaderStop

(* The willTerminates have returned, if any is called.                     *)
Told == Usb /\ ~pulled => stage = "released"

(* IOKit stops the AMD and its shell, then the mux.                        *)
AmdStops ==
    /\ TB!At("mux", "barrier") /\ Told /\ StopBelow
    /\ UNCHANGED <<host, usbVars>>

MuxStop ==
    /\ AlsoIdle
    /\ \/ Told /\ (fSynth => BelowStopped) /\ TB!Barrier
       \/ TB!RemoveTimer \/ TB!ClearSynth \/ TB!FreeLock \/ TB!ClearLock
       \/ TB!ReleaseTerminal \/ TB!ForgetTerminal

Init == AmdInit /\ UsbInit /\ TB!Init

Next ==
    \/ BuildAmd \/ MuxStart \/ AmdCalls \/ TearDownAmd \/ FenceAndFree
    \/ UsbStarts \/ FrameIn \/ UsbSkips \/ UsbRearms \/ UsbTerminates
    \/ MuxTerminates \/ AmdStops \/ PulledReleases \/ ReaderStops \/ Elsewhere \/ MuxStop

Spec == Init /\ [][Next]_vars

(* What has begun goes on: calls under way return, the build and a         *)
(* termination take their next step.  Neither the device nor hidd need do  *)
(* anything; hidd, once in a stub, comes out.                              *)
FairSpec ==
    /\ Spec
    /\ WF_vars(AlsoIdle /\ TB!RouteEvent)
    /\ WF_vars(AlsoIdle /\ (TB!Publish \/ TB!PublishDone))
    /\ \A t \in TB!Handlers : WF_vars(AlsoIdle /\ TB!Handle(t))
    /\ WF_vars(HiddAnswered /\ UNCHANGED <<host, usbVars>>)
    /\ WF_vars(BezelConnects /\ UNCHANGED <<host, usbVars>>)
    /\ WF_vars(BuildAmd) /\ WF_vars(MuxStart) /\ WF_vars(TearDownAmd) /\ WF_vars(FenceAndFree)
    /\ WF_vars(UsbRearms) /\ WF_vars(UsbSkips /\ fStopping)
    /\ WF_vars(UsbTerminates /\ fStopping) /\ WF_vars(ReaderStops) /\ WF_vars(MuxStop)
    /\ WF_vars(AmdStops)

-----------------------------------------------------------------------------
(* Properties                                                              *)

(* The detailed terminal implements the abstract one, for which the        *)
(* lifetimes are stated, whatever step of the AMD's build fails and        *)
(* wherever hidd and the bezel timer stand.                                *)
ImplementsBackend == TB!Spec

(* No thread touches memory that is gone (TerminalBackend), and one that   *)
(* is on the AMD finds it owned, not merely behind a fence; and a reader   *)
(* is stopped when its read has ended.  Unless the kext is unloaded from   *)
(* under a reader that delivers, for which nothing in the code keeps a     *)
(* frame out of the mux.                                                   *)
UsesLiveUnlessPulled ==
    ~pulled =>
      /\ TB!UsesLive
      /\ \A t \in {"frame", "idle"} : TB!At(t, "using") => refs["amd"] = 1
      /\ TB!At("battery", "publishing") => refs["amd"] = 1
      /\ stage = "stopped" => read = "none"

(* No frame or idle lift is handed to an AMD that IOKit has terminated     *)
(* (mavericks_amd_terminal_amd: "no frame reaches a not-ready /            *)
(* tearing-down AMD").  Refuted: the fence falls in the backend's stop.    *)
FeedMeetsLive ==
    [][~pulled => \A t \in {"frame", "idle"} :
         ~TB!At(t, "using") /\ TB!At(t, "using")' => device = "published"]_vars

(* A termination begun comes to its end, through the pipe's gate, the      *)
(* lock, the idle timer's and the AMD's workloops and hidd's answer, and   *)
(* IOKit's rule that stop waits for the interface; then the terminal keeps *)
(* nothing.  Unless, again, the kext is unloaded under a live reader.      *)
StopCompletes ==
    pc.mux \in TB!Stopping /\ ~pulled ~>
      TB!At("mux", "stopped") /\ step \in {"torn", "failed"}

==============================================================================
