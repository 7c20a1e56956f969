--------------------------- MODULE Satellite_proof ---------------------------
(***************************************************************************)
(* Proofs about the satellite.  Its two new parts are proved on their own, *)
(* AmdTerminal by an invariant that says, step by step, what the terminal  *)
(* owns, UsbReader likewise, and so is the backend it refines, by an       *)
(* invariant that says, step by step of the thread that starts and stops   *)
(* it, what is alive and who may be inside.  Then every step of the        *)
(* composition is shown to be a step of each of the three or to leave it   *)
(* alone, so that what holds of the parts holds of the satellite.          *)
(***************************************************************************)
EXTENDS Satellite, TLAPS

(* The steps at which the terminal owns the AMD; those of the build and    *)
(* those at all at which it is registered.                                 *)
Registering == {"retain", "bezel", "raise"}
Owned == {"init", "attach", "start", "publish", "built"} \cup Registering
         \cup (TearingDown \ {"unloop", "free"})

(* What the terminal owns at each step.                                    *)
AmdOwns ==
    /\ refs["context"] = 1 <=> step \in Building \cup TearingDown \cup {"built"}
    /\ refs["amd"] = 1 <=> step \in Owned
    /\ refs["shell"] = 1 =>
         /\ shell # "absent"
         /\ step \in Building \cup {"built", "farewell", "fence", "endshell"}
    /\ shell = "started" => refs["shell"] = 1 /\ step \in Building \cup {"built"}
    /\ step \in Building /\ refs["shell"] = 1 => shell = "started"
    /\ refs["workloop"] = 1 =>
         step \in {"bezel", "raise", "built"} \cup (TearingDown \ {"free"})
    /\ refs["timer"] = 1 => step \in {"raise", "built"} /\ refs["workloop"] = 1
    /\ step \in {"unbuilt", "shell"} => shell = "absent"

(* The AMD's node and its callers at each step.                            *)
AmdNode ==
    /\ step \in {"unbuilt", "shell", "device"} => device = "absent"
    /\ step \in {"init", "attach"} => device = "made"
    /\ step = "start" => device = "attached"
    /\ step = "publish" => device = "started"
    /\ step \in Registering => device = "published"
    /\ step = "built" => device \in {"published", "inactive", "gone"}
    /\ step \in TearingDown \cup {"torn"} => device = "gone"
    /\ step = "failed" => device \in {"absent", "gone"}
    /\ calling => device \in {"published", "inactive"}
    /\ ready => step \in {"built", "farewell", "fence"}

(* The bezel timer and what it says.                                       *)
AmdBezel ==
    /\ bezel # "absent" => step \in {"raise", "built", "torn"} \cup TearingDown
    /\ bezel \in {"armed", "firing"} => step \in {"raise", "built"} /\ refs["timer"] = 1
    /\ bezel # "absent" /\ step \in Owned => refs["workloop"] = 1
    /\ step \in {"torn"} \cup (TearingDown \ {"farewell"}) => osd = "Disconnected"

AmdInv == AmdTypeOK /\ AmdOwns /\ AmdNode /\ AmdBezel

-----------------------------------------------------------------------------
LEMMA AmdInitially == AmdInit => AmdInv
<1> SUFFICES ASSUME AmdInit PROVE AmdInv OBVIOUS
<1> USE DEF AmdInit, None, Objects, Building, TearingDown, Owned, Registering
<1>1. AmdTypeOK
  <2>1. ready \in BOOLEAN /\ calling \in BOOLEAN OBVIOUS
  <2>2. refs \in [Objects -> 0 .. 1] OBVIOUS
  <2> QED BY <2>1, <2>2 DEF AmdTypeOK
<1>2. AmdOwns BY DEF AmdOwns
<1>3. AmdNode BY DEF AmdNode
<1>4. AmdBezel BY DEF AmdBezel
<1> QED BY <1>1, <1>2, <1>3, <1>4 DEF AmdInv

LEMMA AmdBuilds == AmdInv /\ Build => AmdInv'
<1> SUFFICES ASSUME AmdInv, Build PROVE AmdInv' OBVIOUS
<1> USE DEF AmdInv, AmdTypeOK, AmdOwns, AmdNode, AmdBezel, Objects, Building, TearingDown,
        Owned, Registering, Step, Gain, Drop
<1>1. CASE AllocContext BY <1>1 DEF AllocContext
<1>2. CASE StartShell BY <1>2 DEF StartShell
<1>3. CASE AllocDevice BY <1>3 DEF AllocDevice, Abandon
<1>4. CASE InitDevice BY <1>4 DEF InitDevice, Abandon
<1>5. CASE AttachDevice BY <1>5 DEF AttachDevice, Abandon
<1>6. CASE StartDevice BY <1>6 DEF StartDevice, Abandon
<1>7. CASE PublishDevice BY <1>7 DEF PublishDevice
<1>8. CASE RetainWorkLoop BY <1>8 DEF RetainWorkLoop
<1>9. CASE ArmBezel BY <1>9 DEF ArmBezel
<1>10. CASE RaiseFence BY <1>10 DEF RaiseFence
<1> QED BY <1>1, <1>2, <1>3, <1>4, <1>5, <1>6, <1>7, <1>8, <1>9, <1>10 DEF Build

LEMMA AmdIsCalled == AmdInv /\ CallsIn => AmdInv'
<1> SUFFICES ASSUME AmdInv, CallsIn PROVE AmdInv' OBVIOUS
<1> USE DEF AmdInv, AmdTypeOK, AmdOwns, AmdNode, AmdBezel, Objects, Building, TearingDown,
        Owned, Registering
<1>1. CASE HiddCalls BY <1>1 DEF HiddCalls
<1>2. CASE HiddAnswered
  <2>1. AmdTypeOK' BY <1>2 DEF HiddAnswered
  <2>2. AmdOwns' BY <1>2 DEF HiddAnswered
  <2>3. AmdNode' BY <1>2 DEF HiddAnswered
  <2>4. AmdBezel' BY <1>2 DEF HiddAnswered
  <2> QED BY <2>1, <2>2, <2>3, <2>4
<1>3. CASE BezelFires BY <1>3 DEF BezelFires
<1>4. CASE BezelConnects BY <1>4 DEF BezelConnects
<1> QED BY <1>1, <1>2, <1>3, <1>4 DEF CallsIn

LEMMA AmdIsStopped == AmdInv /\ (Inactivate \/ StopBelow) => AmdInv'
<1> SUFFICES ASSUME AmdInv, Inactivate \/ StopBelow PROVE AmdInv' OBVIOUS
<1> USE DEF AmdInv, AmdTypeOK, AmdOwns, AmdNode, AmdBezel, Objects, Building, TearingDown,
        Owned, Registering
<1>1. CASE Inactivate BY <1>1 DEF Inactivate
<1>2. CASE StopDevice BY <1>2 DEF StopDevice
<1>3. CASE StopShell BY <1>3 DEF StopShell
<1> QED BY <1>1, <1>2, <1>3 DEF StopBelow

LEMMA AmdLeaves ==
  AmdInv /\ (CancelBezel \/ Farewell \/ ClearFence \/ Dismantle \/ FreeContextMemory) => AmdInv'
<1> SUFFICES ASSUME AmdInv,
                    CancelBezel \/ Farewell \/ ClearFence \/ Dismantle \/ FreeContextMemory
             PROVE  AmdInv'
  OBVIOUS
<1> USE DEF AmdInv, AmdTypeOK, AmdOwns, AmdNode, AmdBezel, Objects, Building, TearingDown,
        Owned, Registering, Step, Gain, Drop, BelowStopped
<1>1. CASE CancelBezel
  <2>1. AmdTypeOK'
    <3>1. refs' \in [Objects -> 0 .. 1] BY <1>1 DEF CancelBezel
    <3>2. bezel' \in {"absent", "armed", "firing", "spent"} BY <1>1 DEF CancelBezel
    <3> QED BY <1>1, <3>1, <3>2 DEF CancelBezel
  <2>2. AmdOwns' BY <1>1 DEF CancelBezel
  <2>3. AmdNode' BY <1>1 DEF CancelBezel
  <2>4. AmdBezel' BY <1>1 DEF CancelBezel
  <2> QED BY <2>1, <2>2, <2>3, <2>4
<1>2. CASE Farewell BY <1>2 DEF Farewell
<1>3. CASE ClearFence BY <1>3 DEF ClearFence
<1>4. CASE EndShell BY <1>4 DEF EndShell
<1>5. CASE TerminateDevice BY <1>5 DEF TerminateDevice
<1>6. CASE ReleaseDevice BY <1>6 DEF ReleaseDevice
<1>7. CASE ReleaseWorkLoop BY <1>7 DEF ReleaseWorkLoop
<1>8. CASE FreeContextMemory BY <1>8 DEF FreeContextMemory
<1> QED BY <1>1, <1>2, <1>3, <1>4, <1>5, <1>6, <1>7, <1>8 DEF Dismantle

LEMMA AmdPreserves == AmdInv /\ [AmdNext]_amdVars => AmdInv'
<1>1. ASSUME AmdInv, UNCHANGED amdVars PROVE AmdInv'
  BY <1>1 DEF amdVars, AmdInv, AmdTypeOK, AmdOwns, AmdNode, AmdBezel
<1> QED BY <1>1, AmdBuilds, AmdIsCalled, AmdIsStopped, AmdLeaves DEF AmdNext

LEMMA AmdInvSuffices == AmdInv => NothingLeaks /\ CallersFindLive
<1> SUFFICES ASSUME AmdInv PROVE NothingLeaks /\ CallersFindLive OBVIOUS
<1> USE DEF AmdInv, AmdTypeOK, AmdOwns, AmdNode, AmdBezel, Building, TearingDown, Owned,
        Registering
<1>1. ASSUME step \in {"failed", "torn"} PROVE refs = None
  <2>1. \A o \in Objects : refs[o] = 0 BY <1>1 DEF Objects
  <2> QED BY <2>1 DEF None
<1>2. NothingLeaks BY <1>1 DEF NothingLeaks
<1>3. CallersFindLive BY DEF CallersFindLive
<1> QED BY <1>2, <1>3

-----------------------------------------------------------------------------
(* The reader: what it has open at each stage.                             *)
UsbInv ==
    /\ UsbTypeOK
    /\ opened <=> stage \in (StartStages \ {"open"})
                            \cup {"running", "terminating", "aborted"}
    /\ stage \in (StartStages \ {"open", "pipe"}) \cup {"running", "terminating", "aborted"}
         => fPipe
    /\ fBuf <=> stage \in {"publish", "arm", "running", "terminating", "aborted", "released"}
    /\ fStopping <=> stage \in {"terminating", "aborted", "released", "stopped"}
    /\ stage \in StartStages \cup {"refused"} => read = "none"
    /\ stage \in {"aborted", "released", "stopped"} => read \in {"none", "queued"}
    /\ read = "queued" => fStopping
    /\ stage = "running" /\ ~ended => read # "none"

LEMMA UsbInitially == UsbInit => UsbInv
  BY DEF UsbInit, UsbInv, UsbTypeOK, StartStages

LEMMA UsbPreserves == UsbInv /\ [UsbNext]_usbVars => UsbInv'
<1> SUFFICES ASSUME UsbInv, [UsbNext]_usbVars PROVE UsbInv' OBVIOUS
<1> USE DEF UsbInv, UsbTypeOK, StartStages, Reaches
<1>1. CASE StartUp
  <2>1. CASE OpenInterface
    <3>1. CASE stage' = "pipe" BY <2>1, <3>1 DEF OpenInterface
    <3>2. CASE stage' = "refused" BY <2>1, <3>2 DEF OpenInterface
    <3> QED BY <2>1, <3>1, <3>2 DEF OpenInterface
  <2>2. CASE FindPipe BY <2>2 DEF FindPipe
  <2>3. CASE EnableMultitouch BY <2>3 DEF EnableMultitouch
  <2>4. CASE AllocBuffer
    <3>1. CASE stage' = "publish" BY <2>4, <3>1 DEF AllocBuffer
    <3>2. CASE stage' = "refused"
      <4>1. ~opened' /\ ~fBuf /\ fBuf' = fBuf BY <2>4, <3>2 DEF AllocBuffer
      <4>2. stage = "buffer" /\ UNCHANGED <<fPipe, fStopping, read, ended>>
        BY <2>4, <3>2 DEF AllocBuffer
      <4>3. opened' \in BOOLEAN BY <2>4, <3>2 DEF AllocBuffer
      <4> QED BY <3>2, <4>1, <4>2, <4>3
    <3> QED BY <2>4, <3>1, <3>2 DEF AllocBuffer
  <2>5. CASE RegisterReader BY <2>5 DEF RegisterReader
  <2>6. CASE FirstRead BY <2>6 DEF FirstRead, ArmRead
  <2> QED BY <1>1, <2>1, <2>2, <2>3, <2>4, <2>5, <2>6 DEF StartUp
<1>2. CASE Completions
  <2>1. CASE ReadCompletes BY <2>1 DEF ReadCompletes
  <2>2. CASE ReadFails BY <2>2 DEF ReadFails
  <2>3. CASE ReadComesTooLate BY <2>3 DEF ReadComesTooLate
  <2>4. CASE Rearm BY <2>4 DEF Rearm, ArmRead
  <2> QED BY <1>2, <2>1, <2>2, <2>3, <2>4 DEF Completions
<1>3. CASE WillTerminate BY <1>3 DEF WillTerminate
<1>4. CASE AbortPipe BY <1>4 DEF AbortPipe
<1>5. CASE CloseInterface BY <1>5 DEF CloseInterface
<1>6. CASE UsbStop BY <1>6 DEF UsbStop
<1>7. CASE UsbStopAtOnce BY <1>7 DEF UsbStopAtOnce
<1>8. CASE UNCHANGED usbVars BY <1>8 DEF usbVars
<1> QED BY <1>1, <1>2, <1>3, <1>4, <1>5, <1>6, <1>7, <1>8 DEF UsbNext

LEMMA UsbInvSuffices == UsbInv => ReadsOwnWhatTheyUse
  BY DEF UsbInv, UsbTypeOK, StartStages, ReadsOwnWhatTheyUse

-----------------------------------------------------------------------------
(* The host: the backend's pointers and memory at each step of the thread  *)
(* that starts and stops it.                                               *)

(* From the step that sets them to the step that gives them up.            *)
AmdStands == {"started", "running", "aborting", "barrier", "timer", "fence"}
LockStands == AmdStands \cup {"context", "synth", "lock"}
BackendStands == LockStands \cup {"unlock", "release"}
Gone == {"forget", "reader", "stopped"}

HostMemory ==
    /\ backend = "started" <=> pc.mux \in BackendStands
    /\ legacyTerminal => pc.mux \in {"starting", "forget"} \cup BackendStands
    /\ identifier => pc.mux \notin TB!Starting
    /\ fLock <=> pc.mux \in LockStands \cup {"unlock"}
    /\ lock = "absent" <=> pc.mux \in {"matching", "starting"}
    /\ lock = "freed" <=> pc.mux \in {"unlock", "release"} \cup Gone
    /\ fIdle # "absent" <=> pc.mux \in {"started", "running", "aborting", "barrier", "timer"}
    /\ fSynth => pc.mux \in AmdStands \cup {"context", "synth"}
    /\ fSynth /\ pc.mux \in AmdStands => ContextOf = "ready"
    /\ fSynth /\ pc.mux = "context" => ContextOf = "fenced"

(* Who may be inside: a frame only between the mux's publication and the   *)
(* abort, a battery reply only while Bluetooth still delivers to a mux     *)
(* that runs, a tick only while there is a timer (TB!TypeOK); and whoever  *)
(* runs the session holds the lock.                                        *)
HostThreads ==
    /\ fMux \/ gBtBackend => pc.mux \notin TB!Starting
    /\ gBtBackend => transport = "BT"
    /\ delivering => pc.mux \in TB!Starting \cup {"running"}
    /\ pc.frame # "idle" => pc.mux = "aborting" \/ (pc.mux = "running" /\ delivering)
    /\ pc.frame \in TB!Inside => backend = "started"
    /\ pc.battery # "idle" => transport = "BT" /\ pc.mux = "running" /\ delivering
    /\ \A t \in TB!Handlers :
         /\ lock = t <=> pc[t] \in {"feeding", "using", "unlocking"}
         /\ pc[t] = "using" => fSynth
    /\ pc.battery = "publishing" => fSynth
    /\ pc.mux = "aborting" => transport = "USB"

Threads == {"frame", "idle", "battery", "mux"}

HostInv == DOMAIN pc = Threads /\ TB!TypeOK /\ HostMemory /\ HostThreads

(* Once pulled, always pulled; what follows is about the terminations that *)
(* are not.                                                                *)
LEMMA StaysPulled == [TB!Next]_(TB!vars) /\ ~pulled' => ~pulled
<1> SUFFICES ASSUME [TB!Next]_(TB!vars), ~pulled' PROVE ~pulled OBVIOUS
<1> USE DEF TB!reader
<1>1. CASE TB!Workloops
  BY <1>1 DEF TB!Workloops, TB!FrameArrives, TB!RouteEvent, TB!IdleExpires, TB!Handle,
     TB!TakeLock, TB!Feed, TB!UseAmd, TB!Unlock, TB!BatteryReply, TB!Publish, TB!PublishDone
<1>2. CASE TB!AllocTerminal \/ TB!BackendStart \/ TB!TerminalsReady
  BY <1>2 DEF TB!AllocTerminal, TB!BackendStart, TB!TerminalsReady
<1>3. CASE TB!UsbReleases \/ TB!UsbAborted \/ TB!MuxTerminates
  BY <1>3 DEF TB!UsbReleases, TB!UsbAborted, TB!MuxTerminates
<1>4. CASE TB!Barrier \/ TB!RemoveTimer \/ TB!ClearReady \/ TB!FreeContext \/ TB!ClearSynth
  BY <1>4 DEF TB!Barrier, TB!RemoveTimer, TB!ClearReady, TB!FreeContext, TB!ClearSynth
<1>5. CASE TB!FreeLock \/ TB!ClearLock \/ TB!ReleaseTerminal \/ TB!ForgetTerminal
  BY <1>5 DEF TB!FreeLock, TB!ClearLock, TB!ReleaseTerminal, TB!ForgetTerminal
<1>6. CASE TB!ReaderStop \/ TB!LinkDrops \/ TB!ControlReaderStop
  BY <1>6 DEF TB!ReaderStop, TB!LinkDrops, TB!ControlReaderStop
<1>7. CASE UNCHANGED TB!vars BY <1>7 DEF TB!vars
<1> QED BY <1>1, <1>2, <1>3, <1>4, <1>5, <1>6, <1>7 DEF TB!Next, TB!StartStop

LEMMA HostPreserves == HostInv /\ [TB!Next]_(TB!vars) /\ ~pulled' => HostInv'
<1> SUFFICES ASSUME HostInv, [TB!Next]_(TB!vars), ~pulled' PROVE HostInv' OBVIOUS
<1> USE DEF HostInv, TB!TypeOK, HostMemory, HostThreads, Threads, AmdStands, LockStands,
        BackendStands, Gone, TB!Handlers, TB!Inside, TB!Starting, TB!Stopping, TB!At, TB!Goto,
        TB!reader, TB!pointers, TB!memory
<1>1. CASE TB!FrameArrives BY <1>1 DEF TB!FrameArrives
<1>2. CASE TB!RouteEvent BY <1>2 DEF TB!RouteEvent
<1>3. CASE TB!IdleExpires BY <1>3 DEF TB!IdleExpires
<1>4. CASE TB!BatteryReply BY <1>4 DEF TB!BatteryReply
<1>5. CASE TB!Publish BY <1>5 DEF TB!Publish
<1>6. CASE TB!PublishDone BY <1>6 DEF TB!PublishDone
<1>7. CASE TB!AllocTerminal BY <1>7 DEF TB!AllocTerminal
<1>8. CASE TB!BackendStart BY <1>8 DEF TB!BackendStart
<1>9. CASE TB!TerminalsReady BY <1>9 DEF TB!TerminalsReady
<1>10. CASE TB!UsbReleases
  <2>1. DOMAIN pc' = Threads /\ TB!TypeOK'
    <3>1. delivering' \in BOOLEAN /\ control' \in BOOLEAN /\ gBtBackend' \in BOOLEAN
      BY <1>10 DEF TB!UsbReleases
    <3> QED BY <1>10, <3>1 DEF TB!UsbReleases
  <2>2. HostMemory' BY <1>10 DEF TB!UsbReleases
  <2>3. HostThreads' BY <1>10 DEF TB!UsbReleases
  <2> QED BY <2>1, <2>2, <2>3
<1>11. CASE TB!UsbAborted
  <2>1. DOMAIN pc' = Threads /\ TB!TypeOK' BY <1>11 DEF TB!UsbAborted
  <2>2. HostMemory' BY <1>11 DEF TB!UsbAborted
  <2>3. HostThreads' BY <1>11 DEF TB!UsbAborted
  <2> QED BY <2>1, <2>2, <2>3
<1>12. CASE TB!MuxTerminates
  <2>1. DOMAIN pc' = Threads /\ TB!TypeOK'
    <3>1. ~pulled' /\ ~delivering /\ delivering' = delivering BY <1>12 DEF TB!MuxTerminates
    <3> QED BY <1>12, <3>1 DEF TB!MuxTerminates
  <2>2. HostMemory' BY <1>12 DEF TB!MuxTerminates
  <2>3. HostThreads' BY <1>12 DEF TB!MuxTerminates
  <2> QED BY <2>1, <2>2, <2>3
<1>13. CASE TB!Barrier BY <1>13 DEF TB!Barrier
<1>14. CASE TB!RemoveTimer BY <1>14 DEF TB!RemoveTimer
<1>15. CASE TB!ClearReady BY <1>15 DEF TB!ClearReady
<1>16. CASE TB!FreeContext BY <1>16 DEF TB!FreeContext
<1>17. CASE TB!ClearSynth BY <1>17 DEF TB!ClearSynth
<1>18. CASE TB!FreeLock BY <1>18 DEF TB!FreeLock
<1>19. CASE TB!ClearLock BY <1>19 DEF TB!ClearLock
<1>20. CASE TB!ReleaseTerminal BY <1>20 DEF TB!ReleaseTerminal
<1>21. CASE TB!ForgetTerminal BY <1>21 DEF TB!ForgetTerminal
<1>22. CASE TB!ReaderStop BY <1>22 DEF TB!ReaderStop
<1>23. CASE TB!LinkDrops
  <2>1. DOMAIN pc' = Threads /\ TB!TypeOK'
    <3>1. delivering' \in BOOLEAN /\ control' \in BOOLEAN /\ gBtBackend' \in BOOLEAN
      BY <1>23 DEF TB!LinkDrops
    <3> QED BY <1>23, <3>1 DEF TB!LinkDrops
  <2>2. HostMemory' BY <1>23 DEF TB!LinkDrops
  <2>3. HostThreads' BY <1>23 DEF TB!LinkDrops
  <2> QED BY <2>1, <2>2, <2>3
<1>24. CASE TB!ControlReaderStop
  <2>1. DOMAIN pc' = Threads /\ TB!TypeOK'
    <3>1. delivering' \in BOOLEAN /\ control' \in BOOLEAN /\ gBtBackend' \in BOOLEAN
      BY <1>24 DEF TB!ControlReaderStop
    <3> QED BY <1>24, <3>1 DEF TB!ControlReaderStop
  <2>2. HostMemory' BY <1>24 DEF TB!ControlReaderStop
  <2>3. HostThreads' BY <1>24 DEF TB!ControlReaderStop
  <2> QED BY <2>1, <2>2, <2>3
<1>30. ASSUME NEW t \in TB!Handlers, TB!Handle(t) PROVE HostInv'
  <2>1. CASE TB!TakeLock(t) BY <1>30, <2>1 DEF TB!TakeLock
  <2>2. CASE TB!Feed(t) BY <1>30, <2>2 DEF TB!Feed
  <2>3. CASE TB!UseAmd(t) BY <1>30, <2>3 DEF TB!UseAmd
  <2>4. CASE TB!Unlock(t) BY <1>30, <2>4 DEF TB!Unlock
  <2> QED BY <1>30, <2>1, <2>2, <2>3, <2>4 DEF TB!Handle
<1>31. CASE UNCHANGED TB!vars BY <1>31 DEF TB!vars
<1> HIDE DEF HostInv, TB!TypeOK, HostMemory, HostThreads, Threads, TB!Handlers
<1> QED BY <1>1, <1>2, <1>3, <1>4, <1>5, <1>6, <1>7, <1>8,
            <1>9, <1>10, <1>11, <1>12, <1>13, <1>14, <1>15,
           <1>16, <1>17, <1>18, <1>19, <1>20, <1>21, <1>22, <1>23, <1>24, <1>30,
           <1>31 DEF TB!Next, TB!Workloops, TB!StartStop

LEMMA HostInitially == AmdInit /\ TB!Init => HostInv
<1> SUFFICES ASSUME AmdInit, TB!Init PROVE HostInv OBVIOUS
<1> USE DEF TB!Init, TB!Handlers, TB!Inside, TB!Starting, TB!Stopping
<1>1. DOMAIN pc = Threads BY DEF Threads
<1>2. TB!TypeOK
  <2>1. {delivering, pulled, fMux, identifier, legacyTerminal, fLock, fSynth, property,
         gBtBackend, control} \subseteq BOOLEAN
    OBVIOUS
  <2> QED BY <2>1 DEF TB!TypeOK
<1>3. HostMemory BY DEF HostMemory, AmdStands, LockStands, BackendStands, Gone
<1>4. HostThreads BY DEF HostThreads
<1> QED BY <1>1, <1>2, <1>3, <1>4 DEF HostInv

(* Nothing the AMD does while the backend waits or while IOKit stops it    *)
(* moves the fence or frees the context.                                   *)
LEMMA FenceStandsStill == UNCHANGED pc /\ (Inactivate \/ StopBelow) => UNCHANGED ContextOf
  BY DEF ContextOf, Inactivate, StopBelow, StopDevice, StopShell

LEMMA BackendStep == AmdInv /\ [Next]_vars => [TB!Next]_(TB!vars)
<1> SUFFICES ASSUME AmdInv, [Next]_vars PROVE [TB!Next]_(TB!vars) OBVIOUS
<1>1. ASSUME UNCHANGED host, UNCHANGED ContextOf PROVE UNCHANGED TB!vars
  BY <1>1 DEF host, TB!vars, TB!reader, TB!pointers, TB!memory
<1>2. ASSUME UNCHANGED host, UNCHANGED amdVars PROVE UNCHANGED TB!vars
  <2>1. UNCHANGED ContextOf BY <1>2 DEF host, amdVars, ContextOf
  <2> QED BY <1>1, <1>2, <2>1
<1> USE DEF TB!Next, TB!Workloops, TB!StartStop
<1>3. CASE BuildAmd
  <2>1. UNCHANGED host /\ Build /\ pc.mux = "starting" BY <1>3 DEF BuildAmd, TB!At
  <2>2. UNCHANGED ContextOf BY <2>1 DEF host, ContextOf
  <2> QED BY <1>1, <2>1, <2>2
<1>4. CASE MuxStart BY <1>4 DEF MuxStart
<1>5. CASE AmdCalls
  <2>1. UNCHANGED host /\ CallsIn BY <1>5 DEF AmdCalls
  <2>2. UNCHANGED ContextOf
    BY <2>1 DEF host, ContextOf, CallsIn, HiddCalls, HiddAnswered, BezelFires, BezelConnects
  <2> QED BY <1>1, <2>1, <2>2
<1>6. CASE TearDownAmd
  <2>1. UNCHANGED host /\ (CancelBezel \/ Farewell \/ Dismantle) BY <1>6 DEF TearDownAmd
  <2>2. UNCHANGED ContextOf
    BY <2>1 DEF host, ContextOf, CancelBezel, Farewell, Dismantle, EndShell, TerminateDevice,
       ReleaseDevice, ReleaseWorkLoop, Step
  <2> QED BY <1>1, <2>1, <2>2
<1>7. CASE FenceAndFree BY <1>7 DEF FenceAndFree
<1>8. CASE UsbStarts BY <1>2, <1>8 DEF UsbStarts
<1>9. CASE FrameIn BY <1>9 DEF FrameIn
<1>10. CASE UsbSkips BY <1>2, <1>10 DEF UsbSkips
<1>11. CASE UsbRearms BY <1>2, <1>11 DEF UsbRearms
<1>12. CASE UsbTerminates BY <1>2, <1>12 DEF UsbTerminates
<1>13. CASE ReaderStops BY <1>13 DEF ReaderStops
<1>14. CASE Elsewhere BY <1>14 DEF Elsewhere
<1>15. CASE MuxStop BY <1>15 DEF MuxStop
<1>16. CASE MuxTerminates BY <1>16 DEF MuxTerminates
<1>17. CASE AmdStops
  <2>1. UNCHANGED host /\ StopBelow BY <1>17 DEF AmdStops
  <2>2. UNCHANGED ContextOf BY <2>1, FenceStandsStill DEF host
  <2> QED BY <1>1, <2>1, <2>2
<1>18. CASE PulledReleases BY <1>2, <1>18 DEF PulledReleases
<1>19. CASE UNCHANGED vars BY <1>2, <1>19 DEF vars
<1> QED BY <1>3, <1>4, <1>5, <1>6, <1>7, <1>8, <1>9, <1>10, <1>11, <1>12, <1>13, <1>14,
           <1>15, <1>16, <1>17, <1>18, <1>19 DEF Next

(* Unless pulled, a reader that is stopped has no read left.               *)
LEMMA ReadEnds ==
  [Next]_vars /\ ~pulled /\ (stage = "stopped" => read = "none") /\ stage' = "stopped"
    => read' = "none"
<1> SUFFICES ASSUME [Next]_vars, ~pulled, stage = "stopped" => read = "none",
                    stage' = "stopped"
             PROVE  read' = "none"
  OBVIOUS
<1> USE DEF Reaches, StartStages
<1>1. CASE UNCHANGED usbVars BY <1>1 DEF usbVars
<1>2. CASE ReaderStops BY <1>1, <1>2 DEF ReaderStops, UsbStop
<1>3. CASE Completions
  BY <1>3 DEF Completions, ReadCompletes, ReadFails, ReadComesTooLate, Rearm
<1>4. CASE StartUp
  BY <1>4 DEF StartUp, OpenInterface, FindPipe, EnableMultitouch, AllocBuffer, RegisterReader,
     FirstRead
<1>5. CASE WillTerminate \/ AbortPipe \/ CloseInterface
  BY <1>5 DEF WillTerminate, AbortPipe, CloseInterface
<1> QED
  BY <1>1, <1>2, <1>3, <1>4, <1>5
     DEF Next, BuildAmd, MuxStart, AmdCalls, TearDownAmd, FenceAndFree, UsbStarts, FrameIn,
         UsbSkips, UsbRearms, UsbTerminates, MuxTerminates, AmdStops, PulledReleases, Elsewhere,
         MuxStop, AlsoIdle, Completions, vars

LEMMA HostInvSuffices ==
  AmdInv /\ (~pulled => HostInv) /\ (~pulled /\ stage = "stopped" => read = "none")
    => UsesLiveUnlessPulled
<1> SUFFICES ASSUME AmdInv, HostInv, ~pulled, stage = "stopped" => read = "none"
             PROVE  UsesLiveUnlessPulled
  BY DEF UsesLiveUnlessPulled
<1> USE DEF HostInv, HostMemory, HostThreads, AmdStands, LockStands, BackendStands, Gone,
        TB!Handlers, TB!Inside, TB!Starting, TB!At
<1>1. pc.idle # "idle" =>
        pc.mux \in {"started", "running", "aborting", "barrier", "timer"}
  BY DEF TB!TypeOK
<1>2. pc.frame # "idle" \/ pc.battery # "idle" => pc.mux \in {"running", "aborting"}
  OBVIOUS
<1>3. ASSUME ContextOf = "ready" PROVE refs["amd"] = 1
  BY <1>3 DEF ContextOf, AmdInv, AmdNode, AmdOwns, Owned, Registering, TearingDown
<1>4. TB!UsesLive BY <1>1, <1>2 DEF TB!UsesLive, TB!TypeOK
<1>5. \A t \in {"frame", "idle"} : TB!At(t, "using") => ContextOf = "ready"
  BY <1>1, <1>2 DEF TB!TypeOK
<1>6. TB!At("battery", "publishing") => ContextOf = "ready"
  BY <1>2 DEF TB!TypeOK
<1> QED BY <1>3, <1>4, <1>5, <1>6 DEF UsesLiveUnlessPulled

-----------------------------------------------------------------------------
(* The composition                                                         *)

LEMMA PartsStep == [Next]_vars => [AmdNext]_amdVars /\ [UsbNext]_usbVars
<1> SUFFICES ASSUME [Next]_vars PROVE [AmdNext]_amdVars /\ [UsbNext]_usbVars OBVIOUS
<1> USE DEF AmdNext, UsbNext, AlsoIdle
<1>1. CASE BuildAmd BY <1>1 DEF BuildAmd
<1>2. CASE MuxStart BY <1>2 DEF MuxStart
<1>3. CASE AmdCalls BY <1>3 DEF AmdCalls
<1>4. CASE TearDownAmd BY <1>4 DEF TearDownAmd
<1>5. CASE FenceAndFree BY <1>5 DEF FenceAndFree
<1>6. CASE UsbStarts BY <1>6 DEF UsbStarts
<1>7. CASE FrameIn BY <1>7 DEF FrameIn, Completions
<1>8. CASE UsbSkips BY <1>8 DEF UsbSkips, Completions
<1>9. CASE UsbRearms BY <1>9 DEF UsbRearms, Completions
<1>10. CASE UsbTerminates BY <1>10 DEF UsbTerminates, Below
<1>11. CASE ReaderStops BY <1>11 DEF ReaderStops
<1>12. CASE Elsewhere BY <1>12 DEF Elsewhere
<1>13. CASE MuxStop BY <1>13 DEF MuxStop
<1>14. CASE MuxTerminates BY <1>14 DEF MuxTerminates, Below
<1>15. CASE AmdStops BY <1>15 DEF AmdStops
<1>16. CASE PulledReleases BY <1>16 DEF PulledReleases
<1>17. CASE UNCHANGED vars BY <1>17 DEF vars
<1> QED BY <1>1, <1>2, <1>3, <1>4, <1>5, <1>6, <1>7, <1>8, <1>9, <1>10, <1>11, <1>12,
           <1>13, <1>14, <1>15, <1>16, <1>17 DEF Next

(* Whichever step of the AMD's build fails, and after every teardown,      *)
(* nothing of it is left and goodbye was posted last.                      *)
THEOREM TerminalLeavesNothing == Spec => []NothingLeaks
<1>1. Init => AmdInv BY AmdInitially DEF Init
<1>2. AmdInv /\ [Next]_vars => AmdInv' BY PartsStep, AmdPreserves
<1>3. AmdInv => NothingLeaks BY AmdInvSuffices
<1> QED BY <1>1, <1>2, <1>3, PTL DEF Spec

(* hidd's stubs, the bezel timer and the feed only ever meet a live AMD,   *)
(* and the workloop outlives it.                                           *)
THEOREM CallersAlwaysFindLive == Spec => []CallersFindLive
<1>1. Init => AmdInv BY AmdInitially DEF Init
<1>2. AmdInv /\ [Next]_vars => AmdInv' BY PartsStep, AmdPreserves
<1>3. AmdInv => CallersFindLive BY AmdInvSuffices
<1> QED BY <1>1, <1>2, <1>3, PTL DEF Spec

(* The USB reader's read always owns its buffer, its pipe and the          *)
(* interface, and never dies while the reader runs and no error ended it.  *)
THEOREM ReadsAreOwned == Spec => []ReadsOwnWhatTheyUse
<1>1. Init => UsbInv BY UsbInitially DEF Init
<1>2. UsbInv /\ [Next]_vars => UsbInv' BY PartsStep, UsbPreserves
<1>3. UsbInv => ReadsOwnWhatTheyUse BY UsbInvSuffices
<1> QED BY <1>1, <1>2, <1>3, PTL DEF Spec

(* Type correctness of the two parts.                                      *)
THEOREM PartsTypeCorrect == Spec => [](AmdTypeOK /\ UsbTypeOK)
<1>1. Init => AmdInv /\ UsbInv BY AmdInitially, UsbInitially DEF Init
<1>2. AmdInv /\ UsbInv /\ [Next]_vars => AmdInv' /\ UsbInv'
  BY PartsStep, AmdPreserves, UsbPreserves
<1>3. AmdInv /\ UsbInv => AmdTypeOK /\ UsbTypeOK BY DEF AmdInv, UsbInv
<1> QED BY <1>1, <1>2, <1>3, PTL DEF Spec

--------------------------------------------------------------------------

(* Every step of the satellite is a step of the backend's specification or *)
(* leaves its state alone, so the satellite implements TerminalBackend.    *)
THEOREM SatelliteImplementsBackend == Spec => ImplementsBackend
<1>1. Init => AmdInv /\ TB!Init BY AmdInitially DEF Init
<1>2. AmdInv /\ [Next]_vars => AmdInv' BY PartsStep, AmdPreserves
<1>3. AmdInv /\ [Next]_vars => [TB!Next]_(TB!vars) BY BackendStep
<1> QED BY <1>1, <1>2, <1>3, PTL DEF Spec, ImplementsBackend, TB!Spec

(* No thread touches memory of the backend, its lock or its AMD that is    *)
(* not there, one on the AMD finds it owned, and a stopped reader has no   *)
(* read left, unless the kext was unloaded from under a reader that        *)
(* delivers.                                                               *)
THEOREM SatelliteUsesLive == Spec => []UsesLiveUnlessPulled
<1> DEFINE Hosted == ~pulled => HostInv
           Ended == ~pulled /\ stage = "stopped" => read = "none"
<1>1. Init => AmdInv /\ Hosted /\ Ended
  BY AmdInitially, HostInitially DEF Init, UsbInit
<1>2. AmdInv /\ Hosted /\ Ended /\ [Next]_vars => AmdInv' /\ Hosted' /\ Ended'
  <2> SUFFICES ASSUME AmdInv, Hosted, Ended, [Next]_vars PROVE AmdInv' /\ Hosted' /\ Ended'
    OBVIOUS
  <2>1. AmdInv' BY PartsStep, AmdPreserves
  <2>2. [TB!Next]_(TB!vars) BY BackendStep
  <2>3. ~pulled' => ~pulled BY <2>2, StaysPulled
  <2>4. Hosted' BY <2>2, <2>3, HostPreserves
  <2>5. Ended' BY <2>3, ReadEnds
  <2> QED BY <2>1, <2>4, <2>5
<1>3. AmdInv /\ Hosted /\ Ended => UsesLiveUnlessPulled BY HostInvSuffices
<1> QED BY <1>1, <1>2, <1>3, PTL DEF Spec

==============================================================================
