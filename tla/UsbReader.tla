------------------------------ MODULE UsbReader ------------------------------
(***************************************************************************)
(* MT2USBReader (kext-gesture/MT2USBReader.cpp): a start that may fail at  *)
(* any step, the asynchronous read that re-arms itself from its own        *)
(* completion, and a termination that must give up the interface before    *)
(* IOKit will call stop.  Threads: IOKit's start and termination thread,   *)
(* and the USB workloop, which runs the completions in its gate.           *)
(***************************************************************************)

VARIABLES
    stage,      \* how far the start or the termination is
    opened,     \* is the interface open in our name?
    fPipe,      \* is the pipe known?
    fBuf,       \* is the read buffer allocated?
    fStopping,
    read,       \* the asynchronous read: none, pending, queued (done, its
                \* completion waiting for the gate at the abort), completing
    ended       \* has the loop ended by an error?

usbVars == <<stage, opened, fPipe, fBuf, fStopping, read, ended>>

StartStages == {"open", "pipe", "enable", "buffer", "publish", "arm"}

UsbTypeOK ==
    /\ stage \in StartStages \cup
                 {"refused", "running", "terminating", "aborted", "released", "stopped"}
    /\ opened \in BOOLEAN /\ fPipe \in BOOLEAN /\ fBuf \in BOOLEAN
    /\ fStopping \in BOOLEAN /\ ended \in BOOLEAN
    /\ read \in {"none", "pending", "queued", "completing"}

Reaches(from, to) == stage = from /\ stage' = to

-----------------------------------------------------------------------------
(* start                                                                   *)

OpenInterface ==
    /\ \/ Reaches("open", "pipe") /\ opened' = TRUE
       \/ Reaches("open", "refused") /\ UNCHANGED opened
    /\ UNCHANGED <<fPipe, fBuf, fStopping, read, ended>>

FindPipe ==
    /\ \/ Reaches("pipe", "enable") /\ fPipe' = TRUE /\ UNCHANGED opened
       \/ Reaches("pipe", "refused") /\ opened' = FALSE /\ UNCHANGED fPipe
    /\ UNCHANGED <<fBuf, fStopping, read, ended>>

(* The multitouch enable, whose result is only logged, and the settle.     *)
EnableMultitouch ==
    /\ Reaches("enable", "buffer")
    /\ UNCHANGED <<opened, fPipe, fBuf, fStopping, read, ended>>

AllocBuffer ==
    /\ \/ Reaches("buffer", "publish") /\ fBuf' = TRUE /\ UNCHANGED opened
       \/ Reaches("buffer", "refused") /\ opened' = FALSE /\ UNCHANGED fBuf
    /\ UNCHANGED <<fPipe, fStopping, read, ended>>

(* The satellite's properties, then registerService: the mux may come.     *)
RegisterReader ==
    /\ Reaches("publish", "arm")
    /\ UNCHANGED <<opened, fPipe, fBuf, fStopping, read, ended>>

(* armRead; a Read that cannot be armed is only logged.                    *)
ArmRead ==
    IF ~fStopping /\ fPipe /\ fBuf
    THEN \/ read' = "pending" /\ UNCHANGED ended
         \/ read' = "none" /\ ended' = TRUE
    ELSE read' = "none" /\ UNCHANGED ended

FirstRead ==
    /\ Reaches("arm", "running")
    /\ ArmRead
    /\ UNCHANGED <<opened, fPipe, fBuf, fStopping>>

-----------------------------------------------------------------------------
(* readComplete                                                            *)

ReadCompletes ==
    /\ read \in {"pending", "queued"} /\ ~fStopping
    /\ read' = "completing"
    /\ UNCHANGED <<stage, opened, fPipe, fBuf, fStopping, ended>>

(* An error other than the abort ends the loop for good.                   *)
ReadFails ==
    /\ read = "pending" /\ ~fStopping
    /\ read' = "none" /\ ended' = TRUE
    /\ UNCHANGED <<stage, opened, fPipe, fBuf, fStopping>>

(* A completion that begins after fStopping returns at once.               *)
ReadComesTooLate ==
    /\ read \in {"pending", "queued"} /\ fStopping
    /\ read' = "none"
    /\ UNCHANGED <<stage, opened, fPipe, fBuf, fStopping, ended>>

(* Whatever the report held, the next read is armed.                       *)
Rearm ==
    /\ read = "completing"
    /\ ArmRead
    /\ UNCHANGED <<stage, opened, fPipe, fBuf, fStopping>>

-----------------------------------------------------------------------------
(* willTerminate and stop                                                  *)

(* Mutant: the flag is not up when the pipe is aborted.                    *)
WillTerminateUnflagged ==
    /\ Reaches("running", "terminating")
    /\ UNCHANGED <<opened, fPipe, fBuf, fStopping, read, ended>>

(* releaseInterface, for the end of the provider (willTerminate) or, when  *)
(* it is the reader itself that is terminated, from its stop.              *)
WillTerminate ==
    /\ Reaches("running", "terminating")
    /\ fStopping' = TRUE
    /\ UNCHANGED <<opened, fPipe, fBuf, read, ended>>

(* ... Abort takes the workloop's gate and so waits for a    *)
(* completion under way; one that is due may still come after it.          *)
AbortPipe ==
    /\ Reaches("terminating", "aborted")
    /\ read # "completing"
    /\ read' \in IF read = "pending" THEN {"none", "queued"} ELSE {read}
    /\ UNCHANGED <<opened, fPipe, fBuf, fStopping, ended>>

CloseInterface ==
    /\ Reaches("aborted", "released")
    /\ fPipe' = FALSE /\ opened' = FALSE
    /\ UNCHANGED <<fBuf, fStopping, read, ended>>

(* IOKit defers stop until the interface is released and its completions   *)
(* have run; stop releases it again, to no effect, and the buffer.         *)
UsbStop ==
    /\ Reaches("released", "stopped")
    /\ ~opened /\ read = "none"
    /\ fBuf' = FALSE
    /\ UNCHANGED <<opened, fPipe, fStopping, read, ended>>

(* A stop that did the releasing itself waits for no completion.           *)
UsbStopAtOnce ==
    /\ Reaches("released", "stopped")
    /\ fBuf' = FALSE
    /\ UNCHANGED <<opened, fPipe, fStopping, read, ended>>

-----------------------------------------------------------------------------
UsbInit ==
    /\ stage = "open" /\ read = "none"
    /\ opened = FALSE /\ fPipe = FALSE /\ fBuf = FALSE
    /\ fStopping = FALSE /\ ended = FALSE

StartUp ==
    \/ OpenInterface \/ FindPipe \/ EnableMultitouch \/ AllocBuffer \/ RegisterReader \/ FirstRead

Completions == ReadCompletes \/ ReadFails \/ ReadComesTooLate \/ Rearm

UsbNext ==
    \/ StartUp \/ Completions
    \/ WillTerminate \/ AbortPipe \/ CloseInterface \/ UsbStop \/ UsbStopAtOnce

UsbSpec == UsbInit /\ [][UsbNext]_usbVars

-----------------------------------------------------------------------------
(* Properties                                                              *)

(* The controller never holds a read into a buffer that was freed or on an *)
(* interface that was closed, and a start that is refused or a reader that *)
(* is stopped keeps nothing open ("a stop()-only teardown deadlocks and    *)
(* leaks the dead device subtree", releaseInterface); what may be left of  *)
(* a stopped one is a completion that was due, which only looks at         *)
(* fStopping.  While the reader runs and no error has ended its loop, a    *)
(* read is out or being handled.                                           *)
ReadsOwnWhatTheyUse ==
    /\ read \in {"pending", "completing"} => opened /\ fPipe /\ fBuf
    /\ stage \in {"refused", "released", "stopped"} => ~opened
    /\ stage \in {"refused", "stopped"} => ~fBuf
    /\ stage = "refused" => read = "none"
    /\ stage = "running" /\ ~ended => read # "none"

==============================================================================
