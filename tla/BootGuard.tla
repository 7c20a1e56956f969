----------------------------- MODULE BootGuard ------------------------------
(***************************************************************************)
(* The wrapper that loads the kext at login                                *)
(* (dist/voodooinputmavericks-run), with the sentinel file that keeps a    *)
(* kext which panics the machine from being loaded again, the recovery of  *)
(* a half-open Bluetooth attach, and the install hooks that touch both.    *)
(*                                                                         *)
(* One process at a time: launchd runs the wrapper when its trigger is     *)
(* touched and remembers a touch that comes while it runs.  The machine    *)
(* may panic, lose its power or be restarted between any two commands of   *)
(* the script.  The script's echo does not sync: what it writes is in the  *)
(* buffer cache (sentinel), and on the disk once the system writes it out. *)
(***************************************************************************)
EXTENDS Naturals

CONSTANT RECOVER_TRIES  \* bounces before the recovery gives up (3)

ASSUME TriesAssumption == RECOVER_TRIES \in Nat \ {0}

VARIABLES
    sentinel,     \* boot.state as read: "trying", or "ok", also if missing
    disk,         \* boot.state on the disk, as a crash leaves it
    pc,           \* where the wrapper is
    i,            \* the recovery attempt
    verdict,      \* what the wrapper counted after the settle delay
    trigger,      \* was session.trigger touched and not yet answered?
    session,      \* does a user own the console?
    installing,   \* between preinstall and postinstall: the job is unloaded
    kext,         \* is VoodooInputMavericks loaded?
    trackpad,     \* where the trackpad is: "away", "bluetooth" or "cable"
    bt, usb,      \* readers bound: Bluetooth channels, USB interface
    panicked,     \* how this build's last panic since it was re-armed met the disk
    interrupted   \* was a run, or its "ok", lost since the sentinel was last "ok"?

files == <<sentinel, disk>>
script == <<pc, i, verdict>>
readers == <<kext, bt, usb>>
history == <<panicked, interrupted>>
vars == <<files, script, trigger, session, installing, readers, trackpad, history>>

(* Armed is where the sentinel says "trying" on purpose; in the part of it   *)
(* after kextload, Settling, a panic is the kext's doing.                   *)
Settling == {"takeover", "waiting", "confirm"}
Armed == {"load"} \cup Settling
Recovering == {"recover", "recount", "exhausted"}
Places == {"off", "guard", "read", "arm"} \cup Armed \cup Recovering

Verdicts == {"absent", "healthy", "half-open", "unbound"}

(* A panic is recorded when it finds the sentinel "trying" on the disk.     *)
Panics == {"no", "recorded", "unrecorded"}

BootTypeOK ==
    /\ sentinel \in {"ok", "trying"} /\ disk \in {"ok", "trying"}
    /\ pc \in Places
    /\ i \in 1 .. RECOVER_TRIES + 1
    /\ pc \in {"recover", "recount"} => i <= RECOVER_TRIES
    /\ verdict \in Verdicts
    /\ trigger \in BOOLEAN /\ session \in BOOLEAN /\ installing \in BOOLEAN
    /\ kext \in BOOLEAN /\ panicked \in Panics /\ interrupted \in BOOLEAN
    /\ trackpad \in {"away", "bluetooth", "cable"}
    /\ bt \in 0 .. 2 /\ usb \in 0 .. 1

-----------------------------------------------------------------------------
(* What the commands of the script do                                      *)

(* echo value > "$STATE_FILE", into the cache only.  (A file found truncated *)
(* by a crash between the two halves of the echo reads as "ok" does.)       *)
Write(value) == sentinel' = value /\ disk' = disk

(* Readers bind to a device that is there when the kext is.  At a takeover  *)
(* from Apple's drivers Bluetooth tends to come up half-open, and USB stays *)
(* with the driver that claimed it first.                                   *)
BluetoothCounts == IF kext' /\ trackpad = "bluetooth" THEN 0 .. 2 ELSE {0}
UsbCounts == IF kext' /\ trackpad = "cable" THEN {0, 1} ELSE {0}

\* $BOUNCE: close and reopen the link; both channels may be offered again.
Bounce == kext' = kext /\ bt' \in BluetoothCounts /\ usb' = usb

\* --health-verdict
Healthy == kext /\ (bt >= 2 \/ usb >= 1)

\* The branches after the last count, in the script's order.
Counted ==
    CASE ~kext   -> "absent"
      [] Healthy -> "healthy"
      [] kext /\ ~Healthy /\ bt = 1 -> "half-open"
      [] OTHER   -> "unbound"

-----------------------------------------------------------------------------
(* The wrapper                                                             *)

Starts ==
    /\ trigger /\ pc = "off" /\ ~installing
    /\ trigger' = FALSE
    /\ pc' = "guard"
    /\ UNCHANGED <<files, i, verdict, session, installing, readers, trackpad, history>>

\* The session guard: at the login window the trackpad is left to Apple's HID.
SessionGuard ==
    /\ pc = "guard"
    /\ pc' = IF session THEN "read" ELSE "off"
    /\ UNCHANGED <<files, i, verdict, trigger, session, installing, readers,
                   trackpad, history>>

\* Mutant: the sentinel is written and never looked at.
ReadNothing ==
    /\ pc = "read"
    /\ pc' = "arm"
    /\ UNCHANGED <<files, i, verdict, trigger, session, installing, readers,
                   trackpad, history>>

ReadSentinel ==
    /\ pc = "read"
    /\ pc' = IF sentinel = "trying" THEN "off" ELSE "arm"
    /\ UNCHANGED <<files, i, verdict, trigger, session, installing, readers,
                   trackpad, history>>

Arm ==
    /\ pc = "arm"
    /\ Write("trying")
    /\ pc' = "load"
    /\ UNCHANGED <<i, verdict, trigger, session, installing, readers, trackpad, history>>

\* kextload: nothing new if it is loaded; it may also fail without a panic.
Load ==
    /\ pc = "load"
    /\ pc' = "takeover"
    /\ IF kext THEN UNCHANGED readers
       ELSE kext' \in BOOLEAN /\ bt' \in BluetoothCounts /\ usb' \in UsbCounts
    /\ UNCHANGED <<files, i, verdict, trigger, session, installing, trackpad, history>>

(* The bounded wait for the nub; then one transport's takeover: a USB       *)
(* reader that won, a cabled trackpad that mt2_reenumerate makes match      *)
(* again, or else (also if that fails) a bounce of Bluetooth.               *)
Takeover ==
    /\ pc = "takeover"
    /\ pc' = "waiting"
    /\ \/ usb # 0 /\ UNCHANGED readers
       \/ usb = 0 /\ trackpad = "cable"
          /\ kext' = kext /\ bt' = 0 /\ usb' \in UsbCounts
       \/ usb = 0 /\ Bounce
    /\ UNCHANGED <<files, i, verdict, trigger, session, installing, trackpad, history>>

\* HEALTHY_DELAY is over: count the readers.
Count ==
    /\ pc = "waiting"
    /\ pc' = "confirm"
    /\ verdict' = Counted
    /\ UNCHANGED <<files, i, trigger, session, installing, readers, trackpad, history>>

\* Mutant: "ok" only for a run that bound a trackpad.
ConfirmHealthyOnly ==
    /\ pc = "confirm"
    /\ IF verdict = "healthy" THEN Write("ok") ELSE UNCHANGED files
    /\ interrupted' = FALSE
    /\ pc' = IF verdict = "half-open" THEN "recover" ELSE "off"
    /\ i' = 1
    /\ UNCHANGED <<verdict, trigger, session, installing, readers, trackpad, panicked>>

\* Surviving the window is the whole signal: "ok" whatever was counted.
Confirm ==
    /\ pc = "confirm"
    /\ Write("ok")
    /\ interrupted' = FALSE
    /\ pc' = IF verdict = "half-open" THEN "recover" ELSE "off"
    /\ i' = 1
    /\ UNCHANGED <<verdict, trigger, session, installing, readers, trackpad, panicked>>

-----------------------------------------------------------------------------
(* recover_full                                                            *)

RecoverBounce ==
    /\ pc = "recover"
    /\ pc' = "recount"
    /\ Bounce
    /\ UNCHANGED <<files, i, verdict, trigger, session, installing, trackpad, history>>

\* Mutant: a recovery that fails for good does not unload the kext.
RecountGivesUp ==
    /\ pc = "recount"
    /\ i' = i + 1
    /\ pc' = IF Healthy \/ i' > RECOVER_TRIES THEN "off" ELSE "recover"
    /\ UNCHANGED <<files, history, verdict, trigger, session, installing, readers, trackpad>>

Recount ==
    /\ pc = "recount"
    /\ IF Healthy
       THEN /\ Write("ok") /\ interrupted' = FALSE
            /\ pc' = "off" /\ i' = i
       ELSE /\ UNCHANGED <<files, interrupted>>
            /\ i' = i + 1
            /\ pc' = IF i' > RECOVER_TRIES THEN "exhausted" ELSE "recover"
    /\ UNCHANGED <<verdict, trigger, session, installing, readers, trackpad, panicked>>

\* Exhausted: unload, and leave the trackpad to Apple's generic HID.
Unload ==
    /\ pc = "exhausted"
    /\ pc' = "off"
    /\ kext' = FALSE /\ bt' = 0 /\ usb' = 0
    /\ UNCHANGED <<files, i, verdict, trigger, session, installing, trackpad, history>>

-----------------------------------------------------------------------------
(* The user and the installer                                              *)

\* The per-user LaunchAgent touches the trigger at every login.
Login ==
    /\ session' = TRUE
    /\ trigger' = TRUE
    /\ UNCHANGED <<files, script, installing, readers, trackpad, history>>

Logout ==
    /\ session /\ session' = FALSE
    /\ UNCHANGED <<files, script, trigger, installing, readers, trackpad, history>>

\* --reset, after the guard tripped.
Reset ==
    /\ pc = "off" /\ sentinel = "trying"
    /\ Write("ok")
    /\ panicked' = "no" /\ interrupted' = FALSE
    /\ UNCHANGED <<script, trigger, session, installing, readers, trackpad>>

\* preinstall: unloading the job kills a wrapper that runs.
InstallBegins ==
    /\ ~installing /\ installing' = TRUE
    /\ pc' = "off"
    /\ interrupted' = (interrupted \/ pc # "off")
    /\ UNCHANGED <<files, i, verdict, trigger, session, readers, trackpad, panicked>>

\* postinstall: a new build gets a new attempt, now unless the old is loaded.
InstallEnds ==
    /\ installing /\ installing' = FALSE
    /\ Write("ok")
    /\ panicked' = "no" /\ interrupted' = FALSE
    /\ trigger' = ~kext
    /\ UNCHANGED <<script, session, readers, trackpad>>

\* The trackpad is switched off, plugged in, unplugged, or binds by itself.
TrackpadChanges ==
    /\ trackpad' \in {"away", "bluetooth", "cable"}
    /\ bt' \in IF kext /\ trackpad' = "bluetooth" THEN 0 .. 2 ELSE {0}
    /\ usb' \in IF kext /\ trackpad' = "cable" THEN {0, 1} ELSE {0}
    /\ UNCHANGED <<files, script, trigger, session, installing, kext, history>>

-----------------------------------------------------------------------------
(* The machine                                                             *)

GoesDown ==
    /\ pc' = "off" /\ trigger' = FALSE /\ session' = FALSE /\ installing' = FALSE
    /\ kext' = FALSE /\ bt' = 0 /\ usb' = 0
    /\ UNCHANGED <<i, verdict, trackpad>>

\* The system writes the cache out, some seconds after the echo.
Flush ==
    /\ disk # sentinel
    /\ disk' = sentinel
    /\ UNCHANGED <<sentinel, script, trigger, session, installing, readers,
                   trackpad, history>>

\* A restart in good order writes the cache out; in an installation it waits.
Restart ==
    /\ ~installing
    /\ GoesDown
    /\ disk' = sentinel
    /\ interrupted' = (interrupted \/ pc # "off")
    /\ UNCHANGED <<sentinel, panicked>>

\* A crash: the file is what the disk has of it.
Crashes ==
    /\ GoesDown
    /\ sentinel' = disk /\ disk' = disk
    /\ interrupted' = (interrupted \/ pc # "off" \/ (disk = "trying" /\ sentinel = "ok"))

PowerFails == Crashes /\ UNCHANGED panicked

\* Loading the kext, or the settle window after it, panics the machine.
KextPanics ==
    /\ kext /\ pc \in Settling
    /\ Crashes
    /\ panicked' = IF disk = "trying" THEN "recorded" ELSE "unrecorded"

-----------------------------------------------------------------------------
Init ==
    /\ sentinel = "ok" /\ disk = "ok"
    /\ pc = "off" /\ i = 1 /\ verdict = "absent"
    /\ trigger = FALSE /\ session = FALSE /\ installing = FALSE
    /\ kext = FALSE /\ bt = 0 /\ usb = 0
    /\ trackpad \in {"away", "bluetooth", "cable"}
    /\ panicked = "no" /\ interrupted = FALSE

Wrapper ==
    \/ Starts \/ SessionGuard \/ ReadSentinel \/ Arm \/ Load \/ Takeover
    \/ Count \/ Confirm \/ RecoverBounce \/ Recount \/ Unload

Environment ==
    \/ Login \/ Logout \/ Reset \/ InstallBegins \/ InstallEnds \/ TrackpadChanges

Machine == Flush \/ Restart \/ PowerFails \/ KextPanics

Next == Wrapper \/ Environment \/ Machine

Spec == Init /\ [][Next]_vars

\* The script runs on; nobody needs to log in, install or touch the trackpad.
FairSpec == Spec /\ WF_vars(Wrapper)

-----------------------------------------------------------------------------
(* Properties                                                              *)

(* A build whose load panicked the machine is not loaded again before the  *)
(* user resets the guard or a new build is installed, whatever crashes,    *)
(* restarts and logins come between (the header of the script: "so we      *)
(* never get a boot-crash loop").  The panic may come before the sentinel  *)
(* is on the disk, and then it is.                                         *)
NeverReloads == [][~kext /\ kext' => panicked = "no"]_vars

(* Once a panic has found the sentinel on the disk, the build is not loaded *)
(* again before a reset or a new build, whatever crashes, restarts, logins  *)
(* and write-backs come between.                                           *)
RecordedPanicBars == [][~kext /\ kext' => panicked # "recorded"]_vars

(* The guard is never tripped without a cause: "trying" outlives the run   *)
(* that wrote it only if that run was cut short, or a crash came before    *)
(* its "ok" was on the disk.  A login with no trackpad or a failed load    *)
(* ends in "ok" (the comment before the last delay).                       *)
TrippedForCause == sentinel = "trying" /\ pc \notin Armed => interrupted

(* A half-open attach that recovery took up does not stay: it becomes full,*)
(* or the kext goes and Apple's driver moves the cursor, unless the run is *)
(* cut short (the comment on recover_full: "never no-cursor").             *)
HalfOpenResolved == pc = "recover" ~> bt # 1 \/ interrupted

=============================================================================
