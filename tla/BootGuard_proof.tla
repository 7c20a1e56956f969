--------------------------- MODULE BootGuard_proof ---------------------------
(***************************************************************************)
(* The sentinel of the boot wrapper, proved for any number of recovery     *)
(* attempts and for writes that a crash may lose.                          *)
(***************************************************************************)
EXTENDS BootGuard, TLAPS

(* The sentinel is armed through the whole window, in the cache at least,  *)
(* and a panic that finds it on the disk leaves it there and in the cache, *)
(* and the wrapper goes no further than to read it.                        *)
ArmedInWindow == pc \in Armed => sentinel = "trying"
KilledByInstall == installing => pc = "off"
PanicBars ==
    panicked = "recorded" =>
        sentinel = "trying" /\ disk = "trying" /\ pc \in {"off", "guard", "read"}

SentinelInv ==
    ArmedInWindow /\ KilledByInstall /\ PanicBars /\ TrippedForCause

(* The type invariant in two halves, one of truth values. *)
Flags ==
  /\ trigger \in BOOLEAN /\ session \in BOOLEAN /\ installing \in BOOLEAN
  /\ kext \in BOOLEAN /\ interrupted \in BOOLEAN

Data ==
  /\ sentinel \in {"ok", "trying"} /\ disk \in {"ok", "trying"}
  /\ pc \in Places
  /\ i \in 1 .. RECOVER_TRIES + 1
  /\ pc \in {"recover", "recount"} => i <= RECOVER_TRIES
  /\ verdict \in Verdicts
  /\ trackpad \in {"away", "bluetooth", "cable"}
  /\ panicked \in Panics
  /\ bt \in 0 .. 2 /\ usb \in 0 .. 1

(* The machine is at rest when the model starts. *)
LEMMA BootInit == Init => BootTypeOK /\ SentinelInv
<1> SUFFICES ASSUME Init PROVE BootTypeOK /\ SentinelInv
  OBVIOUS
<1>1. Flags
  BY Zenon DEF Init, Flags
<1>2. Data
  BY TriesAssumption DEF Init, Data, Places, Verdicts, Panics
<1>3. SentinelInv
  BY DEF Init, SentinelInv, ArmedInWindow, KilledByInstall, PanicBars,
         TrippedForCause, Armed, Settling
<1>4. QED
  BY <1>1, <1>2, <1>3 DEF Flags, Data, BootTypeOK

(* Every flag is set to a truth value or left alone. *)
LEMMA FlagsStep == ASSUME Flags, [Next]_vars PROVE Flags'
<1> USE DEF Flags
<1>1. CASE Starts \/ SessionGuard \/ ReadSentinel \/ Arm
  BY <1>1, Zenon DEF Starts, SessionGuard, ReadSentinel, Arm, readers, history
<1>2. CASE Load \/ Takeover \/ Count
  BY <1>2, Zenon DEF Load, Takeover, Bounce, Count, readers, history
<1>3. CASE Confirm \/ RecoverBounce \/ Unload
  BY <1>3, Zenon DEF Confirm, RecoverBounce, Bounce, Unload, readers, history
<1>4. CASE Recount
  BY <1>4, Zenon DEF Recount, readers
<1>5. CASE Login \/ Logout \/ Reset
  BY <1>5, Zenon DEF Login, Logout, Reset, readers, history
<1>6. CASE InstallBegins \/ InstallEnds \/ TrackpadChanges
  BY <1>6, Zenon DEF InstallBegins, InstallEnds, TrackpadChanges, readers, history
<1>7. CASE Machine
  BY <1>7, Zenon DEF Machine, Flush, Restart, Crashes, PowerFails, KextPanics,
                     GoesDown, readers, history
<1>8. CASE UNCHANGED vars
  BY <1>8, Zenon DEF vars, readers, history
<1>9. QED
  BY <1>1, <1>2, <1>3, <1>4, <1>5, <1>6, <1>7, <1>8 DEF Next, Wrapper, Environment

(* The sentinel holds one of its words and the loop stays within its tries. *)
LEMMA DataStep == ASSUME Data, [Next]_vars PROVE Data'
<1> USE TriesAssumption DEF Data, Write, Places, Armed, Settling, Recovering, Panics,
            history
<1>1. CASE Starts \/ SessionGuard \/ ReadSentinel \/ Arm
  BY <1>1 DEF Starts, SessionGuard, ReadSentinel, Arm, files, readers
<1>2. CASE Load
  BY <1>2 DEF Load, BluetoothCounts, UsbCounts, files, readers
<1>3. CASE Takeover
  BY <1>3 DEF Takeover, Bounce, BluetoothCounts, UsbCounts, files, readers
<1>4. CASE Count
  BY <1>4 DEF Count, Counted, Verdicts, files, readers
<1>5. CASE Confirm
  BY <1>5 DEF Confirm, readers
<1>6. CASE RecoverBounce
  BY <1>6 DEF RecoverBounce, Bounce, BluetoothCounts, files
<1>7. CASE Recount
  BY <1>7 DEF Recount, files, readers
<1>8. CASE Unload
  BY <1>8 DEF Unload, files
<1>9. CASE Environment
  BY <1>9 DEF Environment, Login, Logout, Reset, InstallBegins, InstallEnds,
              TrackpadChanges, files, script, readers
<1>10. CASE Machine
  BY <1>10 DEF Machine, Flush, Restart, Crashes, PowerFails, KextPanics, GoesDown,
               files, script, readers
<1>11. CASE UNCHANGED vars
  BY <1>11 DEF vars, files, script, readers
<1>12. QED
  BY <1>1, <1>2, <1>3, <1>4, <1>5, <1>6, <1>7, <1>8, <1>9, <1>10, <1>11 DEF Next, Wrapper

(* Types. *)
LEMMA BootTypeStep == BootTypeOK /\ [Next]_vars => BootTypeOK'
<1>1. BootTypeOK <=> Flags /\ Data
  BY DEF BootTypeOK, Flags, Data
<1>2. BootTypeOK' <=> Flags' /\ Data'
  BY DEF BootTypeOK, Flags, Data
<1>3. QED
  BY <1>1, <1>2, FlagsStep, DataStep

(* A crash brings back what the disk has of the sentinel: a lost "trying"  *)
(* bars nothing, and one that is back has a cause.                         *)
LEMMA CrashStep ==
  ASSUME Data, Flags, SentinelInv, PowerFails \/ KextPanics
  PROVE  SentinelInv'
<1> USE DEF Armed, Settling
<1>1. Crashes
  BY DEF PowerFails, KextPanics
<1>2. pc' = "off" /\ sentinel' = disk /\ disk' = disk
  BY <1>1 DEF Crashes, GoesDown
<1>3. ArmedInWindow' /\ KilledByInstall'
  BY <1>2 DEF ArmedInWindow, KilledByInstall
<1>4. PanicBars'
  <2>1. CASE PowerFails
    BY <2>1, <1>2 DEF PowerFails, PanicBars, SentinelInv
  <2>2. CASE KextPanics
    <3>1. panicked' = "recorded" => disk = "trying"
      BY <2>2 DEF KextPanics
    <3>2. QED
      BY <3>1, <1>2 DEF PanicBars
  <2>3. QED
    BY <2>1, <2>2
<1>5. TrippedForCause'
  <2> SUFFICES ASSUME disk = "trying" PROVE interrupted'
    BY <1>2 DEF TrippedForCause
  <2>1. pc # "off" \/ interrupted \/ sentinel = "ok"
    BY DEF SentinelInv, TrippedForCause, Data
  <2>2. interrupted' = (interrupted \/ pc # "off" \/ (disk = "trying" /\ sentinel = "ok"))
    BY <1>1 DEF Crashes
  <2>3. QED
    BY <2>1, <2>2, Zenon
<1>6. QED
  BY <1>3, <1>4, <1>5 DEF SentinelInv

(* Every step keeps the sentinel's invariant. *)
LEMMA SentinelStep ==
  ASSUME Data, Flags, SentinelInv, [Next]_vars PROVE SentinelInv'
<1>1. CASE PowerFails \/ KextPanics
  BY <1>1, CrashStep
<1> USE DEF SentinelInv, ArmedInWindow, KilledByInstall, PanicBars, TrippedForCause,
            Write, Armed, Settling
<1>2. CASE Starts \/ SessionGuard \/ ReadSentinel
  BY <1>2 DEF Starts, SessionGuard, ReadSentinel, files, history
<1>3. CASE Arm
  BY <1>3 DEF Arm, history
<1>4. CASE Load \/ Takeover \/ Count
  BY <1>4 DEF Load, Takeover, Count, files, history
<1>5. CASE Confirm \/ Recount
  BY <1>5 DEF Confirm, Recount, files
<1>6. CASE RecoverBounce \/ Unload
  BY <1>6 DEF RecoverBounce, Unload, files, history
<1>7. CASE Login \/ Logout \/ TrackpadChanges
  BY <1>7 DEF Login, Logout, TrackpadChanges, files, script, history
<1>8. CASE Reset \/ InstallEnds
  BY <1>8 DEF Reset, InstallEnds, files, script
<1>9. CASE InstallBegins
  <2>1. ArmedInWindow' /\ KilledByInstall' /\ PanicBars'
    BY <1>9 DEF InstallBegins, files
  <2>2. TrippedForCause'
    BY <1>9, Zenon DEF InstallBegins, files
  <2>3. QED
    BY <2>1, <2>2
<1>10. CASE Flush
  BY <1>10 DEF Flush, script, history
<1>11. CASE Restart
  <2>1. ArmedInWindow' /\ KilledByInstall' /\ PanicBars'
    BY <1>11 DEF Restart, GoesDown
  <2>2. sentinel' = sentinel /\ interrupted' = (interrupted \/ pc # "off")
    BY <1>11 DEF Restart
  <2>3. TrippedForCause'
    BY <2>2, Zenon
  <2>4. QED
    BY <2>1, <2>3
<1>12. CASE UNCHANGED vars
  BY <1>12 DEF vars, files, script, history
<1>13. QED
  BY <1>1, <1>2, <1>3, <1>4, <1>5, <1>6, <1>7, <1>8, <1>9, <1>10, <1>11, <1>12
     DEF Next, Wrapper, Environment, Machine

(* The sentinel's invariant holds of every behaviour of the wrapper. *)
THEOREM SentinelInvariant == Spec => [](BootTypeOK /\ SentinelInv)
<1>1. BootTypeOK => Data /\ Flags
  BY DEF BootTypeOK, Flags, Data
<1>2. BootTypeOK /\ SentinelInv /\ [Next]_vars => (BootTypeOK /\ SentinelInv)'
  BY <1>1, BootTypeStep, SentinelStep
<1>3. QED
  BY BootInit, <1>2, PTL DEF Spec

(* The guard trips only for a run that was cut short, or whose "ok" a      *)
(* crash took from the cache: whatever was or was not bound, a run that    *)
(* ends confirms itself (Confirm).                                         *)
THEOREM GuardTripsForCause == Spec => []TrippedForCause
BY SentinelInvariant, PTL DEF SentinelInv

(* After a panic that found the sentinel on the disk the kext is not loaded *)
(* again until a reset or a new build (ReadSentinel before Arm before Load). *)
THEOREM NoReloadOnceRecorded == Spec => RecordedPanicBars
<1>1. BootTypeOK /\ SentinelInv /\ [Next]_vars => [~kext /\ kext' => panicked # "recorded"]_vars
  <2> SUFFICES ASSUME BootTypeOK, SentinelInv, Next, ~kext, kext'
               PROVE  panicked # "recorded"
    OBVIOUS
  <2>1. CASE Load
    BY <2>1 DEF Load, SentinelInv, PanicBars
  <2>2. CASE Wrapper /\ ~Load
    BY <2>2 DEF Wrapper, Starts, SessionGuard, ReadSentinel, Arm, Takeover, Bounce,
                Count, Confirm, RecoverBounce, Recount, Unload, readers
  <2>3. CASE Environment
    BY <2>3 DEF Environment, Login, Logout, Reset, InstallBegins, InstallEnds,
                TrackpadChanges, readers
  <2>4. CASE Machine
    BY <2>4 DEF Machine, Flush, Restart, Crashes, PowerFails, KextPanics, GoesDown, readers
  <2>5. QED
    BY <2>1, <2>2, <2>3, <2>4 DEF Next
<1>2. QED
  BY SentinelInvariant, <1>1, PTL DEF Spec, RecordedPanicBars
=============================================================================
