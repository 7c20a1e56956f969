------------------------------ MODULE NameMirror ------------------------------
(***************************************************************************)
(* The trackpad's name, from the Rename sheet to the device and back.  The *)
(* preference pane's mirror sees that IOBluetooth's display name changed   *)
(* and writes it as feature report 0x55 to the synthetic HID shell         *)
(* (mavericks_name_mirror_tick); the shell hands it to MT2BTReader, which  *)
(* sends it on the Bluetooth control channel (setReport, writeDeviceName). *)
(* A read of the report (getReport, readDeviceName) asks on that channel   *)
(* and waits for bt_control_shim to catch the reply.                       *)
(*                                                                         *)
(* Threads: the pane's main thread (renames, ticks, writes), whoever reads *)
(* the report, and the Bluetooth workloop, in whose gate the channel sends *)
(* and the shim runs.  Names are sequences of bytes; 63, the longest name  *)
(* the report holds, and 127, the longest the mirror remembers, are        *)
(* constants.                                                              *)
(***************************************************************************)
EXTENDS Integers, SequencesExt, FiniteSetsExt

CONSTANTS Names,          \* the names a user may give
          FactoryName,    \* the name the device has at first
          Continuation,   \* the bytes that continue a UTF-8 character
          PayloadMax,     \* 63
          BaselineMax,    \* 127, sizeof gLastDisplayName less the terminator
          MaxRenames, MaxFaults, MaxReads,  \* bounds on what a behaviour may do
          MaxWire         \* bound: requests under way

Cleared == <<>>
Strings == Seq(1 .. 255)   \* a C string's bytes, less the terminator

ASSUME NamesAssumption ==
    /\ PayloadMax \in Nat \ {0} /\ BaselineMax \in Nat /\ PayloadMax < BaselineMax
    /\ Names \subseteq Strings /\ FactoryName \in Strings
    /\ Len(FactoryName) \in 1 .. PayloadMax
    /\ \A n \in Names : n # Cleared /\ n[1] \notin Continuation
    /\ {MaxRenames, MaxFaults, MaxReads} \subseteq Nat /\ MaxWire \in Nat \ {0}

VARIABLES
    alias,          \* the display name IOBluetooth keeps for the paired trackpad
    gLast, gInit,   \* gLastDisplayName, gNameMirrorInit
    churn,          \* is the presence machine in HOLD?
    writer,         \* the main thread: idle, marshalled (it has the channel), or done
    wname, wok,     \* what it is writing, and whether the write succeeded
    product,        \* the product id of the published HID shell, 0 without one
    channel,        \* the control channel: none, open, inactive (its link is down)
    wire, replies,  \* what is under way to the device and from it
    device,         \* the payload of report 0x55 in the device
    gNameResp, gNameRespPending,
    shim,           \* the reply bt_control_shim has in hand, or <<>>
    reader,         \* who reads the report: idle, waiting, copying, done
    out,            \* what has been copied out for him
    budget,         \* what is left of each bound
    fresh,          \* history: was the alias given after the first sight, and not pushed?
    pushed, lost,   \* history: the alias last pushed; was the write lost on its way?
    clean, since    \* history: did the read begin with no older reply due, and what
                    \* has the device held since?

pane == <<alias, gLast, gInit, churn, writer, wname, wok, fresh>>
history == <<pushed, lost>>
kext == <<product, channel, wire, replies, device>>
reading == <<gNameResp, gNameRespPending, shim, reader, out, clean, since>>
vars == <<pane, history, kext, reading, budget>>

Shell == 782      \* what MavericksHIDShell says it is, and Transport "Bluetooth"
GetName == <<>>   \* GET_REPORT on the wire; any other message is a SET's payload

Spend(what) == budget[what] > 0 /\ budget' = [budget EXCEPT ![what] = @ - 1]

-----------------------------------------------------------------------------
(* Names as bytes                                                          *)

(* The buffer with the bytes before it, and nothing after them.            *)
Padded(name, size) == [i \in 1 .. size |-> IF i <= Len(name) THEN name[i] ELSE 0]

(* Its bytes before the first 0.                                           *)
Unpadded(report) ==
    SubSeq(report, 1, CHOOSE n \in 0 .. Len(report) :
                         /\ \A i \in 1 .. n : report[i] # 0
                         /\ n < Len(report) => report[n + 1] = 0)

(* strlcpy                                                                 *)
Baseline(s) == IF Len(s) <= BaselineMax THEN s ELSE SubSeq(s, 1, BaselineMax)

(* What of a name is written: cut to the payload, backing off while the    *)
(* byte after the cut continues a character.                               *)
Cut(s) ==
    IF Len(s) <= PayloadMax THEN s
    ELSE SubSeq(s, 1, Max({k \in 0 .. PayloadMax : k = 0 \/ s[k + 1] \notin Continuation}))

-----------------------------------------------------------------------------
(* The pane                                                                *)

Rename(n) ==
    /\ writer = "idle" /\ alias # n /\ Spend("renames")
    /\ alias' = n /\ fresh' = gInit
    /\ UNCHANGED <<gLast, gInit, churn, writer, wname, wok, history, kext, reading>>

(* System Preferences quits and is opened again.                           *)
Relaunch ==
    /\ writer = "idle" /\ gInit /\ Spend("faults")
    /\ gInit' = FALSE /\ gLast' = Cleared /\ fresh' = FALSE
    /\ UNCHANGED <<alias, churn, writer, wname, wok, history, kext, reading>>

Churn ==
    /\ IF churn THEN UNCHANGED budget ELSE Spend("faults")
    /\ churn' = ~churn
    /\ UNCHANGED <<alias, gLast, gInit, writer, wname, wok, fresh, history, kext, reading>>

(* Mutant: the first tick takes what it sees for a rename.                 *)
FirstSightActs ==
    /\ writer = "idle" /\ ~gInit
    /\ gInit' = TRUE
    /\ UNCHANGED <<alias, gLast, churn, writer, wname, wok, fresh, history, kext, reading,
                   budget>>

(* The first tick takes what it sees for the baseline and never acts.      *)
FirstSight ==
    /\ writer = "idle" /\ ~gInit
    /\ gInit' = TRUE /\ gLast' = Baseline(alias)
    /\ UNCHANGED <<alias, churn, writer, wname, wok, fresh, history, kext, reading, budget>>

(* A change to the empty name is accepted, mostly it was ours.             *)
AcceptCleared ==
    /\ writer = "idle" /\ gInit /\ alias # gLast /\ alias = Cleared
    /\ gLast' = Cleared
    /\ UNCHANGED <<alias, gInit, churn, writer, wname, wok, fresh, history, kext, reading,
                   budget>>

(* Mutant: the HID manager is asked for the real trackpad's product id,    *)
(* which the satellite keeps from being a HID device.                      *)
MatchRealProduct(p) == p = 613

Matches(p) == p = Shell

(* A tick that finds a new name tries to write it, unless a transport      *)
(* transition is in flight; setReport and writeDeviceName fail when no     *)
(* shell matches or no control channel is up, else the write has hold of   *)
(* the channel and waits for its gate.                                     *)
BeginPush ==
    /\ writer = "idle" /\ gInit /\ alias # gLast /\ alias # Cleared /\ ~churn
    /\ wname' = Cut(alias)
    /\ writer' = IF Matches(product) /\ Len(wname') \in 1 .. PayloadMax /\ channel # "none"
                 THEN "marshalled" ELSE "done"
    /\ UNCHANGED <<alias, gLast, gInit, churn, wok, fresh, history, kext, reading, budget>>

(* Success refreshes the host's name, clears the alias, which may fail,    *)
(* and takes the new name for the baseline; failure changes nothing, so    *)
(* that the next tick tries again.                                         *)
EndPush ==
    /\ writer = "done" /\ writer' = "idle"
    /\ wok' = FALSE /\ wname' = Cleared
    /\ IF wok
       THEN /\ alias' \in {Cleared, alias}
            /\ gLast' = Baseline(alias) /\ fresh' = FALSE
       ELSE UNCHANGED <<alias, gLast, fresh>>
    /\ UNCHANGED <<gInit, churn, history, kext, reading, budget>>

-----------------------------------------------------------------------------
(* The kext, in the control channel's gate: the shim holds it from its     *)
(* first line to its last.                                                 *)

(* Mutant: the report is as long as the name.                              *)
ReportUnpadded(name) == name

(* The SET_REPORT's payload: the full 64 bytes, zero past the name.        *)
Report(name) == Padded(name, PayloadMax + 1)

(* sendNameInGate. A channel that went inactive is refused.                *)
SendNameInGate ==
    /\ writer = "marshalled" /\ shim = <<>> /\ channel # "none" /\ Len(wire) < MaxWire
    /\ writer' = "done"
    /\ wok' = (channel = "open")
    /\ IF channel = "open"
       THEN wire' = Append(wire, Report(wname)) /\ pushed' = alias /\ lost' = FALSE
       ELSE UNCHANGED <<wire, history>>
    /\ UNCHANGED <<alias, gLast, gInit, churn, wname, fresh, product, channel, replies, device,
                   reading, budget>>

(* The channel was freed between the read of gCtrlInterposedChannel and    *)
(* the gate ("RESIDUAL RACE", writeDeviceName): what the call then does is *)
(* undefined; short of a panic it may report either result.                *)
SendToFreed ==
    /\ writer = "marshalled" /\ channel = "none"
    /\ writer' = "done" /\ wok' \in BOOLEAN
    /\ lost' = (lost \/ wok')
    /\ UNCHANGED <<alias, gLast, gInit, churn, wname, fresh, pushed, kext, reading, budget>>

(* bt_control_shim: the reply is copied, then announced.                   *)
ShimCaptures ==
    /\ shim = <<>> /\ replies # <<>>
    /\ shim' = Head(replies) /\ replies' = Tail(replies)
    /\ gNameResp' = Head(replies)
    /\ UNCHANGED <<pane, history, product, channel, wire, device, gNameRespPending, reader, out,
                   clean, since, budget>>

ShimAnnounces ==
    /\ shim # <<>> /\ shim' = <<>>
    /\ gNameRespPending' = TRUE
    /\ UNCHANGED <<pane, history, kext, gNameResp, reader, out, clean, since, budget>>

-----------------------------------------------------------------------------
(* The read-back                                                           *)

(* Mutant: the flag of an earlier reply is left up.                        *)
BeginReadStale ==
    /\ reader = "idle" /\ product # 0 /\ channel = "open" /\ shim = <<>> /\ Spend("reads")
    /\ Len(wire) < MaxWire
    /\ wire' = Append(wire, GetName)
    /\ reader' = "waiting"
    /\ clean' = (replies = <<>> /\ GetName \notin Range(wire))
    /\ since' = {device}
    /\ UNCHANGED <<pane, history, product, channel, replies, device, gNameResp,
                   gNameRespPending, shim, out>>

(* readDeviceName lowers the flag and asks in the gate.                    *)
BeginRead ==
    /\ reader = "idle" /\ product # 0 /\ channel = "open" /\ shim = <<>> /\ Spend("reads")
    /\ Len(wire) < MaxWire
    /\ gNameRespPending' = FALSE
    /\ wire' = Append(wire, GetName)
    /\ reader' = "waiting"
    /\ clean' = (replies = <<>> /\ GetName \notin Range(wire))
    /\ since' = {device}
    /\ UNCHANGED <<pane, history, product, channel, replies, device, gNameResp, shim, out>>

(* Half a second passed without a reply.                                   *)
ReadTimesOut ==
    /\ reader = "waiting" /\ ~gNameRespPending
    /\ reader' = "idle" /\ since' = {} /\ clean' = FALSE
    /\ UNCHANGED <<pane, history, kext, gNameResp, gNameRespPending, shim, out, budget>>

(* The copy goes byte by byte beside the shim: its first byte, ...         *)
ReadCopies ==
    /\ reader = "waiting" /\ gNameRespPending
    /\ reader' = "copying" /\ out' = SubSeq(gNameResp, 1, 1)
    /\ UNCHANGED <<pane, history, kext, gNameResp, gNameRespPending, shim, clean, since, budget>>

(* ... and the rest, which mt2_build_name_report pads to the report.       *)
ReadReturns ==
    /\ reader = "copying" /\ reader' = "done"
    /\ out' = Padded(out \o Tail(gNameResp), PayloadMax + 1)
    /\ UNCHANGED <<pane, history, kext, gNameResp, gNameRespPending, shim, clean, since, budget>>

ReadAgain ==
    /\ reader = "done" /\ reader' = "idle"
    /\ out' = <<>> /\ since' = {} /\ clean' = FALSE
    /\ UNCHANGED <<pane, history, kext, gNameResp, gNameRespPending, shim, budget>>

-----------------------------------------------------------------------------
(* The device and its link                                                 *)

(* It takes the requests in order, in its own time. A payload overwrites   *)
(* what it held, as far as it goes; a reply is the name alone.             *)
DeviceTakes ==
    /\ wire # <<>> /\ wire' = Tail(wire)
    /\ IF Head(wire) = GetName
       THEN replies' = Append(replies, Unpadded(device)) /\ UNCHANGED device
       ELSE /\ device' = [i \in DOMAIN device |->
                            IF i <= Len(Head(wire)) THEN Head(wire)[i] ELSE device[i]]
            /\ UNCHANGED replies
    /\ since' = IF reader = "idle" THEN {} ELSE since \cup {device'}
    /\ UNCHANGED <<pane, history, product, channel, gNameResp, gNameRespPending, shim, reader,
                   out, clean, budget>>

LinkComes ==
    /\ channel = "none" /\ channel' = "open"
    /\ product' = Shell
    /\ UNCHANGED <<pane, history, wire, replies, device, reading, budget>>

(* What was under way is lost.                                             *)
LinkDrops ==
    /\ channel = "open" /\ channel' = "inactive" /\ Spend("faults")
    /\ lost' = (lost \/ \E m \in Range(wire) : m # GetName)
    /\ wire' = <<>> /\ replies' = <<>>
    /\ UNCHANGED <<pane, pushed, product, device, reading>>

(* The control reader's stop clears gCtrlInterposedChannel; on USB the     *)
(* shell is there without a channel.                                       *)
ControlStops ==
    /\ channel = "inactive" /\ channel' = "none"
    /\ product' \in {0, Shell}
    /\ UNCHANGED <<pane, history, wire, replies, device, reading, budget>>

-----------------------------------------------------------------------------
Init ==
    /\ alias \in Names \cup {Cleared}
    /\ gLast = Cleared /\ gInit = FALSE /\ churn = FALSE /\ fresh = FALSE
    /\ writer = "idle" /\ wname = Cleared /\ wok = FALSE
    /\ product = 0 /\ channel = "none"
    /\ wire = <<>> /\ replies = <<>>
    /\ device = Report(FactoryName)
    /\ gNameResp = <<>> /\ gNameRespPending = FALSE /\ shim = <<>>
    /\ reader = "idle" /\ out = <<>> /\ clean = FALSE /\ since = {}
    /\ pushed = Cleared /\ lost = FALSE
    /\ budget = [renames |-> MaxRenames, faults |-> MaxFaults, reads |-> MaxReads]

Tick == FirstSight \/ AcceptCleared \/ BeginPush

Shim == ShimCaptures \/ ShimAnnounces

Read == BeginRead \/ ReadTimesOut \/ ReadCopies \/ ReadReturns \/ ReadAgain

Next ==
    \/ \E n \in Names : Rename(n)
    \/ Relaunch \/ Churn \/ Tick \/ EndPush
    \/ SendNameInGate \/ SendToFreed \/ Shim \/ Read
    \/ DeviceTakes \/ LinkComes \/ LinkDrops \/ ControlStops

Spec == Init /\ [][Next]_vars

(* The 1.5 s tick goes on, calls under way return, the device takes what   *)
(* it is sent, a transition ends and the keeper brings a dropped link back *)
(* (KeeperReconnects, LinkState).                                          *)
FairSpec ==
    /\ Spec
    /\ WF_vars(Tick) /\ WF_vars(EndPush)
    /\ WF_vars(SendNameInGate \/ SendToFreed) /\ WF_vars(Shim) /\ WF_vars(DeviceTakes)
    /\ WF_vars(Churn /\ churn) /\ WF_vars(ControlStops) /\ WF_vars(LinkComes)

-----------------------------------------------------------------------------
(* Properties                                                              *)

(* The p that is written for a name: its longest part that fits and that   *)
(* does not end inside a character.                                        *)
WholePart(p, s) ==
    LET Whole(k) == k = Len(s) \/ s[k + 1] \notin Continuation
    IN  /\ IsPrefix(p, s) /\ Len(p) <= PayloadMax /\ Whole(Len(p))
        /\ \A k \in Len(p) + 1 .. Len(s) : k <= PayloadMax => ~Whole(k)

(* Once the write of a name has reached the device, and short of a link    *)
(* that took it along, the device holds that name and nothing else: no     *)
(* tail of a longer one ("MT2-fresh-99" must not read back as              *)
(* "MT2-fresh-99st", sendNameInGate), no split character. A success the    *)
(* mirror is told of is of the name it asked for.                          *)
LastPushWins ==
    /\ pushed # Cleared /\ ~lost /\ Range(wire) \subseteq {GetName} =>
         /\ device = Padded(Unpadded(device), PayloadMax + 1)
         /\ WholePart(Unpadded(device), pushed)
    /\ wok /\ ~lost => pushed = alias

(* The mirror pushes what the user gave since it first looked, and pushes  *)
(* it once, even if the alias cannot be cleared ("first sight: baseline    *)
(* only, never act"; "if the clear ever fails, we won't rewrite in a       *)
(* loop"), as long as it can remember the name.                            *)
OnlyRenamesPushed == writer # "idle" /\ Len(alias) <= BaselineMax => fresh

(* A rename is not forgotten, whatever links and transitions come between, *)
(* while the pane is open: it is pushed, or taken back by the user.        *)
RenamesPushed ==
    \A n \in Names :
        gInit /\ alias = n /\ fresh /\ n # gLast ~> alias # n \/ ~fresh \/ ~gInit \/ n = gLast

(* A read begun when no older reply was due returns a name the device held *)
(* while it lasted, whole and padded ("buffer complete before the reader   *)
(* is signalled", bt_control_shim). After a read that timed out the next   *)
(* one may return its late reply.                                          *)
ReadIsCurrent == reader = "done" /\ clean => out \in since

==============================================================================
