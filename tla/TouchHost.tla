----------------------------- MODULE TouchHost -----------------------------
(***************************************************************************)
(* mavericks_session_t behind a kernel shell: the shell of                 *)
(* MavericksVoodooInputHost (several readers, one active at a time), of    *)
(* which MavericksTerminalBackend is the instance with one source that     *)
(* connects once.  Threads: each reader's workloop (connect, frames,       *)
(* close) and the workloop of the silence watchdog; fSessionLock makes     *)
(* every call one step.  The watchdog's callback is in flight (`due`)      *)
(* between the moment IOTimerEventSource commits to it, after which        *)
(* cancelTimeout and setTimeoutMS no longer reach it, and the moment it    *)
(* gets the lock.                                                          *)
(***************************************************************************)
EXTENDS SessionCore

CONSTANTS
    Sources,     \* readers
    NoSource,    \* active_source == 0
    UptimeWrap,  \* uptime_ms() is a uint32_t: it wraps at 2^32
    MaxUptime    \* bound: clock ticks a behaviour may take

ASSUME SourceAssumption == NoSource \notin Sources
ASSUME UptimeAssumption == UptimeWrap \in Nat \ {0} /\ MaxUptime \in Nat

VARIABLES
    active_source, settle_until, last_button,  \* fSession
    prev_ids, last,                            \* fSession.lifecycle
    xport,       \* the source whose transport sink is in fXport
    timer,       \* fIdleTimer: armed, and a callback in flight
    ticks,       \* real milliseconds since boot
    device,      \* the active device: its last reported button bit, and
                 \* whether it fell silent with no lift frame
    recognizer,  \* contacts (with positions) xport's consumer believes down
    click,       \* the click mask it was last posted
    fed          \* the frames the latest step fed it

session == <<active_source, settle_until, last_button, prev_ids, last>>
consumer == <<recognizer, click, fed>>
vars == <<session, xport, timer, ticks, device, consumer>>

SETTLE_MS == 0

uptime_ms == ticks % UptimeWrap

TypeOK ==
    /\ active_source \in Sources \cup {NoSource}
    /\ xport \in Sources \cup {NoSource}
    /\ settle_until \in Nat
    /\ last_button \in {0, 1}
    /\ prev_ids \subseteq Ids
    /\ last \in [Ids -> Pos]
    /\ timer \in [armed : BOOLEAN, due : BOOLEAN]
    /\ ticks \in 0 .. MaxUptime
    /\ device \in [button : {0, 1}, quiet : BOOLEAN]
    /\ recognizer \in UNION {[S -> Pos] : S \in SUBSET Ids}
    /\ click \in {0, 1, 2}
    /\ fed \in Seq(Frames)

Tracked(f) == [i \in Down(f) |-> f.touches[i].pos]

(* sink_post_button_edge and sink_feed_frame: the frames fs of one call     *)
(* reach the consumer registered in fXport, if any; the first of them       *)
(* carries the button edge.                                                 *)
Deliver(fs) ==
    IF xport = NoSource \/ fs = <<>>
    THEN fed' = <<>> /\ UNCHANGED <<recognizer, click>>
    ELSE /\ fed' = fs
         /\ recognizer' = Tracked(fs[Len(fs)])
         /\ click' = IF fs[1].button # last_button THEN ClickMask(fs[1])
                                                   ELSE click

-----------------------------------------------------------------------------
Init ==
    /\ active_source = NoSource
    /\ settle_until = 0
    /\ last_button = 0
    /\ prev_ids = {}
    /\ last \in [Ids -> Pos]
    /\ xport = NoSource
    /\ timer = [armed |-> FALSE, due |-> FALSE]
    /\ ticks = 0
    /\ device = [button |-> 0, quiet |-> FALSE]
    /\ recognizer = NoContacts
    /\ click = 0
    /\ fed = <<>>

(* Mutant: the lifecycle survives a reconnect.                              *)
ConnectKeepsContacts(src) ==
    /\ timer' = [timer EXCEPT !.armed = FALSE]
    /\ xport' = src
    /\ active_source' = src
    /\ settle_until' = uptime_ms + SETTLE_MS
    /\ last_button' = 0
    /\ UNCHANGED <<prev_ids, last, ticks>>
    /\ device' = [button |-> 0, quiet |-> FALSE]
    /\ recognizer' = NoContacts /\ click' = 0 /\ fed' = <<>>

(* connectionEstablished -> mavericks_session_connect.  The reader starts a *)
(* fresh consumer for the connection, so nothing is down on it.             *)
Connect(src) ==
    /\ timer' = [timer EXCEPT !.armed = FALSE]
    /\ xport' = src
    /\ active_source' = src
    /\ settle_until' = uptime_ms + SETTLE_MS
    /\ last_button' = 0
    /\ prev_ids' = {}
    /\ UNCHANGED <<last, ticks>>
    /\ device' = [button |-> 0, quiet |-> FALSE]
    /\ recognizer' = NoContacts /\ click' = 0 /\ fed' = <<>>

(* connectionClosed: a source that is not the active one changes nothing.   *)
Close(src) ==
    IF src = active_source
    THEN /\ timer' = [timer EXCEPT !.armed = FALSE]
         /\ xport' = NoSource
         /\ active_source' = NoSource
         /\ prev_ids' = {}
         /\ UNCHANGED <<settle_until, last_button, last, ticks>>
         /\ device' = [button |-> 0, quiet |-> FALSE]
         /\ recognizer' = NoContacts /\ click' = 0 /\ fed' = <<>>
    ELSE /\ fed' = <<>>
         /\ UNCHANGED <<session, xport, timer, ticks, device, recognizer, click>>

(* Mutant: any lift cancels the watchdog, also with another contact down.   *)
CancelOnLift(f) ==
    [timer EXCEPT !.armed = DropLifted(f) # {} /\ prev_ids \subseteq DropLifted(f)]

(* The end of mavericks_session_frame: (re)arm the watchdog while a contact *)
(* is down.                                                                 *)
Rearm(f) == IF DropLifted(f) # {} THEN [timer EXCEPT !.armed = TRUE] ELSE timer

(* What an admitted frame does: condition it, deliver it, remember it.      *)
Accept(f) ==
    LET fs == Conditioned(LifecycleStep(prev_ids, last, f)) IN
    /\ Deliver(fs)
    /\ prev_ids' = DropLifted(f)
    /\ last' = LifecycleLast(prev_ids, last, f)
    /\ last_button' = ButtonAfter(fs, last_button)
    /\ timer' = Rearm(f)
    /\ UNCHANGED <<active_source, settle_until>>

(* Mutant: no single-active guard.                                          *)
AdmittedFromAnyone(src) == SettlePassed(uptime_ms, settle_until)

(* The gates at the top of mavericks_session_frame.                         *)
Admitted(src) ==
    src = active_source /\ SettlePassed(uptime_ms, settle_until)

(* submitFrame -> mavericks_session_frame.  A device that fell silent sends *)
(* nothing more; a reader that lost the single-active contest may.          *)
SubmitFrame(src, f) ==
    /\ ~(src = active_source /\ device.quiet)
    /\ device' = IF src = active_source THEN [device EXCEPT !.button = f.button]
                                        ELSE device
    /\ UNCHANGED <<xport, ticks>>
    /\ IF Admitted(src) THEN Accept(f)
       ELSE fed' = <<>> /\ UNCHANGED <<session, timer, recognizer, click>>

(* The active device goes away or out of range in the middle of a touch:    *)
(* no lift frame, no further frame.                                         *)
FallSilent ==
    /\ active_source # NoSource /\ ~device.quiet
    /\ device' = [device EXCEPT !.quiet = TRUE]
    /\ fed' = <<>>
    /\ UNCHANGED <<session, xport, timer, ticks, recognizer, click>>

(* The timeout passes and IOTimerEventSource commits to the callback.       *)
IdleExpire ==
    /\ timer.armed /\ ~timer.due
    /\ timer' = [armed |-> FALSE, due |-> TRUE]
    /\ fed' = <<>>
    /\ UNCHANGED <<session, xport, ticks, device, recognizer, click>>

(* idleTimeout -> mavericks_session_timer, under fSessionLock.              *)
IdleTimeout ==
    LET fs == Conditioned(LifecycleFlush(prev_ids, last)) IN
    /\ timer.due
    /\ timer' = [timer EXCEPT !.due = FALSE]
    /\ Deliver(fs)
    /\ prev_ids' = {}
    /\ last_button' = ButtonAfter(fs, last_button)
    /\ UNCHANGED <<active_source, settle_until, last, xport, ticks, device>>

Tick ==
    /\ ticks < MaxUptime
    /\ ticks' = ticks + 1
    /\ fed' = <<>>
    /\ UNCHANGED <<session, xport, timer, device, recognizer, click>>

Next ==
    \/ \E src \in Sources : Connect(src)
    \/ \E src \in Sources : Close(src)
    \/ \E src \in Sources, f \in RawFrames : SubmitFrame(src, f)
    \/ FallSilent
    \/ IdleExpire
    \/ IdleTimeout
    \/ Tick

Spec == Init /\ [][Next]_vars

(* The watchdog's timer expires and its callback gets the lock; nothing     *)
(* obliges a device to send, a reader to connect or the clock to matter.    *)
FairSpec == Spec /\ WF_vars(IdleExpire) /\ WF_vars(IdleTimeout)
-----------------------------------------------------------------------------
(* Properties                                                               *)

(* The consumer's contacts are exactly the session's memory of what is     *)
(* down, at the positions the session would end them at: no contact is     *)
(* stuck on the recognizer and none is lost, across frames, watchdog       *)
(* flushes and reader changes (mavericks_lifecycle_step / _flush / reset). *)
RecognizerAgrees ==
    xport # NoSource => recognizer = [i \in prev_ids |-> last[i]]

(* The sink in fXport is the active reader's: a reader superseded by       *)
(* another one can neither feed it nor deregister it (the single-active    *)
(* guard and connectionClosed's source test).                              *)
SinkMatchesSession == xport = active_source

(* The recognizer holds a click only while a contact is down on it, and    *)
(* exactly while the edge detector remembers a press: the absence frames   *)
(* of a full lift or of the watchdog always release it (emit).             *)
ClickHeldByContact ==
    /\ click # 0 => DOMAIN recognizer # {}
    /\ click # 0 <=> last_button = 1 /\ xport # NoSource

(* While a contact is down the watchdog is armed or already on its way, so *)
(* a stream that stops cannot leave it down (mavericks_session_frame arms, *)
(* connect and close only cancel together with a reset).                   *)
WatchdogCovers == prev_ids # {} => timer.armed \/ timer.due

(* The fed frames implement the contact stream Apple's recognizer is       *)
(* promised.                                                               *)
Stream == INSTANCE ContactStream
StreamSpec == Stream!Spec

(* A frame from a reader that is not the active one, and the close of such *)
(* a reader, change nothing the active reader's consumer can see.          *)
StaleReaderHarmless ==
    [][\A src \in Sources \ {active_source} :
        (Close(src) \/ \E f \in RawFrames : SubmitFrame(src, f))
            => UNCHANGED <<session, xport, timer, recognizer, click>>]_vars

(* A device that goes silent in mid-touch has its contacts lifted by the   *)
(* watchdog, unless its reader goes away first.                            *)
SilenceLifts == device.quiet ~> (DOMAIN recognizer = {} \/ ~device.quiet)

(* mavericks_pipeline.h:30 promises "no settle delay": once a reader has   *)
(* connected, its frames are never held back by the settle gate.           *)
GateStaysOpen ==
    active_source # NoSource => SettlePassed(uptime_ms, settle_until)
=============================================================================
