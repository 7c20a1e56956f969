# VoodooInputMavericks in TLA+

A formal model of the Magic Trackpad 2 input stack for Mac OS X 10.9: TLA+
modules translated from the C, C++ and Objective-C sources, TLC configurations
that check them on small instances, and TLAPS proofs that hold for every value
of the constants. Paths below are relative to the repository root.

    tlc -workers 2 -config MCTouchHost.cfg MCTouchHost     # one run
    tlapm TouchHost_proof.tla                              # one proof module

`PROJECT.json` lists the components, the runs, the source lines behind every
definition, the hazards of the code with the properties that cover them, the
disagreements found between the code and its documentation, and the theorems.

## 1. The system

A trackpad talks Bluetooth (two L2CAP channels) or USB. A *reader* in the kext
decodes its reports into frames of contacts; a *condition stage* turns frames
into the contact stream that Apple's gesture recognizer wants; a *fabricated
AppleMultitouchDevice (AMD)* hands that stream to the system. Outside the
kernel, a *daemon* keeps Bluetooth connected and hands over to USB, and code
injected into the *preference pane* shows which transport is present.

The live input path is

    MT2BTReader / MT2USBReader      decode a report, messageClient
      -> VoodooInput::message       the mux, one per reader
      -> MavericksTerminalBackend::handleEvent     the session, under fLock
      -> MavericksAMDTerminal       the fabricated AMD

The *host nub* (`MavericksVoodooInputHost`: connectionEstablished, submitFrame,
connectionClosed) is an older shell round the same session. No reader in the
tree calls it any more, but it is still built. `mavericks_decel_*`, `csm_step`,
`genuine_host` and the coordinator stub are dormant as well.

### Inventory

**Conditioning core** (`src/mavericks_session.c`, `_lifecycle.c`, `_pipeline.c`).
*State*: the active source, the settle deadline, the last button bit, the ids
that were down in the previous frame and the last position of every id.
*Operations*: connect, close, frame, watchdog timer. *Calls out*: feed a frame,
post a button edge, arm or cancel the watchdog. *Hard*: contacts that vanish
without a lift, a frame with no room for the ends it owes, a callback of the
watchdog already in flight when a frame re-arms it, a late call of a reader that
lost the single-active contest, the 32-bit clock. *Correct when* the recognizer
is told exactly one consistent story about every contact.

**Host nub** (`kext-gesture/MavericksVoodooInputHost.cpp`). The lock, the
transport sink and the timer around one session shared by several readers.

**Mux** (`third_party/VoodooInput/VoodooInput.cpp`) and **terminal backend**
(`kext-gesture/MavericksTerminalBackend.cpp`). *State*: the mux's pointer to
the backend; the backend's lock, idle timer, session and AMD context; the
property it leaves on the reader. *Operations*: start, message / handleEvent,
idleTick, publishBattery, stop. *Hard*: four threads on memory that one of them
frees. *Correct when* nothing freed is used and every stop ends.

**Fabricated AMD** (`kext-gesture/MavericksAMDTerminal.cpp`, `MavericksHIDShell.cpp`,
`src/mavericks_synth_teardown.c`). *State*: the context with its references to
the AMD, the HID shell, a workloop and the bezel timer; the ready fence; the
register table. *Operations*: build, the report stubs hidd calls, the timer that
announces a connection, the ordered teardown. *Hard*: a build that may fail at
every step and cleans up by hand at each; IOKit stops it before the backend's
teardown runs; hidd, the timer and the feed call in meanwhile. *Correct when*
nothing is left behind and no caller finds freed memory.

**Bluetooth reader** (`kext-gesture/MT2BTReader.cpp`). One reader per channel.
*State*: file globals for the connection id, the steady connection, the
battery's backend and the interposed control channel; per reader the stage of
its life, the mux, whether it streams, the timer; in the device, mouse or
multitouch mode. *Operations*: start and setup in the gate, incomingData, the
enable / battery timer, the control shim, write and read-back of the device's
name, stop in its four parts. *Hard*: the
globals outlive a connection while the readers of the old one are still being
stopped; the device may ignore the enable. *Correct when* no channel keeps a
callback of a freed reader, the enable is retried exactly until frames flow, the
battery reaches its AMD, and a name that is read or written is whole.

**USB reader** (`kext-gesture/MT2USBReader.cpp`). *State*: the open interface, the
pipe, the buffer, `fStopping`. *Operations*: start, a read that re-arms itself
from its completion, willTerminate, stop. *Hard*: IOKit calls stop only after the
interface was given up, and the Abort that precedes this waits for the completion
under way; when the reader itself is terminated there is no willTerminate and stop
gives it up. *Correct when* no read uses a buffer or an interface that is gone and
every termination ends.

**Splice engine** (`src/mavericks_splice*.c`). Gated replacement of a callback
slot, and restore only if the slot is still its own.

**Presence machine and observer** (`src/mavericks_presence.c`,
`tools/voodooinputmavericks_prefpane/mavericks_presence_observer.c`). *State*:
NONE, BT, USB or HOLD, a generation, the pending removal timers, the posted
notifications. *Operations*: an edge, the end of a window, a reconcile with the
services present. *Hard*: IOKit posts a notification of a kind only after its
iterator was drained, so changes merge and edges are stale when handled; timers
of superseded windows still fire. *Correct when* no window is stranded or cut
short and the consumer ends on the truth.

**Preference pane** (`..._prefpane_refresh.c`): the observer's consumer that
draws. **Link-state daemon** (`tools/mt2_linkstated.m`): the consumer that pages
(*keeper*), disconnects when the cable comes (*yield*), kicks hidd and quiesces
before a shutdown. *State*: the serial paging queue and what runs on it, the
reconnect timer, `g_terminating`, pending kicks. *Hard*: a page blocks for
seconds on a queue that a shutdown waits for; the cable goes in meanwhile; other
processes page too.

**Boot wrapper** (`dist/voodooinputmavericks-run`) and **install hooks**
(`dist/hooks/`). *State*: the sentinel file
`boot.state` ("trying" or "ok"), the touched trigger, the place of the script, the
recovery attempt; outside it the kext and the readers that are bound.
*Operations*: a login touches the trigger; guard, read, arm, load, take over,
count, confirm, recover, unload; `--reset`; install. *Hard*: the machine may panic
or lose power between any two commands, and what the script wrote may not be on
the disk; an attach may stay half-open. *Correct when* a build that panicked the
machine is not loaded again, and the guard never trips without a cause; the script
promises the first and keeps it only once its sentinel is on the disk.

**Wire codecs** (`src/mt2_decode.c`, the VoodooInput translation, the AMD
report). *State*: none but the previous frame's contacts in the session; bytes in,
bytes out. *Operations*: decode a report, translate to the mux's event and back,
construct a Magic Trackpad 1 report. *Hard*: 13-bit signed coordinates, ids and
states packed across byte borders, two lossy rescalings in a row, an event with
room for 10 contacts under a session with room for 16, a timestamp of 22 bits cut
from an uptime of 32. *Correct when* a touching contact is parsed once, as itself,
where it is; a small motion stays one; and the parser's clock runs at the rate of
the kernel's.

**Pane injection** (`..._prefpane_refresh.c`). *State*: flags of what was swizzled,
captured, painted and injected; the known battery level; the name last mirrored.
*Operations*: activation and capture, pane selection, the presence callback, two
ticks, Apple's own timer, the answer of a USB battery read, the name mirror. *Hard*:
Apple rebuilds views and repaints the row behind the code's back; the code runs
with whatever pane is in front. *Correct when* what we own on the screen follows
the device, and a rename reaches the device once.

**Diagnostics**, **tools**: see section 8.

## 2. Modules

| Module | Models | Built on |
|---|---|---|
| `SessionCore` | the condition stage as pure operators | |
| `ContactStream` | abstract: what the recognizer is promised | SessionCore |
| `TouchHost` | the session in its shell, readers, watchdog | SessionCore; refines ContactStream |
| `Presence` | the presence machine as pure operators | |
| `PresenceObserver` | the IOKit adapter; `ObserverSpec` | Presence |
| `PrefPane` | the pane as consumer | PresenceObserver; refines ObserverSpec |
| `LinkState` | the daemon as consumer | PresenceObserver |
| `TerminalBackend` | lifetimes of mux, backend, lock, timer, AMD | |
| `AmdTerminal` | build and teardown of the fabricated AMD, who calls in | |
| `UsbReader` | the USB reader: start, read loop, termination | |
| `Satellite` | a backend with its AMD and its USB reader | AmdTerminal, UsbReader; refines TerminalBackend |
| `NameMirror` | a rename from the pane to the device and back | |
| `PaneShow` | what is injected into System Preferences | Presence |
| `BtReader` | the two readers of successive connections | |
| `BootGuard` | the boot wrapper, its sentinel and recovery, the install hooks | |
| `FrameCodec` | a contact's bytes from the device's report to Apple's parser | |

`MCx` instantiates `x` for TLC; `x_proof` holds the theorems about `x`, and
`Presence_proof` those about PresenceObserver, PrefPane and LinkState.
Operators whose comment begins with "Mutant:" are deliberately wrong variants of
the definition next to them. No specification uses them; they record, for every
property, a plausible mistake that the property catches.

### SessionCore, ContactStream, TouchHost

A device frame is a button bit and a map from contact ids to a position and a
size, size 0 being the device's "lifted"; every id occurs at most once. The
order of contacts in a frame is abstracted, its capacity `MAX_TOUCHES` is not.
`LifecycleStep` is `mavericks_drop_lifted` followed by `mavericks_lifecycle_step`,
`LifecycleFlush` its flush, `Conditioned` and `ButtonAfter` are `emit`,
`emit_with_liftoff` and the edge detector under the shipped policy row (a pair
of absence frames, no empties).

`TouchHost` has one action per entry of the session: `Connect`, `Close`,
`SubmitFrame`, `IdleTimeout`. Each runs under `fSessionLock` and is one step. The
timer is two bits: `armed`, and `due` for a callback that IOTimerEventSource has
committed to and that no cancel or re-arm reaches. `FallSilent` is the device
that leaves in mid-touch. The terminal backend uses the same session with one
source that connects once, so `TouchHost` with a single source covers it.

`ContactStream` is the abstract specification: one start per contact, one end at
its last position, no contact disappears without one except in a full lift, and
a full lift is exactly two absence frames. `TouchHost` implements it with the
identity as refinement mapping on `recognizer` and `fed`, which are history of
what was delivered.

### Presence, PresenceObserver, PrefPane, LinkState

`inbox` holds the posted notifications, at most one of each of the four kinds.
`Edge` is `obs_dev_changed` with `obs_sm_event`, `HoldFires` the dispatched block
(it captured `gen`), `Reconcile` the poll. Timers have one duration and one
queue, so `holds` is a queue. A consumer's action conjoins the observer's with
what its callback does.

In `PrefPane`, `Perform` draws what an action asks for; the pane is captured and
the target of its redraws found before the model starts.

In `LinkState`, `jobs` is the serial paging queue: timer and USB-removal pages,
yields, and the barrier of the quiesce's `dispatch_sync`. A page is three steps,
because the code reads `usb_present`, then `isConnected`, then blocks:
`StartPage`, `OpenConnection`, and `PageAnswered` or `PageTimesOut`. `main` says
where the run loop is; while draining it serves nothing. `gestures` is whether
hidd has the frames client of the present USB device, which only a kick wins.
`link` remembers who opened the baseband link. The one-shot command-line modes
(`--bounce-once`, `--wake-once`, `--reconnect-once`) are another process that
pages with no USB gate.

At launch: a link may be up with readers on it, or the cable may be in, not
both; no notification is pending; a USB device present at launch has its frames
client.

### TerminalBackend

The memory of the backend, its lock and its AMD context each have a life
(absent, alive, freed), apart from the pointers to them. Four threads each have
a place in `pc`: the frame (reader's workloop), the idle tick (backend's
workloop), the battery reply (Bluetooth workloop, beside the frames), and the
thread that starts and stops the mux. A handler is the places where it touches
shared memory: lock, feed, AMD, unlock. `stop` is taken apart into its steps:
drain the lock, remove the timer, lower the fence, free the context, clear the
pointer, free the lock, clear the pointer, and then the mux's release and clear.
A termination comes in two ways. If the USB interface goes, the reader's
`willTerminate` stops its reads first (`UsbReleases`, `UsbAborted`). If the reader
itself is terminated, by an unload on either transport or with its Bluetooth link,
IOKit does not ask it, and the mux is stopped first (`MuxTerminates`). `pulled` is
history: was the mux terminated so while the reader could still deliver? The AMD's
context is one of four words here, and the reader's liveness one bit;
TerminalBackend is the abstract specification that Satellite implements.

### AmdTerminal, UsbReader, Satellite

In `AmdTerminal`, `step` is the place of build or teardown. `refs` counts what the
terminal owns, `device` and `shell` are the nodes. Every fallible step of
`mavericks_amd_terminal_build` has a disjunct that fails and does the cleanup the
code repeats there (`Abandon`); the shell and the timer are best effort and the
build goes on without them. The AMD and the shell are attached below the mux, so
IOKit terminates them with it: inactive at once (`Inactivate`), stopped before the
mux is (`StopDevice`, `StopShell`), all while the fence is still up. The
backend's teardown comes afterwards, its `terminate` calls find nothing to do, and
what it has left is the references and the fence. `calling` is hidd inside one of
the stubs, which the AMD's stop waits for. `bezel` is the connect timer, `osd` what
was posted last for BezelServices (the "Disconnected" goes through a node that
IOKit has stopped; whether anyone still listens there is not modelled).

In `UsbReader`, `stage` is the place of start or termination and `read` the
asynchronous read. A completion whose time has come when the pipe is aborted is
`queued`: it still runs, after the abort. `UsbStopAtOnce` is the stop of a reader
that was terminated itself, which gives up the interface and does not wait for such
a completion.

`Satellite` conjoins the three. A backend's start takes place while the AMD is `built`
or `failed`; its stop goes through the AMD's teardown, `ClearReady` and `FreeContext` of
the backend being the steps `ClearFence` and `FreeContextMemory` of the AMD. Between a
termination and the backend's stop, `AmdStops` is IOKit stopping the AMD and its shell;
`PulledReleases` gives up a USB interface inside the reader's own stop, after the mux is
gone. On USB, the frame that enters the backend is a read's completion and re-arms the
read when it comes out. `ContextOf` maps step and fence to TerminalBackend's four words;
the other variables map to themselves. Steps inside build, teardown and USB start are
stutters of TerminalBackend (`ImplementsBackend`).

### NameMirror

Names are short sequences of bytes, of which some continue a UTF-8 character.
`alias` is what IOBluetooth keeps, `gLast` and `gInit` the mirror's memory. A tick
is `FirstSight`, `AcceptCleared` or `BeginPush`; the write is taken apart where it
waits for the channel's gate, because the channel may go inactive or be freed
meanwhile (`SendNameInGate`, `SendToFreed`). `wire` and `replies` are under way on
the control channel; the shim's copy and its flag are two steps, and so are the
first byte of the reader's copy and the rest. `product` is what the HID manager is
matched with. The read-back's `since` is history: what the device has held since
the read began.

### PaneShow

The whole injected code runs on the main thread, so each turn of the run loop is
one action, and each function of the code is an operator from screen to screen
(`RenderBattery`, `InjectAbout`, `Perform`, `HideNow`, `Capture`, `Reassert`) that
the actions compose in the order of the calls. `u` is the screen and the code's
memory of it: which view is shown, the row's level, charging mark and visibility,
the Change-Batteries button, the About tab and its label, whose delegate is
guarded, the list's icon and glyph. `front` is the pane in the window; a visit may
rebuild the trackpad's view with the row as Apple likes it. `FindBatteryRow` is
what `find_battery_row` meets in that window: it takes any class whose name holds
"BatteryControl", so in the Bluetooth pane it may be the glyph of our own row in the
list. Which, depends on Apple's nib: the constant `ListGlyph` says whether there is
one, and whether two text fields follow it, without which nothing is painted on it.
In NONE `RenderBattery` hides that glyph; Apple's binding may show it again
(`GlyphBound`). `ours` and `missed` are history: did we paint the row since Apple
built it, and did the view change behind another pane since we did? The presence machine is
Presence's; its edges come as they like, since PrefPane has the real ones.

### BtReader

A connection is numbered by its `gConnId` and has a control and an interrupt
reader. `stage` is the life of a reader, with `stop` in four steps; `slot` is the
callback its channel would call; `gBtControlState` is the splice engine's record.
`ReEnable` and `PollBattery` are the two branches of the timer, `IncomingData`
the frames, `BatteryReply` the control channel's answer through whichever
callback sits in the slot. A new connection may start while the readers of the
last one are anywhere in their teardown.

### BootGuard

`pc` is the place of the script between two commands; every command that writes, reads
or changes the machine is one action, in the script's order. `sentinel` is the file as a
process reads it, `disk` what a crash leaves of it. The script's `echo value > file`
reaches the cache only; `Flush` writes it out at any later time, a restart in good order
at once, and a crash reads the file back from the disk. `panicked` and `interrupted` are
history: whether this build's load panicked the machine since the guard was re-armed,
and then whether the panic found "trying" on the disk; and whether, since the sentinel
was last "ok", a run was cut short or a crash came before that "ok" was on the disk.
Delays are the gaps between actions. The counts taken from `ioreg` are `bt` and `usb`;
what a bounce or a match brings is chosen nondeterministically among the counts the
trackpad's transport allows.

### FrameCodec

Bytes are numbers, and a report is its framing and its 9-byte records. `Decode`,
`voodoo_from_frame`, `frame_from_voodoo` and `construct_report` are the functions
of these names; `Conditioned` and `Holding` are the session once more, now with
coordinates, slots and no settle gate. `OverWire` is what one coordinate goes
through between the two translations. `Parsed`, `Timestamp` and `Clicked` are
external: Apple's CompactV4 parser, as the comments of
`mavericks_amd_construct_report` describe it. An action is a change on the
trackpad (`Touch`, `Lift`, `Press`, `Slide`) followed by the whole path of the
report it causes.

## 3. Runs

| Run | Instance | States | Question |
|---|---|---|---|
| `host` | 2 ids, 2 positions, 2 readers | 3600 | Is the recognizer told one consistent story? |
| `wrap` | 1 reader, clock wraps at 2 | | violation: `GateStaysOpen` |
| `pane` | 2 BT readers, 6 changes | 23846 | Is any removal window stranded or cut, does the screen end on the truth? |
| `link` | 1 BT reader, 4 changes | 136163 | Do yield, quiesce, kick and keeper do their job? |
| `terminal` | Satellite, any termination | 33088 | Does anything leak, is freed memory used, does a stop hang? |
| `unload` | TerminalBackend, any termination | | violation: `UsesLive` |
| `btreader` | 2 connections | 16827 | Do delegates dangle, is the enable retried, is the battery caught? |
| `boot` | 2 recovery tries | 21576 | Does a recorded panic bar the build, and nothing else? |
| `bootloop` | as `boot` | | violation: `NeverReloads` |
| `codec` | 3 contacts, one full rail of each axis, 3 times | 202316 | Is a contact parsed as itself, where it is, when it is? |
| `name` | 3 names, 2 renames, 2 faults, 2 reads | 379521 | Does the device end with the last name, whole, and once? |
| `show` | 1 level, 2 edges, 2 visits, a labelled glyph in the list | 71578 | Is what we paint true, and does it catch up? |

What the passing runs check:

- **host** `RecognizerAgrees`: the recognizer's contacts are the session's
  memory, at the same positions, across frames, flushes and reader changes.
  `StaleReaderHarmless`: a superseded reader neither feeds nor deregisters the
  winner. `ClickHeldByContact`: no phantom drag.
  `WatchdogCovers`, `SilenceLifts`: silence in mid-touch is lifted. `StreamSpec`:
  the refinement of ContactStream.
- **pane** `HoldNeverStranded`, `HoldRunsItsWindow`, `ScreenAgrees`,
  `SettlesOnTruth`.
- **link** `YieldCovers`: a page the cable overtook has its yield queued behind it;
  `QuiescedIsClean`: nothing of the daemon's making is up after the quiesce;
  `KickPromised`; `KeeperReconnects`; `QuiesceTerminates`.
- **terminal** `NothingLeaks`: after any failing step and after a teardown no
  reference, no node is left, and the farewell is posted last. `CallersFindLive`,
  `ReadsOwnWhatTheyUse`, `UsesLiveUnlessPulled`: nobody is inside what is gone. The
  last one, and `StopCompletes`, except the termination that pulls the mux from under
  a reader that delivers, which is the run `unload`.
  `ImplementsBackend`: the refinement of TerminalBackend. `StopCompletes`: no
  deadlock between lock, gates, workloops, hidd and IOKit's deferred stop.
- **btreader** `DelegateNeverDangles`, `SteadyIsMultitouch`, `BecomesSteady`,
  `InterposeRecovers`, `BatteryPublished`.
- **name** `LastPushWins`: the device holds the name pushed last, cut between
  characters, with no tail of an older one. `OnlyRenamesPushed`: the mirror never
  writes a name it found, and none twice. `RenamesPushed`: it forgets none.
  `ReadIsCurrent`.
- **show** `RowHonest`: a row we painted is never empty, and hidden exactly without a
  trackpad and charging only with a cable, unless the view changed behind another
  pane since (`NoTrackpadNoBattery`, section 7). `ViewAndTabFollow`: view and
  machine agree, one About tab at most, a label thought current is current.
  `ScreenCatchesUp`.
- **boot** `RecordedPanicBars`: once a panic has found "trying" on the disk the build
  stays out, whatever crashes, restarts and logins come between.
  `TrippedForCause`: "trying" outlives a run only if the run was cut short, or a
  crash came before its "ok" was on the disk.
  `HalfOpenResolved`: a half-open attach that recovery took up ends.
- **codec** `RecognizedRight`: a finger the event has room for is parsed once, under
  its id, near where it is, and nothing else is parsed as down. `ClickReaches`: the
  report carries the device's button while such a finger touches, and none else. `MotionKept`: a slide
  of one unit never jumps and never goes back. `DeltasSurvive`: timestamps
  advance by the milliseconds that passed, also over both wraps.

### Bounds, and why they are enough

- `MAX_TOUCHES = 2` (16 in the code): a frame can be empty, partly filled and
  full, contacts can be replaced while it is full, and one can lift beside
  another. Ids are treated alike except for their order in `Ended`. The proofs
  hold for any value.
- `Pos` has two values: an end is at the right position or at a wrong one.
- `Sources`: one that is active and one that is not.
- `UptimeWrap = 4, MaxUptime = 1` in `host` keeps the clock short of its wrap, so
  the gate's arithmetic is that of the first 49.7 days; `wrap` lets it wrap.
- `MaxChanges` bounds arrivals and departures, in LinkState also drops and the
  command line. Six let USB leave and return while both Bluetooth readers come
  and go, with merged and stale notifications and two windows open at once. Four
  with one reader let the cable come in mid-page, leave, and the link drop
  again. Run loop, timers and polls are not bounded, so liveness is checked on
  infinite behaviours. The proofs hold for any bound.
- `MaxConns = 2`: the hazards are between one connection and the next. The
  proofs hold for any number.
- `TerminalBackend`, `AmdTerminal`, `UsbReader` and `Satellite` have no bound: one
  life of a mux is finite.
- `NameMirror`: the payload is 3 bytes (63 in the code) and the mirror remembers 5
  (127). The three names are one that fits, one whose cut would split a character
  and one too long to be remembered. Two renames overwrite a longer name by a
  shorter one and the reverse; `MaxFaults = 2` lets a link drop in a write and a
  transition or a relaunch come on top; two reads are what a late reply needs.
  `MaxWire = 1` request is under way at a time: the workloop's gate sends, and the
  device answers, in order. `FactoryName` is what the device holds at first. The
  proofs hold for any names, lengths and bounds.
- `PaneShow`: with one level, a stale level shows as a missing or an empty one.
  `show` has the nib with the most to go wrong; TLC passes it for all three values of
  `ListGlyph`.
  `MaxEdges = 2` allows an arrival and a departure, and a switch of transport;
  `MaxVisits = 2` allows away and back. Ticks, timers and reads are unbounded. The
  proofs hold for any levels and bounds.
- `RECOVER_TRIES = 2` (3 in the code): one attempt fails before another succeeds,
  and all fail. The proofs hold for any number. Nothing else is bounded in
  BootGuard.
- `FrameCodec`: the event has room for 2 contacts and the device for 3, so frames
  fit, fill and overflow it. One finger (`Sliders`) slides through all 8192 raw
  values of each coordinate, along one `Rails` line; the next finger comes down
  only on one of two `Spots`. The ids 6, 9 and 15 fill the low and the high bits
  of the id differently. `Uptimes` are three times, one before the timestamp's
  wrap at 2^22, one at it, and one past the wrap of an uptime shortened to 2^23.
  The theorems hold for every coordinate, time and capacity.

`CHECK_DEADLOCK FALSE` is set where the system really stops: the daemon exits,
the mux is stopped, the last connection is torn down.

## 4. Fairness

- `TouchHost`: the watchdog's timer expires and its callback gets the lock.
  Nothing obliges a device to send.
- `PrefPane`: the run loop serves its port, timers fire, the 2 s tick repeats.
- `LinkState`: the run loop and the queue run; a page is answered or times out
  (`openConnection` returns); strong fairness of `PageAnswered` says that a
  trackpad paged again and again is at last in range. Without it no keeper could
  reconnect anything.
- `Satellite`: a handler that entered runs to its end, hidd comes out of a stub it is
  in, a build or a stop that began goes on, IOKit's stop of the AMD included. Nothing
  obliges anyone to begin one.
- `NameMirror`: the 1.5 s tick goes on, a call under way returns, the device takes
  what it is sent, a transition ends, and a dropped link comes back, which is what
  `KeeperReconnects` says of the daemon.
- `PaneShow`: the two ticks repeat and the main queue is drained. Apple's timer, the
  edges and the user need not do anything.
- `BtReader`: IOKit matches and terminates, timers fire, a streaming trackpad is
  touched. Strong fairness of the successful `ReEnable` says that a device asked
  again and again at last obeys; a connection may drop at any time, which every
  property allows for. Nothing says that the interrupt channel (PSM 19) opens:
  `dist/voodooinputmavericks-run:46-48` describes connections where it does not, and
  `BecomesSteady` and `BatteryPublished` ask nothing of those; BootGuard has what
  becomes of them.
- `BootGuard`: the script runs on. Nobody needs to log in, to install or to touch
  the trackpad.
- `FrameCodec`: none; it has no liveness property.

## 5. Proofs

All theorems are of the form `Spec => ...` for arbitrary constants under the
named assumptions of the modules, which TLC evaluates in the runs.

**TouchHost_proof.** `EveryVanishedContactEnds` is a cardinality argument about
`Ended`: the contacts present and those that vanished before a given one are
distinct ids other than it, so fewer than `MAX_TOUCHES`, and the append guard
never drops an end. With it `FrameCases` and `FlushCases` describe what a frame
or a flush delivers, and `HostInv` is inductive: types, the recognizer equals the
session's memory, sink and source agree, a click is held exactly while a press is
remembered, and the watchdog covers. Each safety property of the run follows;
`StaleReadersAreHarmless` is an action property of the same invariant, by cases on
who calls; and `HostImplementsStream` shows each step a step of ContactStream or a
stutter.

**Presence_proof.** The observer first. `HoldNeverStranded` is not inductive: it
needs that the pending timers carry strictly increasing generations, none above
`gen` (`HoldsOrdered`). Then the newest timer is last, an older one finds
`my # gen`, and a window ends only by its own timer (`WindowRunsFull`).
The pane: every step of it is a step of the observer (`PaneImplementsObserver`), so
the observer's theorems hold of it; `PaneInv` adds that the screen follows the
machine. The daemon: `LinkInv` is the observer's invariant, the daemon's types,
`Terminating` (`g_terminating` exactly from the quiesce on) and the three safety
properties. It is not a plain refinement of ObserverSpec, because its other
environment actions use up the same bound `changes`; the proof shows directly that
its steps preserve the observer's invariant (`LinkKeepsObserver`). `YieldCovers`
holds because the machine enters USB only by the edge that queues the yield
(`UsbOnlyByEdge`), and the queue is FIFO (`AppendKeepsQueued`, `TailKeepsQueued`).

**BtReader_proof.** `ReaderInv` is the types, `Steadiness` and `StopInv`. The
latter has five parts the safety properties do not mention: connections above
`gConnId` are untouched, a slot holds only callbacks of its own kind, an armed
timer has a reader, one reader is being stopped at a time, and between restore
and forget the interposed channel is known and nothing is installed.
`NoDanglingDelegate` settles a doubt voiced in `MT2BTReader.cpp:297-300`: the
restore at a stop cannot leave `controlData` on a freed reader, because
`teardownInGate` empties the slot first and the restore then finds that it is
no longer its own.

**Satellite_proof.** `AmdInv` says, step by step, what the terminal owns, which node
exists and who may be inside: `NothingLeaks` speaks only of the two ends of the
life and is not inductive without it. From `built` on the node belongs to IOKit:
it is published, inactive or gone there, and gone throughout the teardown, so hidd,
whom the AMD's stop has waited for, is out before the context is freed. `UsbInv`
does the same for the reader's stages. Both are proved of the parts alone
(`AmdPreserves`, `UsbPreserves`); then every step of the satellite is shown to be a
step of each part or to leave it alone (`PartsStep`), so the theorems about the
satellite follow without looking at the backend. `SatelliteImplementsBackend` goes
the other way: under `AmdInv` every step is a step of TerminalBackend with
`ContextOf` as its AMD, or a stutter of it. `SatelliteUsesLive` needs no assumption
on constants either: `HostInv`, which says where each thread may be while each piece
of memory is alive, holds in every state that is not `pulled`; once pulled, always
pulled (`StaysPulled`), and a reader not pulled has no read left when it is stopped
(`ReadEnds`). The run `unload` shows what happens to the rest.

**NameMirror_proof.** Three invariants, one for each property. `MirrorOK`: an alias
that differs from the baseline, and that the baseline could remember, is one the
user gave since, and a write under way is of such an alias. `PushOK`: what is still
on the wire, applied to what the device holds, leaves the name pushed last;
`Padded` fills all of the payload, so no tail of an older name can stay. `ReadOK`
follows a read that began with no reply outstanding through its stages (`Sought`,
`Returning`, `Captured`, `Settled`): the one reply it can meet is its own. That the
cut of a name is a whole part of it, and the longest, is arithmetic over every
sequence of bytes; where the least of a set of numbers is needed it comes from the
well-founded order of the naturals (`LeastNat`, by `WFMin`).

**PaneShow_proof.** `ShowOK` says what holds of the screen between two turns of the
run loop: the view shown is the machine's (`ViewOK`), the strip and its label
(`TabOK`), the row, its level and its charging mark (`RowOK`). Each function of the
code from screen to screen has a lemma, each action composes them. The row's part
is not inductive without the memory behind it: that a level is known, and, while the
row is `AsLeft` (ours, and nothing missed since), that `gBattPainted` remembers it
and that a charging mark is left only where a cable is or is being replaced. `Held`
says how `ours` and `missed` follow a render, and holds for any nib.

**BootGuard_proof.** No assumption on when the cache is written. `RecordedPanicBars`
needs that after a recorded panic the sentinel is "trying" both in the file and on
the disk until `Reset` or `InstallEnds`, because a wrapper stops at it before it arms
or confirms anything; and that no wrapper is then past the guard. `SentinelInv` says
so, and that "trying" on the disk under a file that says "ok" is the only way a
crash can bring a tripped guard back (`GuardTripsForCause`).

**FrameCodec_proof.** The lemmas follow a coordinate along its path: a record
decodes to what it was packed from (`RecordDecoded`), the event's two rescalings
cancel over the spans the readers advertise (`WireIsExact`), the scale to the
other trackpad errs by less than a unit (`XIsNear`, `YIsNear`), an encoded contact
parses to its id and position (`EncodedParsed`), and together `PositionSurvives`.
`ClockKeepsTime` proves `DeltasSurvive` of the specification: 2^22 divides the
uptime's wrap, so cutting the wrapped uptime to 22 bits is cutting the true one
(`WrapHidden`), and the invariant is that the last report carries the low 22 bits
of `fed_at`.

The second half follows a frame. `NthFacts` relates slots and ranks: of a set of slots
`Nth` picks each exactly once, in their order; so the kept contacts are those with a
finger, each once (`FrameTrip`, `PresentTrip`), and they come first in the session's
output, before ends that fill at most the sixteen slots (`EnteredThenEnds`). `FedInv` is
inductive: the device's ids are distinct (`DeviceOK`), and the session holds a contact
exactly while the event carries a finger, in which case the last report is a report of
these fingers in order followed by ends, and otherwise a lift of all with the button up
(`FedOK`). What the event carries of the device is `Seen`, for any number of contacts.
From it follow `ClicksReach`; `FingersRecognized`, where ids being distinct makes the
parsed contacts distinct; and `MotionFollows`, because a lone finger moves at most a
unit (`LoneStep`) and two scaled positions less than a unit off, of places a unit apart
or clamped to the same edge, are at most a unit apart and in order (`XMoves`, `YMoves`).
`BytesFit` is the type invariant: whatever the session holds came out of an event, so
its coordinates and its id fit their bits (`FieldsOK`), and no field of the report
spills into its neighbour (`EncodedBytes`). The capacity of the event is any from 1 to
16, and times, ids and places are any the device can send.

**What the proofs changed in the models.** `ContextOf` of Satellite had overlapping
CASE arms, of which TLC takes the first and a proof may take any: it is now nested
IF. `Present` and `Ends` of FrameCodec pick slots with `Nth` instead of SelectSeq and
a sorted set, and the names of NameMirror are any sequences of bytes instead of the
run's; the runs reach the same states as before.

**Only model-checked.** Liveness (every `~>` and `<>[]`), and with it everything
that uses ENABLED: `SilenceLifts`, `SettlesOnTruth`, `KeeperReconnects`,
`QuiesceTerminates`, `BecomesSteady`, `InterposeRecovers`, `BatteryPublished`,
`HalfOpenResolved`, `StopCompletes`, `RenamesPushed`, `ScreenCatchesUp`. The violation
runs are counterexamples of TLC's. Every other property of a passing run is a
theorem. Facts by induction over data (what a recursive function computes for every
input) are not attempted; no module has a RECURSIVE operator.

## 6. Assumptions behind the models

- One paired trackpad, one mux per interrupt or USB reader. The device reports an
  id at most once per frame.
- IOKit: one termination thread; what is attached below a terminated object is made
  inactive at once and stopped before it; `willTerminate` is called for the end of a
  provider, not on the object that is terminated itself; a notification is posted once
  until its iterator is drained.
- `TerminalBackend`, `Satellite`: USB's Abort waits in the workloop's gate for the
  completion under way; a Bluetooth link closes between two deliveries; removing a
  timer waits for its callback; the AMD's stop comes when hidd's calls have returned,
  and an inactive device admits none. A mux matches a USB reader that
  has called registerService. The mux's own memory and a failing start of the mux
  are left out.
- `NameMirror`: the control channel carries requests and replies in order; the device
  overwrites its name from the front with what it is sent; clearing the alias may
  fail; a call on the freed channel reports either result.
- `PaneShow`: Apple keeps one Trackpad pane; its controller exists with the trackpad
  view; another pane in front may have a tab strip with a delegate; the trackpad's row
  in the Bluetooth list carries its name; System Preferences keeps a pane's views
  between two visits or rebuilds them; the other panes have no battery control. Levels a
  read gives are not stale.
- `BtReader`: the Bluetooth workloop serialises setup, frames, replies, the timer
  and the command gate; a channel whose link is down delivers nothing. The result
  of `waitForChannelState` is ignored by the code and so by the model. How many
  enables go out at 250 ms before the pace drops to 1 s is abstracted.
- `BootGuard`: writing the file never fails, and neither does `kextunload`; a
  sentinel that is missing reads as "ok"; `--reset` is used only after the guard
  tripped; a panic counts as the kext's in the settle window; a restart in good
  order waits for an installation to end.
- `FrameCodec`: the device's reports are well-formed or refused as a whole; the
  ellipse, the orientation, the width and the finger type are left out. Of a
  device that holds more contacts than the event takes, the properties speak of the
  fingers among the records that fit; the others are lost, with their click.

## 7. Findings

Each is a violation run in which the code disagrees with what the repository says
of it; `PROJECT.json` quotes the lines.

1. `wrap`: with `MAVERICKS_SETTLE_MS` 0 the settle gate still compares absolute
   32-bit uptimes. After the wrap every frame is dropped until the clock catches
   up. The live path connects its session once, so nothing re-opens the gate.
2. `unload`: `MavericksTerminalBackend::stop` relies on a fence its caller does
   not lower. Exposed is a mux stopped from under a reader that delivers, on either
   transport: an unload of the kext terminates the reader itself, whose
   `willTerminate` is then not called, and the USB reader too gives up its interface
   only in `stop`. The documented install path avoids that by staging and rebooting
   (`docs/how-to.md`, `docs/decisions.md`); the wrapper's own `kextunload` (line 70)
   does not.
3. `bootloop`: the header of the wrapper says "we never get a boot-crash loop", but the
   sentinel is echoed and the kext loaded at once, with no `sync`. A panic before the
   cache reached the disk leaves "ok" there, and the next login loads the build again.
   The other way round, a crash soon after a confirmed load may find "trying" and trip
   the guard, although line 18 says it means a boot "never confirmed healthy".

Met on the way, by checking or by reading, and kept without a run of their own. The
first three have a property each, which TLC refutes when it is added to the cfg of
the run (`AboutIsGuarded` and `NoTrackpadNoBattery` to `MCPaneShow.cfg`,
`FeedMeetsLive` to `MCSatellite.cfg`):

- `AboutIsGuarded`: the About tab's delegate swizzle is installed once, for the class of
  the first strip's delegate, and the strip is looked for in whatever pane is in front.
  A trackpad that arrives while another pane with a tab strip is shown, after the
  Trackpad pane was captured without one, puts the tab and the swizzle there; the
  Trackpad pane's own About tab is then unguarded, which the comment at line 678 says
  crashes the pane's delegate.
- `NoTrackpadNoBattery`: `mavericks_render_battery` forgets that it painted the row
  (line 344) even when the window it searched was another pane's, so a trackpad that
  leaves while another pane is in front leaves its battery in the Trackpad pane, which
  the comment at line 329 rules out.
- `FeedMeetsLive`: "no frame reaches a not-ready / tearing-down AMD" holds of the
  backend's own teardown only. IOKit has terminated and stopped the AMD before the mux
  is stopped, and until then an idle tick armed by the last frame still feeds it. The
  object is retained, so nothing freed is used (`CallersFindLive`).
- The daemon reconciles only at launch, so the presence machine can rest in NONE,
  or on a transport that is gone, after merged or superseded edges; the keeper may
  then page a trackpad that is on the cable (if USB stays enumerated while a
  Bluetooth reader comes and goes), which `mt2_reconnect_policy.h:8` rules out.
- Any reader's stop forgets `gBtBackend`, also the next connection's, and nothing
  looks it up again before the next reconnect. `BatteryPublished` shows the
  condition under which it works: the older readers are gone before the new
  interrupt reader finds its mux.
- Names: an alias of 128 bytes or more whose clearing fails is written again at
  every tick, because the mirror compares it with its shortened copy; a rename
  pending when System Preferences quits is never mirrored, because the next launch
  takes it for the baseline; a write reported as a success is lost if the link drops
  before the device has it; after a read that timed out the next read may return its
  late reply.
- Pane: in NONE with the Bluetooth pane in front the battery glyph of our row in the
  list is hidden, and nothing of ours shows it again (`GlyphBound` is Apple's); the
  delegate swizzle is skipped for a strip without a delegate, the tab is
  added all the same; an update hint longer than `gAboutVer` is compared with its
  shortened copy; the rows of a renamed trackpad get neither icon nor glyph.
- A watchdog callback in flight behind the lock lifts contacts that a frame has just
  reported (they restart with the next frame); the click mask counts ending contacts
  as fingers; the 2 s poll can blank the pane without a removal window when it runs
  between a termination and the handling of its edge; the finger number in an AMD
  record is the slot modulo 5, so it changes when a lower slot lifts and repeats
  past five contacts; and `src/mavericks_amd_terminal_encode.h:7-14` still describes
  the timestamp layout of hid-magicmouse, which the encoder no longer uses.

## 8. What is left

Order followed: the input path, then what decides which transport is live, then
lifetimes, then the two preference-pane modules and the composition of the terminal.

Worth doing next:

1. Proofs: type correctness as a theorem for the modules that have it only inside
   their invariants.
2. NameMirror over BtReader's connections instead of a channel of its own, and
   PaneShow over PresenceObserver's merged notifications.
3. A failing start of the mux; an unload under a live link in BtReader, whose stops
   begin when the link is down.

Not modelled: what the AMD and its shell carry in their property dictionaries and
the values of the register table; the pane's battery override, update checkbox and
hint text, the updater's launch, the view-tree dump; sysctls, counters and logs; the
simulator side of VoodooInput, never reached on 10.9; constant reports and
single-field readers; probes, traces, reverse-engineering tools, build and CI; and
the dormant pieces of section 1 other than the host nub.
