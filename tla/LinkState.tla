----------------------------- MODULE LinkState ------------------------------
(***************************************************************************)
(* The link-state daemon (tools/mt2_linkstated.m) as a consumer of the     *)
(* presence observer: a keeper that pages the trackpad over Bluetooth      *)
(* while it is disconnected, a yield that drops the link when a cable      *)
(* brings USB up, a kick of hidd for the new USB device, and a quiesce     *)
(* that leaves the controller clean for a restart.                         *)
(*                                                                         *)
(* Two threads: the main run loop (observer, timers, signals, power) and   *)
(* the serial paging queue, on which openConnection blocks for seconds.    *)
(* One paired trackpad; its baseband link, its readers and the one-shot    *)
(* command-line modes are the environment.                                 *)
(***************************************************************************)
EXTENDS PresenceObserver

VARIABLES link,      \* who opened the baseband link: "none" when it is down
          jobs,      \* blocks waiting on reconnect_queue()
          timer,     \* is g_reconnect_timer running?
          pager,     \* the block on the queue: idle, chosen, paging
          main,      \* the run loop: running, draining, quiesced, exited
          g_terminating,
          kicks,     \* kick_hidd blocks waiting out KICK_DELAY_SEC
          gestures,  \* has hidd the frames client of this USB device open?
          cli        \* a one-shot mt2_linkstated: off, or blocked in a page

daemon == <<jobs, timer, pager, main, g_terminating, kicks>>
vars == <<observer, link, daemon, gestures, cli>>

Openers == {"device", "keeper", "cli"}
Pages == {"timer", "usb-remove"}

LinkTypeOK ==
  /\ TypeOK
  /\ link \in {"none"} \union Openers
  /\ jobs \in Seq(Pages \union {"yield", "barrier"})
  /\ \A i, j \in 1..Len(jobs) : jobs[i] = "timer" /\ jobs[j] = "timer" => i = j
  /\ timer \in BOOLEAN
  /\ pager \in {"idle", "chosen", "paging"}
  /\ main \in {"running", "draining-sigterm", "draining-power", "quiesced", "exited"}
  /\ g_terminating \in BOOLEAN
  /\ kicks \in Nat
  /\ gestures \in BOOLEAN
  /\ cli \in {"off", "paging"}

Queued(job) == \E i \in 1..Len(jobs) : jobs[i] = job

---------------------------------------------------------------------------
(* The environment: readers, the device's own side of the link, the CLI *)

UsbArrives == /\ UsbReaderStarts
              /\ gestures' = FALSE
              /\ UNCHANGED <<link, daemon, cli>>

UsbLeaves == UsbReaderTerminates /\ UNCHANGED <<link, daemon, gestures, cli>>

BtArrives(r) == /\ link # "none"
                /\ BtReaderStarts(r)
                /\ UNCHANGED <<link, daemon, gestures, cli>>

BtLeaves(r) == BtReaderTerminates(r) /\ UNCHANGED <<link, daemon, gestures, cli>>

\* Only a device that is not on the cable connects by itself.
DeviceConnects == /\ link = "none" /\ ~usb
                  /\ Change
                  /\ link' = "device"
                  /\ UNCHANGED <<usb, bt, inbox, machine, daemon, gestures, cli>>

DeviceDrops == /\ link # "none"
               /\ Change
               /\ link' = "none"
               /\ UNCHANGED <<usb, bt, inbox, machine, daemon, gestures, cli>>

(* --bounce-once closes and reopens, --wake-once and --reconnect-once page *)
(* a device that is down; they have no observer and so no USB gate.        *)
CliPages == /\ cli = "off"
            /\ Change
            /\ cli' = "paging"
            /\ link' = "none"
            /\ UNCHANGED <<usb, bt, inbox, machine, daemon, gestures>>

CliDisconnects == /\ cli = "off"
                  /\ Change
                  /\ link' = "none"
                  /\ UNCHANGED <<usb, bt, inbox, machine, daemon, gestures, cli>>

CliPageEnds == /\ cli = "paging"
               /\ cli' = "off"
               /\ link' \in IF link = "none" THEN {"none", "cli"} ELSE {link}
               /\ UNCHANGED <<observer, daemon, gestures>>

---------------------------------------------------------------------------
(* The main run loop *)

Serving == main \in {"running", "quiesced"}

\* Mutant: the yield runs on the main thread, beside the paging queue.
OnPresenceYieldsAtOnce(event) ==
  /\ jobs' = IF event = "USB_REMOVE" THEN Append(jobs, "usb-remove") ELSE jobs
  /\ kicks' = IF event = "USB_APPEAR" THEN kicks + 1 ELSE kicks
  /\ link' = IF event = "USB_APPEAR" THEN "none" ELSE link

\* Mutant: the callback keys on the machine's action, so a no-op edge does nothing.
OnPresenceByAction(event) ==
  /\ jobs' = CASE EdgeReported = "START_HOLD" -> Append(jobs, "usb-remove")
               [] EdgeReported = "ON_USB" -> Append(jobs, "yield")
               [] OTHER -> jobs
  /\ kicks' = IF EdgeReported = "ON_USB" THEN kicks + 1 ELSE kicks
  /\ UNCHANGED link

(* on_presence looks at the raw event, not at the action: a removal of USB *)
(* wakes Bluetooth; its appearance yields behind whatever is on the paging *)
(* queue and kicks hidd a second later.                                    *)
OnPresence(event) ==
  /\ jobs' = CASE event = "USB_REMOVE" -> Append(jobs, "usb-remove")
               [] event = "USB_APPEAR" -> Append(jobs, "yield")
               [] OTHER -> jobs
  /\ kicks' = IF event = "USB_APPEAR" THEN kicks + 1 ELSE kicks
  /\ UNCHANGED link

DaemonEdge == /\ Serving
              /\ Edge
              /\ OnPresence(Head(inbox))
              /\ UNCHANGED <<timer, pager, main, g_terminating, gestures, cli>>

DaemonHoldFires == /\ Serving
                   /\ HoldFires
                   /\ UNCHANGED <<link, daemon, gestures, cli>>

KickFires == /\ Serving
             /\ kicks > 0
             /\ kicks' = kicks - 1
             /\ gestures' = IF g_terminating THEN gestures ELSE TRUE
             /\ UNCHANGED <<observer, link, jobs, timer, pager, main, g_terminating, cli>>

(* quiesce_for_shutdown, up to its dispatch_sync: from here the main       *)
(* thread serves nothing until the paging queue reaches the barrier.       *)
QuiesceBegins(draining) ==
  /\ main = "running"
  /\ g_terminating' = TRUE
  /\ timer' = FALSE
  /\ jobs' = Append(jobs, "barrier")
  /\ main' = draining
  /\ UNCHANGED <<observer, link, pager, kicks, gestures, cli>>

\* Mutant: quiesce goes through the guarded disconnect_matched.
DisconnectUnlessTerminating == link' = IF g_terminating THEN link ELSE "none"

do_disconnect_mt2 == link' = "none"

\* SIGTERM then ends the process; the power callback returns to the run loop.
QuiesceEnds ==
  /\ main \in {"draining-sigterm", "draining-power"}
  /\ pager = "idle" /\ jobs # <<>> /\ Head(jobs) = "barrier"
  /\ jobs' = Tail(jobs)
  /\ do_disconnect_mt2
  /\ main' = IF main = "draining-sigterm" THEN "exited" ELSE "quiesced"
  /\ UNCHANGED <<observer, timer, pager, g_terminating, kicks, gestures, cli>>

\* A SIGTERM after the power callback has quiesced only stops the run loop.
LateSigterm == /\ main = "quiesced"
               /\ main' = "exited"
               /\ UNCHANGED <<observer, link, jobs, timer, pager, g_terminating,
                              kicks, gestures, cli>>

---------------------------------------------------------------------------
(* The paging queue *)

Working == main # "exited" /\ pager = "idle" /\ jobs # <<>>

\* Mutant: the timer is armed for one firing and never again.
TimerFiresOnce == /\ timer /\ ~Queued("timer")
                  /\ jobs' = Append(jobs, "timer")
                  /\ timer' = FALSE
                  /\ UNCHANGED <<observer, link, pager, main, g_terminating,
                                 kicks, gestures, cli>>

\* The timer source keeps at most one firing waiting.
TimerFires == /\ timer /\ ~Queued("timer")
              /\ jobs' = Append(jobs, "timer")
              /\ UNCHANGED <<observer, link, timer, pager, main, g_terminating,
                             kicks, gestures, cli>>

\* reconnect_matched up to the loop: g_terminating, then usb_present once.
MayPage == ~g_terminating /\ state # "USB"

\* Mutant: the block asks the main thread for the observer's state, and waits for it.
StartPageAskingMain ==
  /\ Working /\ Head(jobs) \in Pages /\ Serving
  /\ jobs' = Tail(jobs)
  /\ pager' = IF MayPage THEN "chosen" ELSE "idle"
  /\ UNCHANGED <<observer, link, timer, main, g_terminating, kicks, gestures, cli>>

StartPage ==
  /\ Working /\ Head(jobs) \in Pages
  /\ jobs' = Tail(jobs)
  /\ pager' = IF MayPage THEN "chosen" ELSE "idle"
  /\ UNCHANGED <<observer, link, timer, main, g_terminating, kicks, gestures, cli>>

\* mt2_reconnect_should_page asks isConnected, then openConnection blocks.
OpenConnection ==
  /\ main # "exited" /\ pager = "chosen"
  /\ pager' = IF link = "none" THEN "paging" ELSE "idle"
  /\ UNCHANGED <<observer, link, jobs, timer, main, g_terminating, kicks, gestures, cli>>

PageAnswered ==
  /\ main # "exited" /\ pager = "paging"
  /\ pager' = "idle"
  /\ link' = IF link = "none" THEN "keeper" ELSE link
  /\ UNCHANGED <<observer, jobs, timer, main, g_terminating, kicks, gestures, cli>>

PageTimesOut ==
  /\ main # "exited" /\ pager = "paging"
  /\ pager' = "idle"
  /\ UNCHANGED <<observer, link, jobs, timer, main, g_terminating, kicks, gestures, cli>>

\* disconnect_matched, the guarded one
Yield ==
  /\ Working /\ Head(jobs) = "yield"
  /\ jobs' = Tail(jobs)
  /\ IF g_terminating THEN UNCHANGED link ELSE do_disconnect_mt2
  /\ UNCHANGED <<observer, timer, pager, main, g_terminating, kicks, gestures, cli>>

---------------------------------------------------------------------------
(* At launch a link may be up with readers on it, or the cable be in; a    *)
(* USB device present at launch has its frames client (won on load).       *)
Init ==
  /\ ObserverInit
  /\ link \in {"none", "device"}
  /\ (bt # {}) = (link = "device")
  /\ ~(usb /\ link = "device")
  /\ jobs = <<>> /\ timer = TRUE /\ pager = "idle"
  /\ main = "running" /\ g_terminating = FALSE
  /\ kicks = 0 /\ gestures = TRUE /\ cli = "off"

Queue == TimerFires \/ StartPage \/ OpenConnection \/ PageAnswered \/ PageTimesOut \/ Yield

Main == DaemonEdge \/ DaemonHoldFires \/ KickFires \/ QuiesceEnds \/ LateSigterm
        \/ \E d \in {"draining-sigterm", "draining-power"} : QuiesceBegins(d)

Environment == UsbArrives \/ UsbLeaves \/ DeviceConnects \/ DeviceDrops
               \/ CliPages \/ CliDisconnects \/ CliPageEnds
               \/ \E r \in BtReaders : BtArrives(r) \/ BtLeaves(r)

Next == Queue \/ Main \/ Environment

Spec == Init /\ [][Next]_vars

(* The threads of the daemon run, a page ends one way or the other, and a  *)
(* trackpad paged again and again is at last in range.                     *)
FairSpec ==
  /\ Spec
  /\ WF_vars(DaemonEdge) /\ WF_vars(DaemonHoldFires) /\ WF_vars(KickFires)
  /\ WF_vars(QuiesceEnds)
  /\ WF_vars(TimerFires) /\ WF_vars(StartPage) /\ WF_vars(OpenConnection)
  /\ WF_vars(Yield) /\ WF_vars(PageAnswered \/ PageTimesOut) /\ SF_vars(PageAnswered)

---------------------------------------------------------------------------
(* Properties *)

(* While the daemon knows the trackpad is on USB, a page of its own that   *)
(* is still under way, or a link such a page opened, has the yield queued  *)
(* behind it (the comment on on_presence: the yield "runs AFTER any        *)
(* in-flight page").                                                       *)
YieldCovers ==
  main = "running" /\ state = "USB" /\ (pager # "idle" \/ link = "keeper")
    => Queued("yield")

(* Once quiesce is done the daemon has no page under way and no link of    *)
(* its making is up, whatever was on the paging queue when the shutdown    *)
(* began (the comment on quiesce_for_shutdown: a live link hangs the boot).*)
QuiescedIsClean ==
  main \in {"quiesced", "exited"} => pager = "idle" /\ link # "keeper"

(* Every arrival of USB is promised a kick of hidd, also one whose         *)
(* notification was merged with an earlier one or changed nothing in the   *)
(* presence machine.                                                       *)
KickPromised ==
  usb /\ ~gestures /\ main = "running" => Pending("USB_APPEAR") \/ kicks > 0

(* The keeper brings a dropped link back as long as it is not told of USB  *)
(* and not shut down.                                                      *)
KeeperReconnects ==
  link = "none" ~> (link # "none" \/ state = "USB" \/ g_terminating)

(* A quiesce begun ends, though the queue it waits for is fed by two       *)
(* triggers and its page blocks.                                           *)
QuiesceTerminates == g_terminating ~> main \in {"quiesced", "exited"}

=============================================================================
