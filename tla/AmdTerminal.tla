----------------------------- MODULE AmdTerminal -----------------------------
(***************************************************************************)
(* The fabricated AppleMultitouchDevice (AMD) of one terminal backend:     *)
(* mavericks_amd_terminal_build with a failure possible at every step, the *)
(* ordered teardown, and who calls in meanwhile (MavericksAMDTerminal.cpp, *)
(* mavericks_synth_teardown.c).  Build and teardown run on the backend's   *)
(* start/stop thread; hidd calls the report stubs, whose target is the     *)
(* context, once the AMD is published; the AMD's workloop fires the bezel  *)
(* timer.  The steps of a fallible call and of its cleanup are one action, *)
(* since nobody else can reach the objects before registerService.  AMD    *)
(* and shell are attached below the mux, so it is IOKit that terminates    *)
(* them, before the mux is stopped and with it the terminal torn down:     *)
(* the teardown finds both stopped and has the references to give up.      *)
(***************************************************************************)
EXTENDS Integers

VARIABLES
    step,      \* where build or teardown stands
    refs,      \* the references the terminal owns, by object
    device,    \* the AMD's node: absent, made, attached, started, published,
               \* inactive (terminated, not yet stopped), gone
    shell,     \* the HID shell's node: absent, started, gone
    ready,     \* the feed fence
    bezel,     \* the connect timer: absent, armed, firing, spent
    calling,   \* is hidd inside a report stub?
    osd        \* what was last posted for BezelServices: nothing, Connected, Disconnected

amdVars == <<step, refs, device, shell, ready, bezel, calling, osd>>

Objects == {"context", "shell", "amd", "workloop", "timer"}
None == [o \in Objects |-> 0]

Building == {"shell", "device", "init", "attach", "start", "publish", "retain", "bezel",
             "raise"}
TearingDown == {"farewell", "fence", "endshell", "terminate", "release", "unloop", "free"}

AmdTypeOK ==
    /\ step \in {"unbuilt", "failed", "built", "torn"} \cup Building \cup TearingDown
    /\ refs \in [Objects -> 0 .. 1]
    /\ device \in {"absent", "made", "attached", "started", "published", "inactive", "gone"}
    /\ shell \in {"absent", "started", "gone"}
    /\ ready \in BOOLEAN /\ calling \in BOOLEAN
    /\ bezel \in {"absent", "armed", "firing", "spent"}
    /\ osd \in {"nothing", "Connected", "Disconnected"}

Step(from, to) == step = from /\ step' = to
Gain(o) == refs' = [refs EXCEPT ![o] = @ + 1]
Drop(o) == refs' = [refs EXCEPT ![o] = @ - 1]

-----------------------------------------------------------------------------
(* The build                                                               *)

AllocContext ==
    /\ \/ Step("unbuilt", "shell") /\ Gain("context")
       \/ Step("unbuilt", "failed") /\ UNCHANGED refs
    /\ UNCHANGED <<device, shell, ready, bezel, calling, osd>>

(* The shell is best effort: one that cannot be allocated, initialised,    *)
(* attached or started is released and forgotten, and the build goes on.   *)
StartShell ==
    /\ Step("shell", "device")
    /\ \/ shell' = "started" /\ Gain("shell")
       \/ UNCHANGED <<shell, refs>>
    /\ UNCHANGED <<device, ready, bezel, calling, osd>>

(* Mutant: the shell that did start is left behind under the nub.          *)
AbandonWithoutShell(o) ==
    /\ step' = "failed"
    /\ refs' = [refs EXCEPT !["context"] = @ - 1, !["amd"] = @ - o]
    /\ device' = IF device = "absent" THEN device ELSE "gone"
    /\ UNCHANGED <<shell, ready, bezel, calling, osd>>

(* The cleanup every failing step repeats: release the device if it was    *)
(* made (o of our references to it, after a detach if it was attached),    *)
(* end the shell if there is one, free the context.                        *)
Abandon(o) ==
    /\ step' = "failed"
    /\ refs' = [refs EXCEPT !["context"] = @ - 1, !["amd"] = @ - o,
                            !["shell"] = IF shell = "started" THEN @ - 1 ELSE @]
    /\ device' = IF device = "absent" THEN device ELSE "gone"
    /\ shell' = IF shell = "started" THEN "gone" ELSE shell
    /\ UNCHANGED <<ready, bezel, calling, osd>>

AllocDevice ==
    \/ /\ Step("device", "init") /\ Gain("amd") /\ device' = "made"
       /\ UNCHANGED <<shell, ready, bezel, calling, osd>>
    \/ step = "device" /\ Abandon(0)

(* The property dictionary, init and the report handlers.                  *)
InitDevice ==
    \/ Step("init", "attach") /\ UNCHANGED <<refs, device, shell, ready, bezel, calling, osd>>
    \/ step = "init" /\ Abandon(1)

AttachDevice ==
    \/ /\ Step("attach", "start") /\ device' = "attached"
       /\ UNCHANGED <<refs, shell, ready, bezel, calling, osd>>
    \/ step = "attach" /\ Abandon(1)

StartDevice ==
    \/ /\ Step("start", "publish") /\ device' = "started"
       /\ UNCHANGED <<refs, shell, ready, bezel, calling, osd>>
    \/ step = "start" /\ Abandon(1)

(* What hidd needs to adopt the device is set before registerService.      *)
PublishDevice ==
    /\ Step("publish", "retain")
    /\ device' = "published"
    /\ UNCHANGED <<refs, shell, ready, bezel, calling, osd>>

RetainWorkLoop ==
    /\ Step("retain", "bezel")
    /\ Gain("workloop") \/ UNCHANGED refs
    /\ UNCHANGED <<device, shell, ready, bezel, calling, osd>>

(* Without a workloop there is no timer, and making one may fail.          *)
ArmBezel ==
    /\ Step("bezel", "raise")
    /\ \/ refs["workloop"] = 1 /\ Gain("timer") /\ bezel' = "armed"
       \/ UNCHANGED <<refs, bezel>>
    /\ UNCHANGED <<device, shell, ready, calling, osd>>

RaiseFence ==
    /\ Step("raise", "built")
    /\ ready' = TRUE
    /\ UNCHANGED <<refs, device, shell, bezel, calling, osd>>

-----------------------------------------------------------------------------
(* Who calls in                                                            *)

(* hidd asks one of the stubs, which read and write the context's register *)
(* table; a terminated device lets no new call in.                         *)
HiddCalls ==
    /\ device = "published" /\ ~calling
    /\ calling' = TRUE
    /\ UNCHANGED <<step, refs, device, shell, ready, bezel, osd>>

(* Mutant: the enable stub takes the enable for the feed fence.            *)
HiddAnsweredFences ==
    /\ calling
    /\ calling' = FALSE
    /\ ready' \in BOOLEAN
    /\ UNCHANGED <<step, refs, device, shell, bezel, osd>>

HiddAnswered ==
    /\ calling
    /\ calling' = FALSE
    /\ UNCHANGED <<step, refs, device, shell, ready, bezel, osd>>

BezelFires ==
    /\ bezel = "armed"
    /\ bezel' = "firing"
    /\ UNCHANGED <<step, refs, device, shell, ready, calling, osd>>

(* mavericks_bezel_connect_fired                                           *)
BezelConnects ==
    /\ bezel = "firing"
    /\ bezel' = "spent" /\ osd' = "Connected"
    /\ UNCHANGED <<step, refs, device, shell, ready, calling>>

-----------------------------------------------------------------------------
(* IOKit terminates what is below the mux: inactive at once, then stopped, *)
(* the leaves first.                                                       *)

Inactivate ==
    /\ step = "built" /\ device = "published"
    /\ device' = "inactive"
    /\ UNCHANGED <<step, refs, shell, ready, bezel, calling, osd>>

(* The AMD's stop waits for hidd to close it.                              *)
StopDevice ==
    /\ step = "built" /\ device = "inactive" /\ ~calling
    /\ device' = "gone"
    /\ UNCHANGED <<step, refs, shell, ready, bezel, calling, osd>>

StopShell ==
    /\ step = "built" /\ device \in {"inactive", "gone"} /\ shell = "started"
    /\ shell' = "gone"
    /\ UNCHANGED <<step, refs, device, ready, bezel, calling, osd>>

StopBelow == StopDevice \/ StopShell

-----------------------------------------------------------------------------
(* The teardown                                                            *)

(* The mux is stopped when what is below it is.                            *)
BelowStopped == device = "gone" /\ shell # "started"

(* Mutant: the timer is removed without waiting for its callback.          *)
CancelBezelAsync ==
    /\ Step("built", "farewell") /\ BelowStopped
    /\ bezel' = IF bezel = "armed" THEN "spent" ELSE bezel
    /\ refs' = [refs EXCEPT !["timer"] = 0]
    /\ UNCHANGED <<device, shell, ready, calling, osd>>

(* removeEventSource waits for a callback under way.                       *)
CancelBezel ==
    /\ Step("built", "farewell") /\ BelowStopped
    /\ bezel # "firing"
    /\ bezel' = IF refs["timer"] = 1 THEN "spent" ELSE bezel
    /\ refs' = [refs EXCEPT !["timer"] = 0]
    /\ UNCHANGED <<device, shell, ready, calling, osd>>

(* The word goes to BezelServices through a node that has been stopped.    *)
Farewell ==
    /\ Step("farewell", "fence")
    /\ osd' = "Disconnected"
    /\ UNCHANGED <<refs, device, shell, ready, bezel, calling>>

(* mavericks_synth_teardown_run: clear_ready, ...                          *)
ClearFence ==
    /\ Step("fence", "endshell")
    /\ ready' = FALSE
    /\ UNCHANGED <<refs, device, shell, bezel, calling, osd>>

(* ... term_shell, whose terminate finds the shell terminated, ...         *)
EndShell ==
    /\ Step("endshell", "terminate")
    /\ IF refs["shell"] = 1 THEN shell' = "gone" /\ Drop("shell") ELSE UNCHANGED <<shell, refs>>
    /\ UNCHANGED <<device, ready, bezel, calling, osd>>

(* ... term_amd, likewise, release_amd, ...                                *)
TerminateDevice ==
    /\ Step("terminate", "release")
    /\ UNCHANGED <<refs, device, shell, ready, bezel, calling, osd>>

ReleaseDevice ==
    /\ Step("release", "unloop")
    /\ Drop("amd")
    /\ UNCHANGED <<device, shell, ready, bezel, calling, osd>>

(* ... release_wl, then the context.                                       *)
ReleaseWorkLoop ==
    /\ Step("unloop", "free")
    /\ refs' = [refs EXCEPT !["workloop"] = 0]
    /\ UNCHANGED <<device, shell, ready, bezel, calling, osd>>

FreeContextMemory ==
    /\ Step("free", "torn")
    /\ Drop("context")
    /\ UNCHANGED <<device, shell, ready, bezel, calling, osd>>

-----------------------------------------------------------------------------
AmdInit ==
    /\ step = "unbuilt" /\ refs = None
    /\ device = "absent" /\ shell = "absent"
    /\ ready = FALSE /\ bezel = "absent" /\ calling = FALSE /\ osd = "nothing"

Build ==
    \/ AllocContext \/ StartShell \/ AllocDevice \/ InitDevice \/ AttachDevice
    \/ StartDevice \/ PublishDevice \/ RetainWorkLoop \/ ArmBezel \/ RaiseFence

CallsIn == HiddCalls \/ HiddAnswered \/ BezelFires \/ BezelConnects

(* The teardown between its first line and the freeing of the context,     *)
(* less the fence.                                                         *)
Dismantle == EndShell \/ TerminateDevice \/ ReleaseDevice \/ ReleaseWorkLoop

AmdNext ==
    \/ Build \/ CallsIn
    \/ Inactivate \/ StopBelow
    \/ CancelBezel \/ Farewell \/ ClearFence \/ Dismantle \/ FreeContextMemory

AmdSpec == AmdInit /\ [][AmdNext]_amdVars

-----------------------------------------------------------------------------
(* Properties                                                              *)

(* Whichever step of the build fails, and after a teardown, nothing is     *)
(* left: no reference kept or dropped twice, no node under the nub (each   *)
(* failing branch of mavericks_amd_terminal_build repeats its cleanup by   *)
(* hand); and goodbye is what was posted last, however late the connect    *)
(* timer fired (teardown: "cancel the pending connect timer, BEFORE the    *)
(* ordered ops").                                                          *)
NothingLeaks ==
    /\ step \in {"failed", "torn"} =>
         /\ refs = None
         /\ device \in {"absent", "gone"} /\ shell \in {"absent", "gone"}
    /\ step = "torn" => osd = "Disconnected"

(* Nobody is inside a stub whose target was freed or a timer whose owner   *)
(* was, the pointer the fence lets through is the terminal's own AMD and   *)
(* not a released one (mavericks_amd_terminal_amd), and a workloop once    *)
(* retained outlives the device that asks for it (mavericks_synth_         *)
(* teardown.h: "release the workloop LAST"), however IOKit's termination   *)
(* and the terminal's own teardown fall.                                   *)
CallersFindLive ==
    /\ calling => refs["context"] = 1 /\ device \in {"published", "inactive"}
    /\ bezel \in {"armed", "firing"} => refs["amd"] = 1 /\ refs["timer"] = 1
    /\ ready => refs["context"] = 1 /\ refs["amd"] = 1
    /\ bezel # "absent" /\ refs["amd"] = 1 => refs["workloop"] = 1

==============================================================================
