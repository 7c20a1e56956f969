-------------------------- MODULE PresenceObserver --------------------------
(***************************************************************************)
(* The IOKit adapter around the presence machine                           *)
(* (tools/voodooinputmavericks_prefpane/mavericks_presence_observer.c).    *)
(*                                                                         *)
(* Reader services come and go in the kernel; each change posts one of     *)
(* four kinds of notification to the observer's port, and the main run     *)
(* loop handles them one at a time.  A notification of a kind is posted    *)
(* again only after its iterator was drained, so the port holds at most    *)
(* one message of each kind and a handler learns of a change late.         *)
(* Entering HOLD arms a one-shot timer tagged with gen; the timers have    *)
(* one duration and one queue, so they fire in the order they were armed.  *)
(*                                                                         *)
(* The consumers, PrefPane and LinkState, extend this module: each of      *)
(* their actions conjoins what the consumer's callback does.               *)
(***************************************************************************)
EXTENDS Presence, Naturals, Sequences

CONSTANTS BtReaders,   \* the MT2BTReader instances of one link (control, interrupt)
          MaxChanges   \* bound on the arrivals and departures of readers

ASSUME MaxChangesAssumption == MaxChanges \in Nat

VARIABLES usb,      \* is an MT2USBReader registered?
          bt,       \* the MT2BTReader instances registered
          inbox,    \* notifications posted to the port, oldest first
          state,    \* o->state
          gen,      \* o->gen
          holds,    \* armed removal-window timers, by the gen each captured
          changes   \* arrivals and departures so far (bounds the model)

kernel == <<usb, bt, changes>>
machine == <<state, gen, holds>>
observer == <<usb, bt, inbox, state, gen, holds, changes>>

TypeOK ==
  /\ usb \in BOOLEAN
  /\ bt \subseteq BtReaders
  /\ inbox \in Seq(Edges)
  /\ \A i, j \in 1..Len(inbox) : inbox[i] = inbox[j] => i = j
  /\ state \in States
  /\ gen \in Nat
  /\ holds \in Seq(Nat)
  /\ changes \in 0..MaxChanges

Pending(e) == \E i \in 1..Len(inbox) : inbox[i] = e

\* The notification's iterator is non-empty until drained, so it posts once.
Post(e) == inbox' = IF Pending(e) THEN inbox ELSE Append(inbox, e)

Change == changes < MaxChanges /\ changes' = changes + 1

---------------------------------------------------------------------------
(* Readers in the kernel *)

UsbReaderStarts ==
  /\ Change /\ ~usb
  /\ usb' = TRUE
  /\ Post("USB_APPEAR")
  /\ UNCHANGED <<bt, machine>>

UsbReaderTerminates ==
  /\ Change /\ usb
  /\ usb' = FALSE
  /\ Post("USB_REMOVE")
  /\ UNCHANGED <<bt, machine>>

BtReaderStarts(r) ==
  /\ Change /\ r \notin bt
  /\ bt' = bt \union {r}
  /\ Post("BT_APPEAR")
  /\ UNCHANGED <<usb, machine>>

BtReaderTerminates(r) ==
  /\ Change /\ r \in bt
  /\ bt' = bt \ {r}
  /\ Post("BT_REMOVE")
  /\ UNCHANGED <<usb, machine>>

---------------------------------------------------------------------------
(* The observer on its run loop *)

\* Mutant: a duplicate edge bumps gen as well, and so cancels a live window.
SupersedeAlways(action) ==
  /\ gen' = gen + 1
  /\ holds' = IF action = "START_HOLD" THEN Append(holds, gen + 1) ELSE holds

(* What obs_sm_event does to gen and the timers for the action it reports: *)
(* only a hold arms, only a real resolution supersedes, and a no-op edge   *)
(* leaves the pending timer alone.                                         *)
Supersede(action) ==
  /\ gen' = IF action = "NO_ACTION" THEN gen ELSE gen + 1
  /\ holds' = IF action = "START_HOLD" THEN Append(holds, gen + 1) ELSE holds

\* obs_dev_changed: drain the iterator, run the edge through the machine.
Edge ==
  /\ inbox # <<>>
  /\ inbox' = Tail(inbox)
  /\ state' = Step(state, Head(inbox)).next
  /\ Supersede(Step(state, Head(inbox)).action)
  /\ UNCHANGED kernel

EdgeReported == Step(state, Head(inbox)).action

\* Mutant: the block does not look at gen: any timer ends the window that is open.
FiredWhenever(my) == Step(state, "REMOVAL_ELAPSED")

\* The block obs_sm_event hands to dispatch_after.
FiredOutcome(my) ==
  IF my # gen THEN Stay(state) ELSE Step(state, "REMOVAL_ELAPSED")

HoldFires ==
  /\ holds # <<>>
  /\ holds' = Tail(holds)
  /\ state' = FiredOutcome(Head(holds)).next
  /\ UNCHANGED <<kernel, inbox, gen>>

\* presence_observer_reconcile: a poll of the services present now.
Reconciled == ReconcileTo(state, bt # {}, usb)

Reconcile ==
  /\ state' = Reconciled.next
  /\ UNCHANGED <<kernel, inbox, gen, holds>>

---------------------------------------------------------------------------
(* presence_observer_create arms four drained iterators and starts from    *)
(* NONE; every consumer then reconciles once.  Readers already present are *)
(* not announced.                                                          *)
ObserverInit ==
  /\ usb \in BOOLEAN
  /\ bt \in SUBSET BtReaders
  /\ inbox = <<>>
  /\ gen = 0
  /\ holds = <<>>
  /\ changes = 0
  /\ state = ReconcileTo("NONE", bt # {}, usb).next

Kernel ==
  \/ UsbReaderStarts
  \/ UsbReaderTerminates
  \/ \E r \in BtReaders : BtReaderStarts(r) \/ BtReaderTerminates(r)

ObserverNext == Kernel \/ Edge \/ HoldFires \/ Reconcile

ObserverSpec == ObserverInit /\ [][ObserverNext]_observer

---------------------------------------------------------------------------
(* Properties *)

(* A removal window always has its own timer still armed: the comment on   *)
(* obs_sm_event names the stranded HOLD as the hazard of bumping gen on a  *)
(* duplicate edge, and no poll resolves HOLD to NONE.                      *)
HoldNeverStranded ==
  state = "HOLD" => holds # <<>> /\ holds[Len(holds)] = gen

(* The window is cut short by no timer of an earlier hold: HOLD gives way  *)
(* to NONE only when the newest timer fires and none is left behind it.    *)
HoldRunsItsWindow ==
  [][state = "HOLD" /\ state' = "NONE" => holds = <<gen>>]_observer

=============================================================================
