--------------------------- MODULE Presence_proof ---------------------------
(***************************************************************************)
(* Proofs about the presence observer and its two consumers, the pane and  *)
(* the link-state daemon, for any set of readers and any bound on their    *)
(* changes.  A stranded hold is excluded because the timers are tagged in  *)
(* increasing order up to gen: the newest one, and only it, carries gen.   *)
(* The consumers' proofs reuse InvStep, since each of their steps is a     *)
(* step of the observer.                                                   *)
(***************************************************************************)
EXTENDS PrefPane, LinkState, TLAPS

---------------------------------------------------------------------------
(* THE OBSERVER *)

(* Timers are tagged in the order they were armed, none beyond gen.        *)
HoldsOrdered ==
  /\ \A i \in 1..Len(holds) : holds[i] <= gen
  /\ \A i, j \in 1..Len(holds) : i < j => holds[i] < holds[j]

ObserverInv == TypeOK /\ HoldsOrdered /\ HoldNeverStranded

(* The machine's part of ObserverInv, of a next state s2, gen g2, timers h2. *)
MachineOK(s2, g2, h2) ==
  /\ s2 \in States /\ g2 \in Nat /\ h2 \in Seq(Nat)
  /\ \A i \in 1..Len(h2) : h2[i] <= g2
  /\ \A i, j \in 1..Len(h2) : i < j => h2[i] < h2[j]
  /\ s2 = "HOLD" => h2 # <<>> /\ h2[Len(h2)] = g2

---------------------------------------------------------------------------
(* Facts about the pure machine *)

(* The machine answers every event with a state and an action of its types,*)
(* reports a hold exactly when it enters one, reports nothing only when it *)
(* stays, and leaves a hold alone only without reporting (presence_step).  *)
LEMMA StepFacts ==
  ASSUME NEW s \in States, NEW e \in Events
  PROVE  /\ Step(s, e).next \in States
         /\ Step(s, e).action \in Actions
         /\ Step(s, e).action = "START_HOLD" <=> (Step(s, e).next = "HOLD" /\ s # "HOLD")
         /\ Step(s, e).action = "NO_ACTION" <=> Step(s, e).next = s
BY DEF Step, Stay, Show, States, Edges, Events, Actions

(* A poll never opens a hold and never turns one into NONE                 *)
(* (presence_reconcile).                                                   *)
LEMMA ReconcileFacts ==
  ASSUME NEW s \in States, NEW b \in BOOLEAN, NEW u \in BOOLEAN
  PROVE  /\ ReconcileTo(s, b, u).next \in States
         /\ ReconcileTo(s, b, u).next = "HOLD" => s = "HOLD"
         /\ s = "HOLD" => ReconcileTo(s, b, u).next # "NONE"
BY DEF ReconcileTo, ViewFor, Stay, Show, States

---------------------------------------------------------------------------
(* The inbox *)

(* Post adds a kind of notification that is not waiting yet.               *)
LEMMA PostKeepsInbox ==
  ASSUME TypeOK, NEW e \in Edges, Post(e)
  PROVE  /\ inbox' \in Seq(Edges)
         /\ \A i, j \in 1..Len(inbox') : inbox'[i] = inbox'[j] => i = j
<1>1. CASE Pending(e)
  BY <1>1 DEF TypeOK, Post
<1>2. CASE ~Pending(e)
  <2>1. inbox' = Append(inbox, e) /\ inbox \in Seq(Edges)
    BY <1>2 DEF Post, TypeOK
  <2>2. Len(inbox') = Len(inbox) + 1 /\ inbox' \in Seq(Edges) /\ Len(inbox) \in Nat
    BY <2>1
  <2>3. \A i \in 1..Len(inbox) : inbox'[i] = inbox[i] /\ inbox[i] # e
    BY <1>2, <2>1 DEF Pending
  <2>4. inbox'[Len(inbox) + 1] = e
    BY <2>1
  <2>5. ASSUME NEW i \in 1..Len(inbox'), NEW j \in 1..Len(inbox'), inbox'[i] = inbox'[j]
        PROVE  i = j
    <3>1. CASE i \in 1..Len(inbox) /\ j \in 1..Len(inbox)
      BY <2>3, <2>5, <3>1 DEF TypeOK
    <3>2. CASE i = Len(inbox) + 1 \/ j = Len(inbox) + 1
      BY <2>2, <2>3, <2>4, <2>5, <3>2
    <3> QED BY <2>2, <2>5, <3>1, <3>2
  <2> QED BY <2>2, <2>5
<1> QED BY <1>1, <1>2

(* Handling the oldest notification leaves the others distinct.            *)
LEMMA TailKeepsInbox ==
  ASSUME TypeOK, inbox # <<>>, inbox' = Tail(inbox)
  PROVE  /\ inbox' \in Seq(Edges)
         /\ \A i, j \in 1..Len(inbox') : inbox'[i] = inbox'[j] => i = j
<1>1. inbox \in Seq(Edges) /\ Len(inbox) \in Nat \ {0}
  BY DEF TypeOK
<1>2. inbox' \in Seq(Edges) /\ Len(inbox') = Len(inbox) - 1
  BY <1>1
<1>3. \A i \in 1..Len(inbox') : inbox'[i] = inbox[i + 1] /\ i + 1 \in 1..Len(inbox)
  BY <1>1, <1>2
<1>4. ASSUME NEW i \in 1..Len(inbox'), NEW j \in 1..Len(inbox'), inbox'[i] = inbox'[j]
      PROVE  i = j
  <2>1. inbox[i + 1] = inbox[j + 1] /\ i + 1 \in 1..Len(inbox) /\ j + 1 \in 1..Len(inbox)
    BY <1>3, <1>4
  <2>2. i + 1 = j + 1
    BY <2>1 DEF TypeOK
  <2> QED BY <1>2, <1>4, <2>2
<1> QED BY <1>2, <1>4

---------------------------------------------------------------------------
(* The machine and its timers *)

(* obs_sm_event keeps the timers ordered and the hold covered: it bumps    *)
(* gen only when it leaves the hold or arms a new timer for it.            *)
LEMMA EventKeepsMachine ==
  ASSUME ObserverInv, NEW e \in Edges,
         state' = Step(state, e).next, Supersede(Step(state, e).action)
  PROVE  MachineOK(state', gen', holds')
<1> DEFINE a == Step(state, e).action
<1>1. state \in States /\ gen \in Nat /\ holds \in Seq(Nat) /\ Len(holds) \in Nat
  BY DEF ObserverInv, TypeOK
<1>2. /\ state' \in States
      /\ a = "START_HOLD" <=> (state' = "HOLD" /\ state # "HOLD")
      /\ a = "NO_ACTION" <=> state' = state
  BY <1>1, StepFacts DEF Events
<1>3. CASE a = "START_HOLD"
  <2>1. gen' = gen + 1 /\ holds' = Append(holds, gen + 1)
    BY <1>3 DEF Supersede
  <2>2. /\ holds' \in Seq(Nat) /\ Len(holds') = Len(holds) + 1
        /\ holds'[Len(holds) + 1] = gen + 1
        /\ \A i \in 1..Len(holds) : holds'[i] = holds[i]
    BY <1>1, <2>1
  <2>3. \A i \in 1..Len(holds) : holds[i] \in Nat /\ holds[i] <= gen
    BY <1>1 DEF ObserverInv, HoldsOrdered
  <2>4. \A i \in 1..Len(holds') : holds'[i] <= gen'
    BY <1>1, <2>1, <2>2, <2>3
  <2>5. ASSUME NEW i \in 1..Len(holds'), NEW j \in 1..Len(holds'), i < j
        PROVE  holds'[i] < holds'[j]
    <3>1. i \in 1..Len(holds)
      BY <1>1, <2>2, <2>5
    <3>2. CASE j \in 1..Len(holds)
      BY <2>2, <2>5, <3>1, <3>2 DEF ObserverInv, HoldsOrdered
    <3>3. CASE j = Len(holds) + 1
      <4>1. holds'[j] = gen + 1 /\ holds'[i] = holds[i]
        BY <2>2, <3>1, <3>3
      <4>2. holds[i] \in Nat /\ holds[i] <= gen /\ gen \in Nat
        BY <1>1, <2>3, <3>1
      <4> QED BY <4>1, <4>2
    <3>4. j \in 1..Len(holds) \/ j = Len(holds) + 1
      <4> DEFINE n == Len(holds)
      <4>1. n \in Nat /\ j \in 1..(n + 1)
        BY <1>1, <2>2, <2>5
      <4> HIDE DEF n
      <4>2. j \in 1..n \/ j = n + 1
        BY <4>1
      <4> QED BY <4>2 DEF n
    <3> QED BY <3>2, <3>3, <3>4
  <2> QED BY <1>1, <1>2, <2>1, <2>2, <2>4, <2>5 DEF MachineOK
<1>4. CASE a = "NO_ACTION"
  <2>1. gen' = gen /\ holds' = holds /\ state' = state
    BY <1>2, <1>4 DEF Supersede
  <2> QED BY <1>1, <2>1 DEF MachineOK, ObserverInv, HoldsOrdered, HoldNeverStranded
<1>5. CASE a # "START_HOLD" /\ a # "NO_ACTION"
  <2>1. gen' = gen + 1 /\ holds' = holds
    BY <1>5 DEF Supersede
  <2>2. state' # "HOLD"
    BY <1>2, <1>5
  <2>3. \A i \in 1..Len(holds) : holds[i] \in Nat /\ holds[i] <= gen
    BY <1>1 DEF ObserverInv, HoldsOrdered
  <2> QED BY <1>1, <1>2, <2>1, <2>2, <2>3 DEF MachineOK, ObserverInv, HoldsOrdered
<1> QED BY <1>3, <1>4, <1>5

(* A timer that carries gen is the only one left.                          *)
LEMMA NewestIsLast ==
  ASSUME ObserverInv, holds # <<>>, Head(holds) = gen
  PROVE  holds = <<gen>>
<1>1. holds \in Seq(Nat) /\ gen \in Nat /\ Len(holds) \in Nat \ {0}
  BY DEF ObserverInv, TypeOK
<1>2. holds[1] = gen
  BY <1>1
<1>3. Len(holds) = 1
  <2> SUFFICES ASSUME Len(holds) # 1 PROVE FALSE
    OBVIOUS
  <2> DEFINE n == Len(holds)
  <2>0. n \in Nat /\ n # 0 /\ n # 1
    BY <1>1
  <2> HIDE DEF n
  <2>1. 1 \in 1..n /\ 2 \in 1..n
    BY <2>0
  <2>2. holds[1] < holds[2] /\ holds[2] <= gen /\ holds[2] \in Nat
    BY <1>1, <2>1 DEF ObserverInv, HoldsOrdered, n
  <2> QED BY <1>1, <1>2, <2>2
<1> QED BY <1>1, <1>2, <1>3

(* The end of a window: a stale timer changes nothing and leaves the newest*)
(* one armed; the newest one ends the hold it was armed for.               *)
LEMMA FiringKeepsMachine ==
  ASSUME ObserverInv, HoldFires
  PROVE  MachineOK(state', gen', holds')
<1>1. state \in States /\ gen \in Nat /\ holds \in Seq(Nat) /\ Len(holds) \in Nat \ {0}
  BY DEF ObserverInv, TypeOK, HoldFires
<1>2. /\ gen' = gen /\ holds' = Tail(holds)
      /\ state' = FiredOutcome(Head(holds)).next
  BY DEF HoldFires
<1>3. /\ holds' \in Seq(Nat) /\ Len(holds') = Len(holds) - 1
      /\ \A i \in 1..Len(holds') : holds'[i] = holds[i + 1] /\ i + 1 \in 1..Len(holds)
  BY <1>1, <1>2
<1>4. \A i \in 1..Len(holds') : holds'[i] <= gen'
  BY <1>2, <1>3 DEF ObserverInv, HoldsOrdered
<1>5. ASSUME NEW i \in 1..Len(holds'), NEW j \in 1..Len(holds'), i < j
      PROVE  holds'[i] < holds'[j]
  <2>1. i + 1 \in 1..Len(holds) /\ j + 1 \in 1..Len(holds) /\ i + 1 < j + 1
    BY <1>3, <1>5
  <2>2. holds[i + 1] < holds[j + 1]
    BY <2>1 DEF ObserverInv, HoldsOrdered
  <2> QED BY <1>3, <2>2
<1>6. state' \in States /\ (state' = "HOLD" => holds' # <<>> /\ holds'[Len(holds')] = gen')
  <2>1. CASE Head(holds) = gen
    BY <1>1, <1>2, <2>1 DEF FiredOutcome, Step, Stay, Show, States
  <2>2. CASE Head(holds) # gen
    <3>1. state' = state
      BY <1>2, <2>2 DEF FiredOutcome, Stay
    <3>2. state = "HOLD" => Len(holds) # 1
      BY <1>1, <2>2 DEF ObserverInv, HoldNeverStranded
    <3>3. state = "HOLD" => holds[Len(holds)] = gen
      BY DEF ObserverInv, HoldNeverStranded
    <3>4. state = "HOLD" => Len(holds') \in 1..Len(holds') /\ Len(holds') + 1 = Len(holds)
      BY <1>1, <1>3, <3>2
    <3>5. state = "HOLD" => holds'[Len(holds')] = holds[Len(holds)]
      BY <1>3, <3>4
    <3>6. state = "HOLD" => holds' # <<>>
      BY <1>3, <3>4
    <3> QED BY <1>1, <1>2, <3>1, <3>3, <3>5, <3>6
  <2> QED BY <2>1, <2>2
<1> QED BY <1>1, <1>2, <1>3, <1>4, <1>5, <1>6 DEF MachineOK

---------------------------------------------------------------------------
(* The invariant *)

(* A change of the readers posts a notification and leaves the machine.    *)
LEMMA KernelKeepsInv ==
  ASSUME ObserverInv, Kernel
  PROVE  ObserverInv'
<1>1. /\ usb' \in BOOLEAN /\ bt' \subseteq BtReaders
      /\ \E e \in Edges : Post(e)
      /\ UNCHANGED machine
  BY DEF ObserverInv, TypeOK, Kernel, UsbReaderStarts, UsbReaderTerminates,
         BtReaderStarts, BtReaderTerminates, Edges
<1>2. changes' \in 0..MaxChanges
  BY MaxChangesAssumption
     DEF ObserverInv, TypeOK, Kernel, UsbReaderStarts, UsbReaderTerminates,
         BtReaderStarts, BtReaderTerminates, Change
<1>3. TypeOK'
  BY <1>1, <1>2, PostKeepsInbox DEF ObserverInv, TypeOK, machine
<1> QED BY <1>1, <1>3 DEF ObserverInv, HoldsOrdered, HoldNeverStranded, machine

(* Every step of the observer or of the readers preserves the invariant.   *)
LEMMA InvStep ==
  ASSUME ObserverInv, [ObserverNext]_observer
  PROVE  ObserverInv'
<1>1. CASE Kernel
  BY <1>1, KernelKeepsInv
<1>2. CASE Edge
  <2>1. Head(inbox) \in Edges
    BY <1>2 DEF Edge, ObserverInv, TypeOK
  <2>2. MachineOK(state', gen', holds')
    BY <1>2, <2>1, EventKeepsMachine DEF Edge
  <2>3. TypeOK'
    BY <1>2, <2>2, TailKeepsInbox DEF Edge, ObserverInv, TypeOK, MachineOK, kernel
  <2> QED BY <2>2, <2>3 DEF ObserverInv, HoldsOrdered, HoldNeverStranded, MachineOK
<1>3. CASE HoldFires
  <2>1. MachineOK(state', gen', holds')
    BY <1>3, FiringKeepsMachine
  <2>2. TypeOK'
    BY <1>3, <2>1 DEF HoldFires, ObserverInv, TypeOK, MachineOK, kernel
  <2> QED BY <2>1, <2>2 DEF ObserverInv, HoldsOrdered, HoldNeverStranded, MachineOK
<1>4. CASE Reconcile
  <2>1. state' \in States /\ (state' = "HOLD" => state = "HOLD")
    BY <1>4, ReconcileFacts DEF Reconcile, Reconciled, ObserverInv, TypeOK
  <2>2. TypeOK'
    BY <1>4, <2>1 DEF Reconcile, ObserverInv, TypeOK, kernel
  <2> QED BY <1>4, <2>1, <2>2
             DEF Reconcile, ObserverInv, HoldsOrdered, HoldNeverStranded, kernel
<1>5. CASE UNCHANGED observer
  BY <1>5 DEF observer, ObserverInv, TypeOK, HoldsOrdered, HoldNeverStranded
<1> QED BY <1>1, <1>2, <1>3, <1>4, <1>5 DEF ObserverNext

(* The observer starts without timers, in a state the poll chose.          *)
LEMMA InvInit == ObserverInit => ObserverInv
<1> SUFFICES ASSUME ObserverInit PROVE ObserverInv
  OBVIOUS
<1>1. state \in States /\ state # "HOLD"
  BY ReconcileFacts DEF ObserverInit, States
<1> QED BY <1>1, MaxChangesAssumption
           DEF ObserverInit, ObserverInv, TypeOK, HoldsOrdered, HoldNeverStranded

---------------------------------------------------------------------------
(* The theorems *)

(* The strengthened invariant of the observer.                             *)
THEOREM ObserverInvariant == ObserverSpec => []ObserverInv
<1>1. ObserverInit => ObserverInv
  BY InvInit
<1>2. ObserverInv /\ [ObserverNext]_observer => ObserverInv'
  BY InvStep
<1> QED BY <1>1, <1>2, PTL DEF ObserverSpec

(* For any readers, the observer never stands in HOLD without the timer    *)
(* that ends it (obs_sm_event's gen bookkeeping).                          *)
THEOREM NoStrandedHold == ObserverSpec => []HoldNeverStranded
<1>1. ObserverInv => HoldNeverStranded
  BY DEF ObserverInv
<1> QED BY <1>1, ObserverInvariant, PTL

(* For any readers, a hold is ended by its own timer and no earlier one:   *)
(* the removal window runs its full length.                                *)
THEOREM WindowRunsFull == ObserverSpec => HoldRunsItsWindow
<1>1. ASSUME ObserverInv, [ObserverNext]_observer
      PROVE  [state = "HOLD" /\ state' = "NONE" => holds = <<gen>>]_observer
  <2> SUFFICES ASSUME state = "HOLD", state' = "NONE" PROVE holds = <<gen>>
    OBVIOUS
  <2>1. CASE HoldFires
    <3>1. Head(holds) = gen /\ holds # <<>>
      BY <2>1 DEF HoldFires, FiredOutcome, Stay
    <3> QED BY <1>1, <3>1, NewestIsLast
  <2>2. CASE Edge
    <3>1. Head(inbox) \in Edges
      BY <1>1, <2>2 DEF Edge, ObserverInv, TypeOK
    <3> QED BY <2>2, <3>1 DEF Edge, Step, Stay, Show, Edges
  <2>3. CASE Reconcile
    BY <1>1, <2>3, ReconcileFacts DEF Reconcile, Reconciled, ObserverInv, TypeOK
  <2>4. CASE Kernel \/ UNCHANGED observer
    BY <2>4 DEF Kernel, UsbReaderStarts, UsbReaderTerminates, BtReaderStarts,
                BtReaderTerminates, machine, observer
  <2> QED BY <1>1, <2>1, <2>2, <2>3, <2>4 DEF ObserverNext
<1> QED BY <1>1, ObserverInvariant, PTL DEF ObserverSpec, HoldRunsItsWindow

---------------------------------------------------------------------------
(* THE PANE: it implements the observer, and the view on screen follows    *)
(* the machine although nothing but the reported actions redraws it.       *)

PaneInv == ObserverInv /\ shown \in Views /\ ScreenAgrees

---------------------------------------------------------------------------
(* Whatever the machine reports for a step of its own, performing it keeps *)
(* the screen in agreement with the state it went to.                      *)
LEMMA PerformFollowsStep ==
  ASSUME ObserverInv, shown \in Views, ScreenAgrees, NEW e \in Events
  PROVE  LET r == Step(state, e) IN
         /\ Perform(r.action) \in Views
         /\ IF r.next = "HOLD" THEN Perform(r.action) # "NoTrackpad"
                               ELSE Perform(r.action) = ViewOf(r.next)
BY DEF ObserverInv, TypeOK, States, Events, Edges, Step, Stay, Show, Perform,
       Views, ViewOf, ScreenAgrees

(* The same for a poll.                                                    *)
LEMMA PerformFollowsPoll ==
  ASSUME ObserverInv, shown \in Views, ScreenAgrees
  PROVE  /\ Perform(Reconciled.action) \in Views
         /\ IF Reconciled.next = "HOLD" THEN Perform(Reconciled.action) # "NoTrackpad"
            ELSE Perform(Reconciled.action) = ViewOf(Reconciled.next)
<1>1. PICK b \in BOOLEAN, u \in BOOLEAN : Reconciled = ReconcileTo(state, b, u)
  BY DEF Reconciled, ObserverInv, TypeOK
<1> QED
  BY <1>1 DEF ObserverInv, TypeOK, States, ReconcileTo, ViewFor, Stay, Show,
              Perform, Views, ViewOf, ScreenAgrees

(* A step of the pane is a step of the observer.                           *)
LEMMA PaneStepsObserver == [PaneNext]_paneVars => [ObserverNext]_observer
BY DEF PaneNext, paneVars, ObserverNext, PaneEdge, PaneHoldFires, PanePoll

(* Each step keeps the screen and the machine in agreement.                *)
LEMMA PaneStep ==
  ASSUME PaneInv, [PaneNext]_paneVars
  PROVE  PaneInv'
<1>1. ObserverInv'
  BY PaneStepsObserver, InvStep DEF PaneInv
<1>2. CASE Kernel /\ UNCHANGED shown
  <2>1. state' = state
    BY <1>2 DEF Kernel, UsbReaderStarts, UsbReaderTerminates, BtReaderStarts,
                BtReaderTerminates, machine
  <2> QED BY <1>1, <1>2, <2>1 DEF PaneInv, ScreenAgrees, ViewOf
<1>3. CASE PaneEdge
  <2>1. Head(inbox) \in Events
    BY <1>3 DEF PaneEdge, Edge, PaneInv, ObserverInv, TypeOK, Events
  <2>2. /\ state' = Step(state, Head(inbox)).next
        /\ shown' = Perform(Step(state, Head(inbox)).action)
    BY <1>3 DEF PaneEdge, Edge, EdgeReported
  <2> QED BY <1>1, <2>1, <2>2, PerformFollowsStep DEF PaneInv, ScreenAgrees, ViewOf
<1>4. CASE PaneHoldFires
  <2>1. /\ state' = FiredOutcome(Head(holds)).next
        /\ shown' = Perform(FiredOutcome(Head(holds)).action)
    BY <1>4 DEF PaneHoldFires, HoldFires
  <2>2. CASE Head(holds) = gen
    <3>1. FiredOutcome(Head(holds)) = Step(state, "REMOVAL_ELAPSED")
      BY <2>2 DEF FiredOutcome
    <3>2. "REMOVAL_ELAPSED" \in Events
      BY DEF Events
    <3> QED
      BY <1>1, <2>1, <3>1, <3>2, PerformFollowsStep DEF PaneInv, ScreenAgrees, ViewOf
  <2>3. CASE Head(holds) # gen
    BY <1>1, <2>1, <2>3 DEF PaneInv, ScreenAgrees, ViewOf, FiredOutcome, Stay, Perform
  <2> QED BY <2>2, <2>3
<1>5. CASE PanePoll
  BY <1>1, <1>5, PerformFollowsPoll DEF PanePoll, Reconcile, PaneInv, ScreenAgrees, ViewOf
<1>6. CASE UNCHANGED paneVars
  BY <1>1, <1>6 DEF paneVars, observer, PaneInv, ScreenAgrees, ViewOf
<1> QED BY <1>2, <1>3, <1>4, <1>5, <1>6 DEF PaneNext

LEMMA PaneBegins == PaneInit => PaneInv
<1> SUFFICES ASSUME PaneInit PROVE PaneInv
  OBVIOUS
<1>1. ObserverInv
  BY InvInit DEF PaneInit
<1>2. state \in {"NONE", "BT", "USB"}
  BY <1>1, ReconcileFacts DEF PaneInit, ObserverInit, ObserverInv, TypeOK, States
<1> QED BY <1>1, <1>2 DEF PaneInit, PaneInv, Views, ViewOf, ScreenAgrees

---------------------------------------------------------------------------
(* The pane's invariant, with the observer's.                              *)
THEOREM PaneInvariant == PaneSpec => []PaneInv
<1>1. PaneInv /\ [PaneNext]_paneVars => PaneInv'
  BY PaneStep
<1> QED BY <1>1, PaneBegins, PTL DEF PaneSpec

(* For any readers, the screen shows the machine's state, and is never     *)
(* blank while a removal is held (perform, on_presence).                   *)
THEOREM ScreenFollowsMachine == PaneSpec => []ScreenAgrees
<1>1. PaneInv => ScreenAgrees
  BY DEF PaneInv
<1> QED BY <1>1, PaneInvariant, PTL

(* The pane implements the observer: what is proved of every consumer's    *)
(* observer holds of the pane's.                                           *)
THEOREM PaneImplementsObserver == PaneSpec => ObserverSpec
<1>1. PaneInit => ObserverInit
  BY DEF PaneInit
<1> QED BY <1>1, PaneStepsObserver, PTL DEF PaneSpec, ObserverSpec

---------------------------------------------------------------------------
(* THE DAEMON.  The strengthening beyond the properties themselves is the  *)
(* observer's invariant and that g_terminating is set exactly from the     *)
(* beginning of the quiesce on: it is what makes a page chosen after the   *)
(* barrier impossible and a yield before it certain to disconnect.         *)

\* g_terminating is raised by the quiesce, first of all, and never lowered.
Terminating == g_terminating <=> main # "running"

LinkInv ==
  /\ ObserverInv /\ LinkTypeOK /\ Terminating
  /\ YieldCovers /\ QuiescedIsClean /\ KickPromised

Untouched == UNCHANGED <<usb, bt, inbox, machine>>

---------------------------------------------------------------------------
(* Queues *)

(* A block appended to the queue leaves those queued before it.            *)
LEMMA AppendKeepsQueued ==
  ASSUME LinkTypeOK, NEW j, NEW k, jobs' = Append(jobs, k)
  PROVE  /\ Queued(k)'
         /\ Queued(j) => Queued(j)'
<1>1. jobs \in Seq(Pages \union {"yield", "barrier"}) /\ Len(jobs) \in Nat
  BY DEF LinkTypeOK
<1>2. /\ Len(jobs') = Len(jobs) + 1
      /\ jobs'[Len(jobs) + 1] = k
      /\ \A i \in 1..Len(jobs) : jobs'[i] = jobs[i]
  BY <1>1
<1>3. Len(jobs) + 1 \in 1..Len(jobs') /\ 1..Len(jobs) \subseteq 1..Len(jobs')
  BY <1>1, <1>2
<1> QED BY <1>2, <1>3 DEF Queued

(* Taking the oldest block leaves the others queued.                       *)
LEMMA TailKeepsQueued ==
  ASSUME LinkTypeOK, NEW j, jobs # <<>>, Head(jobs) # j, jobs' = Tail(jobs), Queued(j)
  PROVE  Queued(j)'
<1>1. jobs \in Seq(Pages \union {"yield", "barrier"}) /\ Len(jobs) \in Nat \ {0}
  BY DEF LinkTypeOK
<1>2. PICK i \in 1..Len(jobs) : jobs[i] = j
  BY DEF Queued
<1>3. i # 1
  BY <1>1, <1>2
<1>4. i - 1 \in 1..Len(jobs') /\ jobs'[i - 1] = jobs[i]
  BY <1>1, <1>2, <1>3
<1> QED BY <1>2, <1>4 DEF Queued

(* The queue keeps its type, and its one timer block, under the two steps. *)
JobsOK(q) ==
  /\ q \in Seq(Pages \union {"yield", "barrier"})
  /\ \A i, j \in 1..Len(q) : q[i] = "timer" /\ q[j] = "timer" => i = j

LEMMA AppendKeepsJobs ==
  ASSUME LinkTypeOK, NEW k \in Pages \union {"yield", "barrier"},
         k = "timer" => ~Queued("timer"), jobs' = Append(jobs, k)
  PROVE  JobsOK(jobs')
<1> DEFINE n == Len(jobs)
<1>1. jobs \in Seq(Pages \union {"yield", "barrier"}) /\ n \in Nat
  BY DEF LinkTypeOK
<1>2. /\ jobs' \in Seq(Pages \union {"yield", "barrier"})
      /\ Len(jobs') = n + 1
      /\ jobs'[n + 1] = k
      /\ \A i \in 1..n : jobs'[i] = jobs[i]
  BY <1>1
<1>3. \A i \in 1..n : ~(jobs'[i] = "timer" /\ k = "timer")
  BY <1>2 DEF Queued
<1>4. \A i, j \in 1..n : jobs'[i] = "timer" /\ jobs'[j] = "timer" => i = j
  BY <1>2 DEF LinkTypeOK
<1> HIDE DEF n
<1>5. \A i \in 1..(n + 1) : i \in 1..n \/ i = n + 1
  BY <1>1
<1>6. ASSUME NEW i \in 1..(n + 1), NEW j \in 1..(n + 1),
             jobs'[i] = "timer", jobs'[j] = "timer"
      PROVE  i = j
  BY <1>2, <1>3, <1>4, <1>5, <1>6
<1> QED BY <1>2, <1>6 DEF JobsOK

LEMMA TailKeepsJobs ==
  ASSUME LinkTypeOK, jobs # <<>>, jobs' = Tail(jobs)
  PROVE  JobsOK(jobs')
<1> DEFINE n == Len(jobs)
<1>1. jobs \in Seq(Pages \union {"yield", "barrier"}) /\ n \in Nat \ {0}
  BY DEF LinkTypeOK
<1>2. /\ jobs' \in Seq(Pages \union {"yield", "barrier"})
      /\ Len(jobs') = n - 1
      /\ \A i \in 1..(n - 1) : jobs'[i] = jobs[i + 1]
  BY <1>1
<1>3. \A i, j \in 1..n : jobs[i] = "timer" /\ jobs[j] = "timer" => i = j
  BY DEF LinkTypeOK
<1> HIDE DEF n
<1>4. ASSUME NEW i \in 1..(n - 1), NEW j \in 1..(n - 1),
             jobs'[i] = "timer", jobs'[j] = "timer"
      PROVE  i = j
  <2>1. i + 1 \in 1..n /\ j + 1 \in 1..n
    BY <1>1
  <2>2. i + 1 = j + 1
    BY <1>2, <1>3, <1>4, <2>1
  <2> QED BY <2>2
<1> QED BY <1>2, <1>4 DEF JobsOK

(* A notification handled that is not the one asked about is still owed.   *)
LEMMA PendingSurvives ==
  ASSUME TypeOK, NEW e, inbox # <<>>, Head(inbox) # e, inbox' = Tail(inbox), Pending(e)
  PROVE  Pending(e)'
<1>1. inbox \in Seq(Edges) /\ Len(inbox) \in Nat \ {0}
  BY DEF TypeOK
<1>2. PICK i \in 1..Len(inbox) : inbox[i] = e
  BY DEF Pending
<1>3. i # 1
  BY <1>1, <1>2
<1>4. i - 1 \in 1..Len(inbox') /\ inbox'[i - 1] = inbox[i]
  BY <1>1, <1>2, <1>3
<1> QED BY <1>2, <1>4 DEF Pending

(* A notification posted is owed, and so are those posted before.          *)
LEMMA PostOwes ==
  ASSUME TypeOK, NEW e \in Edges, NEW f \in Edges, Post(e)
  PROVE  /\ Pending(e)'
         /\ Pending(f) => Pending(f)'
<1>1. CASE Pending(e)
  BY <1>1 DEF Post, Pending
<1>2. CASE ~Pending(e)
  <2>1. inbox' = Append(inbox, e) /\ inbox \in Seq(Edges) /\ Len(inbox) \in Nat
    BY <1>2 DEF Post, TypeOK
  <2>2. /\ Len(inbox') = Len(inbox) + 1
        /\ inbox'[Len(inbox) + 1] = e
        /\ \A i \in 1..Len(inbox) : inbox'[i] = inbox[i]
    BY <2>1
  <2>3. Len(inbox) + 1 \in 1..Len(inbox') /\ 1..Len(inbox) \subseteq 1..Len(inbox')
    BY <2>1, <2>2
  <2> QED BY <2>2, <2>3 DEF Pending
<1> QED BY <1>1, <1>2

---------------------------------------------------------------------------
(* The observer inside the daemon *)

(* Every step of the daemon and its environment preserves the observer's   *)
(* invariant: it is a step of the observer, or changes the link only.      *)
LEMMA LinkKeepsObserver ==
  ASSUME ObserverInv, [Next]_vars
  PROVE  ObserverInv'
<1>1. CASE UNCHANGED observer
  BY <1>1, InvStep
<1>2. CASE Change /\ Untouched
  <2>1. changes' \in 0..MaxChanges
    BY <1>2, MaxChangesAssumption DEF Change, ObserverInv, TypeOK
  <2> QED BY <1>2, <2>1 DEF Untouched, machine, ObserverInv, TypeOK,
                            HoldsOrdered, HoldNeverStranded
<1>3. CASE ObserverNext
  BY <1>3, InvStep
<1>4. Queue => UNCHANGED observer
  BY DEF Queue, TimerFires, StartPage, OpenConnection, PageAnswered, PageTimesOut, Yield
<1>5. Main => UNCHANGED observer \/ ObserverNext
  BY DEF Main, DaemonEdge, DaemonHoldFires, KickFires, QuiesceBegins, QuiesceEnds,
         LateSigterm, ObserverNext
<1>6. Environment => UNCHANGED observer \/ (Change /\ Untouched) \/ ObserverNext
  <2>1. DeviceConnects \/ DeviceDrops \/ CliPages \/ CliDisconnects
          => Change /\ Untouched
    BY DEF DeviceConnects, DeviceDrops, CliPages, CliDisconnects, Untouched
  <2>2. CliPageEnds => UNCHANGED observer
    BY DEF CliPageEnds
  <2>3. UsbArrives \/ UsbLeaves \/ (\E r \in BtReaders : BtArrives(r) \/ BtLeaves(r))
          => ObserverNext
    BY DEF UsbArrives, UsbLeaves, BtArrives, BtLeaves, ObserverNext, Kernel
  <2> QED BY <2>1, <2>2, <2>3 DEF Environment
<1> QED BY <1>1, <1>2, <1>3, <1>4, <1>5, <1>6 DEF Next, vars

---------------------------------------------------------------------------
(* Types *)

(* Every environment step leaves the daemon's own state.                   *)
LEMMA EnvironmentFrame ==
  ASSUME LinkTypeOK, Environment
  PROVE  /\ UNCHANGED daemon
         /\ link' \in {"none", "device", "cli", link}
         /\ gestures' \in BOOLEAN /\ cli' \in {"off", "paging"}
BY DEF LinkTypeOK, Environment, UsbArrives, UsbLeaves, BtArrives, BtLeaves,
       DeviceConnects, DeviceDrops, CliPages, CliDisconnects, CliPageEnds

(* Each step of the daemon adds at most a block of its own kind to the     *)
(* queue or takes the oldest one.                                          *)
LEMMA QueueShape ==
  ASSUME LinkInv, [Next]_vars
  PROVE  \/ UNCHANGED jobs
         \/ jobs # <<>> /\ jobs' = Tail(jobs)
         \/ \E k \in Pages \union {"yield", "barrier"} :
              (k = "timer" => ~Queued("timer")) /\ jobs' = Append(jobs, k)
<1>1. Queue => \/ UNCHANGED jobs
               \/ jobs # <<>> /\ jobs' = Tail(jobs)
               \/ jobs' = Append(jobs, "timer") /\ ~Queued("timer")
  BY DEF Queue, TimerFires, StartPage, OpenConnection, PageAnswered, PageTimesOut, Yield,
         Working
<1>2. Main => \/ UNCHANGED jobs
              \/ jobs # <<>> /\ jobs' = Tail(jobs)
              \/ \E k \in {"usb-remove", "yield", "barrier"} : jobs' = Append(jobs, k)
  BY DEF Main, DaemonEdge, OnPresence, DaemonHoldFires, KickFires, QuiesceBegins,
         QuiesceEnds, LateSigterm, daemon
<1>3. Environment \/ UNCHANGED vars => UNCHANGED jobs
  BY EnvironmentFrame DEF LinkInv, vars, daemon
<1> QED BY <1>1, <1>2, <1>3 DEF Next, Pages

LEMMA LinkTypeStep ==
  ASSUME LinkInv, [Next]_vars
  PROVE  LinkTypeOK'
<1>1. TypeOK'
  BY LinkKeepsObserver DEF LinkInv, ObserverInv
<1>2. JobsOK(jobs')
  <2>1. JobsOK(jobs)
    BY DEF LinkInv, LinkTypeOK, JobsOK
  <2> QED BY <2>1, QueueShape, AppendKeepsJobs, TailKeepsJobs DEF LinkInv
<1>3. CASE Queue
  <2>1. UNCHANGED <<main, g_terminating, kicks, gestures, cli, timer>>
    BY <1>3 DEF Queue, TimerFires, StartPage, OpenConnection, PageAnswered,
                PageTimesOut, Yield
  <2>2. link' \in {"none", "keeper", link} /\ pager' \in {"idle", "chosen", "paging"}
    BY <1>3 DEF Queue, TimerFires, StartPage, OpenConnection, PageAnswered,
                PageTimesOut, Yield, do_disconnect_mt2, LinkInv, LinkTypeOK
  <2> QED BY <1>1, <1>2, <2>1, <2>2 DEF LinkInv, LinkTypeOK, JobsOK, Openers
<1>4. CASE Main
  <2>1. UNCHANGED <<pager, cli>> /\ link' \in {"none", link}
    BY <1>4 DEF Main, DaemonEdge, OnPresence, DaemonHoldFires, KickFires, QuiesceBegins,
                QuiesceEnds, LateSigterm, daemon, do_disconnect_mt2
  <2>2. main' \in {"running", "draining-sigterm", "draining-power", "quiesced", "exited"}
    <3>1. main' \in {"draining-sigterm", "draining-power", "quiesced", "exited", main}
      BY <1>4 DEF Main, DaemonEdge, DaemonHoldFires, KickFires, QuiesceBegins,
                  QuiesceEnds, LateSigterm, daemon
    <3> QED BY <3>1 DEF LinkInv, LinkTypeOK
  <2>3. g_terminating' \in {TRUE, g_terminating} /\ timer' \in {FALSE, timer}
    BY <1>4 DEF Main, DaemonEdge, DaemonHoldFires, KickFires, QuiesceBegins,
                QuiesceEnds, LateSigterm, daemon
  <2>4. gestures' \in {TRUE, gestures}
    BY <1>4 DEF Main, DaemonEdge, DaemonHoldFires, KickFires, QuiesceBegins,
                QuiesceEnds, LateSigterm, daemon
  <2>5. kicks' \in Nat
    <3>1. DaemonEdge => kicks' \in {kicks, kicks + 1}
      BY DEF DaemonEdge, OnPresence
    <3>2. KickFires => kicks > 0 /\ kicks' = kicks - 1
      BY DEF KickFires
    <3>3. Main => DaemonEdge \/ KickFires \/ kicks' = kicks
      BY DEF Main, DaemonHoldFires, QuiesceBegins, QuiesceEnds, LateSigterm, daemon
    <3>4. kicks \in Nat
      BY DEF LinkInv, LinkTypeOK
    <3> QED BY <1>4, <3>1, <3>2, <3>3, <3>4
  <2> QED BY <1>1, <1>2, <2>1, <2>2, <2>3, <2>4, <2>5 DEF LinkInv, LinkTypeOK, JobsOK, Openers
<1>5. CASE Environment
  BY <1>1, <1>2, <1>5, EnvironmentFrame DEF LinkInv, LinkTypeOK, JobsOK, Openers, daemon
<1>6. CASE UNCHANGED vars
  BY <1>1, <1>6 DEF vars, daemon, LinkInv, LinkTypeOK, Openers
<1> QED BY <1>3, <1>4, <1>5, <1>6 DEF Next

---------------------------------------------------------------------------
(* The properties *)

(* g_terminating is raised with the first step of the quiesce.             *)
LEMMA TerminatingStep ==
  ASSUME LinkInv, [Next]_vars
  PROVE  Terminating'
<1>1. CASE Queue \/ Environment \/ UNCHANGED vars
  <2>1. UNCHANGED <<main, g_terminating>>
    BY <1>1, EnvironmentFrame
       DEF Queue, TimerFires, StartPage, OpenConnection, PageAnswered, PageTimesOut,
           Yield, vars, daemon, LinkInv
  <2> QED BY <2>1 DEF LinkInv, Terminating
<1>2. CASE DaemonEdge \/ DaemonHoldFires \/ KickFires
  <2>1. UNCHANGED <<main, g_terminating>>
    BY <1>2 DEF DaemonEdge, DaemonHoldFires, KickFires, daemon
  <2> QED BY <2>1 DEF LinkInv, Terminating
<1>3. CASE QuiesceEnds \/ LateSigterm
  <2>1. UNCHANGED g_terminating /\ main # "running" /\ main' # "running"
    BY <1>3 DEF QuiesceEnds, LateSigterm
  <2> QED BY <2>1 DEF LinkInv, Terminating
<1>4. CASE \E d \in {"draining-sigterm", "draining-power"} : QuiesceBegins(d)
  <2>1. g_terminating' = TRUE /\ main' \in {"draining-sigterm", "draining-power"}
    BY <1>4 DEF QuiesceBegins
  <2> QED BY <2>1 DEF Terminating
<1> QED BY <1>1, <1>2, <1>3, <1>4 DEF Next, Main

(* A quiesced daemon starts no page and reaches no page's answer.          *)
LEMMA QuiescedStep ==
  ASSUME LinkInv, [Next]_vars
  PROVE  QuiescedIsClean'
<1>1. CASE Queue
  BY <1>1 DEF Queue, TimerFires, StartPage, OpenConnection, PageAnswered, PageTimesOut,
              Yield, MayPage, do_disconnect_mt2, LinkInv, Terminating, QuiescedIsClean
<1>2. CASE Main
  BY <1>2 DEF Main, DaemonEdge, OnPresence, DaemonHoldFires, KickFires, QuiesceBegins,
              QuiesceEnds, LateSigterm, daemon, do_disconnect_mt2, LinkInv, QuiescedIsClean
<1>3. CASE Environment
  BY <1>3, EnvironmentFrame DEF LinkInv, QuiescedIsClean, daemon
<1>4. CASE UNCHANGED vars
  BY <1>4 DEF vars, daemon, LinkInv, QuiescedIsClean
<1> QED BY <1>1, <1>2, <1>3, <1>4 DEF Next

(* The daemon learns of USB only with the appearance that queues a yield.  *)
LEMMA UsbOnlyByEdge ==
  ASSUME LinkInv, [Next]_vars, state' = "USB"
  PROVE  \/ state = "USB"
         \/ DaemonEdge /\ Head(inbox) = "USB_APPEAR"
<1>1. CASE DaemonEdge
  <2>1. Head(inbox) \in Edges /\ state \in States
    BY <1>1 DEF DaemonEdge, Edge, LinkInv, ObserverInv, TypeOK
  <2> QED BY <1>1, <2>1 DEF DaemonEdge, Edge, Step, Stay, Show, Edges, States
<1>2. CASE DaemonHoldFires
  BY <1>2 DEF DaemonHoldFires, HoldFires, FiredOutcome, Step, Stay, Show
<1>3. CASE ~DaemonEdge /\ ~DaemonHoldFires
  <2>1. Queue => UNCHANGED state
    BY DEF Queue, TimerFires, StartPage, OpenConnection, PageAnswered, PageTimesOut,
           Yield, observer
  <2>2. Main => UNCHANGED state
    BY <1>3 DEF Main, KickFires, QuiesceBegins, QuiesceEnds, LateSigterm, observer
  <2>3. Environment => UNCHANGED state
    BY DEF Environment, UsbArrives, UsbLeaves, BtArrives, BtLeaves, UsbReaderStarts,
           UsbReaderTerminates, BtReaderStarts, BtReaderTerminates, DeviceConnects,
           DeviceDrops, CliPages, CliDisconnects, CliPageEnds, machine, observer
  <2> QED BY <2>1, <2>2, <2>3 DEF Next, vars, observer
<1> QED BY <1>1, <1>2, <1>3

(* A page under way when USB shows up meets the yield queued behind it.    *)
LEMMA YieldStep ==
  ASSUME LinkInv, [Next]_vars
  PROVE  YieldCovers'
<1> SUFFICES ASSUME main' = "running", state' = "USB",
                    pager' # "idle" \/ link' = "keeper"
             PROVE  Queued("yield")'
  BY DEF YieldCovers
<1>0. LinkTypeOK
  BY DEF LinkInv
<1>1. CASE DaemonEdge /\ Head(inbox) = "USB_APPEAR"
  <2>1. jobs' = Append(jobs, "yield")
    BY <1>1 DEF DaemonEdge, OnPresence
  <2> QED BY <1>0, <2>1, AppendKeepsQueued
<1>2. CASE state = "USB"
  <2>1. main = "running"
    BY EnvironmentFrame DEF LinkInv, Next, vars, daemon, Queue, TimerFires, StartPage,
         OpenConnection, PageAnswered, PageTimesOut, Yield, Main, DaemonEdge,
         DaemonHoldFires, KickFires, QuiesceBegins, QuiesceEnds, LateSigterm
  <2>2. CASE Queue
    <3>1. CASE Yield
      BY <1>2, <2>1, <3>1 DEF Yield, Working, do_disconnect_mt2, LinkInv, Terminating
    <3>2. CASE StartPage
      <4>1. pager' = "idle" /\ link' = link /\ Head(jobs) \in Pages
            /\ jobs # <<>> /\ jobs' = Tail(jobs)
        BY <1>2, <3>2 DEF StartPage, MayPage, Working
      <4>2. Queued("yield") /\ Head(jobs) # "yield"
        BY <1>2, <2>1, <4>1 DEF LinkInv, YieldCovers, Pages
      <4> QED BY <1>0, <4>1, <4>2, TailKeepsQueued
    <3>3. CASE TimerFires
      <4>1. Queued("yield") /\ jobs' = Append(jobs, "timer")
        BY <1>2, <2>1, <3>3 DEF TimerFires, LinkInv, YieldCovers
      <4> QED BY <1>0, <4>1, AppendKeepsQueued
    <3>4. CASE OpenConnection \/ PageAnswered \/ PageTimesOut
      <4>1. UNCHANGED jobs /\ pager # "idle"
        BY <3>4 DEF OpenConnection, PageAnswered, PageTimesOut
      <4> QED BY <1>2, <2>1, <4>1 DEF LinkInv, YieldCovers, Queued
    <3> QED BY <2>2, <3>1, <3>2, <3>3, <3>4 DEF Queue
  <2>3. CASE Main
    <3>1. pager' = pager /\ (link' = "keeper" => link = "keeper")
      BY <2>3 DEF Main, DaemonEdge, OnPresence, DaemonHoldFires, KickFires, QuiesceBegins,
                  QuiesceEnds, LateSigterm, daemon, do_disconnect_mt2
    <3>2. Queued("yield")
      BY <1>2, <2>1, <3>1 DEF LinkInv, YieldCovers
    <3>3. UNCHANGED jobs \/ \E k \in {"usb-remove", "yield"} : jobs' = Append(jobs, k)
      BY <2>1, <2>3 DEF Main, DaemonEdge, OnPresence, DaemonHoldFires, KickFires,
                        QuiesceBegins, QuiesceEnds, LateSigterm, daemon
    <3> QED BY <1>0, <3>2, <3>3, AppendKeepsQueued DEF Queued
  <2>4. CASE Environment \/ UNCHANGED vars
    <3>1. UNCHANGED <<jobs, pager>> /\ (link' = "keeper" => link = "keeper")
      BY <1>0, <2>4, EnvironmentFrame DEF vars, daemon
    <3> QED BY <1>2, <2>1, <3>1 DEF LinkInv, YieldCovers, Queued
  <2> QED BY <2>2, <2>3, <2>4 DEF Next
<1> QED BY <1>1, <1>2, UsbOnlyByEdge

(* A reader's change posts its own notification and owes all it owed.      *)
LEMMA ReadersOwe ==
  ASSUME TypeOK, Kernel
  PROVE  Pending("USB_APPEAR") => Pending("USB_APPEAR")'
<1>1. \E e \in Edges : Post(e)
  BY DEF Kernel, UsbReaderStarts, UsbReaderTerminates, BtReaderStarts,
         BtReaderTerminates, Edges
<1> QED BY <1>1, PostOwes DEF Edges

(* The kick owed for a USB device is on its way from its arrival until     *)
(* hidd opened the frames client, merged notifications or not.             *)
LEMMA KickStep ==
  ASSUME LinkInv, [Next]_vars
  PROVE  KickPromised'
<1> SUFFICES ASSUME usb', ~gestures', main' = "running"
             PROVE  Pending("USB_APPEAR")' \/ kicks' > 0
  BY DEF KickPromised
<1>0. TypeOK /\ kicks \in Nat
  BY DEF LinkInv, LinkTypeOK
<1>1. CASE UsbArrives
  <2>1. Post("USB_APPEAR")
    BY <1>1 DEF UsbArrives, UsbReaderStarts
  <2> QED BY <1>0, <2>1, PostOwes DEF Edges
<1>2. CASE DaemonEdge
  <2>1. inbox # <<>> /\ inbox' = Tail(inbox) /\ usb' = usb /\ gestures' = gestures
        /\ main' = main
    BY <1>2 DEF DaemonEdge, Edge, kernel
  <2>2. CASE Head(inbox) = "USB_APPEAR"
    BY <1>0, <1>2, <2>2 DEF DaemonEdge, OnPresence
  <2>3. CASE Head(inbox) # "USB_APPEAR"
    <3>1. kicks' = kicks
      BY <1>2, <2>3 DEF DaemonEdge, OnPresence
    <3>2. Pending("USB_APPEAR") \/ kicks > 0
      BY <2>1 DEF LinkInv, KickPromised
    <3> QED BY <1>0, <2>1, <2>3, <3>1, <3>2, PendingSurvives
  <2> QED BY <2>2, <2>3
<1>3. CASE KickFires
  <2>1. ~g_terminating
    <3>1. main = "running"
      BY <1>3 DEF KickFires
    <3> QED BY <3>1 DEF LinkInv, Terminating
  <2>2. gestures' = TRUE
    BY <1>3, <2>1 DEF KickFires
  <2> QED BY <2>2
<1>4. CASE ~UsbArrives /\ ~DaemonEdge /\ ~KickFires
  <2>1. CASE UsbLeaves
    BY <2>1 DEF UsbLeaves, UsbReaderTerminates
  <2>2. CASE \E r \in BtReaders : BtArrives(r) \/ BtLeaves(r)
    <3>1. UNCHANGED <<usb, gestures, main, kicks>> /\ Kernel
      BY <2>2 DEF BtArrives, BtLeaves, BtReaderStarts, BtReaderTerminates, daemon, Kernel
    <3> QED BY <1>0, <3>1, ReadersOwe DEF LinkInv, KickPromised
  <2>3. CASE ~UsbLeaves /\ ~\E r \in BtReaders : BtArrives(r) \/ BtLeaves(r)
    <3>1. Queue => UNCHANGED <<usb, inbox, gestures, kicks, main>>
      BY DEF Queue, TimerFires, StartPage, OpenConnection, PageAnswered, PageTimesOut,
             Yield, observer
    <3>2. Main => UNCHANGED <<usb, inbox, gestures, kicks>> /\ main = "running"
      BY <1>4 DEF Main, DaemonHoldFires, HoldFires, QuiesceBegins, QuiesceEnds,
                  LateSigterm, daemon, observer, kernel
    <3>3. Environment => UNCHANGED <<usb, inbox, gestures, kicks, main>>
      BY <1>4, <2>3 DEF Environment, DeviceConnects, DeviceDrops, CliPages,
                        CliDisconnects, CliPageEnds, daemon, observer
    <3>4. UNCHANGED <<usb, inbox, gestures, kicks>> /\ main = "running"
      BY <3>1, <3>2, <3>3 DEF Next, vars, observer, daemon
    <3> QED BY <3>4 DEF LinkInv, KickPromised, Pending
  <2> QED BY <2>1, <2>2, <2>3
<1> QED BY <1>1, <1>2, <1>3, <1>4

LEMMA LinkInit == Init => LinkInv
<1> SUFFICES ASSUME Init PROVE LinkInv
  OBVIOUS
<1>1. ObserverInv
  BY InvInit DEF Init
<1>2. LinkTypeOK
  <2>1. jobs \in Seq(Pages \union {"yield", "barrier"}) /\ Len(jobs) = 0
    BY DEF Init
  <2>2. \A i, j \in 1..Len(jobs) : jobs[i] = "timer" /\ jobs[j] = "timer" => i = j
    BY <2>1
  <2>3. timer \in BOOLEAN /\ g_terminating \in BOOLEAN /\ gestures \in BOOLEAN
    BY DEF Init
  <2> QED BY <1>1, <2>1, <2>2, <2>3 DEF Init, ObserverInv, LinkTypeOK, Openers
<1>3. Terminating /\ YieldCovers /\ QuiescedIsClean /\ KickPromised
  BY DEF Init, Terminating, YieldCovers, QuiescedIsClean, KickPromised
<1> QED BY <1>1, <1>2, <1>3 DEF LinkInv

---------------------------------------------------------------------------
(* The theorems *)

(* The daemon's invariant.                                                 *)
THEOREM LinkInvariant == Spec => []LinkInv
<1>1. LinkInv /\ [Next]_vars => LinkInv'
  BY LinkKeepsObserver, LinkTypeStep, TerminatingStep, YieldStep, QuiescedStep, KickStep
     DEF LinkInv
<1> QED BY <1>1, LinkInit, PTL DEF Spec

(* A page of the keeper's still under way, or the link it opened, when the *)
(* daemon learns of USB always has a yield behind it (on_presence).        *)
THEOREM YieldFollowsPage == Spec => []YieldCovers
<1>1. LinkInv => YieldCovers
  BY DEF LinkInv
<1> QED BY <1>1, LinkInvariant, PTL

(* After the quiesce the daemon holds no page and no link of its own,      *)
(* whatever was queued when it began (quiesce_for_shutdown).               *)
THEOREM ShutdownIsClean == Spec => []QuiescedIsClean
<1>1. LinkInv => QuiescedIsClean
  BY DEF LinkInv
<1> QED BY <1>1, LinkInvariant, PTL

(* Every arrival of USB is owed a kick of hidd until it had one, however   *)
(* its notifications were merged (on_presence, kick_hidd).                 *)
THEOREM NoKickLost == Spec => []KickPromised
<1>1. LinkInv => KickPromised
  BY DEF LinkInv
<1> QED BY <1>1, LinkInvariant, PTL

(* The daemon's observer strands no hold either.                           *)
THEOREM DaemonStrandsNoHold == Spec => []HoldNeverStranded
<1>1. LinkInv => HoldNeverStranded
  BY DEF LinkInv, ObserverInv
<1> QED BY <1>1, LinkInvariant, PTL

=============================================================================
