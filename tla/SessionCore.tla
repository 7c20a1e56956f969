---------------------------- MODULE SessionCore ----------------------------
(***************************************************************************)
(* The CONDITION stage of the input pipeline as pure operators:            *)
(* mavericks_pipeline.c, mavericks_lifecycle.c and the emit helpers of     *)
(* mavericks_session.c.                                                    *)
(*                                                                         *)
(* A device frame is [button, touches]: touches maps the ids the device    *)
(* reports (a subset of Ids, each id at most once) to a position and a     *)
(* size; size 0 is the device's way of saying "lifted".  A conditioned     *)
(* frame is [button, touches] with a touch state in place of the size.     *)
(* The order of contacts inside a frame is abstracted away; its capacity,  *)
(* MAX_TOUCHES, is not.                                                    *)
(***************************************************************************)
EXTENDS Integers, FiniteSets, Sequences

CONSTANTS
    MAX_TOUCHES,  \* capacity of a frame and number of contact ids (16)
    Pos           \* the positions a contact may be at

ASSUME MaxTouchesAssumption == MAX_TOUCHES \in Nat \ {0}
ASSUME PosAssumption == Pos # {}

(* `transducers[i].id & 0x0f`: the ids of contacts, also the indices of     *)
(* lc->last and the bits of lc->prev_ids.                                   *)
Ids == 0 .. MAX_TOUCHES - 1

States == {"TS_START", "TS_TOUCHING", "TS_END"}

RawFrames ==
    UNION {[button : {0, 1}, touches : [S -> [pos : Pos, size : {0, 1}]]] :
            S \in SUBSET Ids}

Frames ==
    UNION {[button : {0, 1}, touches : [S -> [pos : Pos, state : States]]] :
            S \in SUBSET Ids}

NoContacts == [i \in {} |-> 0]

(* The zero-contact frame `MavericksTouchFrame empty = {0}`.                *)
Absence == [button |-> 0, touches |-> NoContacts]

(* The ids a recognizer believes down after a conditioned frame.            *)
Down(f) == {i \in DOMAIN f.touches : f.touches[i].state # "TS_END"}

-----------------------------------------------------------------------------
(* mavericks_pipeline.c                                                     *)

SettlePassed(now, until) == now >= until

(* mavericks_drop_lifted: the ids of the contacts that are really present.  *)
DropLifted(f) == {i \in DOMAIN f.touches : f.touches[i].size > 0}

(* The mask mavericks_button_edge computes for a changed button bit: the    *)
(* finger count is the frame's contact_count, TS_END contacts included.     *)
ClickMask(f) ==
    IF f.button = 0 THEN 0
    ELSE IF Cardinality(DOMAIN f.touches) = 2 THEN 2 ELSE 1

-----------------------------------------------------------------------------
(* mavericks_lifecycle.c                                                    *)

(* Mutant: an append guard that leaves the last slot of the frame unused.   *)
EndedOneSlotShort(prev, now) ==
    {id \in prev \ now :
        Cardinality(now) + Cardinality({j \in prev \ now : j < id})
            < MAX_TOUCHES - 1}

(* Pass 2 of mavericks_lifecycle_step: the vanished ids, in id order, as    *)
(* long as the frame has room for one more contact.                         *)
Ended(prev, now) ==
    {id \in prev \ now :
        Cardinality(now) + Cardinality({j \in prev \ now : j < id})
            < MAX_TOUCHES}

(* mavericks_drop_lifted followed by mavericks_lifecycle_step: the frame    *)
(* with the MakeTouch / BreakTouch transitions synthesized.                 *)
LifecycleStep(prev, last, f) ==
    LET now == DropLifted(f) IN
    [button  |-> f.button,
     touches |-> [i \in now \cup Ended(prev, now) |->
        IF i \in now
        THEN [pos   |-> f.touches[i].pos,
              state |-> IF i \in prev THEN "TS_TOUCHING" ELSE "TS_START"]
        ELSE [pos |-> last[i], state |-> "TS_END"]]]

(* lc->last after the step: refreshed for every present id.                 *)
LifecycleLast(prev, last, f) ==
    [i \in Ids |-> IF i \in DropLifted(f) THEN f.touches[i].pos ELSE last[i]]

(* mavericks_lifecycle_flush: a TS_END for every id still down.             *)
LifecycleFlush(prev, last) ==
    [button  |-> 0,
     touches |-> [i \in prev |-> [pos |-> last[i], state |-> "TS_END"]]]

-----------------------------------------------------------------------------
(* mavericks_session.c: emit, frame_all_breaktouch, emit_with_liftoff       *)

FrameAllBreakTouch(f) == DOMAIN f.touches # {} /\ Down(f) = {}

(* The frames emit_with_liftoff hands to feed_frame.                        *)
EmitWithLiftoff(f) == IF FrameAllBreakTouch(f) THEN <<Absence, Absence>>
                                               ELSE <<f>>

(* What the shipped policy row (ABSENCE_PAIR, empties 0) feeds for f.       *)
Conditioned(f) == IF DOMAIN f.touches = {} THEN <<>> ELSE EmitWithLiftoff(f)

(* Mutant: the absence frames of a full lift bypass the edge detector.      *)
ButtonKeptOnLift(fs, button) ==
    IF fs = <<>> \/ DOMAIN fs[Len(fs)].touches = {} THEN button
    ELSE fs[Len(fs)].button

(* s->last_button after emit has seen the frames fs.                        *)
ButtonAfter(fs, button) == IF fs = <<>> THEN button ELSE fs[Len(fs)].button
=============================================================================
