--------------------------- MODULE ContactStream ---------------------------
(***************************************************************************)
(* What the CONDITION stage promises Apple's recognizer: the stream of     *)
(* frames it is fed tells one consistent story about every contact.        *)
(*                                                                         *)
(*   - a contact begins with exactly one TS_START, goes on as TS_TOUCHING  *)
(*     and ends with exactly one TS_END at its last reported position;     *)
(*   - a contact never disappears from a frame without that TS_END, except *)
(*     in a full lift;                                                     *)
(*   - a full lift is never a frame of TS_ENDs: it is exactly two absence  *)
(*     frames, the second pumping the recognizer's armed tap.              *)
(*                                                                         *)
(* recognizer maps the contacts the recognizer believes down to the        *)
(* positions it was last told; fed is what the latest step fed it.         *)
(***************************************************************************)
EXTENDS SessionCore

VARIABLES recognizer, fed

(* Frame f is a legal continuation of the contacts c.                       *)
Continues(c, f) ==
    /\ Down(f) # {}
    /\ DOMAIN c \subseteq DOMAIN f.touches
    /\ \A i \in DOMAIN f.touches :
        LET t == f.touches[i] IN
        /\ t.state = "TS_START" <=> i \notin DOMAIN c
        /\ t.state = "TS_END" => t.pos = c[i]

Tracked(f) == [i \in Down(f) |-> f.touches[i].pos]

Init == recognizer = NoContacts /\ fed = <<>>

Deliver ==
    /\ Len(fed') = 1
    /\ Continues(recognizer, fed'[1])
    /\ recognizer' = Tracked(fed'[1])

LiftAll ==
    /\ DOMAIN recognizer # {}
    /\ fed' = <<Absence, Absence>>
    /\ recognizer' = NoContacts

(* Nothing fed; the consumer may be replaced by a fresh one.                *)
Silent ==
    /\ fed' = <<>>
    /\ recognizer' \in {recognizer, NoContacts}

Next == Deliver \/ LiftAll \/ Silent

Spec == Init /\ [][Next]_<<recognizer, fed>>
=============================================================================
