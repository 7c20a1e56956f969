----------------------------- MODULE FrameCodec -----------------------------
(***************************************************************************)
(* What becomes of a contact on its way from the trackpad's report to the  *)
(* report Apple's driver parses:                                           *)
(*   mt2_decode                   9-byte records to a frame                *)
(*   mavericks_voodoo_from_frame  the frame to the mux's event             *)
(*   mavericks_frame_from_voodoo  and back                                 *)
(*   the session                  starts, ends, the full lift              *)
(*   mavericks_amd_construct_report  a Magic Trackpad 1 report             *)
(* SessionCore keeps of a contact its id and an abstract position; here a  *)
(* contact has coordinates and a slot in its frame, and bytes are numbers. *)
(* The ellipse, the orientation, the width and the finger type are left    *)
(* out: the mux's event does not carry them, or nothing reads them.        *)
(***************************************************************************)
EXTENDS Integers, SequencesExt

CONSTANTS
    REPORT_ID, HEADER,  \* the transport's framing (49 and 4, or 2 and 12)
    MAX_TRANSDUCERS,    \* contacts the mux's event has room for (10)
    UptimeWrap,         \* uptime_ms() is a uint32_t
    Ids,                \* contact ids the device uses
    Uptimes,            \* bound: the times at which frames are fed
    Spots,              \* bound: where a finger comes down
    Rails,              \* bound: the coordinates along which one slides
    Sliders,            \* bound: the ids of fingers that slide
    MaxContacts         \* bound: contacts at once

TsWrap == 4194304       \* the parser's timestamp has 22 bits
MAX_TOUCHES == 16
Raw == -4096 .. 4095    \* a coordinate of the device has 13 bits

ASSUME FramingAssumption == REPORT_ID \in Nat /\ HEADER \in Nat
ASSUME CapacityAssumption == MAX_TRANSDUCERS \in 1 .. MAX_TOUCHES
ASSUME WrapAssumption == UptimeWrap \in Nat \ {0} /\ UptimeWrap % TsWrap = 0
ASSUME InputAssumption ==
    /\ Ids \subseteq 0 .. 15 /\ Uptimes \subseteq Nat
    /\ Rails \subseteq Raw /\ Spots \subseteq Raw \X Raw
    /\ MaxContacts \in Nat

VARIABLES
    contacts,  \* the device: the contacts of its last report, in its order
    button,    \* and its button bit
    held,      \* fSession.lifecycle: last, on the ids in prev_ids
    sent,      \* the last report fed to the AMD
    fed_at     \* and when

vars == <<contacts, button, held, sent, fed_at>>

NoReport == [header |-> <<>>, touches |-> <<>>]

-----------------------------------------------------------------------------
(* The ranges of mt2_coord_range.h and of the Magic Trackpad 1             *)

MT2 == [x |-> [min |-> -3678, max |-> 3934], y |-> [min |-> -2478, max |-> 2587]]
MT1 == [x |-> [min |-> -2909, max |-> 3167], y |-> [min |-> -2456, max |-> 2565]]

Span(r) == r.max - r.min
Clip(v, r) == IF v < r.min THEN r.min ELSE IF v > r.max THEN r.max ELSE v

\* Division of C, which rounds towards zero.
Quot(a, b) == IF a < 0 THEN -((-a) \div b) ELSE a \div b

\* A 13-bit pattern and the number it stands for.
Low13(v) == v % 8192
Signed13(p) == IF p >= 4096 THEN p - 8192 ELSE p

-----------------------------------------------------------------------------
(* The device's report                                                     *)

(* One record: x and y in 13 bits each, "finger down", the ellipse, the     *)
(* size, which is 0 for a contact that lifts, and the id.                  *)
Record(c) ==
    LET X == Low13(c.x)  Y == Low13(c.y) IN
    << X % 256, X \div 256 + 32 * (Y % 8), (Y \div 8) % 256, Y \div 2048 + 128,
       8, 8, c.size, 0, c.id >>

Report(cs, b) ==
    [id |-> REPORT_ID, len |-> HEADER + 9 * Len(cs), flags |-> b,
     points |-> [k \in DOMAIN cs |-> Record(cs[k])]]

-----------------------------------------------------------------------------
(* mt2_decode                                                              *)

Contact(i, x, y, s) == [id |-> i, x |-> x, y |-> y, size |-> s]

\* Mutant: no sign extension of x.
DecodedUnsigned(t) ==
    Contact(t[9] % 16, t[1] + 256 * (t[2] % 32),
            -Signed13(t[2] \div 32 + 8 * t[3] + 2048 * (t[4] % 4)), t[7])

Decoded(t) ==
    Contact(t[9] % 16, Signed13(t[1] + 256 * (t[2] % 32)),
            -Signed13(t[2] \div 32 + 8 * t[3] + 2048 * (t[4] % 4)), t[7])

Decodes(r) == r.id = REPORT_ID /\ r.len >= HEADER /\ (r.len - HEADER) % 9 = 0

Decode(r) ==
    [button |-> r.flags % 2,
     touches |-> [k \in 1 .. Min({(r.len - HEADER) \div 9, MAX_TOUCHES}) |->
                    Decoded(r.points[k])]]

-----------------------------------------------------------------------------
(* mavericks_voodoo_translate.cpp.  Both readers advertise the spans of    *)
(* their axes as logical maximum, so the branch for 0 is never taken.      *)

inv_rescale(v, lmax, out) == ((Clip(v, out) - out.min) * lmax) \div Span(out)

rescale(v, lmax, out) ==
    out.min + ((IF v > lmax THEN lmax ELSE v) * Span(out)) \div lmax

\* What one coordinate becomes on its way through the event.
OverWire(v, r) == rescale(inv_rescale(v, Span(r), r), Span(r), r)

voodoo_from_frame(f) ==
    [k \in 1 .. Min({Len(f.touches), MAX_TRANSDUCERS}) |->
        LET c == f.touches[k] IN
        [id |-> c.id, button |-> f.button, pressure |-> c.size % 256,
         x |-> inv_rescale(c.x, Span(MT2.x), MT2.x),
         y |-> inv_rescale(c.y, Span(MT2.y), MT2.y)]]

frame_from_voodoo(w) ==
    [button |-> IF \E k \in DOMAIN w : w[k].button # 0 THEN 1 ELSE 0,
     touches |-> [k \in DOMAIN w |->
        Contact(w[k].id, rescale(w[k].x, Span(MT2.x), MT2.x),
                rescale(w[k].y, Span(MT2.y), MT2.y), w[k].pressure)]]

-----------------------------------------------------------------------------
(* The session: mavericks_drop_lifted, the two passes of                   *)
(* mavericks_lifecycle_step in the order of the slots, and the full lift.  *)

IsPresent(c) == c.size > 0

\* The n-th of a set of numbers.
Nth(S, n) == CHOOSE k \in S : Cardinality({j \in S : j <= k}) = n

Kept(touches) == {k \in DOMAIN touches : IsPresent(touches[k])}
Present(f) ==
    [n \in 1 .. Cardinality(Kept(f.touches)) |-> f.touches[Nth(Kept(f.touches), n)]]

Stated(c, s) ==
    [id |-> c.id, x |-> c.x, y |-> c.y, size |-> c.size, state |-> s]

Entered(present) ==
    [k \in DOMAIN present |->
        Stated(present[k], IF present[k].id \in DOMAIN held THEN "TS_TOUCHING"
                                                           ELSE "TS_START")]

IdsOf(cs) == {cs[k].id : k \in DOMAIN cs}

Ends(present) ==
    LET gone == DOMAIN held \ IdsOf(present)
        room == MAX_TOUCHES - Len(present)
    IN  [k \in 1 .. Min({Cardinality(gone), room}) |-> Stated(held[Nth(gone, k)], "TS_END")]

\* Mutant: the absence frames of a full lift keep the button of the frame.
AbsenceKeepsButton(f) ==
    [button |-> f.button,
     touches |-> IF Present(f) = <<>> THEN <<>>
                 ELSE Entered(Present(f)) \o Ends(Present(f))]

(* The frame the recognizer is fed; on a full lift, the absence frame (of  *)
(* which it gets two).                                                     *)
Conditioned(f) ==
    IF Present(f) = <<>> THEN [button |-> 0, touches |-> <<>>]
    ELSE [button |-> f.button, touches |-> Entered(Present(f)) \o Ends(Present(f))]

Holding(present) ==
    [i \in IdsOf(present) |->
        present[CHOOSE k \in DOMAIN present : present[k].id = i]]

-----------------------------------------------------------------------------
(* mavericks_amd_construct_report                                          *)

scale(v, in, out) ==
    Clip(Quot((v - in.min) * Span(out), Span(in)) + out.min, out)

Nibble(state) ==
    CASE state = "TS_START" -> 3 [] state = "TS_TOUCHING" -> 4 [] OTHER -> 5

(* One contact.  A present one is reported firm; an end keeps its size and *)
(* the radii the event left 0.  V is the y it carries and low the part of  *)
(* the id beside the size.  Slots count from 1.                            *)
Packed(c, slot, V, low) ==
    LET X == Low13(scale(c.x, MT2.x, MT1.x))
        firm == c.state # "TS_END"
        radius == IF firm THEN 32 ELSE 0
    IN  << X % 256, ((X \div 256) % 32) + 32 * (V % 8), (V \div 8) % 256, V \div 2048,
           radius, radius, (IF firm THEN 63 ELSE c.size % 64) + 64 * low,
           128 + c.id \div 4, 16 * Nibble(c.state) + (slot % 5) + 1 >>

\* Mutant: y is not stored negated.
EncodedUpright(c, slot) == Packed(c, slot, Low13(scale(c.y, MT2.y, MT1.y)), c.id % 4)

Encoded(c, slot) == Packed(c, slot, Low13(-scale(c.y, MT2.y, MT1.y)), c.id % 4)

\* Mutant: the layout of hid-magicmouse, four bits higher.
StampMagicMouse(b, u) ==
    << 40, b + 64 * (u % 4), (u \div 4) % 256, (u \div 1024) % 256 >>

(* The header, with the button and 22 bits of the uptime.                  *)
Stamp(b, u) ==
    LET ts == u % TsWrap IN
    << 40, b + 4 * (ts % 64), (ts \div 64) % 256, (ts \div 16384) % 256 >>

construct_report(f, u) ==
    [header |-> Stamp(f.button, u),
     touches |-> [k \in 1 .. Min({Len(f.touches), MAX_TOUCHES}) |->
                    Encoded(f.touches[k], k)]]

-----------------------------------------------------------------------------
(* What Apple's CompactV4 parser makes of the report, as the comments of   *)
(* mavericks_amd_construct_report describe it.                             *)

Timestamp(m) ==
    m.header[2] \div 4 + 64 * m.header[3] + 16384 * m.header[4]

Clicked(m) == m.header[2] % 2

Parsed(t) ==
    [id |-> t[7] \div 64 + 4 * (t[8] % 4), state |-> t[9] \div 16,
     x |-> Signed13(t[1] + 256 * (t[2] % 32)),
     y |-> -Signed13(t[2] \div 32 + 8 * t[3] + 2048 * (t[4] % 4))]

-----------------------------------------------------------------------------
(* A report arrives: the reader decodes it, the mux routes the event, the  *)
(* backend feeds the session, whose frame is encoded at time ms.  A report *)
(* that does not decode changes nothing, and neither does an empty frame   *)
(* with nothing down.                                                      *)
Arrives(cs, b, ms) ==
    LET f == frame_from_voodoo(voodoo_from_frame(Decode(Report(cs, b)))) IN
    /\ ms >= fed_at
    /\ Decodes(Report(cs, b))
    /\ contacts' = cs /\ button' = b
    /\ held' = Holding(Present(f))
    /\ IF Present(f) = <<>> /\ held = <<>>
       THEN UNCHANGED <<sent, fed_at>>
       ELSE /\ sent' = construct_report(Conditioned(f), ms % UptimeWrap)
            /\ fed_at' = ms

Touch(i, spot, ms) ==
    /\ Len(contacts) < MaxContacts /\ i \notin IdsOf(contacts)
    /\ \A k \in DOMAIN contacts : <<contacts[k].x, contacts[k].y>> \in Spots
    /\ Arrives(Append(contacts, Contact(i, spot[1], spot[2], 40)), button, ms)

\* A finger leaves: a record of size 0 first, or the record is just gone.
Lift(k, ms) ==
    \/ Arrives([contacts EXCEPT ![k].size = 0], button, ms)
    \/ Arrives(RemoveAt(contacts, k), button, ms)

Press(ms) == Arrives(contacts, 1 - button, ms)

(* A single finger slides a unit along x or y.  (Bound: the next finger     *)
(* comes down only when it is on one of the Spots again.)                  *)
Slid(c, dx, dy) == Contact(c.id, c.x + dx, c.y + dy, c.size)

MaySlide(c, dx, dy) ==
    /\ IsPresent(c) /\ c.id \in Sliders
    /\ dx # 0 => c.y \in Rails
    /\ dy # 0 => c.x \in Rails
    /\ c.x + dx \in Raw /\ c.y + dy \in Raw

Slide(dx, dy, ms) ==
    /\ Len(contacts) = 1 /\ MaySlide(contacts[1], dx, dy)
    /\ Arrives(<<Slid(contacts[1], dx, dy)>>, button, ms)

Init ==
    /\ contacts = <<>> /\ button = 0
    /\ held = <<>>
    /\ sent = NoReport /\ fed_at = 0

Next == \E ms \in Uptimes :
    \/ \E i \in Ids, spot \in Spots : Touch(i, spot, ms)
    \/ \E k \in DOMAIN contacts : Lift(k, ms)
    \/ Press(ms)
    \/ \E d \in {-1, 1} : Slide(d, 0, ms) \/ Slide(0, d, ms)

Spec == Init /\ [][Next]_vars

-----------------------------------------------------------------------------
(* Properties                                                              *)

Bytes(s) == \A k \in DOMAIN s : s[k] \in 0 .. 255

(* Every field fits its bits: no byte of the report spills over.           *)
CodecTypeOK ==
    /\ button \in {0, 1} /\ fed_at \in Nat
    /\ Len(contacts) <= MaxContacts
    /\ \A k \in DOMAIN contacts : contacts[k].id \in Ids
    /\ DOMAIN held \subseteq Ids
    /\ Bytes(sent.header) /\ \A k \in DOMAIN sent.touches : Bytes(sent.touches[k])

(* m is v, clipped to the trackpad's range, on the other trackpad's scale, *)
(* to within a unit.                                                       *)
Near(v, m, in, out) ==
    LET error == (Clip(v, in) - in.min) * Span(out) - (m - out.min) * Span(in)
    IN  0 <= error /\ error < Span(in)

(* The records of fingers that touch, among those the event has room for:  *)
(* it takes the first MAX_TRANSDUCERS records, of lifting contacts too.    *)
Seen(cs) == {k \in 1 .. Len(cs) : k <= MAX_TRANSDUCERS /\ IsPresent(cs[k])}

(* A finger the event has room for is parsed once, under its id, as down,  *)
(* where it is; nothing else is parsed as down, and a finger that no longer*)
(* fits is not left down where it was.                                     *)
RecognizedRight ==
    sent # NoReport =>
        LET seen == {k \in DOMAIN sent.touches : Parsed(sent.touches[k]).state # 5}
        IN  /\ \A k \in Seen(contacts) : \E j \in seen :
                LET c == contacts[k]  p == Parsed(sent.touches[j]) IN
                p.id = c.id /\ Near(c.x, p.x, MT2.x, MT1.x) /\ Near(-c.y, p.y, MT2.y, MT1.y)
            /\ \A j, l \in seen :
                Parsed(sent.touches[j]).id = Parsed(sent.touches[l]).id => j = l
            /\ \A j \in seen : \E k \in Seen(contacts) :
                Parsed(sent.touches[j]).id = contacts[k].id

(* The button bit of a report is the device's while a finger the event has *)
(* room for touches, and is released with the last such finger.  A click   *)
(* under a finger that does not fit, and no other, is lost with the finger.*)
ClickReaches ==
    sent # NoReport =>
        Clicked(sent) = IF Seen(contacts) = {} THEN 0 ELSE button

(* A slide of one unit is parsed as a move in the same direction, or none, *)
(* and of one unit at most: the cursor never jumps and never goes back.    *)
Moved(from, to) == IF to > from THEN {0, 1} ELSE IF to < from THEN {-1, 0} ELSE {0}

MotionKept ==
    [][Len(contacts) = 1 /\ Len(contacts') = 1 /\ held # <<>> /\ held' # <<>>
        => LET c == contacts[1]  d == contacts'[1]
               p == Parsed(sent.touches[1])  q == Parsed(sent'.touches[1])
           IN  /\ q.x - p.x \in Moved(c.x, d.x)
               /\ q.y - p.y \in Moved(-c.y, -d.y)]_vars

(* The parser's clock advances by the milliseconds that passed, modulo its *)
(* 22 bits, also when the kernel's 32-bit uptime wraps between two reports *)
(* (the comment on the timestamp: inter-frame deltas survive).             *)
DeltasSurvive ==
    [][sent # NoReport /\ sent' # NoReport =>
        (Timestamp(sent') - Timestamp(sent)) % TsWrap = (fed_at' - fed_at) % TsWrap]_vars

=============================================================================
