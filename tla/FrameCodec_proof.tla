-------------------------- MODULE FrameCodec_proof --------------------------
(***************************************************************************)
(* What the codec does to one coordinate, one contact and the clock, for   *)
(* every value the fields can hold.                                        *)
(***************************************************************************)
EXTENDS FrameCodec, FiniteSetTheorems, SequenceTheorems, WellFoundedInduction, TLAPS

-----------------------------------------------------------------------------
(* Bits                                                                    *)

(* Thirteen bits in two bytes, as x is packed. *)
LEMMA LowHigh ==
  ASSUME NEW p \in 0 .. 8191
  PROVE  /\ p % 256 \in 0 .. 255 /\ p \div 256 \in 0 .. 31
         /\ (p % 256) + 256 * (p \div 256) = p
<1>1. p \in Int /\ 0 <= p /\ p <= 8191
  OBVIOUS
<1>2. p % 256 \in 0 .. 255 /\ (p % 256) + 256 * (p \div 256) = p
  BY <1>1, SMT
<1>3. p \div 256 \in Int /\ 0 <= p \div 256
  BY <1>1, SMT
<1>4. p \div 256 <= 31
  BY <1>1, SMT
<1>5. QED
  BY <1>2, <1>3, <1>4

(* Thirteen bits in three bytes, as y is packed. *)
LEMMA LowMiddleHigh ==
  ASSUME NEW p \in 0 .. 8191
  PROVE  /\ p % 8 \in 0 .. 7 /\ (p \div 8) % 256 \in 0 .. 255
         /\ p \div 2048 \in 0 .. 3
         /\ (p % 8) + 8 * ((p \div 8) % 256) + 2048 * (p \div 2048) = p
  BY SMT

(* A byte that holds five bits of x and three of y. *)
LEMMA SharedByte ==
  ASSUME NEW a \in 0 .. 31, NEW b \in 0 .. 7
  PROVE  /\ a + 32 * b \in 0 .. 255
         /\ (a + 32 * b) % 32 = a /\ (a + 32 * b) \div 32 = b
<1>1. (a + 32 * b) % 32 = a
  BY SMT
<1>2. (a + 32 * b) \div 32 = b
  BY SMT
<1>3. QED
  BY <1>1, <1>2

(* A number of thirteen bits is recovered from its pattern. *)
LEMMA SignRecovered ==
  ASSUME NEW v \in Raw
  PROVE  Low13(v) \in 0 .. 8191 /\ Signed13(Low13(v)) = v
<1>1. v \in -4096 .. 4095
  BY DEF Raw
<1>2. v % 8192 \in 0 .. 8191
  BY <1>1, SMT
<1>3. IF v % 8192 >= 4096 THEN (v % 8192) - 8192 = v ELSE v % 8192 = v
  BY <1>1, SMT
<1>4. QED
  BY <1>2, <1>3 DEF Low13, Signed13

-----------------------------------------------------------------------------
(* Coordinates                                                             *)

(* The comment in mavericks_voodoo_translate.h: with the span as logical   *)
(* maximum the trip through the event is exact, apart from the clamp.      *)
THEOREM WireIsExact ==
  ASSUME NEW v \in Int, NEW r \in {MT2.x, MT2.y}
  PROVE  OverWire(v, r) = Clip(v, r)
<1>1. r.min \in Int /\ r.max \in Int /\ r.min < r.max
  BY DEF MT2
<1>2. CASE r = MT2.x
  BY <1>2, SMT DEF OverWire, rescale, inv_rescale, Clip, Span, MT2
<1>3. CASE r = MT2.y
  BY <1>3, SMT DEF OverWire, rescale, inv_rescale, Clip, Span, MT2
<1>4. QED
  BY <1>2, <1>3

(* On the other trackpad's scale a clamped coordinate is off by less than  *)
(* a unit and fits in thirteen bits, negated or not.                       *)
LEMMA XIsNear ==
  ASSUME NEW v \in Int
  PROVE  LET x == scale(Clip(v, MT2.x), MT2.x, MT1.x)
         IN  x \in Raw /\ Near(v, x, MT2.x, MT1.x)
<1> DEFINE w == Clip(v, MT2.x)
           q == ((w + 3678) * 6076) \div 7612
<1>1. w \in Int /\ -3678 <= w /\ w <= 3934
  BY SMT DEF Clip, MT2
<1> HIDE DEF w
<1>2. /\ q \in Int /\ 0 <= q /\ q <= 6076
      /\ 0 <= (w + 3678) * 6076 - q * 7612 /\ (w + 3678) * 6076 - q * 7612 < 7612
  BY <1>1, SMT
<1>3. Quot((w + 3678) * 6076, 7612) = q
  BY <1>1, SMT DEF Quot
<1>4. MT2.x.min = -3678 /\ MT1.x.min = -2909 /\ Span(MT2.x) = 7612
      /\ Span(MT1.x) = 6076 /\ MT1.x.max = 3167
  BY DEF MT1, MT2, Span
<1> HIDE DEF q
<1>5. scale(w, MT2.x, MT1.x) = q - 2909
  BY <1>1, <1>2, <1>3, <1>4, SMT DEF scale, Clip
<1>6. QED
  BY <1>1, <1>2, <1>4, <1>5, SMT DEF Near, Raw, w

LEMMA YIsNear ==
  ASSUME NEW v \in Int
  PROVE  LET y == scale(Clip(v, MT2.y), MT2.y, MT1.y)
         IN  y \in Int /\ -y \in Raw /\ Near(v, y, MT2.y, MT1.y)
<1> DEFINE w == Clip(v, MT2.y)
           q == ((w + 2478) * 5021) \div 5065
<1>1. w \in Int /\ -2478 <= w /\ w <= 2587
  BY SMT DEF Clip, MT2
<1> HIDE DEF w
<1>2. /\ q \in Int /\ 0 <= q /\ q <= 5021
      /\ 0 <= (w + 2478) * 5021 - q * 5065 /\ (w + 2478) * 5021 - q * 5065 < 5065
  BY <1>1, SMT
<1>3. Quot((w + 2478) * 5021, 5065) = q
  BY <1>1, SMT DEF Quot
<1>4. MT2.y.min = -2478 /\ MT1.y.min = -2456 /\ Span(MT2.y) = 5065
      /\ Span(MT1.y) = 5021 /\ MT1.y.max = 2565
  BY DEF MT1, MT2, Span
<1> HIDE DEF q
<1>5. scale(w, MT2.y, MT1.y) = q - 2456
  BY <1>1, <1>2, <1>3, <1>4, SMT DEF scale, Clip
<1>6. QED
  BY <1>1, <1>2, <1>4, <1>5, SMT DEF Near, Raw, w

-----------------------------------------------------------------------------
(* Contacts                                                                *)

(* mt2_decode reads the id, the position (y upside down) and the size of a *)
(* record as the device means them.                                        *)
LEMMA RecordDecoded ==
  ASSUME NEW c \in [id : 0 .. 15, x : Raw, y : Raw, size : 0 .. 255]
  PROVE  Decoded(Record(c)) = Contact(c.id, c.x, -c.y, c.size)
<1> DEFINE X == Low13(c.x)
           Y == Low13(c.y)
<1>1. X \in 0 .. 8191 /\ Signed13(X) = c.x /\ Y \in 0 .. 8191 /\ Signed13(Y) = c.y
  <2>1. c.x \in Raw /\ c.y \in Raw
    OBVIOUS
  <2>2. \A v \in Raw : Low13(v) \in 0 .. 8191 /\ Signed13(Low13(v)) = v
    BY SignRecovered
  <2>3. X \in 0 .. 8191 /\ Signed13(X) = c.x
    BY <2>1, <2>2
  <2>4. Y \in 0 .. 8191 /\ Signed13(Y) = c.y
    BY <2>1, <2>2
  <2> HIDE DEF X, Y
  <2> QED BY <2>3, <2>4
<1> HIDE DEF X, Y
<1>1a. X \in 0 .. 8191 /\ Y \in 0 .. 8191
  BY <1>1
<1>2. X \div 256 \in 0 .. 31 /\ (X % 256) + 256 * (X \div 256) = X
  BY <1>1a, LowHigh
<1>3. Y % 8 \in 0 .. 7 /\ (Y % 8) + 8 * ((Y \div 8) % 256) + 2048 * (Y \div 2048) = Y
  <2>1. \A v \in 0 .. 8191 :
          v % 8 \in 0 .. 7 /\ (v % 8) + 8 * ((v \div 8) % 256) + 2048 * (v \div 2048) = v
    BY LowMiddleHigh
  <2> QED BY <1>1a, <2>1
<1>4. /\ (X \div 256 + 32 * (Y % 8)) % 32 = X \div 256
      /\ (X \div 256 + 32 * (Y % 8)) \div 32 = Y % 8
  BY <1>2, <1>3, SharedByte
<1>5. (Y \div 2048 + 128) % 4 = Y \div 2048
  <2>1. \A v \in 0 .. 8191 : v \div 2048 \in 0 .. 3
    BY SMT
  <2>2. \A h \in 0 .. 3 : (h + 128) % 4 = h
    BY SMT
  <2> QED BY <1>1a, <2>1, <2>2
<1>6. c.id % 16 = c.id
  BY SMT
<1>7. Record(c) = << X % 256, X \div 256 + 32 * (Y % 8), (Y \div 8) % 256,
                     Y \div 2048 + 128, 8, 8, c.size, 0, c.id >>
  BY DEF Record, X, Y
<1>8. QED
  BY <1>1, <1>2, <1>3, <1>4, <1>5, <1>6, <1>7 DEF Decoded

(* The parser reads back the id, the coordinates and the state of an       *)
(* encoded contact.                                                        *)
LEMMA EncodedParsed ==
  ASSUME NEW c, c.id \in 0 .. 15, NEW slot \in Nat,
         c.size \in 0 .. 255, c.state \in {"TS_START", "TS_TOUCHING", "TS_END"},
         scale(c.x, MT2.x, MT1.x) \in Raw,
         scale(c.y, MT2.y, MT1.y) \in Int, -scale(c.y, MT2.y, MT1.y) \in Raw
  PROVE  LET p == Parsed(Encoded(c, slot))
         IN  /\ p.id = c.id /\ (p.state = 5 <=> c.state = "TS_END")
             /\ p.x = scale(c.x, MT2.x, MT1.x) /\ p.y = scale(c.y, MT2.y, MT1.y)
<1> DEFINE x == scale(c.x, MT2.x, MT1.x)
           y == scale(c.y, MT2.y, MT1.y)
<1>a. x \in Raw /\ y \in Int /\ -y \in Raw
  OBVIOUS
<1> HIDE DEF x, y
<1> DEFINE X == Low13(x)
           V == Low13(-y)
           size == IF c.state # "TS_END" THEN 63 ELSE c.size % 64
           radius == IF c.state # "TS_END" THEN 32 ELSE 0
           role == (slot % 5) + 1
<1>0. X \in 0 .. 8191 /\ Signed13(X) = x
  BY <1>a, SignRecovered
<1>1. V \in 0 .. 8191 /\ Signed13(V) = -y
  <2> DEFINE m == -y
  <2>1. m \in Raw
    BY <1>a
  <2> HIDE DEF m
  <2>2. Low13(m) \in 0 .. 8191 /\ Signed13(Low13(m)) = m
    BY <2>1, SignRecovered
  <2>3. QED
    BY <2>2 DEF m
<1>2. size \in 0 .. 63
  BY SMT
<1>3. role \in 1 .. 5
  BY SMT
<1>4. Encoded(c, slot) =
        << X % 256, ((X \div 256) % 32) + 32 * (V % 8), (V \div 8) % 256, V \div 2048,
           radius, radius, size + 64 * (c.id % 4),
           128 + c.id \div 4, 16 * Nibble(c.state) + (slot % 5) + 1 >>
  BY DEF Encoded, Packed, x, y
<1> HIDE DEF X, V, size, radius, role
<1>5. X \div 256 \in 0 .. 31 /\ (X % 256) + 256 * (X \div 256) = X
  BY <1>0, LowHigh
<1>6. (X \div 256) % 32 = X \div 256
  BY <1>5, SMT
<1>7. /\ V % 8 \in 0 .. 7 /\ V \div 2048 \in 0 .. 3
      /\ (V % 8) + 8 * ((V \div 8) % 256) + 2048 * (V \div 2048) = V
  <2>1. V \in 0 .. 8191
    BY <1>1
  <2>2. QED
    BY <2>1, LowMiddleHigh
<1>8. (V \div 2048) % 4 = V \div 2048
  BY <1>7, SMT
<1>9. /\ (X \div 256 + 32 * (V % 8)) % 32 = X \div 256
      /\ (X \div 256 + 32 * (V % 8)) \div 32 = V % 8
  BY <1>5, <1>7, SharedByte
<1>10. (size + 64 * (c.id % 4)) \div 64 + 4 * ((128 + c.id \div 4) % 4) = c.id
  <2>1. c.id % 4 \in 0 .. 3 /\ c.id \div 4 \in 0 .. 3 /\ (c.id % 4) + 4 * (c.id \div 4) = c.id
    BY SMT
  <2>2. (128 + c.id \div 4) % 4 = c.id \div 4
    BY <2>1, SMT
  <2>3. \A n \in 0 .. 3 : (size + 64 * n) \div 64 = n
    BY <1>2, SMT
  <2>4. QED
    BY <2>1, <2>2, <2>3, SMT
<1>11. \A n \in 3 .. 5 : (16 * n + role) \div 16 = n
  BY <1>3, SMT
<1>12. Nibble(c.state) \in 3 .. 5 /\ (Nibble(c.state) = 5 <=> c.state = "TS_END")
  BY DEF Nibble
<1>13. 16 * Nibble(c.state) + (slot % 5) + 1 = 16 * Nibble(c.state) + role
  BY <1>12, SMT DEF role
<1>14. -(-y) = y
  BY <1>a, SMT
<1>15. QED
  BY <1>0, <1>1, <1>4, <1>5, <1>6, <1>7, <1>8, <1>9, <1>10, <1>11, <1>12, <1>13, <1>14
     DEF Parsed, x, y

(* From the device's record to Apple's parser: a contact keeps its id, its *)
(* state is what the session made of it, and its position is within a unit *)
(* of the place the finger has on the other trackpad's scale.              *)
THEOREM PositionSurvives ==
  ASSUME NEW c \in [id : 0 .. 15, x : Raw, y : Raw, size : 0 .. 255],
         NEW state \in {"TS_START", "TS_TOUCHING", "TS_END"}, NEW slot \in Nat
  PROVE  LET d == Decoded(Record(c))
             e == Stated(Contact(d.id, OverWire(d.x, MT2.x), OverWire(d.y, MT2.y),
                                 d.size), state)
             p == Parsed(Encoded(e, slot))
         IN  /\ p.id = c.id /\ (p.state = 5 <=> state = "TS_END")
             /\ p.x \in Int /\ p.y \in Int
             /\ Near(c.x, p.x, MT2.x, MT1.x) /\ Near(-c.y, p.y, MT2.y, MT1.y)
<1> DEFINE d == Decoded(Record(c))
           e == Stated(Contact(d.id, OverWire(d.x, MT2.x), OverWire(d.y, MT2.y),
                               d.size), state)
           p == Parsed(Encoded(e, slot))
<1> HIDE DEF d, e, p
<1>1. c.x \in Int /\ -c.y \in Int
  <2>1. c.x \in Raw /\ c.y \in Raw
    OBVIOUS
  <2>2. \A v \in Raw : v \in Int /\ -v \in Int
    BY SMT DEF Raw
  <2>3. QED
    BY <2>1, <2>2
<1>2. d.id = c.id /\ d.x = c.x /\ d.y = -c.y /\ d.size = c.size
  BY RecordDecoded DEF Contact, d
<1>3. /\ e.id = c.id /\ e.size = c.size /\ e.state = state
      /\ e.x = Clip(c.x, MT2.x) /\ e.y = Clip(-c.y, MT2.y)
  BY <1>1, <1>2, WireIsExact DEF Stated, Contact, e
<1> DEFINE x == scale(e.x, MT2.x, MT1.x)
           y == scale(e.y, MT2.y, MT1.y)
<1>4. x \in Raw /\ x \in Int /\ Near(c.x, x, MT2.x, MT1.x)
  <2>1. x \in Raw /\ Near(c.x, x, MT2.x, MT1.x)
    BY <1>1, <1>3, XIsNear
  <2>2. \A v \in Raw : v \in Int
    BY DEF Raw
  <2>3. QED
    BY <2>1, <2>2
<1>5. y \in Int /\ -y \in Raw /\ Near(-c.y, y, MT2.y, MT1.y)
  BY <1>1, <1>3, YIsNear
<1>6. p.id = e.id /\ p.x = x /\ p.y = y /\ (p.state = 5 <=> e.state = "TS_END")
  BY <1>3, <1>4, <1>5, EncodedParsed DEF p
<1>7. QED
  BY <1>3, <1>4, <1>5, <1>6 DEF d, e, p

-----------------------------------------------------------------------------
(* The clock                                                               *)

(* The parser gets back the 22 low bits of the uptime. *)
LEMMA StampRecovered ==
  ASSUME NEW b \in {0, 1}, NEW u \in Nat, NEW touches
  PROVE  Timestamp([header |-> Stamp(b, u), touches |-> touches]) = u % TsWrap
<1> DEFINE ts == u % TsWrap
<1>1. ts \in Int /\ 0 <= ts /\ ts < 4194304
  BY SMT DEF TsWrap
<1> HIDE DEF ts
<1>2. (b + 4 * (ts % 64)) \div 4 = ts % 64
  BY <1>1, SMT
<1>3. (ts \div 16384) % 256 = ts \div 16384
  BY <1>1, SMT
<1>4. (ts % 64) + 64 * ((ts \div 64) % 256) + 16384 * (ts \div 16384) = ts
  BY <1>1, SMT
<1>5. QED
  BY <1>2, <1>3, <1>4 DEF Timestamp, Stamp, ts

(* The uptime's wrap is a multiple of the timestamp's, so it does not show.*)
LEMMA WrapHidden ==
  ASSUME NEW u \in Nat PROVE u % UptimeWrap \in Nat /\ (u % UptimeWrap) % TsWrap = u % TsWrap
<1> DEFINE q == u \div UptimeWrap
           k == UptimeWrap \div TsWrap
           z == k * q
<1>1. UptimeWrap \in Nat \ {0}
  BY WrapAssumption
<1>2. k \in Int /\ UptimeWrap = 4194304 * k
  BY WrapAssumption, SMT DEF TsWrap
<1>3. q \in Int /\ u % UptimeWrap \in Nat /\ u = UptimeWrap * q + (u % UptimeWrap)
  BY <1>1, SMT
<1> HIDE DEF q, k
<1>4. z \in Int /\ u = 4194304 * z + (u % UptimeWrap)
  BY <1>2, <1>3, SMT
<1> HIDE DEF z
<1>5. (u % UptimeWrap) % 4194304 = u % 4194304
  BY <1>3, <1>4, SMT
<1>6. QED
  BY <1>3, <1>5 DEF TsWrap

(* The last report carries the time at which it was fed. *)
ClockInv ==
    fed_at \in Nat /\ (sent # NoReport => Timestamp(sent) = fed_at % TsWrap)

LEMMA ClockStep == ASSUME ClockInv, [Next]_vars PROVE ClockInv'
<1>1. CASE UNCHANGED vars
  BY <1>1 DEF vars, ClockInv
<1>2. ASSUME NEW cs, NEW b, NEW ms \in Nat, Arrives(cs, b, ms)
      PROVE  ClockInv'
  <2> DEFINE f == frame_from_voodoo(voodoo_from_frame(Decode(Report(cs, b))))
             g == Conditioned(f)
  <2>1. f.button \in {0, 1}
    BY DEF frame_from_voodoo
  <2> HIDE DEF f
  <2>2. g.button \in {0, 1}
    BY <2>1 DEF Conditioned
  <2>3. CASE UNCHANGED <<sent, fed_at>>
    BY <2>3 DEF ClockInv
  <2>4. CASE sent' = construct_report(g, ms % UptimeWrap) /\ fed_at' = ms
    <3> DEFINE u == ms % UptimeWrap
               touches == [k \in 1 .. Min({Len(g.touches), MAX_TOUCHES}) |->
                             Encoded(g.touches[k], k)]
    <3>1. u \in Nat /\ u % TsWrap = ms % TsWrap
      BY WrapHidden
    <3>2. sent' = [header |-> Stamp(g.button, u), touches |-> touches]
      BY <2>4 DEF construct_report
    <3> HIDE DEF g, u, touches
    <3>3. Timestamp(sent') = u % TsWrap
      BY <2>2, <3>1, <3>2, StampRecovered
    <3>4. QED
      BY <2>4, <3>1, <3>3 DEF ClockInv
  <2>5. QED
    BY <1>2, <2>3, <2>4 DEF Arrives, f
<1>3. CASE Next
  <2>1. PICK ms \in Uptimes :
          \/ \E i \in Ids, spot \in Spots : Touch(i, spot, ms)
          \/ \E k \in DOMAIN contacts : Lift(k, ms)
          \/ Press(ms)
          \/ \E d \in {-1, 1} : Slide(d, 0, ms) \/ Slide(0, d, ms)
    BY <1>3 DEF Next
  <2>2. ms \in Nat
    BY InputAssumption
  <2>3. ASSUME NEW i, NEW spot, Touch(i, spot, ms) PROVE \E cs, b : Arrives(cs, b, ms)
    BY <2>3 DEF Touch
  <2>4. ASSUME NEW k, Lift(k, ms) PROVE \E cs, b : Arrives(cs, b, ms)
    BY <2>4 DEF Lift
  <2>5. ASSUME Press(ms) PROVE \E cs, b : Arrives(cs, b, ms)
    BY <2>5 DEF Press
  <2>6. ASSUME NEW dx, NEW dy, Slide(dx, dy, ms) PROVE \E cs, b : Arrives(cs, b, ms)
    BY <2>6 DEF Slide
  <2>7. \E cs, b : Arrives(cs, b, ms)
    BY <2>1, <2>3, <2>4, <2>5, <2>6
  <2>8. QED
    BY <1>2, <2>2, <2>7
<1>4. QED
  BY <1>1, <1>3

(* The parser's clock keeps the time of the reports, for whatever the      *)
(* device reports and whenever, and its differences are the real ones.     *)
THEOREM ClockKeepsTime == Spec => []ClockInv /\ DeltasSurvive
<1>1. Init => ClockInv
  BY DEF Init, ClockInv
<1>2. ClockInv /\ [Next]_vars => ClockInv'
  BY ClockStep
<1>3. ClockInv /\ ClockInv' =>
        (sent # NoReport /\ sent' # NoReport =>
          (Timestamp(sent') - Timestamp(sent)) % TsWrap = (fed_at' - fed_at) % TsWrap)
  <2> SUFFICES ASSUME ClockInv, ClockInv', sent # NoReport, sent' # NoReport
               PROVE  (Timestamp(sent') - Timestamp(sent)) % TsWrap
                        = (fed_at' - fed_at) % TsWrap
    OBVIOUS
  <2>1. /\ fed_at \in Nat /\ Timestamp(sent) = fed_at % TsWrap
        /\ fed_at' \in Nat /\ Timestamp(sent') = fed_at' % TsWrap
    BY DEF ClockInv, NoReport
  <2>2. \A m, n \in Nat :
          ((n % 4194304) - (m % 4194304)) % 4194304 = (n - m) % 4194304
    BY SMT
  <2>3. QED
    BY <2>1, <2>2 DEF TsWrap
<1>4. QED
  BY <1>1, <1>2, <1>3, PTL DEF Spec, DeltasSurvive

-----------------------------------------------------------------------------
(* The n-th of a set of slots                                              *)

Rank(S, k) == Cardinality({j \in S : j <= k})

LEMMA LeastNat ==
  ASSUME NEW T \in SUBSET Nat, T # {}
  PROVE  \E x \in T : \A y \in T : x <= y
<1> DEFINE R == OpToRel(<, Nat)
<1>1. IsWellFoundedOn(R, Nat)
  BY NatLessThanWellFounded
<1>2. PICK x \in T : \A y \in T : ~(<<y, x>> \in R)
  <2> HIDE DEF R
  <2> QED BY <1>1, WFMin
<1>3. \A y \in T : ~(y < x)
  BY <1>2 DEF OpToRel
<1> QED BY <1>3

(* A step to the next slot adds one to the rank, or nothing.               *)
LEMMA RankSteps ==
  ASSUME NEW L \in Nat, NEW K \in SUBSET (0 .. L), NEW k \in Nat
  PROVE  /\ IsFiniteSet({j \in K : j <= k}) /\ Rank(K, k) \in Nat
         /\ Rank(K, k + 1) = IF k + 1 \in K THEN Rank(K, k) + 1 ELSE Rank(K, k)
<1> DEFINE A == {j \in K : j <= k}
           B == {j \in K : j <= k + 1}
<1>1. IsFiniteSet(0 .. L)
  BY FS_Interval
<1>2. IsFiniteSet(A)
  <2>1. A \in SUBSET (0 .. L)
    OBVIOUS
  <2> HIDE DEF A
  <2> QED BY <1>1, <2>1, FS_Subset
<1>3. Cardinality(A) \in Nat
  <2> HIDE DEF A
  <2> QED BY <1>2, FS_CardinalityType
<1>4. k + 1 \notin A
  OBVIOUS
<1>5. B = IF k + 1 \in K THEN A \cup {k + 1} ELSE A
  <2>1. \A j \in K : j \in Nat
    OBVIOUS
  <2>2. \A j \in K : j <= k + 1 <=> j <= k \/ j = k + 1
    BY <2>1
  <2> QED BY <2>1, <2>2
<1>6. Rank(K, k) = Cardinality(A) /\ Rank(K, k + 1) = Cardinality(B)
  BY DEF Rank
<1> HIDE DEF A, B
<1>7. Cardinality(B) = IF k + 1 \in K THEN Cardinality(A) + 1 ELSE Cardinality(A)
  BY <1>2, <1>4, <1>5, FS_AddElement
<1> QED BY <1>2, <1>3, <1>6, <1>7 DEF A

(* Of slots up to L, Nth picks one for every number up to their count, and *)
(* every one of them for its rank.                                         *)
LEMMA NthFacts ==
  ASSUME NEW L \in Nat, NEW K \in SUBSET (0 .. L)
  PROVE  /\ Cardinality(K) \in Nat /\ (Cardinality(K) = 0 <=> K = {})
         /\ \A n \in 1 .. Cardinality(K) : Nth(K, n) \in K /\ Rank(K, Nth(K, n)) = n
         /\ \A k \in K : Rank(K, k) \in 1 .. Cardinality(K) /\ Nth(K, Rank(K, k)) = k
<1>1. IsFiniteSet(K)
  <2>1. IsFiniteSet(0 .. L)
    BY FS_Interval
  <2> QED BY <2>1, FS_Subset
<1>2. Cardinality(K) \in Nat /\ (Cardinality(K) = 0 <=> K = {})
  BY <1>1, FS_CardinalityType, FS_EmptySet
<1>3. Rank(K, 0) = (IF 0 \in K THEN 1 ELSE 0) /\ Rank(K, L) = Cardinality(K)
  <2>0. \A j \in K : (j <= 0 <=> j = 0) /\ j <= L
    OBVIOUS
  <2>1. {j \in K : j <= 0} = IF 0 \in K THEN {0} ELSE {}
    BY <2>0
  <2>2. {j \in K : j <= L} = K
    BY <2>0
  <2>3. Cardinality({0}) = 1 /\ Cardinality({}) = 0
    BY FS_Singleton, FS_EmptySet
  <2> QED BY <2>1, <2>2, <2>3 DEF Rank
<1>4. ASSUME NEW n \in 1 .. Cardinality(K)
      PROVE  Nth(K, n) \in K /\ Rank(K, Nth(K, n)) = n
  <2> DEFINE T == {x \in Nat : Rank(K, x) >= n}
  <2>1. L \in T
    BY <1>2, <1>3
  <2>2. PICK x \in T : \A y \in T : x <= y
    <3>1. T \in SUBSET Nat /\ T # {}
      BY <2>1
    <3> HIDE DEF T
    <3> QED BY <3>1, LeastNat
  <2>3. x \in K /\ Rank(K, x) = n
    <3>1. CASE x = 0
      <4>1. Rank(K, 0) >= n
        BY <2>2, <3>1
      <4>2. 0 \in K /\ n = 1 /\ Rank(K, 0) = 1
        BY <1>2, <1>3, <4>1
      <4> QED BY <3>1, <4>2
    <3>2. CASE x # 0
      <4>1. x - 1 \in Nat /\ x - 1 \notin T
        BY <2>2, <3>2
      <4>2. Rank(K, x - 1) \in Nat
        BY <4>1, RankSteps
      <4>3. Rank(K, x - 1) < n
        BY <1>2, <4>1, <4>2
      <4>4. Rank(K, x) = IF x \in K THEN Rank(K, x - 1) + 1 ELSE Rank(K, x - 1)
        <5> DEFINE w == x - 1
        <5>1. w \in Nat /\ w + 1 = x
          BY <4>1
        <5> HIDE DEF w
        <5>2. Rank(K, w + 1) = IF w + 1 \in K THEN Rank(K, w) + 1 ELSE Rank(K, w)
          BY <5>1, RankSteps
        <5> QED BY <5>1, <5>2 DEF w
      <4> QED BY <1>2, <2>2, <4>2, <4>3, <4>4
    <3> QED BY <3>1, <3>2
  <2> QED BY <2>3 DEF Nth, Rank
<1>5. ASSUME NEW k \in K, NEW l \in K, Rank(K, k) = Rank(K, l), k < l
      PROVE  FALSE
  <2> DEFINE A == {j \in K : j <= k}
             B == {j \in K : j <= l}
  <2>1. k \in Nat /\ l \in Nat
    OBVIOUS
  <2>2. IsFiniteSet(B) /\ Rank(K, k) = Cardinality(A) /\ Rank(K, l) = Cardinality(B)
    BY <2>1, RankSteps DEF Rank
  <2>3. A \in SUBSET B
    <3>1. \A j \in K : j \in Nat
      OBVIOUS
    <3>2. \A j \in Nat : j <= k => j <= l
      BY <1>5, <2>1
    <3> QED BY <3>1, <3>2
  <2>4. l \in B /\ l \notin A
    BY <1>5, <2>1
  <2> HIDE DEF A, B
  <2>5. A = B
    BY <1>5, <2>2, <2>3, FS_Subset
  <2> QED BY <2>4, <2>5
<1>6. ASSUME NEW k \in K
      PROVE  Rank(K, k) \in 1 .. Cardinality(K) /\ Nth(K, Rank(K, k)) = k
  <2> DEFINE A == {j \in K : j <= k}
  <2>1. k \in Nat
    OBVIOUS
  <2>2. IsFiniteSet(A) /\ Rank(K, k) = Cardinality(A) /\ Rank(K, k) \in Nat
    BY <2>1, RankSteps DEF Rank
  <2>3. k \in A /\ A \in SUBSET K
    BY <2>1
  <2> HIDE DEF A
  <2>4. Cardinality(A) # 0
    BY <2>2, <2>3, FS_EmptySet
  <2>5. Cardinality(A) <= Cardinality(K)
    BY <1>1, <2>3, FS_Subset
  <2>6. Rank(K, k) \in 1 .. Cardinality(K)
    BY <1>2, <2>2, <2>4, <2>5
  <2> DEFINE l == Nth(K, Rank(K, k))
  <2>7. l \in K /\ Rank(K, l) = Rank(K, k)
    BY <1>4, <2>6
  <2> HIDE DEF l
  <2>8. \A i, j \in K : i < j \/ j < i \/ i = j
    <3>1. \A j \in K : j \in Nat
      OBVIOUS
    <3> QED BY <3>1
  <2>9. l = k
    BY <1>5, <2>7, <2>8
  <2> QED BY <2>6, <2>9 DEF l
<1> QED BY <1>2, <1>4, <1>6

-----------------------------------------------------------------------------
(* The trip of a frame                                                     *)

Device == [id : 0 .. 15, x : Raw, y : Raw, size : {0, 40}]

(* A contact as it comes out of the event.                                 *)
Routed(c) ==
    LET d == Decoded(Record(c)) IN
    Contact(d.id, OverWire(d.x, MT2.x), OverWire(d.y, MT2.y), d.size)

Trip(cs, b) == frame_from_voodoo(voodoo_from_frame(Decode(Report(cs, b))))

LEMMA MinOfTwo ==
  ASSUME NEW m \in Int, NEW n \in Int
  PROVE  Min({m, n}) = IF m <= n THEN m ELSE n
<1>1. CASE m <= n
  BY <1>1 DEF Min
<1>2. CASE ~(m <= n)
  BY <1>2 DEF Min
<1> QED BY <1>1, <1>2

LEMMA RoutedContact ==
  ASSUME NEW c \in Device
  PROVE  /\ Routed(c).id = c.id /\ Routed(c).size = c.size
         /\ Decoded(Record(c)).size % 256 = c.size
         /\ c \in [id : 0 .. 15, x : Raw, y : Raw, size : 0 .. 255]
<1>1. c \in [id : 0 .. 15, x : Raw, y : Raw, size : 0 .. 255]
  BY DEF Device
<1>2. Decoded(Record(c)) = Contact(c.id, c.x, -c.y, c.size)
  BY <1>1, RecordDecoded
<1>3. c.size % 256 = c.size
  BY SMT DEF Device
<1> QED BY <1>1, <1>2, <1>3 DEF Routed, Contact

(* The frame the session is fed: the first contacts the event has room     *)
(* for, each on its own, and the device's button when there is one.        *)
LEMMA FrameTrip ==
  ASSUME NEW cs \in Seq(Device), NEW b \in {0, 1}
  PROVE  LET n == IF Len(cs) <= MAX_TRANSDUCERS THEN Len(cs) ELSE MAX_TRANSDUCERS
         IN  /\ n \in Nat
             /\ Trip(cs, b).touches = [k \in 1 .. n |-> Routed(cs[k])]
             /\ n > 0 => Trip(cs, b).button = b
<1> DEFINE len == Len(cs)
           n == IF len <= MAX_TRANSDUCERS THEN len ELSE MAX_TRANSDUCERS
           r == Report(cs, b)
           m == IF len <= 16 THEN len ELSE 16
           f == Decode(r)
           w == voodoo_from_frame(f)
<1>1. len \in Nat /\ DOMAIN cs = 1 .. len /\ \A k \in 1 .. len : cs[k] \in Device
  BY LenProperties, ElementOfSeq
<1>2. MAX_TRANSDUCERS \in 1 .. 16
  BY CapacityAssumption DEF MAX_TOUCHES
<1> HIDE DEF len
<1>3. n \in Nat /\ m \in Nat /\ n <= m /\ n <= len /\ m <= len /\ n <= MAX_TRANSDUCERS
  BY <1>1, <1>2
<1>3a. (IF m <= MAX_TRANSDUCERS THEN m ELSE MAX_TRANSDUCERS) = n
  BY <1>1, <1>2
<1>4. (r.len - HEADER) \div 9 = len
  <2> DEFINE z == 9 * len
  <2>1. r.len = HEADER + z
    BY DEF Report, len
  <2>2. z \in Int /\ z \div 9 = len
    BY <1>1, SMT
  <2> HIDE DEF z, r
  <2>3. r.len - HEADER = z
    BY <2>1, <2>2, FramingAssumption
  <2> QED BY <2>2, <2>3
<1>5. r.flags = b /\ r.points = [k \in 1 .. len |-> Record(cs[k])]
  BY <1>1 DEF Report
<1> HIDE DEF r
<1>6. Min({len, MAX_TOUCHES}) = m
  BY <1>1, MinOfTwo DEF MAX_TOUCHES
<1> HIDE DEF m
<1>7. f.touches = [k \in 1 .. m |-> Decoded(Record(cs[k]))]
  <2>1. f.touches = [k \in 1 .. m |-> Decoded(r.points[k])]
    BY <1>4, <1>6 DEF Decode
  <2>2. \A k \in 1 .. m : r.points[k] = Record(cs[k])
    BY <1>1, <1>3, <1>5
  <2> QED BY <2>1, <2>2
<1>8. f.button = b
  <2>1. f.button = b % 2
    BY <1>5 DEF Decode
  <2>2. b % 2 = b
    BY SMT
  <2> QED BY <2>1, <2>2
<1> HIDE DEF f
<1>9. Len(f.touches) = m
  BY <1>3, <1>7
<1>10. Min({Len(f.touches), MAX_TRANSDUCERS}) = n
  BY <1>2, <1>3, <1>3a, <1>9, MinOfTwo
<1> HIDE DEF n
<1>11. /\ w = [k \in 1 .. n |->
                [id |-> f.touches[k].id, button |-> f.button,
                 pressure |-> f.touches[k].size % 256,
                 x |-> inv_rescale(f.touches[k].x, Span(MT2.x), MT2.x),
                 y |-> inv_rescale(f.touches[k].y, Span(MT2.y), MT2.y)]]
  BY <1>10 DEF voodoo_from_frame
<1>12. \A k \in 1 .. n :
         LET d == Decoded(Record(cs[k])) IN
         /\ w[k].id = d.id /\ w[k].button = b /\ w[k].pressure = d.size
         /\ rescale(w[k].x, Span(MT2.x), MT2.x) = OverWire(d.x, MT2.x)
         /\ rescale(w[k].y, Span(MT2.y), MT2.y) = OverWire(d.y, MT2.y)
  <2> SUFFICES ASSUME NEW k \in 1 .. n
               PROVE  LET d == Decoded(Record(cs[k])) IN
         /\ w[k].id = d.id /\ w[k].button = b /\ w[k].pressure = d.size
         /\ rescale(w[k].x, Span(MT2.x), MT2.x) = OverWire(d.x, MT2.x)
         /\ rescale(w[k].y, Span(MT2.y), MT2.y) = OverWire(d.y, MT2.y)
    OBVIOUS
  <2> DEFINE d == Decoded(Record(cs[k]))
  <2>1. f.touches[k] = d
    BY <1>3, <1>7
  <2>2. d.size % 256 = d.size
    <3>1. cs[k] \in Device
      BY <1>1, <1>3
    <3>2. Routed(cs[k]).size = d.size
      BY DEF Routed, Contact
    <3> QED BY <3>1, <3>2, RoutedContact
  <2> HIDE DEF d
  <2>3. /\ w[k].id = d.id /\ w[k].button = b /\ w[k].pressure = d.size
        /\ w[k].x = inv_rescale(d.x, Span(MT2.x), MT2.x)
        /\ w[k].y = inv_rescale(d.y, Span(MT2.y), MT2.y)
    BY <1>8, <1>11, <2>1, <2>2
  <2> QED BY <2>3 DEF OverWire, d
<1>13. DOMAIN w = 1 .. n
  BY <1>11
<1> HIDE DEF w
<1>14. Trip(cs, b).touches = [k \in 1 .. n |-> Routed(cs[k])]
  <2>1. \A k \in 1 .. n :
          Contact(w[k].id, rescale(w[k].x, Span(MT2.x), MT2.x),
                  rescale(w[k].y, Span(MT2.y), MT2.y), w[k].pressure) = Routed(cs[k])
    BY <1>12 DEF Routed
  <2>2. Trip(cs, b).touches =
          [k \in DOMAIN w |->
             Contact(w[k].id, rescale(w[k].x, Span(MT2.x), MT2.x),
                     rescale(w[k].y, Span(MT2.y), MT2.y), w[k].pressure)]
    BY DEF Trip, frame_from_voodoo, w, f, r
  <2> QED BY <1>13, <2>1, <2>2
<1>15. ASSUME n > 0 PROVE Trip(cs, b).button = b
  <2>1. Trip(cs, b).button = IF \E k \in DOMAIN w : w[k].button # 0 THEN 1 ELSE 0
    BY DEF Trip, frame_from_voodoo, w, f, r
  <2>2. 1 \in 1 .. n
    BY <1>3, <1>15
  <2>3. \A k \in 1 .. n : w[k].button = b
    BY <1>12
  <2>4. (\E k \in DOMAIN w : w[k].button # 0) <=> b # 0
    BY <1>13, <2>2, <2>3
  <2> QED BY <2>1, <2>4
<1> QED BY <1>3, <1>14, <1>15 DEF n, len

(* What the session keeps of it: the contacts seen, in their order.        *)
LEMMA PresentTrip ==
  ASSUME NEW cs \in Seq(Device), NEW b \in {0, 1}
  PROVE  LET K == Seen(cs)  n == Cardinality(K)
         IN  /\ n \in Nat /\ (n = 0 <=> K = {}) /\ n <= MAX_TRANSDUCERS
             /\ Present(Trip(cs, b)) = [j \in 1 .. n |-> Routed(cs[Nth(K, j)])]
             /\ \A j \in 1 .. n : /\ Nth(K, j) \in K /\ cs[Nth(K, j)] \in Device
                                  /\ Rank(K, Nth(K, j)) = j
             /\ K # {} => Trip(cs, b).button = b
<1> DEFINE len == Len(cs)
           m == IF len <= MAX_TRANSDUCERS THEN len ELSE MAX_TRANSDUCERS
           f == Trip(cs, b)
           K == Seen(cs)
           n == Cardinality(K)
<1>1. len \in Nat /\ \A k \in 1 .. len : cs[k] \in Device
  BY LenProperties, ElementOfSeq
<1>2. MAX_TRANSDUCERS \in 1 .. 16
  BY CapacityAssumption DEF MAX_TOUCHES
<1>3. /\ m \in Nat /\ f.touches = [k \in 1 .. m |-> Routed(cs[k])]
      /\ m > 0 => f.button = b
  BY FrameTrip
<1>4. m <= len /\ m <= MAX_TRANSDUCERS
  BY <1>1, <1>2
<1>5. \A k \in Int : k \in 1 .. m <=> k \in 1 .. len /\ k <= MAX_TRANSDUCERS
  BY <1>1, <1>2
<1> HIDE DEF f, m, len
<1>6. \A k \in 1 .. m : IsPresent(f.touches[k]) <=> IsPresent(cs[k])
  <2> TAKE k \in 1 .. m
  <2>1. cs[k] \in Device
    BY <1>1, <1>5
  <2>2. f.touches[k] = Routed(cs[k])
    BY <1>3
  <2> QED BY <2>1, <2>2, RoutedContact DEF IsPresent
<1>7. Kept(f.touches) = K
  <2>1. DOMAIN f.touches = 1 .. m
    BY <1>3
  <2>2. Kept(f.touches) = {k \in 1 .. m : IsPresent(cs[k])}
    BY <2>1, <1>6 DEF Kept
  <2>3. K = {k \in 1 .. len : k <= MAX_TRANSDUCERS /\ IsPresent(cs[k])}
    BY DEF Seen, len
  <2>4. \A k : k \in 1 .. m <=> k \in 1 .. len /\ k <= MAX_TRANSDUCERS
    BY <1>5
  <2> QED BY <2>2, <2>3, <2>4
<1>8. K \in SUBSET (1 .. m)
  BY <1>7, <1>3 DEF Kept
<1> HIDE DEF K
<1>9. /\ n \in Nat /\ (n = 0 <=> K = {})
      /\ \A j \in 1 .. n : Nth(K, j) \in K /\ Rank(K, Nth(K, j)) = j
  <2>1. K \in SUBSET (0 .. m)
    BY <1>3, <1>8
  <2> QED BY <1>3, <2>1, NthFacts
<1>10. n <= MAX_TRANSDUCERS
  <2>1. IsFiniteSet(1 .. m) /\ Cardinality(1 .. m) = m
    BY <1>3, FS_Interval
  <2>2. n <= m
    BY <1>8, <2>1, FS_Subset
  <2> QED BY <1>2, <1>3, <1>4, <1>9, <2>2
<1> HIDE DEF n
<1>11. \A j \in 1 .. n : Nth(K, j) \in 1 .. m /\ cs[Nth(K, j)] \in Device
  <2>1. \A k \in K : k \in 1 .. m
    BY <1>8
  <2>2. \A k \in 1 .. m : k \in 1 .. len
    BY <1>5
  <2> QED BY <1>1, <1>9, <2>1, <2>2
<1>12. Present(f) = [j \in 1 .. n |-> Routed(cs[Nth(K, j)])]
  <2>1. Present(f) = [j \in 1 .. n |-> f.touches[Nth(K, j)]]
    BY <1>7 DEF Present, n
  <2>2. \A j \in 1 .. n : f.touches[Nth(K, j)] = Routed(cs[Nth(K, j)])
    BY <1>3, <1>11
  <2> QED BY <2>1, <2>2
<1>13. K # {} => f.button = b
  <2>1. \A k \in 1 .. m : m > 0
    BY <1>3
  <2>2. K # {} => m > 0
    BY <1>8, <2>1
  <2> QED BY <1>3, <2>2
<1> QED BY <1>9, <1>10, <1>11, <1>12, <1>13 DEF f, K, n

(* Two sequences given as functions, one after the other.                  *)
LEMMA Joined ==
  ASSUME NEW n \in Nat, NEW m \in Nat, NEW F, NEW G,
         F = [k \in 1 .. n |-> F[k]], G = [k \in 1 .. m |-> G[k]]
  PROVE  /\ Len(F \o G) = n + m
         /\ \A k \in 1 .. n : (F \o G)[k] = F[k]
         /\ \A k \in 1 .. (n + m) : k > n => (F \o G)[k] = G[k - n]
<1> DEFINE S == {F[k] : k \in 1 .. n} \cup {G[k] : k \in 1 .. m}
<1>1. F \in Seq(S) /\ Len(F) = n
  <2>1. \A k \in 1 .. n : F[k] \in S
    OBVIOUS
  <2> HIDE DEF S
  <2> QED BY <2>1
<1>2. G \in Seq(S) /\ Len(G) = m
  <2>1. \A k \in 1 .. m : G[k] \in S
    OBVIOUS
  <2> HIDE DEF S
  <2> QED BY <2>1
<1> HIDE DEF S
<1>3. /\ Len(F \o G) = n + m
      /\ \A i \in 1 .. n + m : (F \o G)[i] = IF i <= n THEN F[i] ELSE G[i - n]
  BY <1>1, <1>2, ConcatProperties
<1>4. \A k \in 1 .. n : k \in 1 .. n + m /\ k <= n
  OBVIOUS
<1> QED BY <1>3, <1>4

(* An end is parsed as an end whatever is left in its fields.              *)
LEMMA EndParsed ==
  ASSUME NEW c, c.state = "TS_END", NEW slot \in Nat
  PROVE  Parsed(Encoded(c, slot)).state = 5
<1>1. Nibble(c.state) = 5
  BY DEF Nibble
<1>2. Encoded(c, slot)[9] = 16 * Nibble(c.state) + (slot % 5) + 1
  BY DEF Encoded, Packed
<1>3. (80 + (slot % 5) + 1) \div 16 = 5
  BY SMT
<1>4. Parsed(Encoded(c, slot)).state = Encoded(c, slot)[9] \div 16
  BY DEF Parsed
<1> QED BY <1>1, <1>2, <1>3, <1>4

(* The parser reads the button from under the clock.                       *)
LEMMA ButtonParsed ==
  ASSUME NEW g, g.button \in {0, 1}, NEW u \in Nat
  PROVE  Clicked(construct_report(g, u)) = g.button
<1> DEFINE ts == u % TsWrap
           z == ts % 64
<1>1. ts \in Nat
  BY SMT DEF TsWrap
<1> HIDE DEF ts
<1>2. z \in Nat
  BY <1>1, SMT
<1> HIDE DEF z
<1>3. \A x \in {0, 1} : (x + 4 * z) % 2 = x
  BY <1>2, SMT
<1>4. construct_report(g, u).header[2] = g.button + 4 * z
  BY DEF construct_report, Stamp, ts, z
<1> QED BY <1>3, <1>4 DEF Clicked

-----------------------------------------------------------------------------
(* The reports and the fingers                                             *)

(* The device's side: every id at most once.                               *)
DeviceOK ==
    /\ contacts \in Seq(Device) /\ button \in {0, 1}
    /\ Len(contacts) <= MaxContacts
    /\ \A k \in 1 .. Len(contacts) : contacts[k].id \in Ids
    /\ \A k, l \in 1 .. Len(contacts) : contacts[k].id = contacts[l].id => k = l

(* A report of these contacts: the j-th finger seen is the report's j-th   *)
(* contact, and what follows them are ends.                                *)
Reported(m, cs, b) ==
    LET K == Seen(cs)  n == Cardinality(K) IN
    /\ Clicked(m) = b
    /\ 1 .. n \subseteq DOMAIN m.touches
    /\ \A j \in 1 .. n :
        LET c == cs[Nth(K, j)]  p == Parsed(m.touches[j]) IN
        /\ p.id = c.id /\ p.state # 5
        /\ p.x \in Int /\ p.y \in Int
        /\ Near(c.x, p.x, MT2.x, MT1.x) /\ Near(-c.y, p.y, MT2.y, MT1.y)
    /\ \A j \in DOMAIN m.touches \ (1 .. n) : Parsed(m.touches[j]).state = 5

Lifted(m) == m.touches = <<>> /\ Clicked(m) = 0

(* The session holds contacts exactly while the event carries one, and the *)
(* last report is a report of them, or a lift of all.                      *)
FedOK ==
    /\ held = <<>> <=> Seen(contacts) = {}
    /\ DOMAIN held \subseteq 0 .. 15
    /\ held = <<>> => sent = NoReport \/ Lifted(sent)
    /\ held # <<>> => Reported(sent, contacts, button)

(* The session's output for n contacts: they come first, with their fields *)
(* as they are, then ends of what it held, in the sixteen slots there are. *)
FingersThenEnds(out, q, n, len) ==
    /\ Len(out) = len
    /\ \A j \in 1 .. n : \E s \in {"TS_START", "TS_TOUCHING"} : out[j] = Stated(q[j], s)
    /\ \A j \in (n + 1) .. len : \E i \in DOMAIN held : out[j] = Stated(held[i], "TS_END")

LEMMA EnteredThenEnds ==
  ASSUME NEW n \in 1 .. 16, NEW q, q = [j \in 1 .. n |-> q[j]],
         DOMAIN held \subseteq 0 .. 15
  PROVE  \E len \in n .. 16 : FingersThenEnds(Entered(q) \o Ends(q), q, n, len)
<1> DEFINE gone == DOMAIN held \ IdsOf(q)
           e == Min({Cardinality(gone), MAX_TOUCHES - Len(q)})
           state(j) == IF q[j].id \in DOMAIN held THEN "TS_TOUCHING" ELSE "TS_START"
           F == Entered(q)
           G == Ends(q)
<1>1. n \in Nat /\ DOMAIN q = 1 .. n /\ Len(q) = n
  OBVIOUS
<1>2. Cardinality(gone) \in Nat
  <2>0. \A a, b \in Int : IsFiniteSet(a .. b)
    BY FS_Interval
  <2>00. 0 \in Int /\ 15 \in Int
    OBVIOUS
  <2>1. IsFiniteSet(0 .. 15)
    BY <2>0, <2>00, Zenon
  <2>2. gone \in SUBSET (0 .. 15)
    OBVIOUS
  <2> HIDE DEF gone
  <2>3. IsFiniteSet(gone)
    BY <2>1, <2>2, FS_Subset
  <2> QED BY <2>3, FS_CardinalityType
<1>2a. \A j \in 1 .. Cardinality(gone) : Nth(gone, j) \in DOMAIN held
  <2>1. gone \in SUBSET (0 .. 15) /\ gone \subseteq DOMAIN held /\ 15 \in Nat
    OBVIOUS
  <2> HIDE DEF gone
  <2> QED BY <2>1, NthFacts
<1>3. e \in Nat /\ n + e <= 16 /\ e <= Cardinality(gone)
  <2> DEFINE a == Cardinality(gone)
             d == MAX_TOUCHES - Len(q)
  <2>1. a \in Int /\ 0 <= a
    BY <1>2
  <2>2. d = 16 - n
    BY <1>1 DEF MAX_TOUCHES
  <2> HIDE DEF a, d
  <2>3. Min({a, d}) = IF a <= d THEN a ELSE d
    BY <2>1, <2>2, <1>1, MinOfTwo
  <2>4. Min({a, d}) \in Nat /\ n + Min({a, d}) <= 16 /\ Min({a, d}) <= a
    BY <2>1, <2>2, <2>3
  <2> QED BY <2>4 DEF a, d
<1>4. F = [j \in 1 .. n |-> Stated(q[j], state(j))]
  BY <1>1 DEF Entered
<1>5. G = [j \in 1 .. e |-> Stated(held[Nth(gone, j)], "TS_END")]
  BY DEF Ends
<1> HIDE DEF gone, e, F, G
<1>6. F = [j \in 1 .. n |-> F[j]] /\ G = [j \in 1 .. e |-> G[j]]
  BY <1>4, <1>5
<1>7. /\ Len(F \o G) = n + e
      /\ \A k \in 1 .. n : (F \o G)[k] = F[k]
      /\ \A k \in 1 .. (n + e) : k > n => (F \o G)[k] = G[k - n]
  BY <1>1, <1>3, <1>6, Joined
<1>8. \A j \in 1 .. n : \E s \in {"TS_START", "TS_TOUCHING"} :
        (F \o G)[j] = Stated(q[j], s)
  BY <1>4, <1>7
<1>9. \A j \in (n + 1) .. (n + e) : \E i \in DOMAIN held :
        (F \o G)[j] = Stated(held[i], "TS_END")
  <2> TAKE j \in (n + 1) .. (n + e)
  <2>1. j \in 1 .. (n + e) /\ j > n /\ j - n \in 1 .. e
    BY <1>1, <1>3
  <2>2. (F \o G)[j] = Stated(held[Nth(gone, j - n)], "TS_END")
    BY <1>5, <1>7, <2>1
  <2>3. j - n \in 1 .. Cardinality(gone)
    BY <1>2, <1>3, <2>1
  <2> QED BY <1>2a, <2>2, <2>3
<1>10. n + e \in n .. 16
  BY <1>1, <1>3
<1> QED BY <1>7, <1>8, <1>9, <1>10 DEF FingersThenEnds, F, G

(* The report of a frame with a finger in it.                              *)
LEMMA FingersReported ==
  ASSUME NEW cs \in Seq(Device), NEW b \in {0, 1}, NEW u \in Nat,
         DOMAIN held \subseteq 0 .. 15, Seen(cs) # {}
  PROVE  Reported(construct_report(Conditioned(Trip(cs, b)), u), cs, b)
<1> DEFINE K == Seen(cs)
           n == Cardinality(K)
           f == Trip(cs, b)
           q == Present(f)
           g == Conditioned(f)
           m == construct_report(g, u)
<1>1. /\ n \in Nat /\ n # 0 /\ n <= MAX_TRANSDUCERS
      /\ q = [j \in 1 .. n |-> Routed(cs[Nth(K, j)])]
      /\ \A j \in 1 .. n : cs[Nth(K, j)] \in Device
      /\ f.button = b
  BY PresentTrip
<1>2. MAX_TRANSDUCERS \in 1 .. 16
  BY CapacityAssumption DEF MAX_TOUCHES
<1>3. n \in 1 .. 16
  BY <1>1, <1>2
<1> HIDE DEF K, n, f, q
<1>4. q = [j \in 1 .. n |-> q[j]] /\ q # <<>>
  BY <1>1
<1>5. g = [button |-> b, touches |-> Entered(q) \o Ends(q)]
  BY <1>1, <1>4 DEF Conditioned, q
<1>5a. PICK len \in n .. 16 : FingersThenEnds(Entered(q) \o Ends(q), q, n, len)
  BY <1>3, <1>4, EnteredThenEnds
<1>6. /\ Len(g.touches) = len
      /\ \A j \in 1 .. n : \E s \in {"TS_START", "TS_TOUCHING"} :
           g.touches[j] = Stated(q[j], s)
      /\ \A j \in (n + 1) .. len : \E i \in DOMAIN held :
           g.touches[j] = Stated(held[i], "TS_END")
  <2>1. g.touches = Entered(q) \o Ends(q)
    BY <1>5
  <2>2. FingersThenEnds(g.touches, q, n, len)
    BY <1>5a, <2>1
  <2> HIDE DEF g
  <2> QED BY <2>2 DEF FingersThenEnds
<1> HIDE DEF g
<1>7. Clicked(m) = b
  BY <1>5, ButtonParsed
<1>8. m.touches = [k \in 1 .. len |-> Encoded(g.touches[k], k)]
  <2>1. Len(g.touches) = len
    BY <1>5, <1>6
  <2>2. len \in Int /\ len <= 16
    BY <1>3, <1>6
  <2>3. Min({len, MAX_TOUCHES}) = len
    BY <2>2, MinOfTwo DEF MAX_TOUCHES
  <2>4. m.touches = [k \in 1 .. Min({Len(g.touches), MAX_TOUCHES}) |-> Encoded(g.touches[k], k)]
    BY DEF construct_report
  <2> QED BY <2>1, <2>3, <2>4
<1> HIDE DEF m
<1>9. 1 .. n \subseteq DOMAIN m.touches
  BY <1>3, <1>6, <1>8
<1>10. ASSUME NEW j \in 1 .. n
       PROVE  LET c == cs[Nth(K, j)]  p == Parsed(m.touches[j]) IN
              /\ p.id = c.id /\ p.state # 5
              /\ p.x \in Int /\ p.y \in Int
              /\ Near(c.x, p.x, MT2.x, MT1.x) /\ Near(-c.y, p.y, MT2.y, MT1.y)
  <2> DEFINE c == cs[Nth(K, j)]
             p == Parsed(m.touches[j])
  <2>1. c \in Device /\ q[j] = Routed(c) /\ j \in Nat
    BY <1>1, <1>3
  <2>2. c \in [id : 0 .. 15, x : Raw, y : Raw, size : 0 .. 255]
    BY <2>1, RoutedContact
  <2>3. PICK s \in {"TS_START", "TS_TOUCHING"} : g.touches[j] = Stated(Routed(c), s)
    BY <1>5, <1>6, <2>1
  <2>4. m.touches[j] = Encoded(Stated(Routed(c), s), j)
    BY <1>8, <1>9, <2>3
  <2> HIDE DEF c
  <2>5. LET d == Decoded(Record(c))
            e == Stated(Contact(d.id, OverWire(d.x, MT2.x), OverWire(d.y, MT2.y), d.size), s)
            r == Parsed(Encoded(e, j))
        IN  /\ r.id = c.id /\ (r.state = 5 <=> s = "TS_END")
            /\ r.x \in Int /\ r.y \in Int
            /\ Near(c.x, r.x, MT2.x, MT1.x) /\ Near(-c.y, r.y, MT2.y, MT1.y)
    <3>1. s \in {"TS_START", "TS_TOUCHING", "TS_END"}
      BY <2>3
    <3> QED BY <2>1, <2>2, <3>1, PositionSurvives
  <2>6. LET r == Parsed(Encoded(Stated(Routed(c), s), j))
        IN  /\ r.id = c.id /\ (r.state = 5 <=> s = "TS_END")
            /\ r.x \in Int /\ r.y \in Int
            /\ Near(c.x, r.x, MT2.x, MT1.x) /\ Near(-c.y, r.y, MT2.y, MT1.y)
    BY <2>5 DEF Routed
  <2>7. s # "TS_END"
    BY <2>3
  <2>8. p = Parsed(Encoded(Stated(Routed(c), s), j))
    BY <2>4
  <2> HIDE DEF p
  <2>9. /\ p.id = c.id /\ p.state # 5 /\ p.x \in Int /\ p.y \in Int
        /\ Near(c.x, p.x, MT2.x, MT1.x) /\ Near(-c.y, p.y, MT2.y, MT1.y)
    BY <2>6, <2>7, <2>8
  <2> QED BY <2>9 DEF c, p
<1>11. ASSUME NEW j \in DOMAIN m.touches \ (1 .. n)
       PROVE  Parsed(m.touches[j]).state = 5
  <2>1. j \in (n + 1) .. len /\ j \in Nat
    BY <1>3, <1>6, <1>8
  <2>2. PICK i \in DOMAIN held : g.touches[j] = Stated(held[i], "TS_END")
    BY <1>6, <2>1
  <2>2a. g.touches[j].state = "TS_END"
    BY <2>2 DEF Stated
  <2>3. m.touches[j] = Encoded(g.touches[j], j)
    BY <1>8
  <2> QED BY <2>1, <2>2a, <2>3, EndParsed
<1> QED BY <1>7, <1>9, <1>10, <1>11 DEF Reported, K, n, m, g, f


(* One report: whatever the device says, FedOK holds of what is fed.       *)
LEMMA ArrivalFed ==
  ASSUME NEW cs \in Seq(Device), NEW b \in {0, 1}, NEW ms \in Nat, Arrives(cs, b, ms), FedOK
  PROVE  FedOK'
<1> DEFINE K == Seen(cs)
           n == Cardinality(K)
           f == Trip(cs, b)
           q == Present(f)
           u == ms % UptimeWrap
<1>1. /\ contacts' = cs /\ button' = b /\ held' = Holding(q)
      /\ IF q = <<>> /\ held = <<>> THEN UNCHANGED <<sent, fed_at>>
         ELSE sent' = construct_report(Conditioned(f), u)
  BY DEF Arrives, Trip
<1>2. /\ n \in Nat /\ (n = 0 <=> K = {})
      /\ q = [j \in 1 .. n |-> Routed(cs[Nth(K, j)])]
      /\ \A j \in 1 .. n : cs[Nth(K, j)] \in Device
  BY PresentTrip
<1>3. u \in Nat
  BY WrapHidden
<1>4. \A j \in 1 .. n : q[j].id \in 0 .. 15
  <2> TAKE j \in 1 .. n
  <2>1. q[j] = Routed(cs[Nth(K, j)]) /\ cs[Nth(K, j)] \in Device
    BY <1>2
  <2>2. q[j].id = cs[Nth(K, j)].id
    BY <2>1, RoutedContact
  <2> QED BY <2>1, <2>2 DEF Device
<1>5. DOMAIN q = 1 .. n /\ DOMAIN held' = {q[j].id : j \in 1 .. n}
  BY <1>1, <1>2 DEF Holding, IdsOf
<1> HIDE DEF f, u
<1>6. CASE K = {}
  <2>1. q = <<>>
    BY <1>2, <1>6
  <2>2. held' = <<>>
    <3>1. DOMAIN held' = {}
      BY <1>2, <1>5, <1>6
    <3>2. held' = [i \in {} |-> 0]
      BY <1>1, <3>1 DEF Holding
    <3> QED BY <3>2
  <2>3. sent' = NoReport \/ Lifted(sent')
    <3>1. CASE held = <<>>
      BY <1>1, <2>1, <3>1 DEF FedOK
    <3>2. CASE held # <<>>
      <4> DEFINE g == [button |-> 0, touches |-> <<>>]
      <4>1. sent' = construct_report(g, u)
        BY <1>1, <2>1, <3>2 DEF Conditioned
      <4>2. g.button = 0 /\ g.touches = <<>>
        OBVIOUS
      <4> HIDE DEF g
      <4>3. Clicked(sent') = 0
        BY <1>3, <4>1, <4>2, ButtonParsed
      <4>4. Min({Len(g.touches), MAX_TOUCHES}) = 0
        BY <4>2, MinOfTwo DEF MAX_TOUCHES
      <4>5. sent'.touches = [k \in 1 .. 0 |-> Encoded(g.touches[k], k)]
        BY <4>1, <4>4 DEF construct_report
      <4>6. sent'.touches = <<>>
        BY <4>5
      <4> QED BY <4>3, <4>6 DEF Lifted
    <3> QED BY <3>1, <3>2
  <2>4. DOMAIN held' \subseteq 0 .. 15
    BY <1>4, <1>5
  <2>5. Seen(contacts') = {}
    BY <1>1, <1>6
  <2> QED BY <2>2, <2>3, <2>4, <2>5 DEF FedOK, Seen, Lifted
<1>7. CASE K # {}
  <2>1. 1 \in 1 .. n
    BY <1>2, <1>7
  <2>2. q # <<>>
    BY <1>2, <2>1
  <2>3. held' # <<>>
    <3>1. q[1].id \in DOMAIN held'
      BY <1>5, <2>1
    <3> QED BY <3>1
  <2>4. Reported(sent', cs, b)
    <3>1. sent' = construct_report(Conditioned(f), u)
      BY <1>1, <2>2
    <3>2. Reported(construct_report(Conditioned(Trip(cs, b)), u), cs, b)
      BY <1>3, <1>7, FingersReported DEF FedOK
    <3> QED BY <3>1, <3>2 DEF f
  <2>5. DOMAIN held' \subseteq 0 .. 15
    BY <1>4, <1>5
  <2>6. Seen(contacts') # {}
    BY <1>1, <1>7
  <2>7. Reported(sent', contacts', button')
    BY <1>1, <2>4
  <2> HIDE DEF K, n, q
  <2> QED BY <2>3, <2>5, <2>6, <2>7 DEF FedOK, Seen, Reported, Lifted
<1> QED BY <1>6, <1>7

(* The device's reports: what every action feeds.                          *)
LEMMA WithoutOne ==
  ASSUME NEW cs \in Seq(Device), NEW k \in 1 .. Len(cs)
  PROVE  LET r == RemoveAt(cs, k) IN
         /\ r \in Seq(Device) /\ Len(r) = Len(cs) - 1
         /\ \A j \in 1 .. Len(r) : r[j] = cs[IF j < k THEN j ELSE j + 1]
<1> DEFINE len == Len(cs)
           A == SubSeq(cs, 1, k - 1)
           B == SubSeq(cs, k + 1, len)
<1>1. len \in Nat /\ \A j \in 1 .. len : cs[j] \in Device
  BY LenProperties, ElementOfSeq
<1> HIDE DEF len
<1>2. k \in 1 .. len
  BY DEF len
<1>3. /\ A \in Seq(Device) /\ Len(A) = k - 1
      /\ \A j \in 1 .. k - 1 : A[j] = cs[j]
  <2>1. \A j \in 1 .. k - 1 : cs[j] \in Device
    BY <1>1, <1>2
  <2>2. /\ A \in Seq(Device) /\ Len(A) = IF 1 <= k - 1 THEN (k - 1) - 1 + 1 ELSE 0
        /\ \A j \in 1 .. (k - 1) - 1 + 1 : A[j] = cs[1 + j - 1]
    BY <1>1, <1>2, <2>1, SubSeqProperties
  <2> QED BY <1>1, <1>2, <2>2
<1>4. /\ B \in Seq(Device) /\ Len(B) = len - k
      /\ \A j \in 1 .. len - k : B[j] = cs[k + j]
  <2>1. \A j \in k + 1 .. len : cs[j] \in Device
    BY <1>1, <1>2
  <2>2. /\ B \in Seq(Device) /\ Len(B) = IF k + 1 <= len THEN len - (k + 1) + 1 ELSE 0
        /\ \A j \in 1 .. len - (k + 1) + 1 : B[j] = cs[(k + 1) + j - 1]
    BY <1>1, <1>2, <2>1, SubSeqProperties
  <2> QED BY <1>1, <1>2, <2>2
<1> HIDE DEF A, B
<1>5. /\ A \o B \in Seq(Device) /\ Len(A \o B) = len - 1
      /\ \A j \in 1 .. len - 1 : (A \o B)[j] = IF j <= k - 1 THEN A[j] ELSE B[j - (k - 1)]
  <2>1. (k - 1) + (len - k) = len - 1
    BY <1>1, <1>2
  <2> QED BY <1>3, <1>4, <2>1, ConcatProperties
<1>6. \A j \in 1 .. len - 1 : (A \o B)[j] = cs[IF j < k THEN j ELSE j + 1]
  <2> TAKE j \in 1 .. len - 1
  <2>1. CASE j < k
    BY <1>1, <1>2, <1>3, <1>5, <2>1
  <2>2. CASE ~(j < k)
    <3> DEFINE i == j - (k - 1)
    <3>1. i \in 1 .. len - k /\ k + i = j + 1 /\ ~(j <= k - 1)
      BY <1>1, <1>2, <2>2
    <3>2. (A \o B)[j] = B[i]
      BY <1>5, <3>1
    <3> HIDE DEF i
    <3>3. B[i] = cs[k + i]
      BY <1>4, <3>1
    <3> QED BY <2>2, <3>1, <3>2, <3>3
  <2> QED BY <2>1, <2>2
<1>7. RemoveAt(cs, k) = A \o B
  BY DEF RemoveAt, A, B, len
<1> QED BY <1>5, <1>6, <1>7 DEF len


LEMMA DeviceStep ==
  ASSUME DeviceOK, Next
  PROVE  /\ DeviceOK'
         /\ \E ms \in Nat : Arrives(contacts', button', ms)
<1>0. PICK ms \in Uptimes :
          \/ \E i \in Ids, spot \in Spots : Touch(i, spot, ms)
          \/ \E k \in DOMAIN contacts : Lift(k, ms)
          \/ Press(ms)
          \/ \E d \in {-1, 1} : Slide(d, 0, ms) \/ Slide(0, d, ms)
  BY DEF Next
<1> DEFINE len == Len(contacts)
<1>1. /\ len \in Nat /\ DOMAIN contacts = 1 .. len
      /\ \A k \in 1 .. len : contacts[k] \in Device
  BY LenProperties, ElementOfSeq DEF DeviceOK
<1>2. ASSUME NEW cs, NEW b, Arrives(cs, b, ms)
      PROVE  contacts' = cs /\ button' = b /\ ms \in Nat /\ Arrives(contacts', button', ms)
  <2>1. contacts' = cs /\ button' = b
    BY <1>2 DEF Arrives
  <2>2. ms \in Nat
    BY InputAssumption
  <2> QED BY <1>2, <2>1, <2>2
<1>3. ASSUME NEW i \in Ids, NEW spot \in Spots, Touch(i, spot, ms)
      PROVE  DeviceOK' /\ Arrives(contacts', button', ms)
  <2> DEFINE c == Contact(i, spot[1], spot[2], 40)
             cs == Append(contacts, c)
  <2>1. c \in Device /\ c.id = i
    <3>0. Ids \subseteq 0 .. 15 /\ Spots \subseteq Raw \X Raw
      BY InputAssumption
    <3>1. i \in 0 .. 15 /\ spot \in Raw \X Raw
      BY <3>0
    <3>2. spot[1] \in Raw /\ spot[2] \in Raw
      BY <3>1
    <3>3. 40 \in {0, 40}
      OBVIOUS
    <3> QED BY <3>1, <3>2, <3>3 DEF Contact, Device
  <2>2. contacts' = cs /\ button' = button /\ Arrives(contacts', button', ms)
    BY <1>2, <1>3 DEF Touch
  <2>3. \A k \in 1 .. len : contacts[k].id # i
    BY <1>1, <1>3 DEF Touch, IdsOf
  <2> HIDE DEF c
  <2>4. /\ cs \in Seq(Device) /\ Len(cs) = len + 1
        /\ \A k \in 1 .. len : cs[k] = contacts[k]
        /\ cs[len + 1] = c
    BY <2>1, AppendProperties DEF DeviceOK
  <2> HIDE DEF cs, len
  <2>5. ASSUME NEW k \in 1 .. len + 1, NEW l \in 1 .. len + 1, cs[k].id = cs[l].id
        PROVE  k = l
    <3>1. \A j \in 1 .. len + 1 : j \in 1 .. len \/ j = len + 1
      BY <1>1
    <3>2. CASE k \in 1 .. len /\ l \in 1 .. len
      BY <2>4, <2>5, <3>2 DEF DeviceOK, len
    <3>3. CASE k \in 1 .. len /\ l = len + 1
      BY <2>1, <2>3, <2>4, <2>5, <3>3
    <3>4. CASE k = len + 1 /\ l \in 1 .. len
      BY <2>1, <2>3, <2>4, <2>5, <3>4
    <3> QED BY <3>1, <3>2, <3>3, <3>4
  <2>6. len + 1 <= MaxContacts
    <3>1. len < MaxContacts /\ MaxContacts \in Nat
      BY <1>3, InputAssumption DEF Touch, len
    <3> QED BY <1>1, <3>1
  <2>7. \A k \in 1 .. len + 1 : cs[k].id \in Ids
    <3>1. \A j \in 1 .. len + 1 : j \in 1 .. len \/ j = len + 1
      BY <1>1
    <3>2. \A j \in 1 .. len : contacts[j].id \in Ids
      BY DEF DeviceOK, len
    <3> QED BY <2>1, <2>4, <3>1, <3>2
  <2> QED BY <2>2, <2>4, <2>5, <2>6, <2>7 DEF DeviceOK
<1>4. ASSUME NEW k \in DOMAIN contacts, Lift(k, ms)
      PROVE  DeviceOK' /\ Arrives(contacts', button', ms)
  <2>1. k \in 1 .. len
    BY <1>1
  <2>2. CASE Arrives([contacts EXCEPT ![k].size = 0], button, ms)
    <3> DEFINE cs == [contacts EXCEPT ![k].size = 0]
               e == [contacts[k] EXCEPT !.size = 0]
    <3>1. contacts' = cs /\ button' = button /\ Arrives(contacts', button', ms)
      BY <1>2, <2>2
    <3>2. contacts[k] \in Device /\ e \in Device /\ e.id = contacts[k].id
      BY <1>1, <2>1 DEF Device
    <3>3. cs = [contacts EXCEPT ![k] = e]
      OBVIOUS
    <3> HIDE DEF e
    <3>4. /\ cs \in Seq(Device) /\ Len(cs) = len
          /\ \A j \in 1 .. len : cs[j] = IF j = k THEN e ELSE contacts[j]
      BY <2>1, <3>2, <3>3, ExceptSeq DEF DeviceOK
    <3> HIDE DEF cs, len
    <3>5. \A j \in 1 .. len : cs[j].id = contacts[j].id
      BY <3>2, <3>4
    <3> QED BY <3>1, <3>4, <3>5 DEF DeviceOK, len
  <2>3. CASE Arrives(RemoveAt(contacts, k), button, ms)
    <3> DEFINE cs == RemoveAt(contacts, k)
               at(j) == IF j < k THEN j ELSE j + 1
    <3>1. contacts' = cs /\ button' = button /\ Arrives(contacts', button', ms)
      BY <1>2, <2>3
    <3>2. /\ cs \in Seq(Device) /\ Len(cs) = len - 1
          /\ \A j \in 1 .. Len(cs) : cs[j] = contacts[at(j)]
      BY <2>1, WithoutOne DEF DeviceOK
    <3> HIDE DEF cs, len
    <3>3. /\ \A j \in 1 .. len - 1 : at(j) \in 1 .. len
          /\ \A j, l \in 1 .. len - 1 : at(j) = at(l) => j = l
      BY <1>1, <2>1
    <3> HIDE DEF at
    <3>4. /\ \A j, l \in 1 .. Len(cs) : cs[j].id = cs[l].id => j = l
          /\ \A j \in 1 .. Len(cs) : cs[j].id \in Ids
      <4>1. /\ \A j \in 1 .. len : contacts[j].id \in Ids
            /\ \A j, l \in 1 .. len : contacts[j].id = contacts[l].id => j = l
        BY DEF DeviceOK, len
      <4>2. \A j, l \in 1 .. Len(cs) : cs[j].id = cs[l].id => j = l
        BY <3>2, <3>3, <4>1
      <4>3. \A j \in 1 .. Len(cs) : cs[j].id \in Ids
        BY <3>2, <3>3, <4>1
      <4> QED BY <4>2, <4>3
    <3>5. Len(cs) <= MaxContacts
      <4>1. len <= MaxContacts /\ MaxContacts \in Nat
        BY InputAssumption DEF DeviceOK, len
      <4> QED BY <1>1, <3>2, <4>1
    <3> QED BY <3>1, <3>2, <3>4, <3>5 DEF DeviceOK
  <2> QED BY <1>4, <2>2, <2>3 DEF Lift
<1>5. ASSUME Press(ms)
      PROVE  DeviceOK' /\ Arrives(contacts', button', ms)
  <2>1. contacts' = contacts /\ button' = 1 - button /\ Arrives(contacts', button', ms)
    BY <1>2, <1>5 DEF Press
  <2>2. 1 - button \in {0, 1}
    BY DEF DeviceOK
  <2> QED BY <2>1, <2>2 DEF DeviceOK
<1>6. ASSUME NEW dx \in {-1, 0, 1}, NEW dy \in {-1, 0, 1}, Slide(dx, dy, ms)
      PROVE  DeviceOK' /\ Arrives(contacts', button', ms)
  <2> DEFINE c == Slid(contacts[1], dx, dy)
  <2>1. contacts' = <<c>> /\ button' = button /\ Arrives(contacts', button', ms)
    BY <1>2, <1>6 DEF Slide
  <2>2. c \in Device
    <3>1. contacts[1] \in Device
      BY <1>1, <1>6 DEF Slide
    <3>2. contacts[1].x + dx \in Raw /\ contacts[1].y + dy \in Raw
      BY <1>6 DEF Slide, MaySlide
    <3> QED BY <3>1, <3>2 DEF Slid, Contact, Device
  <2>3. c.id \in Ids /\ 1 <= MaxContacts
    BY <1>6 DEF Slide, Slid, Contact, DeviceOK
  <2> HIDE DEF c
  <2>4. <<c>> \in Seq(Device) /\ Len(<<c>>) = 1 /\ <<c>>[1] = c
    BY <2>2
  <2> QED BY <2>1, <2>3, <2>4 DEF DeviceOK
<1>7. DeviceOK' /\ Arrives(contacts', button', ms)
  <2>1. \A d \in {-1, 1} : d \in {-1, 0, 1}
    OBVIOUS
  <2> QED BY <1>0, <1>3, <1>4, <1>5, <1>6, <2>1
<1> QED BY <1>2, <1>7

FedInv == DeviceOK /\ FedOK

LEMMA FedInvariant == Spec => []FedInv
<1>1. Init => FedInv
  <2> SUFFICES ASSUME Init PROVE FedInv
    OBVIOUS
  <2>1. contacts \in Seq(Device) /\ Len(contacts) = 0
    BY DEF Init
  <2>2. Seen(contacts) = {}
    BY <2>1 DEF Seen
  <2>3. DOMAIN held = {}
    BY DEF Init
  <2>4. Len(contacts) <= MaxContacts
    BY <2>1, InputAssumption
  <2> QED BY <2>1, <2>2, <2>3, <2>4 DEF FedInv, DeviceOK, FedOK, Init
<1>2. FedInv /\ [Next]_vars => FedInv'
  <2> SUFFICES ASSUME FedInv, [Next]_vars PROVE FedInv'
    OBVIOUS
  <2>1. CASE UNCHANGED vars
    BY <2>1 DEF vars, FedInv, DeviceOK, FedOK, Seen, Reported, Lifted
  <2>2. CASE Next
    <3>1. DeviceOK'
      BY <2>2, DeviceStep DEF FedInv
    <3>2. PICK ms \in Nat : Arrives(contacts', button', ms)
      BY <2>2, DeviceStep DEF FedInv
    <3> DEFINE cs == contacts'
               b == button'
    <3>3. cs \in Seq(Device) /\ b \in {0, 1}
      BY <3>1 DEF DeviceOK
    <3>4. Arrives(cs, b, ms)
      BY <3>2
    <3> HIDE DEF cs, b
    <3>5. FedOK'
      BY <3>3, <3>4, ArrivalFed DEF FedInv
    <3> QED BY <3>1, <3>5 DEF FedInv
  <2> QED BY <2>1, <2>2
<1> QED BY <1>1, <1>2, PTL DEF Spec


-----------------------------------------------------------------------------
(* What the runs check                                                     *)

(* The button bit of a report is the device's exactly while a finger the   *)
(* event has room for touches: a click under one is neither lost nor left  *)
(* hanging, whatever else the frames carry, and any other is not reported. *)
THEOREM ClicksReach == Spec => []ClickReaches
<1>1. FedInv => ClickReaches
  BY DEF FedInv, FedOK, Reported, Lifted, ClickReaches
<1> QED BY <1>1, FedInvariant, PTL

(* Every finger the event has room for is parsed as down exactly once,     *)
(* under its id and within a unit of its place, and nothing else is parsed *)
(* as down, with any number of contacts.                                   *)
THEOREM FingersRecognized == Spec => []RecognizedRight
<1>1. FedInv => RecognizedRight
  <2> SUFFICES ASSUME FedInv, sent # NoReport
               PROVE  RecognizedRight
    BY DEF RecognizedRight
  <2> DEFINE len == Len(contacts)
             K == Seen(contacts)
             n == Cardinality(K)
             seen == {k \in DOMAIN sent.touches : Parsed(sent.touches[k]).state # 5}
  <2>1. /\ len \in Nat /\ DOMAIN contacts = 1 .. len
        /\ \A k, l \in 1 .. len : contacts[k].id = contacts[l].id => k = l
    BY LenProperties DEF FedInv, DeviceOK
  <2>3. K \in SUBSET (1 .. len)
    BY DEF Seen
  <2>4. /\ n \in Nat
        /\ \A j \in 1 .. n : Nth(K, j) \in K /\ Rank(K, Nth(K, j)) = j
        /\ \A k \in K : Rank(K, k) \in 1 .. n /\ Nth(K, Rank(K, k)) = k
    <3>1. K \in SUBSET (0 .. len)
      BY <2>1, <2>3
    <3> HIDE DEF K, len
    <3> QED BY <2>1, <3>1, NthFacts
  <2>5. CASE held = <<>>
    <3>1. K = {} /\ seen = {}
      BY <2>5 DEF FedInv, FedOK, Lifted
    <3> QED BY <3>1 DEF RecognizedRight
  <2>6. CASE held # <<>>
    <3>1. /\ 1 .. n \subseteq DOMAIN sent.touches
          /\ \A j \in 1 .. n :
              LET c == contacts[Nth(K, j)]  p == Parsed(sent.touches[j]) IN
              /\ p.id = c.id /\ p.state # 5
              /\ p.x \in Int /\ p.y \in Int
              /\ Near(c.x, p.x, MT2.x, MT1.x) /\ Near(-c.y, p.y, MT2.y, MT1.y)
          /\ \A j \in DOMAIN sent.touches \ (1 .. n) : Parsed(sent.touches[j]).state = 5
      BY <2>6 DEF FedInv, FedOK, Reported
    <3>2. seen = 1 .. n
      BY <3>1
    <3> HIDE DEF K, n, seen, len
    <3>3. \A k \in K : \E j \in seen :
            LET c == contacts[k]  p == Parsed(sent.touches[j]) IN
            p.id = c.id /\ Near(c.x, p.x, MT2.x, MT1.x) /\ Near(-c.y, p.y, MT2.y, MT1.y)
      <4> TAKE k \in K
      <4> DEFINE j == Rank(K, k)
      <4>1. j \in 1 .. n /\ Nth(K, j) = k
        BY <2>4
      <4> HIDE DEF j
      <4>2. j \in seen
        BY <3>2, <4>1
      <4> QED BY <3>1, <4>1, <4>2
    <3>4. \A j \in seen : Nth(K, j) \in K /\ Nth(K, j) \in 1 .. len
                          /\ Parsed(sent.touches[j]).id = contacts[Nth(K, j)].id
      BY <2>3, <2>4, <3>1, <3>2
    <3>5. \A j, l \in seen :
            Parsed(sent.touches[j]).id = Parsed(sent.touches[l]).id => j = l
      <4> SUFFICES ASSUME NEW j \in seen, NEW l \in seen,
                          Parsed(sent.touches[j]).id = Parsed(sent.touches[l]).id
                   PROVE  j = l
        OBVIOUS
      <4>1. Nth(K, j) = Nth(K, l)
        BY <2>1, <3>4
      <4> QED BY <2>4, <3>2, <4>1
    <3>6. \A j \in seen : \E k \in K :
            Parsed(sent.touches[j]).id = contacts[k].id
      BY <3>4
    <3> QED BY <3>3, <3>5, <3>6 DEF RecognizedRight, seen, K
  <2> QED BY <2>5, <2>6
<1> QED BY <1>1, FedInvariant, PTL


(* On either axis a step of at most one unit moves the parsed coordinate   *)
(* by at most one, and never the other way.                                *)
LEMMA XMoves ==
  ASSUME NEW v \in Int, NEW w \in Int, w - v \in {-1, 0, 1}, NEW m \in Int, NEW k \in Int,
         Near(v, m, MT2.x, MT1.x), Near(w, k, MT2.x, MT1.x)
  PROVE  k - m \in Moved(v, w)
<1> DEFINE a == Clip(v, MT2.x)
           b == Clip(w, MT2.x)
<1>1. /\ a \in Int /\ b \in Int
      /\ w = v => b = a
      /\ w > v => b - a \in {0, 1}
      /\ w < v => b - a \in {-1, 0}
  BY SMT DEF Clip, MT2
<1>2. MT2.x.min = -3678 /\ MT1.x.min = -2909 /\ Span(MT2.x) = 7612 /\ Span(MT1.x) = 6076
  BY DEF MT1, MT2, Span
<1>3. /\ 0 <= (a + 3678) * 6076 - (m + 2909) * 7612
      /\ (a + 3678) * 6076 - (m + 2909) * 7612 < 7612
      /\ 0 <= (b + 3678) * 6076 - (k + 2909) * 7612
      /\ (b + 3678) * 6076 - (k + 2909) * 7612 < 7612
  <2> HIDE DEF a, b
  <2>1. \A c \in Int : c - (-3678) = c + 3678 /\ c - (-2909) = c + 2909
    BY SMT
  <2>2. /\ 0 <= (a - (-3678)) * 6076 - (m - (-2909)) * 7612
        /\ (a - (-3678)) * 6076 - (m - (-2909)) * 7612 < 7612
        /\ 0 <= (b - (-3678)) * 6076 - (k - (-2909)) * 7612
        /\ (b - (-3678)) * 6076 - (k - (-2909)) * 7612 < 7612
    BY <1>2 DEF Near, a, b
  <2> QED BY <1>1, <2>1, <2>2, SMT
<1> HIDE DEF a, b
<1>4. CASE w = v
  <2>1. k - m = 0
    BY <1>1, <1>3, <1>4, SMT
  <2> QED BY <1>4, <2>1 DEF Moved
<1>5. CASE w > v
  <2>1. k - m \in {0, 1}
    BY <1>1, <1>3, <1>5, SMT
  <2> QED BY <1>5, <2>1 DEF Moved
<1>6. CASE w < v
  <2>1. k - m \in {-1, 0}
    BY <1>1, <1>3, <1>6, SMT
  <2>2. ~(w > v)
    BY <1>6
  <2> QED BY <1>6, <2>1, <2>2 DEF Moved
<1> QED BY <1>4, <1>5, <1>6

LEMMA YMoves ==
  ASSUME NEW v \in Int, NEW w \in Int, w - v \in {-1, 0, 1}, NEW m \in Int, NEW k \in Int,
         Near(v, m, MT2.y, MT1.y), Near(w, k, MT2.y, MT1.y)
  PROVE  k - m \in Moved(v, w)
<1> DEFINE a == Clip(v, MT2.y)
           b == Clip(w, MT2.y)
<1>1. /\ a \in Int /\ b \in Int
      /\ w = v => b = a
      /\ w > v => b - a \in {0, 1}
      /\ w < v => b - a \in {-1, 0}
  BY SMT DEF Clip, MT2
<1>2. MT2.y.min = -2478 /\ MT1.y.min = -2456 /\ Span(MT2.y) = 5065 /\ Span(MT1.y) = 5021
  BY DEF MT1, MT2, Span
<1>3. /\ 0 <= (a + 2478) * 5021 - (m + 2456) * 5065
      /\ (a + 2478) * 5021 - (m + 2456) * 5065 < 5065
      /\ 0 <= (b + 2478) * 5021 - (k + 2456) * 5065
      /\ (b + 2478) * 5021 - (k + 2456) * 5065 < 5065
  <2> HIDE DEF a, b
  <2>1. \A c \in Int : c - (-2478) = c + 2478 /\ c - (-2456) = c + 2456
    BY SMT
  <2>2. /\ 0 <= (a - (-2478)) * 5021 - (m - (-2456)) * 5065
        /\ (a - (-2478)) * 5021 - (m - (-2456)) * 5065 < 5065
        /\ 0 <= (b - (-2478)) * 5021 - (k - (-2456)) * 5065
        /\ (b - (-2478)) * 5021 - (k - (-2456)) * 5065 < 5065
    BY <1>2 DEF Near, a, b
  <2> QED BY <1>1, <2>1, <2>2, SMT
<1> HIDE DEF a, b
<1>4. CASE w = v
  <2>1. k - m = 0
    BY <1>1, <1>3, <1>4, SMT
  <2> QED BY <1>4, <2>1 DEF Moved
<1>5. CASE w > v
  <2>1. k - m \in {0, 1}
    BY <1>1, <1>3, <1>5, SMT
  <2> QED BY <1>5, <2>1 DEF Moved
<1>6. CASE w < v
  <2>1. k - m \in {-1, 0}
    BY <1>1, <1>3, <1>6, SMT
  <2>2. ~(w > v)
    BY <1>6
  <2> QED BY <1>6, <2>1, <2>2 DEF Moved
<1> QED BY <1>4, <1>5, <1>6

(* A single finger that is down is the report's first contact.             *)
LEMMA SingleFinger ==
  ASSUME NEW m, NEW cs \in Seq(Device), NEW b, Len(cs) = 1, Seen(cs) # {}, Reported(m, cs, b)
  PROVE  LET p == Parsed(m.touches[1]) IN
         /\ p.x \in Int /\ p.y \in Int /\ cs[1].x \in Int /\ -cs[1].y \in Int
         /\ Near(cs[1].x, p.x, MT2.x, MT1.x) /\ Near(-cs[1].y, p.y, MT2.y, MT1.y)
<1> DEFINE K == Seen(cs)
           n == Cardinality(K)
<1>1. K \in SUBSET (1 .. 1)
  BY DEF Seen
<1>2. /\ n \in Nat /\ (n = 0 <=> K = {})
      /\ \A j \in 1 .. n : Nth(K, j) \in K
  <2>1. 1 \in Nat /\ K \in SUBSET (0 .. 1)
    BY <1>1
  <2> HIDE DEF K
  <2> QED BY <1>1, <2>1, NthFacts
<1>3. 1 \in 1 .. n
  BY <1>2
<1>4. Nth(K, 1) = 1
  <2> DEFINE i == Nth(K, 1)
  <2>1. i \in K
    BY <1>2, <1>3
  <2> HIDE DEF i, K, n
  <2>2. i \in 1 .. 1
    BY <1>1, <2>1
  <2>3. i = 1
    BY <2>2
  <2> QED BY <2>3 DEF i
<1>5. LET c == cs[Nth(K, 1)]  p == Parsed(m.touches[1]) IN
      /\ p.x \in Int /\ p.y \in Int
      /\ Near(c.x, p.x, MT2.x, MT1.x) /\ Near(-c.y, p.y, MT2.y, MT1.y)
  <2> HIDE DEF K, n
  <2>1. \A j \in 1 .. n :
          LET c == cs[Nth(K, j)]  p == Parsed(m.touches[j]) IN
          /\ p.x \in Int /\ p.y \in Int
          /\ Near(c.x, p.x, MT2.x, MT1.x) /\ Near(-c.y, p.y, MT2.y, MT1.y)
    BY DEF Reported, K, n
  <2> QED BY <1>3, <2>1
<1>6. cs[1].x \in Int /\ -cs[1].y \in Int
  <2>1. cs[1] \in Device
    BY ElementOfSeq
  <2>2. cs[1].x \in Raw /\ cs[1].y \in Raw
    BY <2>1 DEF Device
  <2>3. \A v \in Raw : v \in Int /\ -v \in Int
    BY SMT DEF Raw
  <2> QED BY <2>2, <2>3
<1> QED BY <1>4, <1>5, <1>6

(* The device moves a lone finger by at most a unit.                       *)
LEMMA LoneStep ==
  ASSUME DeviceOK, [Next]_vars, Len(contacts) = 1, Len(contacts') = 1
  PROVE  \E dx, dy \in {-1, 0, 1} : /\ contacts'[1].x = contacts[1].x + dx
                                    /\ contacts'[1].y = contacts[1].y + dy
<1> DEFINE c == contacts[1]
           d == contacts'[1]
<1>1. c \in Device /\ c.x + 0 = c.x /\ c.y + 0 = c.y
  <2>0. contacts \in Seq(Device) /\ 1 \in 1 .. Len(contacts)
    BY DEF DeviceOK
  <2>1. c \in Device
    BY <2>0, ElementOfSeq
  <2>2. \A v \in Raw : v + 0 = v
    BY SMT DEF Raw
  <2> QED BY <2>1, <2>2 DEF Device
<1>2. (d.x = c.x /\ d.y = c.y) => (d.x = c.x + 0 /\ d.y = c.y + 0)
  BY <1>1
<1>3. CASE contacts' = contacts
  BY <1>2, <1>3
<1>4. ASSUME NEW ms, NEW i, NEW spot, Touch(i, spot, ms)
      PROVE  FALSE
  <2> DEFINE e == Contact(i, spot[1], spot[2], 40)
  <2>1. contacts' = Append(contacts, e)
    BY <1>4 DEF Touch, Arrives
  <2> DEFINE S == Device \cup {e}
  <2>2. contacts \in Seq(S) /\ e \in S
    <3>1. Device \subseteq S /\ e \in S
      OBVIOUS
    <3> HIDE DEF S, e
    <3> QED BY <3>1, SeqMonotonic DEF DeviceOK
  <2> HIDE DEF S, e
  <2>3. Len(contacts') = Len(contacts) + 1
    BY <2>1, <2>2, AppendProperties
  <2> QED BY <2>3
<1>5. ASSUME NEW ms, NEW k \in DOMAIN contacts, Lift(k, ms)
      PROVE  d.x = c.x /\ d.y = c.y
  <2>1. k \in 1 .. Len(contacts)
    BY LenProperties DEF DeviceOK
  <2>2. CASE contacts' = [contacts EXCEPT ![k].size = 0]
    <3>1. 1 \in DOMAIN contacts
      BY LenProperties DEF DeviceOK
    <3>2. d = IF k = 1 THEN [c EXCEPT !.size = 0] ELSE c
      BY <2>2, <3>1
    <3> QED BY <1>1, <3>2 DEF Device
  <2>3. CASE contacts' = RemoveAt(contacts, k)
    <3>1. Len(contacts') = Len(contacts) - 1
      BY <2>1, <2>3, WithoutOne DEF DeviceOK
    <3> QED BY <3>1
  <2> QED BY <1>5, <2>2, <2>3 DEF Lift, Arrives
<1>6. ASSUME NEW ms, NEW dx \in {-1, 0, 1}, NEW dy \in {-1, 0, 1}, Slide(dx, dy, ms)
      PROVE  d.x = c.x + dx /\ d.y = c.y + dy
  BY <1>6 DEF Slide, Arrives, Slid, Contact
<1>7. CASE Next
  <2>1. PICK ms \in Uptimes :
          \/ \E i \in Ids, spot \in Spots : Touch(i, spot, ms)
          \/ \E k \in DOMAIN contacts : Lift(k, ms)
          \/ Press(ms)
          \/ \E s \in {-1, 1} : Slide(s, 0, ms) \/ Slide(0, s, ms)
    BY <1>7 DEF Next
  <2>2. CASE \E i \in Ids, spot \in Spots : Touch(i, spot, ms)
    BY <1>4, <2>2
  <2>3. CASE \E k \in DOMAIN contacts : Lift(k, ms)
    BY <1>2, <1>5, <2>3
  <2>4. CASE Press(ms)
    BY <1>3, <2>4 DEF Press, Arrives
  <2>5. CASE \E s \in {-1, 1} : Slide(s, 0, ms) \/ Slide(0, s, ms)
    <3>1. \A s \in {-1, 1} : s \in {-1, 0, 1}
      OBVIOUS
    <3> QED BY <1>6, <2>5, <3>1
  <2> QED BY <2>1, <2>2, <2>3, <2>4, <2>5
<1> QED BY <1>3, <1>7 DEF vars

(* The cursor follows a lone finger: it never jumps and never goes back,   *)
(* for every place of the finger, beyond the trackpad's range included.    *)
THEOREM MotionFollows == Spec => MotionKept
<1>1. FedInv /\ FedInv' /\ [Next]_vars =>
        (Len(contacts) = 1 /\ Len(contacts') = 1 /\ held # <<>> /\ held' # <<>>
          => LET c == contacts[1]  d == contacts'[1]
                 p == Parsed(sent.touches[1])  q == Parsed(sent'.touches[1])
             IN  /\ q.x - p.x \in Moved(c.x, d.x)
                 /\ q.y - p.y \in Moved(-c.y, -d.y))
  <2> SUFFICES ASSUME FedInv, FedInv', [Next]_vars,
                      Len(contacts) = 1, Len(contacts') = 1, held # <<>>, held' # <<>>
               PROVE  LET c == contacts[1]  d == contacts'[1]
                          p == Parsed(sent.touches[1])  q == Parsed(sent'.touches[1])
                      IN  /\ q.x - p.x \in Moved(c.x, d.x)
                          /\ q.y - p.y \in Moved(-c.y, -d.y)
    OBVIOUS
  <2> DEFINE c == contacts[1]
             d == contacts'[1]
             p == Parsed(sent.touches[1])
             q == Parsed(sent'.touches[1])
  <2>1. /\ p.x \in Int /\ p.y \in Int /\ c.x \in Int /\ -c.y \in Int
        /\ Near(c.x, p.x, MT2.x, MT1.x) /\ Near(-c.y, p.y, MT2.y, MT1.y)
    <3>1. contacts \in Seq(Device) /\ Seen(contacts) # {} /\ Reported(sent, contacts, button)
      BY DEF FedInv, DeviceOK, FedOK
    <3> QED BY <3>1, SingleFinger
  <2>2. /\ q.x \in Int /\ q.y \in Int /\ d.x \in Int /\ -d.y \in Int
        /\ Near(d.x, q.x, MT2.x, MT1.x) /\ Near(-d.y, q.y, MT2.y, MT1.y)
    <3> DEFINE ds == contacts'
               b == button'
               m == sent'
    <3>1. ds \in Seq(Device) /\ Seen(ds) # {} /\ Reported(m, ds, b) /\ Len(ds) = 1
      BY DEF FedInv, DeviceOK, FedOK, Seen, Reported
    <3> HIDE DEF ds, b, m
    <3>2. LET r == Parsed(m.touches[1]) IN
          /\ r.x \in Int /\ r.y \in Int /\ ds[1].x \in Int /\ -ds[1].y \in Int
          /\ Near(ds[1].x, r.x, MT2.x, MT1.x) /\ Near(-ds[1].y, r.y, MT2.y, MT1.y)
      BY <3>1, SingleFinger
    <3> QED BY <3>2 DEF ds, m
  <2>3. PICK dx \in {-1, 0, 1}, dy \in {-1, 0, 1} : d.x = c.x + dx /\ d.y = c.y + dy
    BY LoneStep DEF FedInv
  <2>4. d.x - c.x \in {-1, 0, 1}
    BY <2>1, <2>3
  <2>5. -d.y - (-c.y) \in {-1, 0, 1}
    <3>1. c.y \in Int
      <4>1. c \in Device
        <5>1. contacts \in Seq(Device) /\ 1 \in 1 .. Len(contacts)
          BY DEF FedInv, DeviceOK
        <5> QED BY <5>1, ElementOfSeq
      <4>2. \A v \in Raw : v \in Int
        BY DEF Raw
      <4> QED BY <4>1, <4>2 DEF Device
    <3> DEFINE v == c.y
    <3>2. v \in Int /\ d.y = v + dy
      BY <2>3, <3>1
    <3> HIDE DEF v
    <3>3. -(v + dy) - (-v) = -dy
      BY <3>2, SMT
    <3> QED BY <3>2, <3>3 DEF v
  <2> HIDE DEF c, d, p, q
  <2>6. q.x - p.x \in Moved(c.x, d.x)
    BY <2>1, <2>2, <2>4, XMoves
  <2>7. q.y - p.y \in Moved(-c.y, -d.y)
    BY <2>1, <2>2, <2>5, YMoves
  <2> QED BY <2>6, <2>7 DEF c, d, p, q
<1> QED BY <1>1, FedInvariant, PTL DEF Spec, MotionKept


-----------------------------------------------------------------------------
(* Every field in its bits                                                 *)

RoutedOnes == {Routed(c) : c \in Device}

FieldsOK ==
    /\ DOMAIN held \subseteq Ids /\ \A i \in DOMAIN held : held[i] \in RoutedOnes
    /\ Bytes(sent.header) /\ \A k \in DOMAIN sent.touches : Bytes(sent.touches[k])

(* No field of a contact spills into its neighbour.                        *)
LEMMA EncodedBytes ==
  ASSUME NEW r \in RoutedOnes, NEW s \in {"TS_START", "TS_TOUCHING", "TS_END"},
         NEW slot \in Nat
  PROVE  Bytes(Encoded(Stated(r, s), slot))
<1> DEFINE e == Stated(r, s)
           px == scale(e.x, MT2.x, MT1.x)
           py == -scale(e.y, MT2.y, MT1.y)
           X == Low13(px)
           V == Low13(py)
           size == IF s # "TS_END" THEN 63 ELSE e.size % 64
           radius == IF s # "TS_END" THEN 32 ELSE 0
           t == Encoded(e, slot)
<1>1. e.id \in 0 .. 15 /\ e.size \in {0, 40} /\ e.state = s /\ X \in 0 .. 8191 /\ V \in 0 .. 8191
  <2>1. PICK c \in Device : r = Routed(c)
    BY DEF RoutedOnes
  <2>2. /\ c.id \in 0 .. 15 /\ c.x \in Raw /\ c.y \in Raw /\ c.size \in {0, 40}
        /\ c \in [id : 0 .. 15, x : Raw, y : Raw, size : 0 .. 255]
    BY RoutedContact DEF Device
  <2>3. Decoded(Record(c)) = Contact(c.id, c.x, -c.y, c.size)
    BY <2>2, RecordDecoded
  <2>4. c.x \in Int /\ -c.y \in Int
    <3>1. \A v \in Raw : v \in Int /\ -v \in Int
      BY SMT DEF Raw
    <3> QED BY <2>2, <3>1
  <2>5. /\ e.id = c.id /\ e.size = c.size /\ e.state = s
        /\ e.x = Clip(c.x, MT2.x) /\ e.y = Clip(-c.y, MT2.y)
    BY <2>1, <2>3, <2>4, WireIsExact DEF Routed, Contact, Stated
  <2>6. \A v \in Raw : Low13(v) \in 0 .. 8191
    BY SignRecovered
  <2>7. /\ scale(Clip(c.x, MT2.x), MT2.x, MT1.x) \in Raw
        /\ -scale(Clip(-c.y, MT2.y), MT2.y, MT1.y) \in Raw
    BY <2>4, XIsNear, YIsNear
  <2> HIDE DEF e
  <2>8. px \in Raw /\ py \in Raw
    BY <2>5, <2>7
  <2> HIDE DEF px, py
  <2>9. X \in 0 .. 8191
    BY <2>6, <2>8
  <2>10. V \in 0 .. 8191
    BY <2>6, <2>8
  <2>11. e.id \in 0 .. 15 /\ e.size \in {0, 40} /\ e.state = s
    BY <2>2, <2>5
  <2> QED BY <2>9, <2>10, <2>11
<1> HIDE DEF e
<1>1a. e.state = s /\ e.size \in {0, 40}
  <2> HIDE DEF X, V
  <2> QED BY <1>1
<1>2. t = << X % 256, ((X \div 256) % 32) + 32 * (V % 8), (V \div 8) % 256, V \div 2048,
             radius, radius, size + 64 * (e.id % 4),
             128 + e.id \div 4, 16 * Nibble(e.state) + (slot % 5) + 1 >>
  <2>2. t = << X % 256, ((X \div 256) % 32) + 32 * (V % 8), (V \div 8) % 256, V \div 2048,
               IF e.state # "TS_END" THEN 32 ELSE 0, IF e.state # "TS_END" THEN 32 ELSE 0,
               (IF e.state # "TS_END" THEN 63 ELSE e.size % 64) + 64 * (e.id % 4),
               128 + e.id \div 4, 16 * Nibble(e.state) + (slot % 5) + 1 >>
    BY DEF Encoded, Packed
  <2> HIDE DEF t, X, V
  <2> QED BY <1>1a, <2>2
<1>3. size \in 0 .. 63 /\ radius \in 0 .. 255
  <2>1. \A z \in {0, 40} : z % 64 \in 0 .. 63
    BY SMT
  <2>2. e.size % 64 \in 0 .. 63
    BY <1>1a, <2>1
  <2> QED BY <2>2
<1> HIDE DEF X, V, size, radius, t
<1>4. X % 256 \in 0 .. 255
  BY <1>1, LowHigh
<1>5. ((X \div 256) % 32) + 32 * (V % 8) \in 0 .. 255
  <2>1. (X \div 256) % 32 \in 0 .. 31
    BY <1>1, SMT
  <2>2. V % 8 \in 0 .. 7
    BY <1>1, SMT
  <2> QED BY <2>1, <2>2, SharedByte
<1>6. (V \div 8) % 256 \in 0 .. 255
  BY <1>1, LowMiddleHigh
<1>7. V \div 2048 \in 0 .. 255
  <2>1. \A v \in 0 .. 8191 : v \div 2048 \in 0 .. 3
    BY SMT
  <2>2. V \in 0 .. 8191
    BY <1>1
  <2>3. V \div 2048 \in 0 .. 3
    BY <2>1, <2>2
  <2> QED BY <2>3
<1>8. size + 64 * (e.id % 4) \in 0 .. 255
  <2>1. e.id % 4 \in 0 .. 3
    BY <1>1, SMT
  <2> QED BY <1>3, <2>1
<1>9. 128 + e.id \div 4 \in 0 .. 255
  <2>1. e.id \div 4 \in 0 .. 3
    BY <1>1, SMT
  <2> QED BY <2>1
<1>10. 16 * Nibble(e.state) + (slot % 5) + 1 \in 0 .. 255
  <2>1. Nibble(e.state) \in 3 .. 5
    BY DEF Nibble
  <2>2. slot % 5 \in 0 .. 4
    BY SMT
  <2> QED BY <2>1, <2>2
<1>11. DOMAIN t = 1 .. 9
  BY <1>2
<1>12. \A k \in 1 .. 9 : k \in {1, 2, 3, 4, 5, 6, 7, 8, 9}
  OBVIOUS
<1>13. \A k \in 1 .. 9 : t[k] \in 0 .. 255
  <2>1. /\ t[1] \in 0 .. 255 /\ t[2] \in 0 .. 255 /\ t[3] \in 0 .. 255 /\ t[4] \in 0 .. 255
        /\ t[5] \in 0 .. 255 /\ t[6] \in 0 .. 255 /\ t[7] \in 0 .. 255 /\ t[8] \in 0 .. 255
        /\ t[9] \in 0 .. 255
    BY <1>2, <1>3, <1>4, <1>5, <1>6, <1>7, <1>8, <1>9, <1>10
  <2> QED BY <1>12, <2>1
<1> QED BY <1>11, <1>13 DEF Bytes, t, e

LEMMA StampBytes ==
  ASSUME NEW b \in {0, 1}, NEW u \in Nat
  PROVE  Bytes(Stamp(b, u))
<1> DEFINE ts == u % TsWrap
           t == Stamp(b, u)
<1>1. ts \in Int /\ 0 <= ts /\ ts < 4194304
  BY SMT DEF TsWrap
<1>2. t = << 40, b + 4 * (ts % 64), (ts \div 64) % 256, (ts \div 16384) % 256 >>
  BY DEF Stamp
<1> HIDE DEF ts, t
<1>3. b + 4 * (ts % 64) \in 0 .. 255
  <2>1. ts % 64 \in 0 .. 63
    BY <1>1, SMT
  <2> QED BY <2>1
<1>4. (ts \div 64) % 256 \in 0 .. 255 /\ (ts \div 16384) % 256 \in 0 .. 255
  BY <1>1, SMT
<1>5. DOMAIN t = 1 .. 4 /\ \A k \in 1 .. 4 : k \in {1, 2, 3, 4}
  BY <1>2
<1>6. t[1] \in 0 .. 255 /\ t[2] \in 0 .. 255 /\ t[3] \in 0 .. 255 /\ t[4] \in 0 .. 255
  BY <1>2, <1>3, <1>4
<1> QED BY <1>5, <1>6 DEF Bytes, t

(* A frame of contacts that came out of an event, and its report.          *)
Reportable(g, len) ==
    /\ g.button \in {0, 1} /\ Len(g.touches) = len
    /\ \A k \in 1 .. len : \E r \in RoutedOnes, s \in {"TS_START", "TS_TOUCHING", "TS_END"} :
          g.touches[k] = Stated(r, s)

InBytes(m) == Bytes(m.header) /\ \A k \in DOMAIN m.touches : Bytes(m.touches[k])

LEMMA ReportBytes ==
  ASSUME NEW g, NEW u \in Nat, NEW len \in 0 .. 16, Reportable(g, len)
  PROVE  InBytes(construct_report(g, u))
<1> DEFINE m == construct_report(g, u)
<1>1. m.header = Stamp(g.button, u)
  BY DEF construct_report
<1>2. len \in Int /\ len <= 16 /\ 0 <= len
  OBVIOUS
<1>3. m.touches = [k \in 1 .. len |-> Encoded(g.touches[k], k)]
  <2>1. Min({len, MAX_TOUCHES}) = len
    BY <1>2, MinOfTwo DEF MAX_TOUCHES
  <2>2. m.touches = [k \in 1 .. Min({Len(g.touches), MAX_TOUCHES}) |-> Encoded(g.touches[k], k)]
    BY DEF construct_report
  <2> QED BY <2>1, <2>2 DEF Reportable
<1> HIDE DEF m
<1>4. ASSUME NEW k \in 1 .. len PROVE Bytes(m.touches[k])
  <2>1. PICK r \in RoutedOnes, s \in {"TS_START", "TS_TOUCHING", "TS_END"} :
          g.touches[k] = Stated(r, s)
    BY DEF Reportable
  <2>2. m.touches[k] = Encoded(Stated(r, s), k) /\ k \in Nat
    BY <1>2, <1>3, <2>1
  <2> QED BY <2>2, EncodedBytes
<1>5. DOMAIN m.touches = 1 .. len
  BY <1>3
<1>6. Bytes(m.header)
  BY <1>1, StampBytes DEF Reportable
<1> QED BY <1>4, <1>5, <1>6 DEF m, InBytes

LEMMA ArrivalFields ==
  ASSUME NEW cs \in Seq(Device), NEW b \in {0, 1}, NEW ms \in Nat, Arrives(cs, b, ms), FieldsOK,
         DOMAIN held \subseteq 0 .. 15, \A k \in 1 .. Len(cs) : cs[k].id \in Ids
  PROVE  FieldsOK'
<1> DEFINE K == Seen(cs)
           n == Cardinality(K)
           f == Trip(cs, b)
           q == Present(f)
           g == Conditioned(f)
           u == ms % UptimeWrap
<1>1. /\ held' = Holding(q)
      /\ IF q = <<>> /\ held = <<>> THEN UNCHANGED <<sent, fed_at>>
         ELSE sent' = construct_report(g, u)
  BY DEF Arrives, Trip
<1>2. /\ n \in Nat /\ (n = 0 <=> K = {}) /\ n <= MAX_TRANSDUCERS
      /\ q = [j \in 1 .. n |-> Routed(cs[Nth(K, j)])]
      /\ \A j \in 1 .. n : Nth(K, j) \in K /\ cs[Nth(K, j)] \in Device
      /\ K # {} => f.button = b
  BY PresentTrip
<1>3. u \in Nat
  BY WrapHidden
<1>4. \A j \in 1 .. n : q[j] \in RoutedOnes /\ q[j].id \in Ids
  <2> TAKE j \in 1 .. n
  <2>1. q[j] = Routed(cs[Nth(K, j)]) /\ cs[Nth(K, j)] \in Device
    BY <1>2
  <2>2. Nth(K, j) \in 1 .. Len(cs)
    BY <1>2 DEF Seen
  <2>3. q[j].id = cs[Nth(K, j)].id
    BY <2>1, RoutedContact
  <2> QED BY <2>1, <2>2, <2>3 DEF RoutedOnes
<1>5. DOMAIN held' \subseteq Ids /\ \A i \in DOMAIN held' : held'[i] \in RoutedOnes
  <2>1. DOMAIN q = 1 .. n
    BY <1>2
  <2>2. held' = [i \in {q[j].id : j \in 1 .. n} |->
                   q[CHOOSE k \in 1 .. n : q[k].id = i]]
    BY <1>1, <2>1 DEF Holding, IdsOf
  <2> HIDE DEF K, n, q
  <2>3. ASSUME NEW i \in {q[j].id : j \in 1 .. n} PROVE held'[i] \in RoutedOnes
    <3> DEFINE k == CHOOSE l \in 1 .. n : q[l].id = i
    <3>1. k \in 1 .. n
      BY <2>3
    <3>2. held'[i] = q[k]
      BY <2>2
    <3> HIDE DEF k
    <3> QED BY <1>4, <3>1, <3>2
  <2>4. DOMAIN held' = {q[j].id : j \in 1 .. n}
    BY <2>2
  <2> QED BY <1>4, <2>3, <2>4
<1> HIDE DEF f, u
<1>6. Bytes(sent'.header) /\ \A k \in DOMAIN sent'.touches : Bytes(sent'.touches[k])
  <2>1. CASE q = <<>> /\ held = <<>>
    BY <1>1, <2>1 DEF FieldsOK
  <2>2. CASE q = <<>> /\ held # <<>>
    <3>1. g = [button |-> 0, touches |-> <<>>]
      BY <2>2 DEF Conditioned
    <3>2. sent' = construct_report(g, u)
      BY <1>1, <2>2
    <3>3. g.button \in {0, 1} /\ Len(g.touches) = 0
      BY <3>1
    <3> HIDE DEF g
    <3>4. \A k \in 1 .. 0 : \E r \in RoutedOnes, s \in {"TS_START", "TS_TOUCHING", "TS_END"} :
            g.touches[k] = Stated(r, s)
      OBVIOUS
    <3>5. InBytes(construct_report(g, u))
      BY <1>3, <3>3, <3>4, ReportBytes DEF Reportable
    <3> QED BY <3>2, <3>5 DEF InBytes
  <2>3. CASE q # <<>>
    <3>1. n # 0
      BY <1>2, <2>3
    <3>2. n \in 1 .. 16
      <4>1. MAX_TRANSDUCERS \in 1 .. 16
        BY CapacityAssumption DEF MAX_TOUCHES
      <4>2. n \in Nat /\ n <= MAX_TRANSDUCERS
        BY <1>2
      <4> HIDE DEF K, n
      <4> QED BY <3>1, <4>1, <4>2
    <3>3. f.button = b
      BY <1>2, <3>1
    <3>4. q = [j \in 1 .. n |-> q[j]]
      BY <1>2
    <3>5. sent' = construct_report(g, u)
      BY <1>1, <2>3
    <3>6. g.button = b /\ g.touches = Entered(q) \o Ends(q)
      BY <2>3, <3>3 DEF Conditioned
    <3> HIDE DEF K, n, q, g
    <3>7. PICK len \in n .. 16 : FingersThenEnds(g.touches, q, n, len)
      BY <3>2, <3>4, <3>6, EnteredThenEnds
    <3>8. len \in 0 .. 16 /\ \A k \in 1 .. len : k \in 1 .. n \/ k \in (n + 1) .. len
      BY <3>2
    <3>9. ASSUME NEW k \in 1 .. len
          PROVE  \E r \in RoutedOnes, s \in {"TS_START", "TS_TOUCHING", "TS_END"} :
                   g.touches[k] = Stated(r, s)
      <4>1. CASE k \in 1 .. n
        <5>1. PICK s \in {"TS_START", "TS_TOUCHING"} : g.touches[k] = Stated(q[k], s)
          BY <3>7, <4>1 DEF FingersThenEnds
        <5>2. s \in {"TS_START", "TS_TOUCHING", "TS_END"}
          OBVIOUS
        <5> QED BY <1>4, <4>1, <5>1, <5>2
      <4>2. CASE k \in (n + 1) .. len
        <5>1. PICK i \in DOMAIN held : g.touches[k] = Stated(held[i], "TS_END")
          BY <3>7, <4>2 DEF FingersThenEnds
        <5>2. held[i] \in RoutedOnes
          BY <5>1 DEF FieldsOK
        <5> QED BY <5>1, <5>2
      <4> QED BY <3>8, <4>1, <4>2
    <3>10. Len(g.touches) = len
      BY <3>7 DEF FingersThenEnds
    <3>11. \A k \in 1 .. len :
             \E r \in RoutedOnes, s \in {"TS_START", "TS_TOUCHING", "TS_END"} :
               g.touches[k] = Stated(r, s)
      BY <3>9
    <3>12. g.button \in {0, 1} /\ len \in 0 .. 16
      BY <3>6, <3>8
    <3>13. Reportable(g, len)
      BY <3>10, <3>11, <3>12 DEF Reportable
    <3>14. InBytes(construct_report(g, u))
      BY <1>3, <3>12, <3>13, ReportBytes
    <3> QED BY <3>5, <3>14 DEF InBytes
  <2> QED BY <2>1, <2>2, <2>3
<1> QED BY <1>5, <1>6 DEF FieldsOK, Bytes

(* No byte of a report spills over and no field is cut, whatever the       *)
(* fingers do and whatever the clock says (mavericks_amd_construct_report).*)
THEOREM BytesFit == Spec => []CodecTypeOK
<1>1. Init => FieldsOK
  BY DEF Init, FieldsOK, NoReport, Bytes
<1>2. FedInv /\ FedInv' /\ FieldsOK /\ [Next]_vars => FieldsOK'
  <2> SUFFICES ASSUME FedInv, FedInv', FieldsOK, [Next]_vars PROVE FieldsOK'
    OBVIOUS
  <2>1. CASE UNCHANGED vars
    BY <2>1 DEF vars, FieldsOK, Bytes
  <2>2. CASE Next
    <3> DEFINE cs == contacts'
               b == button'
    <3>1. PICK ms \in Nat : Arrives(cs, b, ms)
      BY <2>2, DeviceStep DEF FedInv
    <3>2. /\ cs \in Seq(Device) /\ b \in {0, 1} /\ DOMAIN held \subseteq 0 .. 15
          /\ \A k \in 1 .. Len(cs) : cs[k].id \in Ids
      BY DEF FedInv, DeviceOK, FedOK
    <3> HIDE DEF cs, b
    <3> QED BY <3>1, <3>2, ArrivalFields
  <2> QED BY <2>1, <2>2
<1>3. FedInv /\ FieldsOK /\ ClockInv => CodecTypeOK
  <2> SUFFICES ASSUME FedInv, FieldsOK, ClockInv PROVE CodecTypeOK
    OBVIOUS
  <2>1. DOMAIN contacts = 1 .. Len(contacts)
    BY LenProperties DEF FedInv, DeviceOK
  <2> QED BY <2>1 DEF FedInv, DeviceOK, FieldsOK, ClockInv, CodecTypeOK
<1> QED BY <1>1, <1>2, <1>3, FedInvariant, ClockKeepsTime, PTL DEF Spec

=============================================================================
