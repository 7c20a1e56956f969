-------------------------- MODULE NameMirror_proof --------------------------
(***************************************************************************)
(* Proofs about the name mirror, for any names, any lengths of the report  *)
(* and of the mirror's memory, and any number of renames, faults, reads    *)
(* and requests under way.  Three arguments that do not meet: what the     *)
(* mirror remembers, where the last write stands on its way to the device, *)
(* and where the answer to a read stands on its way back.                  *)
(***************************************************************************)
EXTENDS NameMirror, SequenceTheorems, WellFoundedInduction, TLAPS

-----------------------------------------------------------------------------
(* Names as bytes                                                          *)

(* A non-empty bounded set of numbers has the maximum that Max denotes.    *)
LEMMA LeastNat ==
    ASSUME NEW T \in SUBSET Nat, T # {}
    PROVE  \E x \in T : \A y \in T : x <= y
<1> DEFINE R == OpToRel(<, Nat)
<1>1. IsWellFoundedOn(R, Nat)
  BY NatLessThanWellFounded
<1>2. PICK x \in T : \A y \in T : ~(<<y, x>> \in R)
  <2> HIDE DEF R
  <2> QED BY <1>1, WFMin
<1>3. \A y \in T : ~(y < x)
  BY <1>2 DEF OpToRel
<1> QED BY <1>3

LEMMA MaxIsGreatest ==
    ASSUME NEW b \in Nat, NEW T \in SUBSET (0 .. b), T # {}
    PROVE  Max(T) \in T /\ \A y \in T : Max(T) >= y
<1> DEFINE U == {b - x : x \in T}
<1>1. U \in SUBSET Nat /\ U # {}
  <2>1. \A x \in T : b - x \in Nat
    OBVIOUS
  <2> QED BY <2>1
<1>2. PICK z \in U : \A y \in U : z <= y
  <2> HIDE DEF U
  <2> QED BY <1>1, LeastNat
<1>3. PICK x \in T : z = b - x
  OBVIOUS
<1>4. \A y \in T : x >= y
  BY <1>2, <1>3
<1> QED BY <1>4 DEF Max

(* What is written for a name is its longest part that fits and is whole.  *)
LEMMA CutIsWhole ==
    ASSUME NEW s \in Strings, s # Cleared, s[1] \notin Continuation
    PROVE  Cut(s) \in Strings /\ Len(Cut(s)) <= PayloadMax /\ WholePart(Cut(s), s)
<1> USE NamesAssumption
<1>1. CASE Len(s) <= PayloadMax
  <2>1. Cut(s) = s
    BY <1>1 DEF Cut
  <2> QED BY <1>1, <2>1 DEF WholePart, IsPrefix, Strings
<1>2. CASE ~(Len(s) <= PayloadMax)
  <2> DEFINE K == {k \in 0 .. PayloadMax : k = 0 \/ s[k + 1] \notin Continuation}
             m == Max(K)
  <2>1. m \in K /\ \A k \in K : m >= k
    <3>1. K \in SUBSET (0 .. PayloadMax) /\ 0 \in K
      OBVIOUS
    <3> HIDE DEF K
    <3> QED BY <3>1, MaxIsGreatest
  <2>2. Cut(s) = SubSeq(s, 1, m)
    BY <1>2 DEF Cut
  <2> HIDE DEF m
  <2>3. Len(s) \in Nat /\ m \in 0 .. PayloadMax /\ m < Len(s)
    BY <1>2, <2>1 DEF Strings
  <2>4. \A i \in 1 .. m : s[i] \in 1 .. 255
    <3>1. \A i \in 1 .. Len(s) : s[i] \in 1 .. 255
      BY ElementOfSeq DEF Strings
    <3> QED BY <2>3, <3>1
  <2>5. /\ Cut(s) \in Strings /\ Len(Cut(s)) = m
        /\ \A i \in 1 .. m : Cut(s)[i] = s[i]
    BY <2>2, <2>3, <2>4, SubSeqProperties DEF Strings
  <2>6. IsPrefix(Cut(s), s)
    BY <2>2, <2>3, <2>5, SubSeqFull DEF IsPrefix, Strings
  <2>7. s[m + 1] \notin Continuation
    BY <2>1
  <2>8. ASSUME NEW k \in m + 1 .. Len(s), k <= PayloadMax
        PROVE  k # Len(s) /\ s[k + 1] \in Continuation
    BY <1>2, <2>1, <2>3, <2>8
  <2> QED BY <2>3, <2>5, <2>6, <2>7, <2>8 DEF WholePart
<1> QED BY <1>1, <1>2

(* The payloads of the reports that are sent, and the names in them.       *)
Shorts == {p \in Strings : Len(p) \in 1 .. PayloadMax}
Payloads == {Report(p) : p \in Shorts}

LEMMA ShortFacts ==
    ASSUME NEW p \in Shorts
    PROVE  /\ p \in Strings /\ Len(p) \in Nat /\ PayloadMax \in Nat
           /\ 0 < Len(p) /\ Len(p) <= PayloadMax
           /\ \A i \in 1 .. Len(p) : p[i] \in Nat /\ p[i] # 0 /\ p[i] \in 1 .. 255
<1>1. p \in Seq(1 .. 255) /\ Len(p) \in 1 .. PayloadMax /\ PayloadMax \in Nat
  BY NamesAssumption DEF Shorts, Strings
<1>2. ASSUME NEW i \in 1 .. Len(p) PROVE p[i] \in Nat /\ p[i] # 0 /\ p[i] \in 1 .. 255
  <2>1. p[i] \in 1 .. 255
    BY <1>1, ElementOfSeq
  <2>2. \A b \in 1 .. 255 : b \in Nat /\ b # 0
    OBVIOUS
  <2> QED BY <2>1, <2>2
<1> QED BY <1>1, <1>2 DEF Strings

LEMMA ReportFacts ==
    ASSUME NEW p \in Shorts
    PROVE  /\ Report(p) \in Seq(Nat) /\ Len(Report(p)) = PayloadMax + 1
           /\ DOMAIN Report(p) = 1 .. PayloadMax + 1
           /\ \A i \in 1 .. Len(p) : Report(p)[i] = p[i]
           /\ \A i \in Len(p) + 1 .. PayloadMax + 1 : Report(p)[i] = 0
<1>1. PayloadMax + 1 \in Nat
  BY NamesAssumption
<1>2. Report(p) = [i \in 1 .. PayloadMax + 1 |-> IF i <= Len(p) THEN p[i] ELSE 0]
  BY DEF Report, Padded
<1>3. ASSUME NEW i \in 1 .. PayloadMax + 1
      PROVE  (IF i <= Len(p) THEN p[i] ELSE 0) \in Nat
  BY ShortFacts
<1>4. Report(p) \in [1 .. PayloadMax + 1 -> Nat]
  BY <1>2, <1>3
<1>5. Report(p) \in Seq(Nat)
  BY <1>1, <1>4, SeqDef
<1>6. /\ \A i \in 1 .. Len(p) : Report(p)[i] = p[i]
      /\ \A i \in Len(p) + 1 .. PayloadMax + 1 : Report(p)[i] = 0
  BY <1>2, ShortFacts
<1> QED BY <1>1, <1>4, <1>5, <1>6

(* The name is what comes back of the report that carries it.              *)
LEMMA UnpadsTo ==
    ASSUME NEW p \in Shorts
    PROVE  Unpadded(Report(p)) = p
<1> DEFINE r == Report(p)
           l == Len(p)
           Ends(n) == (\A i \in 1 .. n : r[i] # 0) /\ (n < Len(r) => r[n + 1] = 0)
           e == CHOOSE n \in 0 .. Len(r) : Ends(n)
<1>1. /\ l \in Nat /\ PayloadMax \in Nat /\ l <= PayloadMax
      /\ \A i \in 1 .. l : p[i] \in 1 .. 255 /\ p[i] # 0
  BY ShortFacts
<1>2. /\ Len(r) = PayloadMax + 1
      /\ \A i \in 1 .. l : r[i] = p[i]
      /\ \A i \in l + 1 .. PayloadMax + 1 : r[i] = 0
  BY ReportFacts
<1> HIDE DEF r, l
<1>3. r[l + 1] = 0
  BY <1>1, <1>2
<1>4. \A i \in 1 .. l : r[i] # 0
  BY <1>1, <1>2
<1>5. l \in 0 .. Len(r) /\ Ends(l)
  BY <1>1, <1>2, <1>3, <1>4
<1>6. e \in 0 .. Len(r) /\ Ends(e)
  BY <1>5
<1> HIDE DEF e
<1>7. e = l
  <2>1. ASSUME e < l PROVE FALSE
    BY <1>1, <1>2, <1>4, <1>6, <2>1
  <2>2. ASSUME e > l PROVE FALSE
    BY <1>1, <1>2, <1>3, <1>6, <2>2
  <2> QED BY <1>1, <1>2, <1>6, <2>1, <2>2
<1>8. Unpadded(r) = SubSeq(r, 1, l)
  BY <1>7 DEF Unpadded, e
<1>9. \A i \in 1 .. l : r[i] \in 1 .. 255
  BY <1>1, <1>2
<1>10. /\ SubSeq(r, 1, l) \in Seq(1 .. 255)
       /\ Len(SubSeq(r, 1, l)) = l
       /\ \A i \in 1 .. l : SubSeq(r, 1, l)[i] = r[i]
  BY <1>1, <1>9, SubSeqProperties
<1>11. SubSeq(r, 1, l) = p
  BY <1>2, <1>10, ShortFacts, SeqEqual DEF l, Strings
<1> QED BY <1>8, <1>11 DEF r

(* Every report under way or in the device is padded, and carries a name.  *)
LEMMA PayloadFacts ==
    ASSUME NEW m \in Payloads
    PROVE  /\ m \in Seq(Nat) /\ Len(m) = PayloadMax + 1 /\ DOMAIN m = 1 .. PayloadMax + 1
           /\ m # GetName
           /\ Unpadded(m) \in Shorts /\ Unpadded(m) # <<>>
           /\ Padded(Unpadded(m), PayloadMax + 1) = m
<1>1. PICK p \in Shorts : m = Report(p)
  BY DEF Payloads
<1>2. Unpadded(m) = p
  BY <1>1, UnpadsTo
<1>3. p # <<>>
  BY ShortFacts
<1>4. PayloadMax \in Nat
  BY NamesAssumption
<1>5. m \in Seq(Nat) /\ Len(m) = PayloadMax + 1 /\ DOMAIN m = 1 .. PayloadMax + 1
  BY <1>1, ReportFacts
<1>6. m # GetName
  BY <1>4, <1>5 DEF GetName
<1> QED BY <1>1, <1>2, <1>3, <1>5, <1>6 DEF Report

LEMMA Overwrites ==
    ASSUME NEW d \in Payloads, NEW m \in Payloads
    PROVE  [i \in DOMAIN d |-> IF i <= Len(m) THEN m[i] ELSE d[i]] = m
<1>1. /\ DOMAIN d = 1 .. PayloadMax + 1 /\ DOMAIN m = 1 .. PayloadMax + 1
      /\ Len(m) = PayloadMax + 1 /\ m \in Seq(Nat) /\ PayloadMax \in Nat
  BY PayloadFacts, NamesAssumption
<1>2. m = [i \in 1 .. PayloadMax + 1 |-> m[i]]
  BY <1>1
<1>3. \A i \in 1 .. PayloadMax + 1 : i <= Len(m)
  BY <1>1
<1> QED BY <1>1, <1>2, <1>3

-----------------------------------------------------------------------------
(* What the mirror remembers                                               *)

(* The name on display that is neither the baseline nor cleared was given  *)
(* since the first sight; no other is written, and it stays on display     *)
(* while it is.                                                            *)
MirrorOK ==
    /\ alias \in Names \cup {Cleared}
    /\ gInit /\ alias \notin {gLast, Cleared} /\ Len(alias) <= BaselineMax => fresh
    /\ writer # "idle" => gInit /\ alias \notin {gLast, Cleared}

LEMMA MirrorStep == MirrorOK /\ [Next]_vars => MirrorOK'
<1> SUFFICES ASSUME MirrorOK, [Next]_vars PROVE MirrorOK'
  OBVIOUS
<1> USE DEF MirrorOK
<1>1. ASSUME NEW n \in Names, Rename(n) PROVE MirrorOK'
  BY <1>1 DEF Rename
<1>2. CASE Relaunch BY <1>2 DEF Relaunch
<1>3. CASE FirstSight
  <2>1. Len(alias) <= BaselineMax => gLast' = alias'
    BY <1>3 DEF FirstSight, Baseline
  <2> QED BY <1>3, <2>1 DEF FirstSight
<1>4. CASE AcceptCleared BY <1>4 DEF AcceptCleared
<1>5. CASE BeginPush BY <1>5 DEF BeginPush
<1>6. CASE EndPush
  <2>1. CASE wok
    <3>1. Len(alias) <= BaselineMax => gLast' = alias
      BY <1>6, <2>1 DEF EndPush, Baseline
    <3> QED BY <1>6, <2>1, <3>1 DEF EndPush
  <2>2. CASE ~wok BY <1>6, <2>2 DEF EndPush
  <2> QED BY <2>1, <2>2
<1>7. CASE SendNameInGate \/ SendToFreed
  <2>1. writer = "marshalled" /\ UNCHANGED <<alias, gLast, gInit, fresh>>
    BY <1>7 DEF SendNameInGate, SendToFreed
  <2> QED BY <2>1
<1>8. CASE Churn \/ Shim \/ Read \/ DeviceTakes \/ LinkComes \/ LinkDrops \/ ControlStops
           \/ UNCHANGED vars
  <2>1. UNCHANGED <<alias, gLast, gInit, fresh, writer>>
    BY <1>8 DEF Churn, Shim, ShimCaptures, ShimAnnounces, Read, BeginRead, ReadTimesOut,
       ReadCopies, ReadReturns, ReadAgain, DeviceTakes, LinkComes, LinkDrops, ControlStops,
       pane, vars
  <2> QED BY <2>1
<1> QED BY <1>1, <1>2, <1>3, <1>4, <1>5, <1>6, <1>7, <1>8 DEF Next, Tick

(* The mirror pushes what the user gave since it first looked, and pushes  *)
(* it once (mavericks_name_mirror_tick).                                   *)
THEOREM MirrorPushesRenamesOnly == Spec => []OnlyRenamesPushed
<1>1. Init => MirrorOK
  BY DEF Init, MirrorOK
<1>2. MirrorOK => OnlyRenamesPushed
  BY DEF MirrorOK, OnlyRenamesPushed
<1> QED BY <1>1, <1>2, MirrorStep, PTL DEF Spec

-----------------------------------------------------------------------------
(* Where the last write stands                                             *)

Messages == {GetName} \cup Payloads

(* r is the last report written: it is in the device and no other is under *)
(* way, or it is under way and only requests follow it.                    *)
Written(w, d, r) ==
    \/ d = r /\ \A i \in 1 .. Len(w) : w[i] = GetName
    \/ \E i \in 1 .. Len(w) : w[i] = r /\ \A j \in i + 1 .. Len(w) : w[j] = GetName

LEMMA WrittenAsks ==
    ASSUME NEW w \in Seq(Messages), NEW d, NEW r, Written(w, d, r)
    PROVE  Written(Append(w, GetName), d, r)
<1> DEFINE v == Append(w, GetName)
           n == Len(w)
<1>1. /\ n \in Nat /\ Len(v) = n + 1 /\ v[n + 1] = GetName
      /\ \A i \in 1 .. n : v[i] = w[i]
  OBVIOUS
<1> HIDE DEF v, n
<1>2. CASE d = r /\ \A i \in 1 .. n : w[i] = GetName
  BY <1>1, <1>2 DEF Written
<1>3. ASSUME NEW i \in 1 .. n, w[i] = r, \A j \in i + 1 .. n : w[j] = GetName
      PROVE  Written(v, d, r)
  <2>1. i \in 1 .. Len(v) /\ v[i] = r
    BY <1>1, <1>3
  <2>2. \A j \in i + 1 .. Len(v) : v[j] = GetName
    BY <1>1, <1>3
  <2> QED BY <2>1, <2>2 DEF Written
<1> QED BY <1>2, <1>3 DEF Written, n, v

LEMMA WrittenLast ==
    ASSUME NEW w \in Seq(Messages), NEW d, NEW r
    PROVE  Written(Append(w, r), d, r)
<1>1. /\ Len(w) \in Nat /\ Len(Append(w, r)) = Len(w) + 1
      /\ Append(w, r)[Len(w) + 1] = r
  OBVIOUS
<1> QED BY <1>1 DEF Written

(* What the device does with a message.                                    *)
Holding(d, m) == IF m = GetName THEN d ELSE m

LEMMA WrittenTakes ==
    ASSUME NEW w \in Seq(Messages), w # <<>>, NEW d, NEW r, r # GetName, Written(w, d, r)
    PROVE  Written(Tail(w), Holding(d, Head(w)), r)
<1> DEFINE v == Tail(w)
           n == Len(w)
           h == Holding(d, Head(w))
<1>1. /\ n \in Nat \ {0} /\ Len(v) = n - 1 /\ Head(w) = w[1]
      /\ \A i \in 1 .. n - 1 : v[i] = w[i + 1]
  OBVIOUS
<1>2. h = IF w[1] = GetName THEN d ELSE w[1]
  BY <1>1 DEF Holding
<1> HIDE DEF v, n, h
<1>3. ASSUME d = r, \A i \in 1 .. n : w[i] = GetName
      PROVE  Written(v, h, r)
  <2>1. h = r
    BY <1>1, <1>2, <1>3
  <2>2. \A j \in 1 .. Len(v) : v[j] = GetName
    BY <1>1, <1>3
  <2> QED BY <2>1, <2>2 DEF Written
<1>4. ASSUME NEW i \in 1 .. n, w[i] = r, \A j \in i + 1 .. n : w[j] = GetName
      PROVE  Written(v, h, r)
  <2>1. CASE i = 1
    <3>1. h = r /\ \A j \in 1 .. Len(v) : v[j] = GetName
      BY <1>1, <1>2, <1>4, <2>1
    <3> QED BY <3>1 DEF Written
  <2>2. CASE i # 1
    <3>1. i - 1 \in 1 .. Len(v) /\ v[i - 1] = r
      BY <1>1, <1>4, <2>2
    <3>2. \A j \in (i - 1) + 1 .. Len(v) : v[j] = GetName
      BY <1>1, <1>4
    <3> QED BY <3>1, <3>2 DEF Written
  <2> QED BY <2>1, <2>2
<1> QED BY <1>3, <1>4 DEF Written, n, v, h

PushOK ==
    /\ writer = "marshalled" => wname = Cut(alias) /\ Cut(alias) \in Shorts
    /\ wok => writer = "done" /\ (lost \/ pushed = alias)
    /\ wire \in Seq(Messages) /\ device \in Payloads
    /\ pushed # Cleared => pushed \in Names /\ Cut(pushed) \in Shorts
    /\ pushed # Cleared /\ ~lost => Written(wire, device, Report(Cut(pushed)))

LEMMA DeviceHolds ==
    ASSUME PushOK, DeviceTakes
    PROVE  device' = Holding(device, Head(wire)) /\ device' \in Payloads
<1>1. Head(wire) \in Messages /\ device \in Payloads
  BY DEF DeviceTakes, PushOK
<1>2. CASE Head(wire) = GetName BY <1>1, <1>2 DEF DeviceTakes, Holding
<1>3. CASE Head(wire) # GetName
  <2>1. Head(wire) \in Payloads BY <1>1, <1>3 DEF Messages
  <2>2. device' = Head(wire) BY <1>1, <1>3, <2>1, Overwrites DEF DeviceTakes
  <2> QED BY <1>3, <2>1, <2>2 DEF Holding
<1> QED BY <1>2, <1>3

LEMMA PushStep == MirrorOK /\ PushOK /\ [Next]_vars => PushOK'
<1> SUFFICES ASSUME MirrorOK, PushOK, [Next]_vars PROVE PushOK'
  OBVIOUS
<1> USE DEF PushOK
<1>1. CASE BeginPush
  <2>1. alias \in Names /\ alias # Cleared
    BY <1>1 DEF BeginPush, MirrorOK
  <2>2. Cut(alias) \in Strings
    BY <2>1, CutIsWhole, NamesAssumption
  <2>3. writer' = "marshalled" => Cut(alias) \in Shorts
    BY <1>1, <2>2 DEF BeginPush, Shorts
  <2>4. UNCHANGED <<alias, wok, pushed, lost, wire, device>> /\ wname' = Cut(alias) /\ ~wok
    BY <1>1 DEF BeginPush, history, kext
  <2> QED BY <2>3, <2>4
<1>2. CASE SendNameInGate
  <2>1. CASE channel = "open"
    <3>1. /\ wire' = Append(wire, Report(Cut(alias))) /\ pushed' = alias /\ lost' = FALSE
          /\ UNCHANGED <<alias, device>> /\ writer' = "done" /\ Cut(alias) \in Shorts
      BY <1>2, <2>1 DEF SendNameInGate
    <3>2. alias \in Names
      BY <1>2 DEF SendNameInGate, MirrorOK
    <3>3. wire' \in Seq(Messages)
      BY <3>1 DEF Messages, Payloads
    <3> QED BY <3>1, <3>2, <3>3, WrittenLast
  <2>2. CASE channel # "open"
    BY <1>2, <2>2 DEF SendNameInGate, history
  <2> QED BY <2>1, <2>2
<1>3. CASE SendToFreed BY <1>3 DEF SendToFreed, kext
<1>4. CASE EndPush BY <1>4 DEF EndPush, history, kext
<1>5. CASE BeginRead
  <2>1. wire' = Append(wire, GetName) /\ UNCHANGED <<pane, history, device>>
    BY <1>5 DEF BeginRead
  <2>2. wire' \in Seq(Messages)
    BY <2>1 DEF Messages
  <2> QED BY <2>1, <2>2, WrittenAsks DEF pane, history
<1>6. CASE DeviceTakes
  <2>1. wire' = Tail(wire) /\ wire # <<>> /\ UNCHANGED <<pane, history>>
    BY <1>6 DEF DeviceTakes
  <2>2. wire' \in Seq(Messages)
    BY <2>1
  <2>3. pushed # Cleared => Report(Cut(pushed)) # GetName
    BY PayloadFacts DEF Payloads
  <2> QED BY <1>6, <2>1, <2>2, <2>3, WrittenTakes, DeviceHolds DEF pane, history
<1>7. CASE LinkDrops
  <2>1. /\ wire' = <<>> /\ UNCHANGED <<pane, pushed, device>>
        /\ lost' = (lost \/ \E m \in Range(wire) : m # GetName)
    BY <1>7 DEF LinkDrops
  <2>2. ASSUME pushed # Cleared, ~lost' PROVE device = Report(Cut(pushed))
    <3>1. DOMAIN wire = 1 .. Len(wire)
      OBVIOUS
    <3>4. \A i \in 1 .. Len(wire) : wire[i] = GetName
      BY <2>1, <2>2, <3>1 DEF Range
    <3>5. ~lost
      BY <2>1, <2>2
    <3>2. Report(Cut(pushed)) # GetName
      BY <2>2, PayloadFacts DEF Payloads
    <3> QED BY <2>2, <3>2, <3>4, <3>5 DEF Written
  <2>3. wire' \in Seq(Messages) /\ Len(wire') = 0
    BY <2>1
  <2>4. pushed # Cleared /\ ~lost' => Written(wire', device, Report(Cut(pushed)))
    BY <2>2, <2>3 DEF Written
  <2>5. lost => lost'
    BY <2>1
  <2> QED BY <2>1, <2>3, <2>4, <2>5 DEF pane
<1>8. ASSUME NEW n \in Names, Rename(n) PROVE PushOK'
  BY <1>8 DEF Rename, history, kext
<1>9. CASE Relaunch \/ Churn \/ FirstSight \/ AcceptCleared \/ Shim \/ ReadTimesOut \/ ReadCopies
           \/ ReadReturns \/ ReadAgain \/ LinkComes \/ ControlStops \/ UNCHANGED vars
  <2>1. UNCHANGED <<alias, writer, wname, wok, history, wire, device>>
    BY <1>9 DEF Relaunch, Churn, FirstSight, AcceptCleared, Shim, ShimCaptures, ShimAnnounces,
       ReadTimesOut, ReadCopies, ReadReturns, ReadAgain, LinkComes, ControlStops, pane, history,
       kext, vars
  <2> QED BY <2>1 DEF history
<1> HIDE DEF PushOK
<1> QED BY <1>1, <1>2, <1>3, <1>4, <1>5, <1>6, <1>7, <1>8, <1>9 DEF Next, Tick, Read

LEMMA PushInit == Init => PushOK
<1> SUFFICES ASSUME Init PROVE PushOK
  OBVIOUS
<1>1. FactoryName \in Shorts
  BY NamesAssumption DEF Shorts
<1>2. device \in Payloads
  BY <1>1 DEF Init, Payloads
<1>3. wire \in Seq(Messages)
  BY DEF Init
<1> QED BY <1>2, <1>3 DEF Init, PushOK

(* Once the last write has reached the device and no link took it along,   *)
(* the device holds the longest whole part of that name and nothing else   *)
(* (sendNameInGate); a success is of the name asked for (writeDeviceName). *)
THEOREM LastPushReachesDevice == Spec => []LastPushWins
<1>1. Init => MirrorOK /\ PushOK
  BY PushInit DEF Init, MirrorOK
<1>2. MirrorOK /\ PushOK => LastPushWins
  <2> SUFFICES ASSUME PushOK PROVE LastPushWins
    OBVIOUS
  <2>1. ASSUME pushed # Cleared, ~lost, Range(wire) \subseteq {GetName}
        PROVE  /\ device = Padded(Unpadded(device), PayloadMax + 1)
               /\ WholePart(Unpadded(device), pushed)
    <3>1. pushed \in Names /\ Cut(pushed) \in Shorts
      BY <2>1 DEF PushOK
    <3>2. Report(Cut(pushed)) # GetName
      BY <3>1, PayloadFacts DEF Payloads
    <3>3. \A i \in 1 .. Len(wire) : wire[i] = GetName
      BY <2>1 DEF PushOK, Range
    <3>4. device = Report(Cut(pushed))
      BY <2>1, <3>2, <3>3 DEF PushOK, Written
    <3>5. Unpadded(device) = Cut(pushed)
      BY <3>1, <3>4, UnpadsTo
    <3>6. WholePart(Cut(pushed), pushed)
      BY <2>1, <3>1, CutIsWhole, NamesAssumption
    <3>7. device = Padded(Unpadded(device), PayloadMax + 1)
      BY <3>4, <3>5 DEF Report
    <3> QED BY <3>5, <3>6, <3>7
  <2>2. wok /\ ~lost => pushed = alias
    BY DEF PushOK
  <2> QED BY <2>1, <2>2 DEF LastPushWins
<1> QED BY <1>1, <1>2, MirrorStep, PushStep, PTL DEF Spec

-----------------------------------------------------------------------------
(* Where the answer to a read stands                                       *)

OneAsked(w) ==
    \E i \in 1 .. Len(w) : w[i] = GetName /\ \A j \in 1 .. Len(w) : w[j] = GetName => j = i
NoneAsked(w) == \A j \in 1 .. Len(w) : w[j] # GetName

LEMMA AskedBefore ==
    ASSUME NEW w \in Seq(Messages), NEW m
    PROVE  /\ m = GetName /\ NoneAsked(w) => OneAsked(Append(w, m))
           /\ m # GetName /\ NoneAsked(w) => NoneAsked(Append(w, m))
           /\ m # GetName /\ OneAsked(w) => OneAsked(Append(w, m))
<1> DEFINE v == Append(w, m)
           n == Len(w)
<1>1. /\ n \in Nat /\ Len(v) = n + 1 /\ v[n + 1] = m
      /\ \A i \in 1 .. n : v[i] = w[i]
  OBVIOUS
<1> HIDE DEF v, n
<1>2. ASSUME m = GetName, \A j \in 1 .. n : w[j] # GetName PROVE OneAsked(v)
  <2>1. n + 1 \in 1 .. Len(v) /\ v[n + 1] = GetName
    BY <1>1, <1>2
  <2>2. \A j \in 1 .. Len(v) : v[j] = GetName => j = n + 1
    BY <1>1, <1>2
  <2> QED BY <2>1, <2>2 DEF OneAsked
<1>3. ASSUME m # GetName, \A j \in 1 .. n : w[j] # GetName PROVE NoneAsked(v)
  BY <1>1, <1>3 DEF NoneAsked
<1>4. ASSUME m # GetName, NEW i \in 1 .. n, w[i] = GetName,
             \A j \in 1 .. n : w[j] = GetName => j = i
      PROVE  OneAsked(v)
  <2>1. i \in 1 .. Len(v) /\ v[i] = GetName
    BY <1>1, <1>4
  <2>2. \A j \in 1 .. Len(v) : v[j] = GetName => j = i
    BY <1>1, <1>4
  <2> QED BY <2>1, <2>2 DEF OneAsked
<1>5. NoneAsked(w) <=> \A j \in 1 .. n : w[j] # GetName
  BY DEF NoneAsked, n
<1>6. OneAsked(w) <=>
        \E i \in 1 .. n : w[i] = GetName /\ \A j \in 1 .. n : w[j] = GetName => j = i
  BY DEF OneAsked, n
<1> QED BY <1>2, <1>3, <1>4, <1>5, <1>6 DEF v

LEMMA AskedAfter ==
    ASSUME NEW w \in Seq(Messages), w # <<>>
    PROVE  /\ NoneAsked(w) => Head(w) # GetName /\ NoneAsked(Tail(w))
           /\ Head(w) = GetName /\ OneAsked(w) => NoneAsked(Tail(w))
           /\ Head(w) # GetName /\ OneAsked(w) => OneAsked(Tail(w))
<1> DEFINE v == Tail(w)
           n == Len(w)
<1>1. /\ n \in Nat \ {0} /\ Len(v) = n - 1 /\ Head(w) = w[1]
      /\ \A i \in 1 .. n - 1 : v[i] = w[i + 1]
  OBVIOUS
<1> HIDE DEF v, n
<1>2. ASSUME \A j \in 1 .. n : w[j] # GetName PROVE Head(w) # GetName /\ NoneAsked(v)
  <2>1. Head(w) # GetName
    BY <1>1, <1>2
  <2>2. \A j \in 1 .. Len(v) : v[j] # GetName
    BY <1>1, <1>2
  <2> QED BY <2>1, <2>2 DEF NoneAsked
<1>3. ASSUME Head(w) = GetName, NEW i \in 1 .. n, \A j \in 1 .. n : w[j] = GetName => j = i
      PROVE  NoneAsked(v)
  <2>1. i = 1
    BY <1>1, <1>3
  <2>2. \A j \in 1 .. Len(v) : v[j] # GetName
    BY <1>1, <1>3, <2>1
  <2> QED BY <2>2 DEF NoneAsked
<1>4. ASSUME Head(w) # GetName, NEW i \in 1 .. n, w[i] = GetName,
             \A j \in 1 .. n : w[j] = GetName => j = i
      PROVE  OneAsked(v)
  <2>1. i # 1
    BY <1>1, <1>4
  <2>2. i - 1 \in 1 .. Len(v) /\ v[i - 1] = GetName
    BY <1>1, <1>4, <2>1
  <2>3. \A j \in 1 .. Len(v) : v[j] = GetName => j = i - 1
    BY <1>1, <1>4
  <2> QED BY <2>2, <2>3 DEF OneAsked
<1>5. NoneAsked(w) <=> \A j \in 1 .. n : w[j] # GetName
  BY DEF NoneAsked, n
<1>6. OneAsked(w) <=>
        \E i \in 1 .. n : w[i] = GetName /\ \A j \in 1 .. n : w[j] = GetName => j = i
  BY DEF OneAsked, n
<1> QED BY <1>2, <1>3, <1>4, <1>5, <1>6 DEF v

(* A name the device has held since the read began.                        *)
Current(name) == name \in Shorts /\ Report(name) \in since

(* The answer is asked for, on its way, with the shim, or there, or it is  *)
(* lost; in every case no other can come.                                  *)
Sought == OneAsked(wire) /\ replies = <<>> /\ shim = <<>> /\ ~gNameRespPending
Returning ==
    /\ NoneAsked(wire) /\ shim = <<>> /\ ~gNameRespPending
    /\ \E x : replies = <<x>> /\ Current(x)
Captured ==
    /\ NoneAsked(wire) /\ replies = <<>> /\ shim # <<>> /\ ~gNameRespPending
    /\ Current(gNameResp)
Settled ==
    /\ NoneAsked(wire) /\ replies = <<>> /\ shim = <<>>
    /\ gNameRespPending => Current(gNameResp)

ReadOK ==
    /\ reader # "idle" => device \in since
    /\ clean /\ reader = "waiting" => Sought \/ Returning \/ Captured \/ Settled
    /\ clean /\ reader = "copying" =>
         /\ NoneAsked(wire) /\ replies = <<>> /\ shim = <<>>
         /\ Current(gNameResp) /\ out = SubSeq(gNameResp, 1, 1)
    /\ clean /\ reader = "done" => out \in since

(* The first byte of a name and the rest of it are the name.               *)
LEMMA FirstAndRest ==
    ASSUME NEW p \in Shorts
    PROVE  SubSeq(p, 1, 1) \o Tail(p) = p
<1>1. p \in Seq(1 .. 255) /\ Len(p) \in Nat /\ 0 < Len(p) /\ p # <<>>
  BY ShortFacts DEF Strings
<1>2. Tail(p) = SubSeq(p, 2, Len(p))
  BY <1>1, TailIsSubSeq
<1>3. SubSeq(p, 1, Len(p)) = p
  BY <1>1, SubSeqFull
<1>4. 1 \in 1 .. Len(p) + 1 /\ 1 \in 1 - 1 .. Len(p) /\ Len(p) \in 1 .. Len(p)
  BY <1>1
<1>5. SubSeq(p, 1, 1) \o SubSeq(p, 1 + 1, Len(p)) = SubSeq(p, 1, Len(p))
  BY <1>1, <1>4, ConcatAdjacentSubSeq
<1> QED BY <1>2, <1>3, <1>5

LEMMA ReadTakes ==
    ASSUME PushOK, ReadOK, DeviceTakes
    PROVE  ReadOK'
<1>1. /\ wire \in Seq(Messages) /\ wire # <<>> /\ wire' = Tail(wire)
      /\ device \in Payloads
      /\ UNCHANGED <<gNameResp, gNameRespPending, shim, reader, out, clean>>
      /\ since' = IF reader = "idle" THEN {} ELSE since \cup {device'}
  BY DEF DeviceTakes, PushOK
<1>2. reader' # "idle" => device' \in since'
  BY <1>1
<1>3. reader # "idle" => since \subseteq since'
  BY <1>1
<1>4. ASSUME clean, reader = "waiting", Sought
      PROVE  (Sought \/ Returning \/ Captured \/ Settled)'
  <2>1. CASE Head(wire) = GetName
    <3>1. NoneAsked(wire')
      BY <1>1, <1>4, <2>1, AskedAfter DEF Sought
    <3>2. replies' = <<Unpadded(device)>> /\ device' = device
      BY <1>4, <2>1 DEF DeviceTakes, Sought
    <3>3. Current(Unpadded(device))'
      <4>1. Unpadded(device) \in Shorts /\ Report(Unpadded(device)) = device
        BY <1>1, PayloadFacts DEF Report
      <4> QED BY <1>2, <1>1, <1>4, <3>2, <4>1 DEF Current
    <3>4. Returning'
      BY <1>1, <1>4, <3>1, <3>2, <3>3 DEF Returning, Sought, Current
    <3> QED BY <3>4
  <2>2. CASE Head(wire) # GetName
    <3>1. OneAsked(wire') /\ replies' = replies
      BY <1>1, <1>4, <2>2, AskedAfter DEF Sought, DeviceTakes
    <3> QED BY <1>1, <1>4, <3>1 DEF Sought
  <2> QED BY <2>1, <2>2
<1>5. ASSUME reader # "idle", NoneAsked(wire)
      PROVE  NoneAsked(wire') /\ replies' = replies
  BY <1>1, <1>5, AskedAfter DEF DeviceTakes
<1>6. ASSUME NEW x, reader # "idle", Current(x) PROVE Report(x) \in since'
  BY <1>3, <1>6 DEF Current
<1>7. ASSUME clean, reader = "waiting", Returning PROVE Returning'
  BY <1>1, <1>5, <1>6, <1>7 DEF Returning, Current
<1>8. ASSUME clean, reader = "waiting", Captured PROVE Captured'
  BY <1>1, <1>5, <1>6, <1>8 DEF Captured, Current
<1>9. ASSUME clean, reader = "waiting", Settled PROVE Settled'
  BY <1>1, <1>5, <1>6, <1>9 DEF Settled, Current
<1>10. ASSUME clean, reader = "copying"
       PROVE  /\ NoneAsked(wire') /\ replies' = <<>> /\ shim' = <<>>
              /\ Current(gNameResp)' /\ out' = SubSeq(gNameResp', 1, 1)
  BY <1>1, <1>5, <1>6, <1>10 DEF ReadOK, Current
<1>11. ASSUME clean, reader = "done" PROVE out' \in since'
  BY <1>1, <1>3, <1>11 DEF ReadOK
<1> QED BY <1>1, <1>2, <1>4, <1>7, <1>8, <1>9, <1>10, <1>11 DEF ReadOK

LEMMA ReadStep == PushOK /\ ReadOK /\ [Next]_vars => ReadOK'
<1> SUFFICES ASSUME PushOK, ReadOK, [Next]_vars PROVE ReadOK'
  OBVIOUS
<1>a. wire \in Seq(Messages)
  BY DEF PushOK
<1>1. CASE BeginRead
  <2>1. /\ wire' = Append(wire, GetName) /\ shim' = <<>> /\ replies' = replies
        /\ ~gNameRespPending' /\ reader' = "waiting" /\ device' \in since'
        /\ clean' => replies = <<>> /\ GetName \notin Range(wire)
    BY <1>1 DEF BeginRead
  <2>2. ASSUME clean' PROVE Sought'
    <3>1. NoneAsked(wire)
      BY <2>1, <2>2, <1>a DEF NoneAsked, Range
    <3>2. OneAsked(wire')
      BY <1>a, <2>1, <3>1, AskedBefore
    <3> QED BY <2>1, <2>2, <3>2 DEF Sought
  <2> QED BY <2>1, <2>2 DEF ReadOK
<1>2. CASE ReadTimesOut BY <1>2 DEF ReadTimesOut, ReadOK
<1>3. CASE ReadCopies
  <2>1. /\ reader = "waiting" /\ gNameRespPending /\ reader' = "copying"
        /\ out' = SubSeq(gNameResp, 1, 1)
        /\ UNCHANGED <<wire, replies, device, gNameResp, shim, clean, since>>
    BY <1>3 DEF ReadCopies, kext
  <2>2. clean => Settled /\ Current(gNameResp)
    BY <2>1 DEF ReadOK, Sought, Returning, Captured, Settled
  <2>3. Current(gNameResp)' <=> Current(gNameResp)
    BY <2>1 DEF Current
  <2> QED BY <2>1, <2>2, <2>3 DEF ReadOK, Settled
<1>4. CASE ReadReturns
  <2>1. /\ reader = "copying" /\ reader' = "done"
        /\ out' = Padded(out \o Tail(gNameResp), PayloadMax + 1)
        /\ UNCHANGED <<device, clean, since>>
    BY <1>4 DEF ReadReturns, kext
  <2>2. ASSUME clean PROVE out' \in since
    <3>1. Current(gNameResp) /\ out = SubSeq(gNameResp, 1, 1)
      BY <2>1, <2>2 DEF ReadOK
    <3>2. out \o Tail(gNameResp) = gNameResp
      BY <3>1, FirstAndRest DEF Current
    <3> QED BY <2>1, <3>1, <3>2 DEF Current, Report
  <2> QED BY <2>1, <2>2 DEF ReadOK
<1>5. CASE ReadAgain BY <1>5 DEF ReadAgain, ReadOK
<1>6. CASE ShimCaptures
  <2>1. /\ shim = <<>> /\ replies # <<>>
        /\ shim' = Head(replies) /\ replies' = Tail(replies) /\ gNameResp' = Head(replies)
        /\ UNCHANGED <<wire, device, gNameRespPending, reader, out, clean, since>>
    BY <1>6 DEF ShimCaptures
  <2>2. ASSUME clean, reader = "waiting" PROVE Captured'
    <3>1. Returning
      BY <2>1, <2>2 DEF ReadOK, Sought, Captured, Settled
    <3>2. PICK x : replies = <<x>> /\ Current(x)
      BY <3>1 DEF Returning
    <3>3. shim' = x /\ gNameResp' = x /\ replies' = <<>>
      BY <2>1, <3>2
    <3>4. x # <<>>
      BY <3>2, ShortFacts DEF Current
    <3>5. Current(gNameResp)'
      BY <2>1, <3>2, <3>3 DEF Current
    <3> QED BY <2>1, <3>1, <3>3, <3>4, <3>5 DEF Captured, Returning
  <2>3. ~(clean /\ reader = "copying")
    BY <2>1 DEF ReadOK
  <2> QED BY <2>1, <2>2, <2>3 DEF ReadOK
<1>7. CASE ShimAnnounces
  <2>1. /\ shim # <<>> /\ shim' = <<>> /\ gNameRespPending' = TRUE
        /\ UNCHANGED <<wire, replies, device, gNameResp, reader, out, clean, since>>
    BY <1>7 DEF ShimAnnounces, kext
  <2>2. ASSUME clean, reader = "waiting" PROVE Settled'
    <3>1. Captured
      BY <2>1, <2>2 DEF ReadOK, Sought, Returning, Settled
    <3> QED BY <2>1, <3>1 DEF Captured, Settled, Current
  <2>3. ~(clean /\ reader = "copying")
    BY <2>1 DEF ReadOK
  <2> QED BY <2>1, <2>2, <2>3 DEF ReadOK
<1>8. CASE DeviceTakes BY <1>8, ReadTakes
<1>9. CASE LinkDrops
  <2>1. /\ wire' = <<>> /\ replies' = <<>>
        /\ UNCHANGED <<device, gNameResp, gNameRespPending, shim, reader, out, clean, since>>
    BY <1>9 DEF LinkDrops, reading
  <2>2. NoneAsked(wire')
    BY <2>1 DEF NoneAsked
  <2>3. \A x : Current(x)' <=> Current(x)
    BY <2>1 DEF Current
  <2>4. ASSUME Sought \/ Returning PROVE Settled'
    BY <2>1, <2>2, <2>4 DEF Sought, Returning, Settled
  <2>5. ASSUME Captured PROVE Captured'
    BY <2>1, <2>2, <2>5 DEF Captured, Current
  <2>6. ASSUME Settled PROVE Settled'
    BY <2>1, <2>2, <2>6 DEF Settled, Current
  <2> QED BY <2>1, <2>2, <2>4, <2>5, <2>6 DEF ReadOK, Current
<1>10. CASE SendNameInGate /\ channel = "open"
  <2>1. /\ wire' = Append(wire, Report(wname)) /\ wname \in Shorts
        /\ UNCHANGED <<replies, device, reading>>
    BY <1>10 DEF SendNameInGate, PushOK
  <2>2. Report(wname) # GetName
    BY <2>1, PayloadFacts DEF Payloads
  <2>3. (NoneAsked(wire) => NoneAsked(wire')) /\ (OneAsked(wire) => OneAsked(wire'))
    BY <1>a, <2>1, <2>2, AskedBefore
  <2>4. UNCHANGED <<gNameResp, gNameRespPending, shim, reader, out, clean, since>>
    BY <2>1 DEF reading
  <2>5. (Sought => Sought') /\ (Returning => Returning')
    BY <2>1, <2>3, <2>4 DEF Sought, Returning, Current
  <2>6. (Captured => Captured') /\ (Settled => Settled')
    BY <2>1, <2>3, <2>4 DEF Captured, Settled, Current
  <2> QED BY <2>1, <2>3, <2>4, <2>5, <2>6 DEF ReadOK, Current
<1>11. ASSUME UNCHANGED <<wire, replies, device, reading>> PROVE ReadOK'
  BY <1>11 DEF ReadOK, Sought, Returning, Captured, Settled, Current, reading
<1>12. CASE SendNameInGate /\ channel # "open" BY <1>11, <1>12 DEF SendNameInGate
<1>13. CASE Relaunch \/ Churn \/ Tick \/ EndPush \/ SendToFreed \/ LinkComes \/ ControlStops
            \/ (\E n \in Names : Rename(n)) \/ UNCHANGED vars
  BY <1>11, <1>13 DEF Relaunch, Churn, Tick, FirstSight, AcceptCleared, BeginPush, EndPush,
     SendToFreed, LinkComes, ControlStops, Rename, kext, vars
<1> QED BY <1>1, <1>2, <1>3, <1>4, <1>5, <1>6, <1>7, <1>8, <1>9, <1>10, <1>12, <1>13
           DEF Next, Read, Shim

(* A read begun when no older reply was due returns, whole and padded, a   *)
(* name the device held while it lasted (readDeviceName, bt_control_shim). *)
THEOREM CleanReadIsCurrent == Spec => []ReadIsCurrent
<1>1. Init => MirrorOK /\ PushOK /\ ReadOK
  BY PushInit DEF Init, MirrorOK, ReadOK
<1>2. ReadOK => ReadIsCurrent
  BY DEF ReadOK, ReadIsCurrent
<1> QED BY <1>1, <1>2, MirrorStep, PushStep, ReadStep, PTL DEF Spec

=============================================================================
