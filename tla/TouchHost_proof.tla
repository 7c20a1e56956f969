--------------------------- MODULE TouchHost_proof ---------------------------
(***************************************************************************)
(* Proofs about TouchHost, for every set of readers, every frame capacity, *)
(* every set of positions and every clock width.                           *)
(***************************************************************************)
EXTENDS TouchHost, FiniteSetTheorems, TLAPS

-----------------------------------------------------------------------------
(* The lifecycle's room for a TS_END.                                       *)

(* A frame has room for a TS_END of every vanished contact: ids index the  *)
(* same MAX_TOUCHES slots the frame has, so the guard contact_count <      *)
(* MAX_TOUCHES in mavericks_lifecycle_step never drops one.                *)
THEOREM EveryVanishedContactEnds ==
    ASSUME NEW prev \in SUBSET Ids, NEW now \in SUBSET Ids
    PROVE  Ended(prev, now) = prev \ now
<1> USE MaxTouchesAssumption
<1>1. SUFFICES ASSUME NEW id \in prev \ now
               PROVE  Cardinality(now)
                        + Cardinality({j \in prev \ now : j < id}) < MAX_TOUCHES
  BY <1>1 DEF Ended
<1> DEFINE before == {j \in prev \ now : j < id}
<1>2. IsFiniteSet(Ids) /\ Cardinality(Ids) = MAX_TOUCHES
  BY FS_Interval DEF Ids
<1>3. id \in Ids
  OBVIOUS
<1>4. /\ IsFiniteSet(Ids \ {id})
      /\ Cardinality(Ids \ {id}) = MAX_TOUCHES - 1
  BY <1>2, <1>3, FS_RemoveElement
<1>5. now \cup before \subseteq Ids \ {id}
  <2>1. ~(id < id)
    BY <1>3 DEF Ids
  <2>2. QED
    BY <2>1
<1>6. IsFiniteSet(now) /\ IsFiniteSet(before)
  BY <1>2, FS_Subset
<1>7. Cardinality(now \cup before) <= MAX_TOUCHES - 1
  BY <1>4, <1>5, FS_Subset
<1>8. now \cap before = {}
  OBVIOUS
<1>9. Cardinality(now) \in Nat /\ Cardinality(before) \in Nat
  BY <1>6, FS_CardinalityType
<1>10. Cardinality(now \cup before) = Cardinality(now) + Cardinality(before)
  <2>1. Cardinality(now \cap before) = 0
    BY <1>8, FS_EmptySet
  <2> HIDE DEF before
  <2>2. QED
    BY <1>6, <1>9, <2>1, FS_Union
<1>11. Cardinality(now) + Cardinality(before) < MAX_TOUCHES
  BY <1>7, <1>9, <1>10
<1>12. QED
  BY <1>11

(* g is f conditioned: it holds every id present now or before, with the    *)
(* state and position the lifecycle gives it.                               *)
StepOf(g, now, f, prev, lst) ==
    /\ g \in Frames
    /\ now \subseteq Ids
    /\ DOMAIN g.touches = now \cup prev
    /\ g.button = f.button
    /\ \A i \in now :
        /\ g.touches[i].pos = f.touches[i].pos
        /\ f.touches[i].pos \in Pos
        /\ g.touches[i].state = IF i \in prev THEN "TS_TOUCHING" ELSE "TS_START"
    /\ \A i \in prev \ now :
        /\ g.touches[i].pos = lst[i]
        /\ g.touches[i].state = "TS_END"
    /\ Down(g) = now

LEMMA StepShape ==
    ASSUME NEW f \in RawFrames, NEW prev \in SUBSET Ids, NEW lst \in [Ids -> Pos]
    PROVE  StepOf(LifecycleStep(prev, lst, f), DropLifted(f), f, prev, lst)
<1> DEFINE now == DropLifted(f)
           g == LifecycleStep(prev, lst, f)
<1>1. PICK S \in SUBSET Ids :
        f \in [button : {0, 1}, touches : [S -> [pos : Pos, size : {0, 1}]]]
  BY DEF RawFrames
<1>2. now \subseteq S /\ now \subseteq Ids
  BY <1>1 DEF DropLifted
<1>3. Ended(prev, now) = prev \ now
  BY <1>2, EveryVanishedContactEnds
<1>4. now \cup Ended(prev, now) = now \cup prev
  BY <1>3
<1>5. g = [button |-> f.button,
           touches |-> [i \in now \cup prev |->
             IF i \in now
             THEN [pos |-> f.touches[i].pos,
                   state |-> IF i \in prev THEN "TS_TOUCHING" ELSE "TS_START"]
             ELSE [pos |-> lst[i], state |-> "TS_END"]]]
  BY <1>4 DEF LifecycleStep
<1>6. \A i \in now : f.touches[i].pos \in Pos
  BY <1>1, <1>2
<1>7. \A i \in now \cup prev : g.touches[i] \in [pos : Pos, state : States]
  BY <1>2, <1>5, <1>6 DEF States
<1>8. now \cup prev \in SUBSET Ids
  BY <1>2
<1>9. g \in [button : {0, 1},
            touches : [now \cup prev -> [pos : Pos, state : States]]]
  <2>1. g.touches = [i \in now \cup prev |-> g.touches[i]]
    BY <1>5
  <2>2. g.touches \in [now \cup prev -> [pos : Pos, state : States]]
    <3> HIDE DEF g, now
    <3>1. QED
      BY <1>7, <2>1
  <2>3. g = [button |-> g.button, touches |-> g.touches] /\ g.button \in {0, 1}
    BY <1>1, <1>5
  <2>4. QED
    <3> HIDE DEF g, now
    <3>1. QED
      BY <2>2, <2>3
<1>10. g \in Frames
  BY <1>8, <1>9 DEF Frames
<1>11. Down(g) = now
  BY <1>5 DEF Down
<1>12. StepOf(g, now, f, prev, lst)
  BY <1>2, <1>5, <1>6, <1>10, <1>11 DEF StepOf
<1>13. QED
  BY <1>12

-----------------------------------------------------------------------------
(* What one delivery does to the consumer.                                  *)

(* The frames one call feeds for an admitted frame, case by case: nothing   *)
(* when no contact is or was down, the absence pair when the last one left, *)
(* otherwise the lifecycle's frame itself.                                  *)
LEMMA FrameCases ==
    ASSUME NEW f \in RawFrames, NEW prev \in SUBSET Ids, NEW lst \in [Ids -> Pos]
    PROVE  LET g == LifecycleStep(prev, lst, f)
               now == DropLifted(f)
           IN  /\ now = {} /\ prev = {} => Conditioned(g) = <<>>
               /\ now = {} /\ prev # {} => Conditioned(g) = <<Absence, Absence>>
               /\ now # {} => Conditioned(g) = <<g>>
<1> DEFINE now == DropLifted(f)
           g == LifecycleStep(prev, lst, f)
<1>1. DOMAIN g.touches = now \cup prev /\ Down(g) = now
  BY StepShape DEF StepOf
<1> HIDE DEF now, g
<1>2. QED
  BY <1>1 DEF Conditioned, EmitWithLiftoff, FrameAllBreakTouch, now, g

(* The flush feeds the absence pair, or nothing when nothing is down.       *)
LEMMA FlushCases ==
    ASSUME NEW prev \in SUBSET Ids, NEW lst \in [Ids -> Pos]
    PROVE  LET fs == Conditioned(LifecycleFlush(prev, lst)) IN
           /\ prev = {} => fs = <<>>
           /\ prev # {} => fs = <<Absence, Absence>>
<1> DEFINE g == LifecycleFlush(prev, lst)
<1>1. DOMAIN g.touches = prev /\ Down(g) = {}
  BY DEF LifecycleFlush, Down
<1> HIDE DEF g
<1>2. QED
  BY <1>1 DEF Conditioned, EmitWithLiftoff, FrameAllBreakTouch, g

LEMMA AbsenceFacts ==
    /\ Absence \in Frames
    /\ Absence.button = 0
    /\ Down(Absence) = {}
    /\ Tracked(Absence) = NoContacts
    /\ NoContacts \in UNION {[S -> Pos] : S \in SUBSET Ids}
    /\ DOMAIN NoContacts = {}
<1>1. NoContacts \in [{} -> [pos : Pos, state : States]] /\ NoContacts \in [{} -> Pos]
  BY DEF NoContacts
<1>2. {} \in SUBSET Ids
  OBVIOUS
<1>3. Absence \in [button : {0, 1}, touches : [{} -> [pos : Pos, state : States]]]
  BY <1>1 DEF Absence
<1>4. DOMAIN NoContacts = {}
  BY DEF NoContacts
<1>5. Down(Absence) = {}
  BY <1>4 DEF Down, Absence
<1>6. Tracked(Absence) = NoContacts
  BY <1>5 DEF Tracked, NoContacts
<1>7. QED
  BY <1>1, <1>2, <1>3, <1>4, <1>5, <1>6 DEF Frames, Absence

-----------------------------------------------------------------------------
(* The inductive invariant                                                  *)

HostInv ==
    /\ TypeOK
    /\ RecognizerAgrees
    /\ SinkMatchesSession
    /\ ClickHeldByContact
    /\ WatchdogCovers

(* An admitted frame keeps the invariant.                                   *)
LEMMA AcceptKeepsInv ==
    ASSUME HostInv, NEW f \in RawFrames, xport # NoSource, Accept(f),
           xport' = xport, ticks' = ticks,
           device' \in [button : {0, 1}, quiet : BOOLEAN]
    PROVE  HostInv'
<1> DEFINE now == DropLifted(f)
           g == LifecycleStep(prev_ids, last, f)
           fs == Conditioned(g)
<1>1. TypeOK /\ prev_ids \in SUBSET Ids /\ last \in [Ids -> Pos]
  BY DEF HostInv, TypeOK
<1>2. /\ g \in Frames /\ now \subseteq Ids /\ Down(g) = now
      /\ DOMAIN g.touches = now \cup prev_ids
      /\ g.button \in {0, 1}
      /\ \A i \in now : g.touches[i].pos = f.touches[i].pos /\ f.touches[i].pos \in Pos
  BY <1>1, StepShape DEF StepOf, RawFrames
<1>3. /\ now = {} /\ prev_ids = {} => fs = <<>>
      /\ now = {} /\ prev_ids # {} => fs = <<Absence, Absence>>
      /\ now # {} => fs = <<g>>
  BY <1>1, FrameCases
<1>4. /\ Deliver(fs)
      /\ prev_ids' = now
      /\ last' = [i \in Ids |-> IF i \in now THEN f.touches[i].pos ELSE last[i]]
      /\ last_button' = ButtonAfter(fs, last_button)
      /\ timer' = IF now # {} THEN [timer EXCEPT !.armed = TRUE] ELSE timer
      /\ active_source' = active_source /\ settle_until' = settle_until
  BY DEF Accept, Rearm, LifecycleLast
<1> HIDE DEF now, g, fs
<1>5. last' \in [Ids -> Pos]
  BY <1>1, <1>2, <1>4
<1>6. /\ timer' \in [armed : BOOLEAN, due : BOOLEAN]
      /\ now # {} => timer'.armed
  BY <1>1, <1>4 DEF TypeOK
<1>7. WatchdogCovers'
  BY <1>4, <1>6 DEF WatchdogCovers
<1>8. SinkMatchesSession'
  BY <1>4 DEF HostInv, SinkMatchesSession
<1>9. CASE now = {} /\ prev_ids = {}
  <2>1. fs = <<>>
    BY <1>3, <1>9
  <2>2. fed' = <<>> /\ recognizer' = recognizer /\ click' = click
        /\ last_button' = last_button
    BY <1>4, <2>1 DEF Deliver, ButtonAfter
  <2>3. RecognizerAgrees'
    BY <1>4, <1>9, <2>2 DEF HostInv, RecognizerAgrees
  <2>4. ClickHeldByContact'
    BY <2>2 DEF HostInv, ClickHeldByContact
  <2>5. TypeOK'
    BY <1>1, <1>2, <1>4, <1>5, <1>6, <2>2 DEF TypeOK
  <2>6. QED
    BY <1>7, <1>8, <2>3, <2>4, <2>5 DEF HostInv
<1>10. CASE now = {} /\ prev_ids # {}
  <2>1. fs = <<Absence, Absence>>
    BY <1>3, <1>10
  <2>2. /\ fs # <<>> /\ fs[Len(fs)] = Absence /\ fs[1] = Absence
        /\ fs \in Seq(Frames)
    BY <2>1, AbsenceFacts
  <2>3. /\ fed' = fs /\ recognizer' = NoContacts
        /\ last_button' = 0
        /\ click' = IF 0 # last_button THEN ClickMask(Absence) ELSE click
    BY <1>4, <2>2, AbsenceFacts DEF Deliver, ButtonAfter
  <2>4. ClickMask(Absence) = 0
    BY AbsenceFacts DEF ClickMask
  <2>5. click' = 0
    BY <2>3, <2>4 DEF HostInv, ClickHeldByContact
  <2>6. RecognizerAgrees'
    BY <1>4, <1>10, <2>3 DEF RecognizerAgrees, NoContacts
  <2>7. ClickHeldByContact'
    BY <2>3, <2>5 DEF ClickHeldByContact
  <2>8. TypeOK'
    BY <1>1, <1>2, <1>4, <1>5, <1>6, <2>2, <2>3, <2>5, AbsenceFacts DEF TypeOK
  <2>9. QED
    BY <1>7, <1>8, <2>6, <2>7, <2>8 DEF HostInv
<1>11. CASE now # {}
  <2>1. fs = <<g>>
    BY <1>3, <1>11
  <2>2. fs # <<>> /\ fs[Len(fs)] = g /\ fs[1] = g /\ fs \in Seq(Frames)
    BY <1>2, <2>1
  <2>3. /\ fed' = fs /\ recognizer' = Tracked(g)
        /\ last_button' = g.button
        /\ click' = IF g.button # last_button THEN ClickMask(g) ELSE click
    BY <1>4, <2>2 DEF Deliver, ButtonAfter
  <2>4. Tracked(g) = [i \in now |-> f.touches[i].pos]
    BY <1>2 DEF Tracked
  <2>5. Tracked(g) \in [now -> Pos] /\ now \in SUBSET Ids
    BY <1>2, <2>4
  <2>6. \A i \in now : last'[i] = f.touches[i].pos
    BY <1>2, <1>4
  <2>7. RecognizerAgrees'
    BY <1>4, <2>3, <2>4, <2>6 DEF RecognizerAgrees
  <2>8. ClickMask(g) \in {0, 1, 2} /\ (ClickMask(g) # 0 <=> g.button = 1)
    BY <1>2 DEF ClickMask
  <2>9. DOMAIN recognizer' # {}
    BY <1>11, <2>3, <2>5
  <2>10. ClickHeldByContact'
    BY <1>1, <1>2, <2>3, <2>8, <2>9 DEF HostInv, ClickHeldByContact, TypeOK
  <2>11. TypeOK'
    <3>1. recognizer' \in UNION {[S -> Pos] : S \in SUBSET Ids}
      BY <2>3, <2>5
    <3>2. click' \in {0, 1, 2}
      BY <1>1, <2>3, <2>8 DEF TypeOK
    <3>3. QED
      BY <1>1, <1>2, <1>4, <1>5, <1>6, <2>2, <2>3, <3>1, <3>2 DEF TypeOK
  <2>12. QED
    BY <1>7, <1>8, <2>7, <2>10, <2>11 DEF HostInv
<1>12. QED
  BY <1>9, <1>10, <1>11

(* So does a watchdog flush, whether or not a sink is registered.           *)
LEMMA FlushKeepsInv ==
    ASSUME HostInv, IdleTimeout
    PROVE  HostInv'
<1> DEFINE fs == Conditioned(LifecycleFlush(prev_ids, last))
<1>1. /\ prev_ids = {} => fs = <<>>
      /\ prev_ids # {} => fs = <<Absence, Absence>>
  BY FlushCases DEF HostInv, TypeOK
<1>2. /\ timer' = [timer EXCEPT !.due = FALSE]
      /\ Deliver(fs) /\ prev_ids' = {}
      /\ last_button' = ButtonAfter(fs, last_button)
      /\ UNCHANGED <<active_source, settle_until, last, xport, ticks, device>>
  BY DEF IdleTimeout
<1> HIDE DEF fs
<1>3. timer' \in [armed : BOOLEAN, due : BOOLEAN]
  BY <1>2 DEF HostInv, TypeOK
<1>4. WatchdogCovers' /\ SinkMatchesSession'
  BY <1>2 DEF HostInv, WatchdogCovers, SinkMatchesSession
<1>5. CASE fs = <<>>
  <2>1. UNCHANGED <<recognizer, click, last_button>> /\ fed' = <<>>
    BY <1>2, <1>5 DEF Deliver, ButtonAfter
  <2>2. prev_ids = {}
    BY <1>1, <1>5
  <2>3. TypeOK'
    BY <1>2, <1>3, <2>1 DEF HostInv, TypeOK
  <2>4. RecognizerAgrees' /\ ClickHeldByContact'
    BY <1>2, <2>1, <2>2 DEF HostInv, RecognizerAgrees, ClickHeldByContact
  <2>5. QED
    BY <1>4, <2>3, <2>4 DEF HostInv
<1>6. CASE fs # <<>>
  <2>1. /\ fs = <<Absence, Absence>> /\ fs[Len(fs)] = Absence /\ fs[1] = Absence
        /\ fs \in Seq(Frames)
    BY <1>1, <1>6, AbsenceFacts
  <2>2. last_button' = 0
    BY <1>2, <1>6, <2>1, AbsenceFacts DEF ButtonAfter
  <2>3. ClickMask(Absence) = 0
    BY AbsenceFacts DEF ClickMask
  <2>4. CASE xport = NoSource
    <3>1. UNCHANGED <<recognizer, click>> /\ fed' = <<>>
      BY <1>2, <2>4 DEF Deliver
    <3>2. TypeOK'
      BY <1>2, <1>3, <2>2, <3>1 DEF HostInv, TypeOK
    <3>3. RecognizerAgrees' /\ ClickHeldByContact'
      BY <1>2, <2>2, <2>4, <3>1 DEF HostInv, RecognizerAgrees, ClickHeldByContact
    <3>4. QED
      BY <1>4, <3>2, <3>3 DEF HostInv
  <2>5. CASE xport # NoSource
    <3>1. /\ fed' = fs /\ recognizer' = NoContacts
          /\ click' = IF 0 # last_button THEN 0 ELSE click
      BY <1>2, <1>6, <2>1, <2>3, <2>5, AbsenceFacts DEF Deliver
    <3>2. click' = 0
      BY <3>1 DEF HostInv, ClickHeldByContact
    <3>3. RecognizerAgrees' /\ ClickHeldByContact'
      BY <1>2, <2>2, <3>1, <3>2 DEF RecognizerAgrees, ClickHeldByContact, NoContacts
    <3>4. TypeOK'
      BY <1>2, <1>3, <2>1, <2>2, <3>1, <3>2, AbsenceFacts DEF HostInv, TypeOK
    <3>5. QED
      BY <1>4, <3>3, <3>4 DEF HostInv
  <2>6. QED
    BY <2>4, <2>5
<1>7. QED
  BY <1>5, <1>6

LEMMA InitHostInv == Init => HostInv
<1>1. SUFFICES ASSUME Init PROVE HostInv
  OBVIOUS
<1>2. TypeOK
  <2>1. 0 \in 0 .. MaxUptime /\ <<>> \in Seq(Frames)
    BY UptimeAssumption
  <2>2. recognizer \in UNION {[S -> Pos] : S \in SUBSET Ids}
    BY <1>1, AbsenceFacts DEF Init
  <2>3. QED
    BY <1>1, <2>1, <2>2 DEF Init, TypeOK
<1>3. QED
  BY <1>1, <1>2, SourceAssumption DEF Init, HostInv, RecognizerAgrees,
     SinkMatchesSession, ClickHeldByContact, WatchdogCovers

LEMMA NextKeepsInv == HostInv /\ [Next]_vars => HostInv'
<1>1. SUFFICES ASSUME HostInv, [Next]_vars PROVE HostInv'
  OBVIOUS
<1> USE SourceAssumption, UptimeAssumption
<1>2. ASSUME NEW src \in Sources, Connect(src) PROVE HostInv'
  <2>1. uptime_ms + SETTLE_MS \in Nat
    <3>1. ticks \in Nat
      BY <1>1 DEF HostInv, TypeOK
    <3>2. ticks % UptimeWrap \in Nat
      BY <3>1
    <3>3. QED
      BY <3>2 DEF uptime_ms, SETTLE_MS
  <2>2. TypeOK'
    <3>1. timer' \in [armed : BOOLEAN, due : BOOLEAN]
      BY <1>1, <1>2 DEF HostInv, TypeOK, Connect
    <3>2. recognizer' \in UNION {[S -> Pos] : S \in SUBSET Ids}
      BY <1>2, AbsenceFacts DEF Connect
    <3>3. settle_until' \in Nat
      BY <1>2, <2>1 DEF Connect
    <3>4. QED
      BY <1>1, <1>2, <3>1, <3>2, <3>3 DEF HostInv, TypeOK, Connect
  <2>3. QED
    BY <1>2, <2>2, AbsenceFacts DEF Connect, HostInv, RecognizerAgrees,
       SinkMatchesSession, ClickHeldByContact, WatchdogCovers, NoContacts
<1>3. ASSUME NEW src \in Sources, Close(src) PROVE HostInv'
  <2>1. CASE src = active_source
    <3>1. TypeOK'
      <4>1. timer' \in [armed : BOOLEAN, due : BOOLEAN]
        BY <1>1, <1>3, <2>1 DEF HostInv, TypeOK, Close
      <4>2. recognizer' \in UNION {[S -> Pos] : S \in SUBSET Ids}
        BY <1>3, <2>1, AbsenceFacts DEF Close
      <4>3. QED
        <5>1. /\ xport' = NoSource /\ active_source' = NoSource /\ prev_ids' = {}
              /\ UNCHANGED <<settle_until, last_button, last, ticks>>
              /\ device' = [button |-> 0, quiet |-> FALSE]
              /\ click' = 0 /\ fed' = <<>>
          BY <1>3, <2>1 DEF Close
        <5>2. <<>> \in Seq(Frames)
          OBVIOUS
        <5>3. QED
          BY <1>1, <4>1, <4>2, <5>1, <5>2 DEF HostInv, TypeOK
    <3>2. QED
      BY <1>3, <2>1, <3>1, AbsenceFacts DEF Close, HostInv, RecognizerAgrees,
         SinkMatchesSession, ClickHeldByContact, WatchdogCovers
  <2>2. CASE src # active_source
    BY <1>1, <1>3, <2>2 DEF Close, HostInv, TypeOK, session, RecognizerAgrees,
       SinkMatchesSession, ClickHeldByContact, WatchdogCovers
  <2>3. QED
    BY <2>1, <2>2
<1>4. ASSUME NEW src \in Sources, NEW f \in RawFrames, SubmitFrame(src, f)
      PROVE  HostInv'
  <2>1. device' \in [button : {0, 1}, quiet : BOOLEAN] /\ UNCHANGED <<xport, ticks>>
    <3>1. f.button \in {0, 1}
      BY DEF RawFrames
    <3>2. QED
      BY <1>1, <1>4, <3>1 DEF SubmitFrame, HostInv, TypeOK
  <2>2. CASE Admitted(src)
    <3>1. Accept(f) /\ xport # NoSource
      BY <1>1, <1>4, <2>2 DEF SubmitFrame, Admitted, HostInv, SinkMatchesSession
    <3>2. QED
      BY <1>1, <2>1, <3>1, AcceptKeepsInv
  <2>3. CASE ~Admitted(src)
    <3>1. fed' = <<>> /\ UNCHANGED <<session, timer, recognizer, click>>
      BY <1>4, <2>3 DEF SubmitFrame
    <3>2. QED
      BY <1>1, <2>1, <3>1 DEF HostInv, TypeOK, session, RecognizerAgrees,
         SinkMatchesSession, ClickHeldByContact, WatchdogCovers
  <2>4. QED
    BY <2>2, <2>3
<1>5. CASE FallSilent
  <2>1. device' \in [button : {0, 1}, quiet : BOOLEAN]
    BY <1>1, <1>5 DEF FallSilent, HostInv, TypeOK
  <2>2. QED
    BY <1>1, <1>5, <2>1 DEF FallSilent, HostInv, TypeOK, session, RecognizerAgrees,
       SinkMatchesSession, ClickHeldByContact, WatchdogCovers
<1>6. CASE IdleExpire
  BY <1>1, <1>6 DEF IdleExpire, HostInv, TypeOK, session, RecognizerAgrees,
     SinkMatchesSession, ClickHeldByContact, WatchdogCovers
<1>7. CASE IdleTimeout
  BY <1>1, <1>7, FlushKeepsInv
<1>8. CASE Tick
  BY <1>1, <1>8 DEF Tick, HostInv, TypeOK, session, RecognizerAgrees,
     SinkMatchesSession, ClickHeldByContact, WatchdogCovers
<1>9. CASE UNCHANGED vars
  BY <1>1, <1>9 DEF vars, session, consumer, HostInv, TypeOK, RecognizerAgrees,
     SinkMatchesSession, ClickHeldByContact, WatchdogCovers
<1>10. QED
  BY <1>1, <1>2, <1>3, <1>4, <1>5, <1>6, <1>7, <1>8, <1>9 DEF Next

-----------------------------------------------------------------------------
(* Theorems                                                                 *)

(* The whole inductive invariant holds of every behaviour.                  *)
THEOREM HostInvariant == Spec => []HostInv
<1>1. QED
  BY InitHostInv, NextKeepsInv, PTL DEF Spec

(* Type correctness of the session, its lifecycle, shell and consumer.      *)
THEOREM TypeCorrect == Spec => []TypeOK
<1>1. HostInv => TypeOK
  BY DEF HostInv
<1>2. QED
  BY <1>1, HostInvariant, PTL

(* No contact is stuck on the recognizer and none is lost: it believes down *)
(* exactly what the session remembers, at the same positions.               *)
THEOREM NoStuckContact == Spec => []RecognizerAgrees
<1>1. HostInv => RecognizerAgrees
  BY DEF HostInv
<1>2. QED
  BY <1>1, HostInvariant, PTL

(* The registered sink is always the active reader's.                       *)
THEOREM SingleActiveReader == Spec => []SinkMatchesSession
<1>1. HostInv => SinkMatchesSession
  BY DEF HostInv
<1>2. QED
  BY <1>1, HostInvariant, PTL

(* A click is never held on the recognizer with no contact down.            *)
THEOREM NoPhantomHold == Spec => []ClickHeldByContact
<1>1. HostInv => ClickHeldByContact
  BY DEF HostInv
<1>2. QED
  BY <1>1, HostInvariant, PTL

(* Whenever a contact is down the watchdog is on its way.                   *)
THEOREM WatchdogAlwaysCovers == Spec => []WatchdogCovers
<1>1. HostInv => WatchdogCovers
  BY DEF HostInv
<1>2. QED
  BY <1>1, HostInvariant, PTL

(* The close or a frame of a reader that is not the active one changes      *)
(* nothing the active reader's consumer can see.                            *)
THEOREM StaleReadersAreHarmless == Spec => StaleReaderHarmless
<1>1. ASSUME NEW src \in Sources \ {active_source}, Close(src)
      PROVE  UNCHANGED <<session, xport, timer, recognizer, click>>
  BY <1>1 DEF Close
<1>2. ASSUME NEW src \in Sources \ {active_source}, NEW f \in RawFrames, SubmitFrame(src, f)
      PROVE  UNCHANGED <<session, xport, timer, recognizer, click>>
  BY <1>2 DEF SubmitFrame, Admitted
<1>3. \A src \in Sources \ {active_source} :
         (Close(src) \/ \E f \in RawFrames : SubmitFrame(src, f))
           => UNCHANGED <<session, xport, timer, recognizer, click>>
  BY <1>1, <1>2
<1> QED BY <1>3, PTL DEF StaleReaderHarmless

-----------------------------------------------------------------------------
(* Refinement of the contact stream                                         *)

(* A delivered, admitted frame continues the stream.                        *)
LEMMA AcceptDelivers ==
    ASSUME HostInv, NEW f \in RawFrames, xport # NoSource, Accept(f)
    PROVE  Stream!Next
<1> DEFINE now == DropLifted(f)
           g == LifecycleStep(prev_ids, last, f)
           fs == Conditioned(g)
<1>1. prev_ids \in SUBSET Ids /\ last \in [Ids -> Pos]
  BY DEF HostInv, TypeOK
<1>2. StepOf(g, now, f, prev_ids, last)
  BY <1>1, StepShape
<1>3. /\ now = {} /\ prev_ids = {} => fs = <<>>
      /\ now = {} /\ prev_ids # {} => fs = <<Absence, Absence>>
      /\ now # {} => fs = <<g>>
  BY <1>1, FrameCases
<1>4. Deliver(fs)
  BY DEF Accept
<1>5. recognizer = [i \in prev_ids |-> last[i]]
  BY DEF HostInv, RecognizerAgrees
<1> HIDE DEF now, g, fs
<1>6. CASE now = {} /\ prev_ids = {}
  BY <1>3, <1>4, <1>6 DEF Deliver, Stream!Next, Stream!Silent
<1>7. CASE now = {} /\ prev_ids # {}
  <2>1. DOMAIN recognizer # {}
    BY <1>5, <1>7
  <2>2. fs = <<Absence, Absence>> /\ fs # <<>> /\ fs[Len(fs)] = Absence
    BY <1>3, <1>7
  <2>3. fed' = <<Absence, Absence>> /\ recognizer' = NoContacts
    BY <1>4, <2>2, AbsenceFacts DEF Deliver
  <2>4. Stream!LiftAll
    BY <2>1, <2>3 DEF Stream!LiftAll, Stream!Absence, Stream!NoContacts,
       Absence, NoContacts
  <2>5. QED
    BY <2>4 DEF Stream!Next
<1>8. CASE now # {}
  <2>1. fs = <<g>> /\ fs # <<>> /\ fs[Len(fs)] = g
    BY <1>3, <1>8
  <2>2. fed' = <<g>> /\ recognizer' = Tracked(g)
    BY <1>4, <2>1 DEF Deliver
  <2>3. Stream!Continues(recognizer, g)
    <3>1. Stream!Down(g) = now
      BY <1>2 DEF StepOf, Stream!Down, Down
    <3>2. DOMAIN recognizer = prev_ids
      BY <1>5
    <3>3. \A i \in prev_ids : recognizer[i] = last[i]
      BY <1>5
    <3>4. QED
      BY <1>2, <1>8, <3>1, <3>2, <3>3 DEF StepOf, Stream!Continues
  <2>4. recognizer' = Stream!Tracked(g)
    BY <2>2 DEF Tracked, Stream!Tracked, Down, Stream!Down
  <2>5. Stream!Deliver
    BY <2>2, <2>3, <2>4 DEF Stream!Deliver
  <2>6. QED
    BY <2>5 DEF Stream!Next
<1>9. QED
  BY <1>6, <1>7, <1>8

(* So does a watchdog flush.                                                *)
LEMMA FlushDelivers == ASSUME HostInv, IdleTimeout PROVE Stream!Next
<1> DEFINE fs == Conditioned(LifecycleFlush(prev_ids, last))
<1>1. /\ prev_ids = {} => fs = <<>>
      /\ prev_ids # {} => fs = <<Absence, Absence>>
  BY FlushCases DEF HostInv, TypeOK
<1>2. Deliver(fs)
  BY DEF IdleTimeout
<1> HIDE DEF fs
<1>3. CASE xport = NoSource \/ fs = <<>>
  BY <1>2, <1>3 DEF Deliver, Stream!Next, Stream!Silent
<1>4. CASE xport # NoSource /\ fs # <<>>
  <2>1. fs = <<Absence, Absence>> /\ fs[Len(fs)] = Absence /\ prev_ids # {}
    BY <1>1, <1>4
  <2>2. DOMAIN recognizer # {}
    BY <1>4, <2>1 DEF HostInv, RecognizerAgrees
  <2>3. fed' = <<Absence, Absence>> /\ recognizer' = NoContacts
    BY <1>2, <1>4, <2>1, AbsenceFacts DEF Deliver
  <2>4. Stream!LiftAll
    BY <2>2, <2>3 DEF Stream!LiftAll, Stream!Absence, Stream!NoContacts,
       Absence, NoContacts
  <2>5. QED
    BY <2>4 DEF Stream!Next
<1>5. QED
  BY <1>3, <1>4

(* Every frame TouchHost feeds tells the recognizer the consistent story of *)
(* ContactStream.                                                           *)
THEOREM HostImplementsStream == Spec => StreamSpec
<1>1. Init => Stream!Init
  BY DEF Init, Stream!Init, Stream!NoContacts, NoContacts
<1>2. HostInv /\ [Next]_vars => [Stream!Next]_<<recognizer, fed>>
  <2>1. SUFFICES ASSUME HostInv, [Next]_vars
                 PROVE  [Stream!Next]_<<recognizer, fed>>
    OBVIOUS
  <2> DEFINE Quiet == fed' = <<>> /\ recognizer' \in {recognizer, NoContacts}
  <2>2. Quiet => Stream!Next
    BY DEF Stream!Next, Stream!Silent, Stream!NoContacts, NoContacts
  <2>3. ASSUME NEW src \in Sources, Connect(src) PROVE Quiet
    BY <2>3 DEF Connect
  <2>4. ASSUME NEW src \in Sources, Close(src) PROVE Quiet
    BY <2>4 DEF Close
  <2>5. ASSUME NEW src \in Sources, NEW f \in RawFrames, SubmitFrame(src, f)
        PROVE  Stream!Next
    <3>1. CASE Admitted(src)
      <4>1. Accept(f) /\ xport # NoSource
        BY SourceAssumption, <2>1, <2>5, <3>1
           DEF SubmitFrame, Admitted, HostInv, SinkMatchesSession
      <4>2. QED
        BY <2>1, <4>1, AcceptDelivers
    <3>2. CASE ~Admitted(src)
      <4>1. Quiet
        BY <2>5, <3>2 DEF SubmitFrame
      <4>2. QED
        BY <2>2, <4>1
    <3>3. QED
      BY <3>1, <3>2
  <2>6. FallSilent \/ IdleExpire \/ Tick => Quiet
    BY DEF FallSilent, IdleExpire, Tick
  <2>7. IdleTimeout => Stream!Next
    BY <2>1, FlushDelivers
  <2>8. UNCHANGED vars => UNCHANGED <<recognizer, fed>>
    BY DEF vars, consumer
  <2> HIDE DEF Quiet
  <2>9. QED
    BY <2>1, <2>2, <2>3, <2>4, <2>5, <2>6, <2>7, <2>8 DEF Next
<1>3. QED
  BY <1>1, <1>2, HostInvariant, PTL DEF Spec, StreamSpec, Stream!Spec
=============================================================================
