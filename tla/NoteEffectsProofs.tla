-------------------------- MODULE NoteEffectsProofs --------------------------
(* Every note that a plugin sends on has its end coming (NoteEffects): the  *)
(* inductive invariant and its steps.                                       *)
EXTENDS NoteEffects, Integers, TLAPS

FxEvent == [due : Int, on : BOOLEAN, note : {Note(k) : k \in EffectKey}]
FxLatch == [physical : SUBSET EffectKey, held : SUBSET EffectKey, toggled : SUBSET EffectKey,
            locked : BOOLEAN]
FxTypes ==
  /\ effect \in {"hold", "chord", "channel", "latency", "delay"} /\ setting \in Setting
  /\ down \subseteq EffectKey /\ half.key \in EffectKey \cup {0} /\ half.delay \in Setting \cup {0}
  /\ half.key = 0 => half = Idle
  /\ memo \in [EffectKey -> Setting \cup {0}] /\ latch \in FxLatch /\ pending \in Seq(FxEvent)
  /\ call \in {"", "off", "clear"}

\* Keys and settings are numbers from 1.
LEMMA FxNumbers ==
  ASSUME EffectAssumption
  PROVE
  /\ \A k \in EffectKey : k \in Nat /\ k # 0
  /\ 1 \in Setting /\ 2 \in Setting /\ \A s \in Setting : s \in Nat /\ s # 0
  BY DEF EffectAssumption

\* A queue with one more event in it.
LEMMA FxInsert ==
  ASSUME NEW queue \in Seq(FxEvent), NEW e \in FxEvent, NEW i \in 1 .. Len(queue) + 1
  PROVE  /\ InsertAt(queue, i, e) \in Seq(FxEvent)
         /\ Len(InsertAt(queue, i, e)) = Len(queue) + 1
         /\ InsertAt(queue, i, e)[i] = e
         /\ \A j \in 1 .. i - 1 : InsertAt(queue, i, e)[j] = queue[j]
         /\ \A j \in i .. Len(queue) : InsertAt(queue, i, e)[j + 1] = queue[j]
<1>. DEFINE before == SubSeq(queue, 1, i - 1)
            after == SubSeq(queue, i, Len(queue))
<1>1. /\ before \in Seq(FxEvent) /\ Len(before) = i - 1
      /\ \A j \in 1 .. i - 1 : before[j] = queue[j]
  OBVIOUS
<1>2. /\ after \in Seq(FxEvent) /\ Len(after) = Len(queue) - i + 1
      /\ \A j \in 1 .. Len(queue) - i + 1 : after[j] = queue[j + i - 1]
  OBVIOUS
<1>3. InsertAt(queue, i, e) = (before \o <<e>>) \o after
  BY DEF InsertAt
<1>. HIDE DEF before, after
<1>4. /\ before \o <<e>> \in Seq(FxEvent) /\ Len(before \o <<e>>) = i
      /\ (before \o <<e>>)[i] = e
      /\ \A j \in 1 .. i - 1 : (before \o <<e>>)[j] = queue[j]
  BY <1>1
<1>. DEFINE begun == before \o <<e>>
<1>5. begun \in Seq(FxEvent) /\ Len(begun) = i
  BY <1>4
<1>. HIDE DEF begun
<1>6. /\ begun \o after \in Seq(FxEvent) /\ Len(begun \o after) = Len(queue) + 1
      /\ \A j \in 1 .. i : (begun \o after)[j] = begun[j]
  <2>1. begun \o after \in Seq(FxEvent)
    BY <1>2, <1>5
  <2>2. Len(begun \o after) = Len(queue) + 1
    BY <1>2, <1>5
  <2>3. ASSUME NEW j \in 1 .. i PROVE (begun \o after)[j] = begun[j]
    BY <1>2, <1>5
  <2>. QED BY <2>1, <2>2, <2>3
<1>7. ASSUME NEW j \in i .. Len(queue) PROVE (begun \o after)[j + 1] = queue[j]
  <2>1. j + 1 - i \in 1 .. Len(queue) - i + 1 /\ j \in Nat /\ i \in Nat
    OBVIOUS
  <2>2. (begun \o after)[j + 1] = after[j + 1 - i]
    BY <1>2, <1>5, <2>1
  <2>. QED BY <1>2, <2>1, <2>2
<1>. QED BY <1>3, <1>4, <1>6, <1>7 DEF begun

\* The kernel puts an event where the queue stays sorted.
LEMMA FxPlace ==
  ASSUME NEW queue \in Seq(FxEvent), NEW e \in FxEvent, NEW i \in Places(queue, e)
  PROVE  /\ i \in 1 .. Len(queue) + 1
         /\ \A j \in i .. Len(queue) : queue[j].due > e.due
  BY DEF Places

\* What the plugin schedules is an event.
LEMMA FxEvents ==
  ASSUME NEW due \in Int, NEW on \in BOOLEAN, NEW k \in EffectKey
  PROVE  /\ Event(due, on, Note(k)) \in FxEvent
         /\ Event(due, on, Note(k)).due = due
         /\ Event(due, on, Note(k)).on = on
         /\ Event(due, on, Note(k)).note = Note(k)
<1>1. Note(k) \in {Note(l) : l \in EffectKey}
  OBVIOUS
<1>. QED BY <1>1 DEF Event, FxEvent

\* The latch that is let go.
LEMMA FxLatches ==
  ASSUME NEW kept \in SUBSET EffectKey
  PROVE  /\ [Unlatched EXCEPT !.physical = kept] \in FxLatch
         /\ [Unlatched EXCEPT !.physical = kept].physical = kept
         /\ [Unlatched EXCEPT !.physical = kept].held = {}
         /\ [Unlatched EXCEPT !.physical = kept].toggled = {}
         /\ [Unlatched EXCEPT !.physical = kept].locked = FALSE
  BY DEF Unlatched, FxLatch

\* A press, in each of the plugins.
LEMMA FxPressTypes ==
  ASSUME EffectAssumption, FxTypes, NEW k \in EffectKey, Press(k)
  PROVE  FxTypes'
<1>. USE DEF FxTypes
<1>1. /\ down' = down \cup {k} /\ UNCHANGED <<effect, setting, release, pending, call, calls>> /\ half = Idle
      /\ \/ HoldPress(k) \/ ChordPress(k) \/ ChannelPress(k) \/ LatencyPress(k)
         \/ DelayPress(k)
  BY DEF Press
<1>2. ASSUME NEW notes, NEW d \in Setting \cup {0}, half' = [key |-> k, notes |-> notes, delay |-> d],
             memo' \in [EffectKey -> Setting \cup {0}], latch' \in FxLatch
      PROVE  FxTypes'
  BY <1>1, <1>2, FxNumbers
<1>3. CASE ChordPress(k) \/ DelayPress(k)
  BY <1>1, <1>2, <1>3 DEF ChordPress, DelayPress
<1>4. CASE ChannelPress(k) \/ LatencyPress(k)
  BY <1>1, <1>2, <1>4 DEF ChannelPress, LatencyPress, Remembers
<1>5. CASE HoldPress(k)
  <2>1. latch' \in FxLatch
    <3>1. ASSUME ReleaseAll(latch.physical) PROVE latch' \in FxLatch
      BY <3>1, FxLatches DEF ReleaseAll, FxLatch
    <3>2. ASSUME HoldToggle(k) PROVE latch' \in FxLatch
      <4>1. \/ latch' = [latch EXCEPT !.toggled = latch.toggled \ {k}]
            \/ latch' = [latch EXCEPT !.toggled = latch.toggled \cup {k}]
        BY <3>2 DEF HoldToggle
      <4>2. latch \in FxLatch
        OBVIOUS
      <4>3. /\ [latch EXCEPT !.toggled = latch.toggled \ {k}] \in FxLatch
            /\ [latch EXCEPT !.toggled = latch.toggled \cup {k}] \in FxLatch
        BY <4>2 DEF FxLatch
      <4>. QED BY <4>1, <4>3
    <3>3. ASSUME HoldAdd(k) PROVE latch' \in FxLatch
      <4>1. CASE latch.locked
        <5>1. latch' = [physical |-> latch.physical \cup {k}, held |-> {k}, toggled |-> {}, locked |-> FALSE]
          BY <3>3, <4>1 DEF HoldAdd, Unlatched
        <5>. QED BY <5>1 DEF FxLatch
      <4>2. CASE ~latch.locked
        <5>1. latch' = [latch EXCEPT !.physical = @ \cup {k}, !.held = @ \cup {k}]
          BY <3>3, <4>2 DEF HoldAdd
        <5>. QED BY <5>1 DEF FxLatch
      <4>. QED BY <4>1, <4>2
    <3>. QED BY <1>5, <3>1, <3>2, <3>3 DEF HoldPress
  <2>2. memo' = memo
    BY <1>5 DEF HoldPress
  <2>3. half' = half \/ Plays(k)
    BY <1>5 DEF HoldPress, HoldToggle, HoldAdd
  <2>4. CASE half' = half
    BY <1>1, <2>1, <2>2, <2>4
  <2>5. CASE Plays(k)
    <3>1. half' = [key |-> k, notes |-> {Note(k)}, delay |-> 0]
      BY <2>5 DEF Plays, Idle
    <3>. QED BY <1>2, <2>1, <2>2, <3>1
  <2>. QED BY <2>3, <2>4, <2>5
<1>. QED BY <1>1, <1>3, <1>4, <1>5

\* A release.
LEMMA FxReleaseTypes ==
  ASSUME EffectAssumption, FxTypes, NEW k \in EffectKey, Release(k)
  PROVE  FxTypes'
<1>. USE DEF FxTypes
<1>1. /\ down' = down \ {k} /\ UNCHANGED <<effect, setting, release, pending, call, calls>> /\ half = Idle
      /\ \/ HoldRelease(k) \/ ChordRelease(k) \/ ChannelRelease(k)
         \/ LatencyRelease(k) \/ DelayRelease(k)
  BY DEF Release
<1>2. ASSUME NEW notes, NEW d \in Setting \cup {0}, half' = [key |-> k, notes |-> notes, delay |-> d],
             memo' \in [EffectKey -> Setting \cup {0}], latch' \in FxLatch
      PROVE  FxTypes'
  BY <1>1, <1>2, FxNumbers
<1>3. CASE HoldRelease(k)
  <2>1. latch' \in FxLatch
    BY <1>3 DEF HoldRelease, Discard, FxLatch
  <2>. QED BY <1>1, <1>3, <2>1 DEF HoldRelease
<1>4. CASE ChordRelease(k)
  <2>1. half' = [key |-> k, notes |-> Notes(k, memo[k]), delay |-> 0]
    BY <1>4 DEF ChordRelease, Idle
  <2>. QED BY <1>2, <1>4, <2>1 DEF ChordRelease
<1>5. CASE ChannelRelease(k) \/ LatencyRelease(k)
  <2>1. Remembered(k) \in Setting \cup {0}
    BY DEF Remembered
  <2>. QED BY <1>2, <1>5, <2>1 DEF ChannelRelease, LatencyRelease, Takes
<1>6. CASE DelayRelease(k)
  BY <1>1, <1>6 DEF DelayRelease
<1>. QED BY <1>1, <1>3, <1>4, <1>5, <1>6

\* The delay that a handler has read is a number.
LEMMA FxDelay ==
  ASSUME EffectAssumption, FxTypes
  PROVE  half.delay \in Nat /\ half.delay \in Int /\ half.delay + 1 \in Int
<1>1. half.delay \in Setting \cup {0}
  BY DEF FxTypes
<1>2. half.delay \in Nat
  BY <1>1, FxNumbers
<1>. QED BY <1>2

\* A scheduled event leaves a queue.
LEMMA FxScheduled ==
  ASSUME NEW queue \in Seq(FxEvent), NEW e \in FxEvent, NEW next, Scheduled(queue, e, next)
  PROVE  next \in Seq(FxEvent)
  BY FxInsert, FxPlace DEF Scheduled

\* The queue when time has passed: the events are what they were, and due sooner.
LEMMA FxLater ==
  ASSUME NEW queue \in Seq(FxEvent)
  PROVE  LET later == [i \in DOMAIN queue |-> [queue[i] EXCEPT !.due = @ - 1]]
         IN  /\ later \in Seq(FxEvent) /\ Len(later) = Len(queue)
             /\ \A i \in 1 .. Len(queue) :
                  /\ later[i].due = queue[i].due - 1 /\ queue[i].due \in Int
                  /\ later[i].on = queue[i].on /\ later[i].note = queue[i].note
<1>. DEFINE later == [i \in 1 .. Len(queue) |-> [queue[i] EXCEPT !.due = @ - 1]]
<1>1. ASSUME NEW i \in 1 .. Len(queue)
      PROVE  /\ [queue[i] EXCEPT !.due = @ - 1] \in FxEvent
             /\ later[i].due = queue[i].due - 1 /\ queue[i].due \in Int
             /\ later[i].on = queue[i].on /\ later[i].note = queue[i].note
  <2>1. queue[i] \in FxEvent
    OBVIOUS
  <2>. QED BY <2>1 DEF FxEvent
<1>2. later \in [1 .. Len(queue) -> FxEvent] /\ Len(queue) \in Nat
  BY <1>1
<1>3. later \in Seq(FxEvent) /\ Len(later) = Len(queue)
  BY <1>2
<1>4. DOMAIN queue = 1 .. Len(queue)
  OBVIOUS
<1>. QED BY <1>1, <1>3, <1>4

\* A step of the plugin keeps the types.
LEMMA FxTyped ==
  ASSUME EffectAssumption, FxTypes, EffectNext
  PROVE  FxTypes'
<1>1. CASE \E k \in EffectKey : Press(k) \/ Release(k)
  BY <1>1, FxPressTypes, FxReleaseTypes
<1>0. /\ effect \in {"hold", "chord", "channel", "latency", "delay"} /\ setting \in Setting
      /\ down \subseteq EffectKey /\ half.key \in EffectKey \cup {0} /\ half.delay \in Setting \cup {0}
      /\ half.key = 0 => half = Idle
      /\ memo \in [EffectKey -> Setting \cup {0}] /\ latch \in FxLatch
      /\ call \in {"", "off", "clear"}
  BY DEF FxTypes
<1>q. pending \in Seq(FxEvent) /\ <<>> \in Seq(FxEvent)
  <2>1. pending \in Seq(FxEvent)
    BY DEF FxTypes
  <2>2. <<>> \in Seq(FxEvent)
    OBVIOUS
  <2>. QED BY <2>1, <2>2
<1>2. CASE Finish
  <2>1. half' = Idle /\ Idle.key = 0 /\ Idle.delay = 0 /\ half.key # 0 /\ half.key \in EffectKey
    BY <1>0, <1>2 DEF Finish, Idle
  <2>2. memo' \in [EffectKey -> Setting \cup {0}]
    BY <1>0, <1>2, <2>1 DEF Finish, Sends, LatencySends, ChordRemembers, PlaceEchoes
  <2>3. pending' \in Seq(FxEvent)
    <3>1. CASE pending' = pending
      BY <1>q, <3>1
    <3>2. CASE LatencySends(half.key \in down)
      <4>1. Event(half.delay, half.key \in down, Note(half.key)) \in FxEvent
        <5>1. (half.key \in down) \in BOOLEAN
          OBVIOUS
        <5>. QED BY <2>1, <5>1, FxEvents, FxDelay
      <4>. QED BY <3>2, <4>1, <1>q, FxScheduled DEF LatencySends
    <3>3. CASE PlaceEchoes
      <4>1. /\ Event(half.delay, TRUE, Note(half.key)) \in FxEvent
            /\ Event(half.delay + 1, FALSE, Note(half.key)) \in FxEvent
        BY <2>1, FxEvents, FxDelay
      <4>2. PICK i \in Places(pending, Event(half.delay, TRUE, Note(half.key))) :
              Scheduled(InsertAt(pending, i, Event(half.delay, TRUE, Note(half.key))),
                           Event(half.delay + 1, FALSE, Note(half.key)), pending')
        BY <3>3 DEF PlaceEchoes
      <4>3. InsertAt(pending, i, Event(half.delay, TRUE, Note(half.key))) \in Seq(FxEvent)
        BY <1>q, <4>1, <4>2, FxInsert, FxPlace
      <4>. QED BY <4>1, <4>2, <4>3, FxScheduled
    <3>4. pending' = pending \/ LatencySends(half.key \in down) \/ PlaceEchoes
      BY <1>2 DEF Finish, Sends, ChordRemembers
    <3>. QED BY <3>1, <3>2, <3>3, <3>4
  <2>. QED BY <1>0, <1>2, <2>1, <2>2, <2>3 DEF Finish, FxTypes
<1>3. CASE Transport
  <2>1. latch' \in FxLatch
    <3>1. latch' = latch \/ latch' = [Unlatched EXCEPT !.physical = {}]
      BY <1>3 DEF Transport, HoldStop, DelayStop, ReleaseAll
    <3>2. {} \in SUBSET EffectKey
      OBVIOUS
    <3>. QED BY <1>0, <3>1, <3>2, FxLatches
  <2>2. pending' \in Seq(FxEvent)
    <3>1. pending' = pending \/ pending' = <<>>
      BY <1>3 DEF Transport, HoldStop, DelayStop, Cancel
    <3>. QED BY <1>q, <3>1
  <2>. QED BY <1>0, <1>3, <2>1, <2>2 DEF Transport, FxTypes
<1>4. CASE Fires
  <2>1. pending # <<>> /\ pending \in Seq(FxEvent)
    BY <1>q, <1>4 DEF Fires
  <2>2. Tail(pending) \in Seq(FxEvent)
    BY <2>1
  <2>. QED BY <1>0, <1>4, <2>2 DEF Fires, FxTypes
<1>5. CASE TimePasses
  <2>1. pending \in Seq(FxEvent) /\ pending' = [i \in DOMAIN pending |-> [pending[i] EXCEPT !.due = @ - 1]]
    BY <1>q, <1>5 DEF TimePasses
  <2>2. pending' \in Seq(FxEvent)
    BY <2>1, FxLater
  <2>. QED BY <1>0, <1>5, <2>2 DEF TimePasses, FxTypes
<1>6. CASE Panic \/ \E s \in (IF effect = "hold" THEN {1, 2} ELSE Setting) : SetParam(s)
  BY <1>0, <1>q, <1>6, FxNumbers DEF Panic, SetParam, Begins, FxTypes
<1>7. CASE \E k \in EffectKey \cup {0} : Learn(k)
  BY <1>0, <1>q, <1>7 DEF Learn, FxTypes
<1>8. CASE CallSends
  <2>1. pending' \in Seq(FxEvent)
    <3>1. pending' = pending \/ pending' = <<>>
      BY <1>8 DEF CallSends, LatencyPanic, Cancel
    <3>. QED BY <1>q, <3>1
  <2>. QED BY <1>0, <1>8, <2>1 DEF CallSends, FxTypes
<1>9. CASE CallClears
  <2>1. Unlatched \in FxLatch
    BY DEF Unlatched, FxLatch
  <2>. QED BY <1>0, <1>q, <1>9, <2>1 DEF CallClears, FxTypes
<1>. QED BY <1>1, <1>2, <1>3, <1>4, <1>5, <1>6, <1>7, <1>8, <1>9 DEF EffectNext

\* Two keys have two notes.
LEMMA FxNoteOf == \A k, l : Note(k) = Note(l) => k = l
  BY DEF Note

\* Hold: what sounds is latched, the press under way too; the chord is locked when the
\* keys that hold it are up.
FxHoldSounds ==
  /\ pending = <<>>
  /\ half.key # 0 => /\ half.key \in down /\ half.notes = {Note(half.key)}
                     /\ (half.key \in Latched /\ call = "") \/ half.notes \subseteq astray
  /\ \A n \in sounding \ astray : \E k \in Latched : n = Note(k)
  /\ call = "clear" => sounding \subseteq astray
FxHoldLocks ==
  /\ setting = 2 /\ call = "" => latch.held = {} /\ latch.physical = {}
  /\ setting # 2 => latch.physical \subseteq down /\ (latch.held # {} /\ ~latch.locked => latch.physical # {})
FxHold == effect = "hold" => FxHoldSounds /\ FxHoldLocks

\* What sounds is let go.
LEMMA FxHoldLetsGo ==
  ASSUME FxHoldSounds, NEW kept, ReleaseAll(kept)
  PROVE  sounding' \subseteq astray
  BY DEF FxHoldSounds, ReleaseAll

\* A press of Hold.
LEMMA FxHoldPresses ==
  ASSUME FxTypes, FxHoldSounds, FxHoldLocks, NEW k \in EffectKey, Press(k), effect = "hold"
  PROVE  FxHoldSounds' /\ FxHoldLocks'
<1>1. /\ down' = down \cup {k} /\ UNCHANGED <<effect, setting, release, pending, call>> /\ half = Idle /\ half.key = 0
      /\ astray = {} /\ HoldPress(k)
  BY DEF Press, ChordPress, ChannelPress, LatencyPress, DelayPress, Idle
<1>2. latch \in FxLatch
  BY DEF FxTypes
<1>3. ASSUME Plays(k)
      PROVE  /\ half'.key = k /\ half'.notes = {Note(k)} /\ astray \subseteq astray'
             /\ call # "" => half'.notes \subseteq astray'
  BY <1>3 DEF Plays, Overlapped, Idle
<1>4. CASE k = release
  <2>1. /\ ReleaseAll(latch.physical) /\ UNCHANGED <<half, astray>>
        /\ latch' = [Unlatched EXCEPT !.physical = latch.physical]
    BY <1>1, <1>4 DEF HoldPress, ReleaseAll
  <2>2. latch'.physical = latch.physical /\ latch'.held = {} /\ sounding' \subseteq astray
    BY <1>2, <2>1, FxLatches, FxHoldLetsGo DEF FxLatch
  <2>3. FxHoldSounds'
    BY <1>1, <2>1, <2>2 DEF FxHoldSounds
  <2>4. FxHoldLocks'
    BY <1>1, <2>2 DEF FxHoldLocks
  <2>. QED BY <2>3, <2>4
<1>5. CASE k # release /\ setting = 2
  <2>1. HoldToggle(k)
    BY <1>1, <1>5 DEF HoldPress, Toggles
  <2>2. CASE k \in latch.toggled
    <3>1. /\ latch' = [latch EXCEPT !.toggled = latch.toggled \ {k}] /\ sounding' = sounding \ {Note(k)}
          /\ UNCHANGED <<half, astray>>
      BY <2>1, <2>2 DEF HoldToggle
    <3>2. latch'.held = latch.held /\ latch'.physical = latch.physical /\ latch'.toggled = latch.toggled \ {k}
      BY <1>2, <3>1 DEF FxLatch
    <3>3. FxHoldSounds'
      BY <1>1, <3>1, <3>2 DEF FxHoldSounds, Latched
    <3>4. FxHoldLocks'
      BY <1>1, <1>5, <3>2 DEF FxHoldLocks
    <3>. QED BY <3>3, <3>4
  <2>3. CASE k \notin latch.toggled
    <3>1. latch' = [latch EXCEPT !.toggled = latch.toggled \cup {k}] /\ Plays(k) /\ sounding' = sounding
      BY <2>1, <2>3 DEF HoldToggle
    <3>2. latch'.held = latch.held /\ latch'.physical = latch.physical /\ latch'.toggled = latch.toggled \cup {k}
      BY <1>2, <3>1 DEF FxLatch
    <3>3. FxHoldSounds'
      BY <1>1, <1>3, <3>1, <3>2 DEF FxHoldSounds, Latched
    <3>4. FxHoldLocks'
      BY <1>1, <1>5, <3>2 DEF FxHoldLocks
    <3>. QED BY <3>3, <3>4
  <2>. QED BY <2>2, <2>3
<1>6. CASE k # release /\ setting # 2
  <2>1. HoldAdd(k)
    BY <1>1, <1>6 DEF HoldPress, Toggles
  <2>2. Plays(k)
    BY <2>1 DEF HoldAdd
  <2>3. CASE latch.locked
    <3>1. /\ latch' = [physical |-> latch.physical \cup {k}, held |-> {k}, toggled |-> {}, locked |-> FALSE]
          /\ sounding' = sounding \ {Note(n) : n \in Latched}
      BY <2>1, <2>3 DEF HoldAdd, Unlatched
    <3>2. latch'.held = {k} /\ latch'.physical = latch.physical \cup {k} /\ sounding' \subseteq astray
      BY <3>1 DEF FxHoldSounds
    <3>3. FxHoldSounds'
      BY <1>1, <1>3, <2>2, <3>2 DEF FxHoldSounds, Latched
    <3>4. FxHoldLocks'
      BY <1>1, <1>6, <3>2 DEF FxHoldLocks
    <3>. QED BY <3>3, <3>4
  <2>4. CASE ~latch.locked
    <3>1. latch' = [latch EXCEPT !.physical = @ \cup {k}, !.held = @ \cup {k}] /\ sounding' = sounding
      BY <2>1, <2>4 DEF HoldAdd
    <3>2. /\ latch'.held = latch.held \cup {k} /\ latch'.physical = latch.physical \cup {k}
          /\ latch'.toggled = latch.toggled
      BY <1>2, <3>1 DEF FxLatch
    <3>3. FxHoldSounds'
      BY <1>1, <1>3, <2>2, <3>1, <3>2 DEF FxHoldSounds, Latched
    <3>4. FxHoldLocks'
      BY <1>1, <1>6, <3>2 DEF FxHoldLocks
    <3>. QED BY <3>3, <3>4
  <2>. QED BY <2>3, <2>4
<1>. QED BY <1>4, <1>5, <1>6

\* A step of Hold.
LEMMA FxHoldStep ==
  ASSUME FxTypes, FxHoldSounds, FxHoldLocks, EffectNext, effect = "hold"
  PROVE  FxHoldSounds' /\ FxHoldLocks'
<1>1. CASE \E k \in EffectKey : Press(k)
  BY <1>1, FxHoldPresses
<1>2. ASSUME NEW k \in EffectKey, Release(k) PROVE FxHoldSounds' /\ FxHoldLocks'
  <2>1. /\ down' = down \ {k} /\ UNCHANGED <<setting, pending, call, astray>> /\ half = Idle /\ half.key = 0
        /\ HoldRelease(k)
    BY <1>2 DEF Release, ChordRelease, ChannelRelease, LatencyRelease,
       DelayRelease, Idle
  <2>2. UNCHANGED <<half, sounding>>
    BY <2>1 DEF HoldRelease
  <2>3. CASE setting = 2
    <3>1. latch' = latch
      BY <2>1, <2>3 DEF HoldRelease, Toggles
    <3>. QED BY <2>1, <2>2, <2>3, <3>1 DEF FxHoldSounds, FxHoldLocks, Latched
  <2>4. CASE setting # 2
    <3>1. latch' = [latch EXCEPT !.physical = Discard(k),
                           !.locked = @ \/ (Discard(k) = {} /\ latch.held # {})]
      BY <2>1, <2>4 DEF HoldRelease, Toggles
    <3>2. latch \in FxLatch
      BY DEF FxTypes
    <3>3. latch'.held = latch.held /\ latch'.toggled = latch.toggled /\ latch'.physical = latch.physical \ {k}
      BY <3>1, <3>2 DEF FxLatch, Discard
    <3>4. latch.physical \ {k} = {} /\ latch.held # {} => latch'.locked
      BY <3>1, <3>2 DEF FxLatch, Discard
    <3>5. FxHoldSounds'
      BY <2>1, <2>2, <3>3 DEF FxHoldSounds, Latched
    <3>6. FxHoldLocks'
      BY <2>1, <2>4, <3>3, <3>4 DEF FxHoldLocks
    <3>. QED BY <3>5, <3>6
  <2>. QED BY <2>3, <2>4
<1>3. CASE Finish
  <2>1. /\ half # Idle /\ half' = Idle /\ half'.key = 0 /\ half.key # 0 /\ half.key \in down
        /\ UNCHANGED <<setting, down, latch, call, astray>>
    BY <1>3 DEF Finish, Idle, FxTypes, FxHoldSounds
  <2>2. pending' = pending /\ sounding' = sounding \cup half.notes
    BY <1>3, <2>1 DEF Finish, Sends, LatencySends, ChordRemembers, PlaceEchoes
  <2>. QED BY <2>1, <2>2 DEF FxHoldSounds, FxHoldLocks, Latched
<1>4. CASE Transport
  <2>1. /\ ReleaseAll({}) /\ half.key = 0 /\ UNCHANGED <<setting, down, half, pending, call, astray>>
        /\ latch' = [Unlatched EXCEPT !.physical = {}]
    BY <1>4 DEF Transport, HoldStop, DelayStop, Idle, ReleaseAll
  <2>2. latch'.physical = {} /\ latch'.held = {} /\ sounding' \subseteq astray
    BY <2>1, FxHoldLetsGo DEF Unlatched
  <2>. QED BY <2>1, <2>2 DEF FxHoldSounds, FxHoldLocks
<1>5. ~Fires /\ ~TimePasses
  BY DEF FxHoldSounds, Fires, TimePasses
<1>6. ASSUME Begins, sounding' \subseteq sounding, pending' = pending PROVE FxHoldSounds' /\ FxHoldLocks'
  <2>1. call = "" /\ call' = "off" /\ UNCHANGED <<down, half, latch>>
    BY <1>6 DEF Begins
  <2>2. astray \subseteq astray' /\ (half.key \in down => half.notes \subseteq astray')
    BY <1>6 DEF Begins
  <2>3. FxHoldSounds'
    BY <1>6, <2>1, <2>2 DEF FxHoldSounds, Latched
  <2>4. FxHoldLocks'
    BY <2>1 DEF FxHoldLocks
  <2>. QED BY <2>3, <2>4
<1>7. CASE Panic \/ \E s \in (IF effect = "hold" THEN {1, 2} ELSE Setting) : SetParam(s)
  <2>1. Begins
    BY <1>7 DEF Panic, SetParam
  <2>2. sounding' \subseteq sounding
    BY <1>7 DEF Panic, SetParam
  <2>3. pending' = pending
    BY <2>1 DEF Begins
  <2>. QED BY <1>6, <2>1, <2>2, <2>3
<1>8. CASE \E k \in EffectKey \cup {0} : Learn(k)
  BY <1>8 DEF Learn, FxHoldSounds, FxHoldLocks, Latched
<1>9. CASE CallSends
  <2>1. HoldPanic /\ call = "off" /\ call' = "clear" /\ UNCHANGED <<setting, down, half, latch, pending, astray>>
    BY <1>9 DEF CallSends, ChordPanic, ChannelPanic, LatencyPanic
  <2>2. sounding' \subseteq astray
    BY <2>1 DEF HoldPanic, FxHoldSounds
  <2>. QED BY <2>1, <2>2 DEF FxHoldSounds, FxHoldLocks, Latched
<1>10. CASE CallClears
  <2>1. /\ call = "clear" /\ call' = "" /\ UNCHANGED <<setting, down, half, pending, sounding, astray>>
        /\ latch' = Unlatched
    BY <1>10 DEF CallClears
  <2>2. latch'.physical = {} /\ latch'.held = {}
    BY <2>1 DEF Unlatched
  <2>. QED BY <2>1, <2>2 DEF FxHoldSounds, FxHoldLocks
<1>. QED
  BY <1>1, <1>2, <1>3, <1>4, <1>5, <1>7, <1>8, <1>9, <1>10 DEF EffectNext

\* The notes of a key by the plugin, the key and the setting.
FxNotes(e, k, s) ==
  IF s = 0 THEN {}
  ELSE CASE e = "chord" -> {<<0, k>>, <<0, k + s>>}
         [] e = "channel" -> {<<s, k>>}
         [] OTHER -> {<<0, k>>}

\* They are the notes of the plugin that is on the bench.
LEMMA FxNotesAre ==
  /\ \A k, s : Notes(k, s) = FxNotes(effect, k, s)
  /\ \A e, k : FxNotes(e, k, 0) = {}
<1>1. ASSUME NEW k, NEW s PROVE Notes(k, s) = FxNotes(effect, k, s)
  BY DEF Notes, FxNotes
<1>2. ASSUME NEW e, NEW k PROVE FxNotes(e, k, 0) = {}
  BY DEF FxNotes
<1>. QED BY <1>1, <1>2

\* Chord Generator and Channel Selector: what sounds is a key's that is down, under the
\* setting it was pressed with, or the handler's.
FxKeySounds ==
  /\ pending = <<>>
  /\ \A k \in EffectKey \ down : memo[k] = 0
  /\ half.key \in down =>
       /\ half.notes = FxNotes(effect, half.key, half.delay)
       /\ effect = "chord" => memo[half.key] = 0
       /\ ((effect = "chord" \/ memo[half.key] = half.delay) /\ call = "") \/ half.notes \subseteq astray
  /\ \A n \in sounding \ astray : n \in half.notes \/ \E k \in down : n \in FxNotes(effect, k, memo[k])
  /\ call # "" => sounding \subseteq astray
FxKeys == effect \in {"chord", "channel"} => FxKeySounds

\* A press of the two.
LEMMA FxKeyPresses ==
  ASSUME FxTypes, FxKeySounds, NEW k \in EffectKey, Press(k), effect \in {"chord", "channel"}
  PROVE  FxKeySounds'
<1>1. /\ down' = down \cup {k} /\ UNCHANGED <<effect, setting, pending, call>> /\ half = Idle /\ astray = {}
      /\ k \notin down /\ (ChordPress(k) \/ ChannelPress(k))
  BY DEF Press, HoldPress, LatencyPress, DelayPress
<1>2. /\ half' = [key |-> k, notes |-> FxNotes(effect, k, setting), delay |-> setting]
      /\ Overlapped(FxNotes(effect, k, setting))
  BY <1>1, FxNotesAre DEF ChordPress, ChannelPress, Remembers
<1>3. /\ half'.key = k /\ half'.notes = FxNotes(effect, k, setting) /\ half'.delay = setting /\ half.notes = {}
      /\ call # "" => half'.notes \subseteq astray'
  BY <1>1, <1>2 DEF Overlapped, Idle
<1>4. memo \in [EffectKey -> Setting \cup {0}] /\ memo[k] = 0
  BY <1>1 DEF FxTypes, FxKeySounds
<1>5. CASE ChordPress(k)
  <2>1. effect = "chord" /\ sounding' = sounding \cup FxNotes(effect, k, setting) /\ memo' = memo
    BY <1>5, FxNotesAre DEF ChordPress
  <2>2. call # "" => sounding' \subseteq astray'
    BY <1>1, <1>3, <2>1 DEF FxKeySounds
  <2>. QED BY <1>1, <1>3, <1>4, <2>1, <2>2 DEF FxKeySounds
<1>6. CASE ChannelPress(k)
  <2>1. effect = "channel" /\ sounding' = sounding /\ memo' = [memo EXCEPT ![k] = setting]
    BY <1>6 DEF ChannelPress, Remembers
  <2>2. memo'[k] = setting /\ \A l \in EffectKey : l # k => memo'[l] = memo[l]
    BY <1>4, <2>1
  <2>3. down \subseteq EffectKey
    BY DEF FxTypes
  <2>4. ASSUME NEW l \in down PROVE l # k /\ memo'[l] = memo[l] /\ l \in down'
    BY <1>1, <2>2, <2>3
  <2>5. call # "" => sounding' \subseteq astray'
    BY <1>1, <2>1 DEF FxKeySounds
  <2>. QED BY <1>1, <1>3, <2>1, <2>2, <2>4, <2>5 DEF FxKeySounds
<1>. QED BY <1>1, <1>5, <1>6

\* A release of the two.
LEMMA FxKeyReleases ==
  ASSUME FxTypes, FxKeySounds, NEW k \in EffectKey, Release(k), effect \in {"chord", "channel"}
  PROVE  FxKeySounds'
<1>1. /\ down' = down \ {k} /\ UNCHANGED <<effect, setting, pending, call, astray>> /\ half = Idle /\ k \in down
      /\ ChordRelease(k) \/ ChannelRelease(k)
  BY DEF Release, HoldRelease, LatencyRelease, DelayRelease
<1>2. /\ half'.key = k /\ FxNotes(effect, k, memo[k]) \subseteq half'.notes /\ half.notes = {}
      /\ sounding' = sounding /\ memo' = [memo EXCEPT ![k] = 0]
  <2>1. CASE ChordRelease(k)
    BY <1>1, <2>1, FxNotesAre DEF ChordRelease, Idle
  <2>2. CASE ChannelRelease(k)
    BY <1>1, <2>2, FxNotesAre DEF ChannelRelease, Takes, Remembered, Idle
  <2>. QED BY <1>1, <2>1, <2>2
<1>3. memo'[k] = 0 /\ \A l \in EffectKey : l # k => memo'[l] = memo[l]
  BY <1>2 DEF FxTypes
<1>4. down \subseteq EffectKey
  BY DEF FxTypes
<1>5. ASSUME NEW n \in sounding' \ astray'
      PROVE  n \in half'.notes \/ \E l \in down' : n \in FxNotes(effect, l, memo'[l])
  <2>1. PICK l \in down : n \in FxNotes(effect, l, memo[l])
    BY <1>1, <1>2, <1>5 DEF FxKeySounds
  <2>2. CASE l = k
    BY <1>2, <2>1, <2>2
  <2>3. CASE l # k
    <3>1. l \in down' /\ memo'[l] = memo[l]
      BY <1>1, <1>3, <1>4, <2>3
    <3>. QED BY <2>1, <3>1
  <2>. QED BY <2>2, <2>3
<1>. QED BY <1>1, <1>2, <1>3, <1>5 DEF FxKeySounds

\* A step of the two.
LEMMA FxKeyStep ==
  ASSUME EffectAssumption, FxTypes, FxKeySounds, EffectNext, effect \in {"chord", "channel"}
  PROVE  FxKeySounds'
<1>1. CASE \E k \in EffectKey : Press(k) \/ Release(k)
  BY <1>1, FxKeyPresses, FxKeyReleases
<1>2. CASE Finish
  <2>1. half' = Idle /\ half'.key = 0 /\ UNCHANGED <<effect, down, call, astray>> /\ 0 \notin down
    BY <1>2, FxNumbers DEF Finish, Idle, FxTypes
  <2>2. CASE half.key \notin down
    <3>1. sounding' = sounding \ half.notes /\ UNCHANGED <<memo, pending>>
      BY <1>2, <2>2 DEF Finish, Sends, LatencySends
    <3>. QED BY <2>1, <3>1 DEF FxKeySounds
  <2>3. CASE half.key \in down /\ effect = "channel"
    <3>1. sounding' = sounding \cup half.notes /\ UNCHANGED <<memo, pending>>
      BY <1>2, <2>3 DEF Finish, Sends, LatencySends, ChordRemembers, PlaceEchoes
    <3>2. \/ half.notes \subseteq astray
          \/ call = "" /\ half.notes = FxNotes(effect, half.key, memo[half.key])
      BY <2>3 DEF FxKeySounds
    <3>. QED BY <2>1, <2>3, <3>1, <3>2 DEF FxKeySounds
  <2>4. CASE half.key \in down /\ effect = "chord"
    <3>1. memo' = [memo EXCEPT ![half.key] = half.delay] /\ UNCHANGED <<pending, sounding>>
      BY <1>2, <2>4 DEF Finish, Sends, LatencySends, ChordRemembers, PlaceEchoes
    <3>2. down \subseteq EffectKey /\ memo \in [EffectKey -> Setting \cup {0}]
      BY DEF FxTypes
    <3>3. memo'[half.key] = half.delay /\ \A l \in EffectKey : l # half.key => memo'[l] = memo[l]
      BY <2>4, <3>1, <3>2
    <3>4. half.notes = FxNotes(effect, half.key, memo'[half.key]) /\ memo[half.key] = 0
      BY <2>4, <3>3 DEF FxKeySounds
    <3>5. ASSUME NEW n \in sounding \ astray PROVE \E l \in down : n \in FxNotes(effect, l, memo'[l])
      <4>1. CASE n \in half.notes
        BY <2>4, <3>4, <4>1
      <4>2. CASE n \notin half.notes
        <5>1. PICK l \in down : n \in FxNotes(effect, l, memo[l])
          BY <3>5, <4>2 DEF FxKeySounds
        <5>2. l # half.key
          BY <3>4, <5>1, FxNotesAre
        <5>. QED BY <3>2, <3>3, <5>1, <5>2
      <4>. QED BY <4>1, <4>2
    <3>6. \A l \in EffectKey \ down : memo'[l] = 0
      BY <2>4, <3>3 DEF FxKeySounds
    <3>. QED BY <2>1, <2>4, <3>1, <3>5, <3>6 DEF FxKeySounds
  <2>. QED BY <2>2, <2>3, <2>4
<1>3. ~Transport /\ ~Fires /\ ~TimePasses
  BY DEF FxKeySounds, Transport, HoldStop, DelayStop, Fires, TimePasses
<1>4. CASE Panic
  <2>1. /\ call = "" /\ call' = "off" /\ UNCHANGED <<effect, down, half, memo, pending>> /\ sounding' = {}
        /\ half.key \in down => half.notes \subseteq astray'
    BY <1>4 DEF Panic, Begins
  <2>. QED BY <2>1 DEF FxKeySounds
<1>5. CASE \E s \in (IF effect = "hold" THEN {1, 2} ELSE Setting) : SetParam(s)
  <2>1. UNCHANGED <<effect, down, half, memo, pending, sounding, call, astray>>
    BY <1>5 DEF SetParam
  <2>. QED BY <2>1 DEF FxKeySounds
<1>6. CASE \E k \in EffectKey \cup {0} : Learn(k)
  BY <1>6 DEF Learn
<1>7. CASE CallSends
  <2>1. call = "off" /\ call' = "clear" /\ UNCHANGED <<effect, down, half, memo, pending, astray>> /\ sounding' \subseteq sounding
    BY <1>7 DEF CallSends, HoldPanic, ChordPanic, ChannelPanic, LatencyPanic
  <2>. QED BY <2>1 DEF FxKeySounds
<1>8. CASE CallClears
  <2>1. /\ call = "clear" /\ call' = "" /\ UNCHANGED <<effect, down, half, pending, sounding, astray>>
        /\ memo' = [k \in EffectKey |-> 0]
    BY <1>8 DEF CallClears
  <2>2. half.key \in down => memo'[half.key] = 0
    BY <2>1 DEF FxTypes
  <2>. QED BY <2>1, <2>2 DEF FxKeySounds
<1>. QED BY <1>1, <1>2, <1>3, <1>4, <1>5, <1>6, <1>7, <1>8 DEF EffectNext

\* A NoteOff in a queue, and one behind a NoteOn of the same note.
OffOf(queue, n) == \E j \in 1 .. Len(queue) : ~queue[j].on /\ queue[j].note = n
OffBehind(queue, i) ==
  \E j \in 1 .. Len(queue) : j > i /\ ~queue[j].on /\ queue[j].note = queue[i].note

\* One more event leaves the others in their order; a NoteOff goes behind what is due by then.
LEMMA FxOneMore ==
  ASSUME NEW queue \in Seq(FxEvent), NEW e \in FxEvent, NEW p \in Places(queue, e),
         NEW next, next = InsertAt(queue, p, e)
  PROVE  /\ next \in Seq(FxEvent)
         /\ \A n : OffOf(queue, n) => OffOf(next, n)
         /\ ~e.on => OffOf(next, e.note)
         /\ \A i \in 1 .. Len(next) : next[i] = e \/ \E j \in 1 .. Len(queue) :
              /\ next[i] = queue[j] /\ (OffBehind(queue, j) => OffBehind(next, i))
              /\ ~e.on /\ e.note = queue[j].note /\ queue[j].due <= e.due => OffBehind(next, i)
<1>1. /\ next \in Seq(FxEvent) /\ Len(next) = Len(queue) + 1 /\ next[p] = e
      /\ \A j \in 1 .. p - 1 : next[j] = queue[j]
      /\ \A j \in p .. Len(queue) : next[j + 1] = queue[j]
      /\ p \in 1 .. Len(queue) + 1 /\ Len(queue) \in Nat
      /\ \A j \in p .. Len(queue) : queue[j].due > e.due
  <2>1. p \in 1 .. Len(queue) + 1 /\ \A j \in p .. Len(queue) : queue[j].due > e.due
    BY FxPlace
  <2>. QED BY <2>1, FxInsert
<1>2. ASSUME NEW j \in 1 .. Len(queue) PROVE queue[j].due \in Int
  <2>1. queue[j] \in FxEvent
    OBVIOUS
  <2>. QED BY <2>1 DEF FxEvent
<1>3. e.due \in Int
  BY DEF FxEvent
<1>. DEFINE after(j) == IF j < p THEN j ELSE j + 1
<1>4. ASSUME NEW j \in 1 .. Len(queue)
      PROVE  after(j) \in 1 .. Len(next) /\ next[after(j)] = queue[j]
  BY <1>1
<1>5. ASSUME NEW j \in 1 .. Len(queue), NEW l \in 1 .. Len(queue), l > j
      PROVE  after(l) > after(j)
  BY <1>1, <1>5
<1>6. ASSUME NEW j \in 1 .. Len(queue), OffBehind(queue, j) PROVE OffBehind(next, after(j))
  <2>1. PICK l \in 1 .. Len(queue) : l > j /\ ~queue[l].on /\ queue[l].note = queue[j].note
    BY <1>6 DEF OffBehind
  <2>2. after(l) \in 1 .. Len(next) /\ after(l) > after(j)
    BY <1>4, <1>5, <2>1
  <2>3. next[after(l)] = queue[l] /\ next[after(j)] = queue[j]
    BY <1>4
  <2>. QED BY <2>1, <2>2, <2>3 DEF OffBehind
<1>7. ASSUME NEW j \in 1 .. Len(queue), ~e.on, e.note = queue[j].note, queue[j].due <= e.due
      PROVE  OffBehind(next, after(j))
  <2>1. j < p
    BY <1>1, <1>2, <1>3, <1>7
  <2>2. p \in 1 .. Len(next) /\ p > after(j)
    BY <1>1, <2>1
  <2>. QED BY <1>1, <1>4, <1>7, <2>2 DEF OffBehind
<1>8. ASSUME NEW i \in 1 .. Len(next), i # p PROVE \E j \in 1 .. Len(queue) : i = after(j)
  <2>1. CASE i < p
    BY <1>1, <2>1
  <2>2. CASE i > p
    <3>1. i - 1 \in 1 .. Len(queue) /\ after(i - 1) = i
      BY <1>1, <2>2
    <3>. QED BY <3>1
  <2>. QED BY <1>1, <1>8, <2>1, <2>2
<1>9. \A n : OffOf(queue, n) => OffOf(next, n)
  <2>1. SUFFICES ASSUME NEW n, OffOf(queue, n) PROVE OffOf(next, n)
    OBVIOUS
  <2>2. PICK j \in 1 .. Len(queue) : ~queue[j].on /\ queue[j].note = n
    BY <2>1 DEF OffOf
  <2>. QED BY <1>4, <2>2 DEF OffOf
<1>10. ~e.on => OffOf(next, e.note)
  <2>1. p \in 1 .. Len(next)
    BY <1>1
  <2>. QED BY <1>1, <2>1 DEF OffOf
<1>11. ASSUME NEW i \in 1 .. Len(next)
       PROVE  next[i] = e \/ \E j \in 1 .. Len(queue) :
                /\ next[i] = queue[j] /\ (OffBehind(queue, j) => OffBehind(next, i))
                /\ ~e.on /\ e.note = queue[j].note /\ queue[j].due <= e.due => OffBehind(next, i)
  <2>1. CASE i = p
    BY <1>1, <2>1
  <2>2. CASE i # p
    <3>1. PICK j \in 1 .. Len(queue) : i = after(j)
      BY <1>8, <2>2
    <3>2. /\ next[i] = queue[j] /\ (OffBehind(queue, j) => OffBehind(next, i))
          /\ ~e.on /\ e.note = queue[j].note /\ queue[j].due <= e.due => OffBehind(next, i)
      BY <1>4, <1>6, <1>7, <3>1
    <3>. QED BY <3>2
  <2>. QED BY <2>1, <2>2
<1>. QED BY <1>1, <1>9, <1>10, <1>11

\* What is left of a queue whose first event is out.
LEMMA FxOneLess ==
  ASSUME NEW queue \in Seq(FxEvent), queue # <<>>, NEW next, next = Tail(queue)
  PROVE  /\ \A n : OffOf(queue, n) => OffOf(next, n) \/ (~Head(queue).on /\ n = Head(queue).note)
         /\ OffBehind(queue, 1) => OffOf(next, Head(queue).note)
         /\ \A i \in 1 .. Len(next) : /\ i + 1 \in 1 .. Len(queue) /\ next[i] = queue[i + 1]
                                      /\ OffBehind(queue, i + 1) => OffBehind(next, i)
<1>1. /\ Len(next) = Len(queue) - 1 /\ Len(queue) \in Nat /\ Len(queue) > 0
      /\ \A i \in 1 .. Len(queue) - 1 : next[i] = queue[i + 1]
      /\ Head(queue) = queue[1]
  OBVIOUS
<1>2. \A j \in 1 .. Len(queue) : j > 1 => j - 1 \in 1 .. Len(next) /\ next[j - 1] = queue[j]
  BY <1>1
<1>3. ASSUME NEW n, OffOf(queue, n)
      PROVE  OffOf(next, n) \/ (~Head(queue).on /\ n = Head(queue).note)
  <2>1. PICK j \in 1 .. Len(queue) : ~queue[j].on /\ queue[j].note = n
    BY <1>3 DEF OffOf
  <2>2. CASE j = 1
    BY <1>1, <2>1, <2>2
  <2>3. CASE j > 1
    BY <1>2, <2>1, <2>3 DEF OffOf
  <2>. QED BY <2>2, <2>3
<1>4. ASSUME OffBehind(queue, 1) PROVE OffOf(next, Head(queue).note)
  <2>1. PICK j \in 1 .. Len(queue) : j > 1 /\ ~queue[j].on /\ queue[j].note = queue[1].note
    BY <1>4 DEF OffBehind
  <2>. QED BY <1>1, <1>2, <2>1 DEF OffOf
<1>5. ASSUME NEW i \in 1 .. Len(next)
      PROVE  /\ i + 1 \in 1 .. Len(queue) /\ next[i] = queue[i + 1]
             /\ OffBehind(queue, i + 1) => OffBehind(next, i)
  <2>1. i + 1 \in 1 .. Len(queue) /\ next[i] = queue[i + 1]
    BY <1>1
  <2>2. ASSUME OffBehind(queue, i + 1) PROVE OffBehind(next, i)
    <3>1. PICK j \in 1 .. Len(queue) : j > i + 1 /\ ~queue[j].on /\ queue[j].note = queue[i + 1].note
      BY <2>2 DEF OffBehind
    <3>2. j - 1 > i /\ j - 1 \in 1 .. Len(next) /\ next[j - 1] = queue[j]
      BY <1>1, <1>2, <3>1
    <3>. QED BY <2>1, <3>1, <3>2 DEF OffBehind
  <2>. QED BY <2>1, <2>2
<1>. QED BY <1>3, <1>4, <1>5

\* Latency and MIDI Delay: what sounds has a NoteOff in the queue, or is a key's that is
\* down, or the handler's; and so has every NoteOn in the queue, which no NoteOff overtakes.
FxEnds(n) == n \in half.notes \/ OffOf(pending, n) \/ \E k \in down : n = Note(k)
FxLags(e) ==
  \/ e.note \in astray
  \/ effect = "latency" /\ \E k \in EffectKey : /\ e.note = Note(k)
                                                /\ \/ k \in down /\ call # "clear" /\ e.due <= memo[k]
                                                   \/ k \notin down /\ half.key = k /\ e.due <= half.delay
FxQueueSounds ==
  /\ half.key # 0 => /\ half.notes = {Note(half.key)}
                     /\ half.key \notin down => effect = "latency"
  /\ half.key \in down =>
       ((effect = "delay" \/ memo[half.key] = half.delay) /\ call = "") \/ half.notes \subseteq astray
  /\ \A n \in sounding \ astray : FxEnds(n)
  /\ \A i \in 1 .. Len(pending) : pending[i].on => OffBehind(pending, i) \/ FxLags(pending[i])
FxQueue == effect \in {"latency", "delay"} => FxQueueSounds

\* A NoteOff at a place of the queue is one of its events.
LEMMA FxOffIn ==
  ASSUME NEW queue \in Seq(FxEvent), NEW n, OffOf(queue, n)
  PROVE  \E e \in ToSet(queue) : ~e.on /\ e.note = n
<1>1. PICK j \in 1 .. Len(queue) : ~queue[j].on /\ queue[j].note = n
  BY DEF OffOf
<1>2. j \in DOMAIN queue
  OBVIOUS
<1>3. queue[j] \in ToSet(queue)
  BY ONLY <1>2 DEF ToSet
<1>. QED BY <1>1, <1>3

\* A press of the two.
LEMMA FxQueuePresses ==
  ASSUME EffectAssumption, FxTypes, FxQueueSounds, NEW k \in EffectKey, Press(k), effect \in {"latency", "delay"}
  PROVE  FxQueueSounds'
<1>1. /\ down' = down \cup {k} /\ UNCHANGED <<effect, setting, pending, call>> /\ half = Idle /\ astray = {}
      /\ k \notin down /\ half.notes = {} /\ half.key = 0 /\ half.delay = 0
      /\ (LatencyPress(k) \/ DelayPress(k))
  BY DEF Press, HoldPress, ChordPress, ChannelPress, Idle
<1>2. /\ half' = [key |-> k, notes |-> {Note(k)}, delay |-> setting]
      /\ sounding' \subseteq sounding \cup {Note(k)} /\ Overlapped({Note(k)})
      /\ effect = "latency" => memo' = [memo EXCEPT ![k] = setting]
  <2>1. CASE LatencyPress(k)
    <3>1. setting \in Setting
      BY DEF FxTypes
    <3>2. FxNotes("latency", k, setting) = {Note(k)}
      BY <3>1, FxNumbers DEF FxNotes, Note
    <3>3. effect = "latency"
      BY <2>1 DEF LatencyPress
    <3>. QED BY <2>1, <3>2, <3>3, FxNotesAre DEF LatencyPress, Remembers
  <2>2. CASE DelayPress(k)
    BY <2>2 DEF DelayPress
  <2>. QED BY <1>1, <2>1, <2>2
<1>3. /\ half'.key = k /\ half'.notes = {Note(k)} /\ half'.delay = setting
      /\ call # "" => half'.notes \subseteq astray'
      /\ astray \subseteq astray'
  BY <1>1, <1>2 DEF Overlapped
<1>4. memo \in [EffectKey -> Setting \cup {0}] /\ down \subseteq EffectKey
  BY DEF FxTypes
<1>5. effect = "latency" => memo'[k] = setting /\ \A l \in down : memo'[l] = memo[l]
  BY <1>1, <1>2, <1>4
<1>6. ASSUME NEW n \in sounding' \ astray' PROVE FxEnds(n)'
  <2>1. n = Note(k) \/ n \in sounding \ astray
    BY <1>2, <1>3
  <2>2. CASE n = Note(k)
    BY <1>3, <2>2 DEF FxEnds
  <2>3. CASE n \in sounding \ astray
    <3>1. OffOf(pending, n) \/ \E l \in down : n = Note(l)
      BY <1>1, <2>3 DEF FxQueueSounds, FxEnds
    <3>. QED BY <1>1, <3>1 DEF FxEnds, OffOf
  <2>. QED BY <2>1, <2>2, <2>3
<1>7. ASSUME NEW i \in 1 .. Len(pending'), pending'[i].on PROVE (OffBehind(pending, i) \/ FxLags(pending[i]))'
  <2>1. i \in 1 .. Len(pending) /\ pending[i].on /\ pending'[i] = pending[i]
    BY <1>1, <1>7
  <2>2. CASE OffBehind(pending, i)
    BY <1>1, <2>2 DEF OffBehind
  <2>3. CASE FxLags(pending[i])
    <3>1. effect = "latency"
      BY <1>1, <2>3 DEF FxLags
    <3>2. PICK l \in EffectKey : /\ pending[i].note = Note(l) /\ l \in down /\ call # "clear"
                                 /\ pending[i].due <= memo[l]
      BY <1>1, <2>3, FxNumbers DEF FxLags
    <3>3. l \in down' /\ call' # "clear" /\ pending'[i].due <= memo'[l] /\ pending'[i].note = Note(l)
      BY <1>1, <1>5, <2>1, <3>1, <3>2
    <3>. QED BY <1>1, <3>1, <3>3 DEF FxLags
  <2>. QED BY <2>1, <2>2, <2>3 DEF FxQueueSounds
<1>. QED BY <1>1, <1>3, <1>5, <1>6, <1>7 DEF FxQueueSounds

\* A release of the two.
LEMMA FxQueueReleases ==
  ASSUME EffectAssumption, FxTypes, FxQueueSounds, NEW k \in EffectKey, Release(k), effect \in {"latency", "delay"}
  PROVE  FxQueueSounds'
<1>1. /\ down' = down \ {k} /\ UNCHANGED <<effect, setting, pending, call, astray>> /\ half = Idle /\ k \in down
      /\ half.notes = {} /\ half.key = 0
      /\ (LatencyRelease(k) \/ DelayRelease(k))
  BY DEF Release, HoldRelease, ChordRelease, ChannelRelease, Idle
<1>2. memo \in [EffectKey -> Setting \cup {0}] /\ down \subseteq EffectKey /\ setting \in Setting
  BY DEF FxTypes
<1>3. CASE LatencyRelease(k)
  <2>1. /\ effect = "latency" /\ memo' = [memo EXCEPT ![k] = 0] /\ sounding' = sounding
        /\ half' = [key |-> k, notes |-> Notes(k, Remembered(k)), delay |-> Remembered(k)]
    BY <1>3 DEF LatencyRelease, Takes
  <2>2. Remembered(k) \in Setting /\ memo[k] <= Remembered(k)
    BY <1>2, FxNumbers DEF Remembered
  <2>3. Notes(k, Remembered(k)) = {Note(k)}
    <3>1. FxNotes("latency", k, Remembered(k)) = {Note(k)}
      BY <2>2, FxNumbers DEF FxNotes, Note
    <3>. QED BY <2>1, <3>1, FxNotesAre
  <2>4. half'.key = k /\ half'.notes = {Note(k)} /\ memo[k] <= half'.delay /\ half'.delay \in Nat
    BY <2>1, <2>2, <2>3, FxNumbers
  <2>5. ASSUME NEW n \in sounding' \ astray' PROVE FxEnds(n)'
    <3>1. OffOf(pending, n) \/ \E l \in down : n = Note(l)
      BY <1>1, <2>1, <2>5 DEF FxQueueSounds, FxEnds
    <3>2. OffOf(pending, n)' \/ n = Note(k) \/ \E l \in down' : n = Note(l)
      BY <1>1, <3>1 DEF OffOf
    <3>. QED BY <2>4, <3>2 DEF FxEnds
  <2>6. ASSUME NEW i \in 1 .. Len(pending'), pending'[i].on PROVE (OffBehind(pending, i) \/ FxLags(pending[i]))'
    <3>1. i \in 1 .. Len(pending) /\ pending[i].on /\ pending'[i] = pending[i]
      BY <1>1, <2>6
    <3>2. CASE OffBehind(pending, i)
      BY <1>1, <3>2 DEF OffBehind
    <3>3. CASE pending[i].note \in astray
      BY <1>1, <3>1, <3>3 DEF FxLags
    <3>4. CASE FxLags(pending[i]) /\ pending[i].note \notin astray
      <4>1. PICK l \in EffectKey : /\ pending[i].note = Note(l) /\ l \in down /\ call # "clear"
                                   /\ pending[i].due <= memo[l]
        BY <1>1, <3>4, FxNumbers DEF FxLags
      <4>2. pending[i].due \in Int
        <5>1. pending \in Seq(FxEvent)
          BY DEF FxTypes
        <5>2. pending[i] \in FxEvent
          BY <3>1, <5>1
        <5>. QED BY <5>2 DEF FxEvent
      <4>3. CASE l = k
        <5>1. memo[k] \in Nat
          BY <1>2, FxNumbers
        <5>2. l \notin down' /\ half'.key = l /\ pending'[i].due <= half'.delay /\ pending'[i].note = Note(l)
          BY <1>1, <2>4, <3>1, <4>1, <4>2, <4>3, <5>1
        <5>. QED BY <1>1, <2>1, <5>2 DEF FxLags
      <4>4. CASE l # k
        <5>1. l \in down' /\ call' # "clear" /\ pending'[i].due <= memo'[l] /\ pending'[i].note = Note(l)
          BY <1>1, <1>2, <2>1, <3>1, <4>1, <4>4
        <5>. QED BY <1>1, <2>1, <5>1 DEF FxLags
      <4>. QED BY <4>3, <4>4
    <3>. QED BY <3>1, <3>2, <3>3, <3>4 DEF FxQueueSounds
  <2>. QED BY <1>1, <2>1, <2>4, <2>5, <2>6 DEF FxQueueSounds
<1>4. CASE DelayRelease(k)
  <2>1. effect = "delay" /\ sounding' = sounding \ {Note(k)} /\ half' = half
    BY <1>4 DEF DelayRelease
  <2>2. ASSUME NEW n \in sounding' \ astray' PROVE FxEnds(n)'
    <3>1. OffOf(pending, n) \/ \E l \in down' : n = Note(l)
      BY <1>1, <2>1, <2>2 DEF FxQueueSounds, FxEnds
    <3>. QED BY <1>1, <3>1 DEF FxEnds, OffOf
  <2>3. ASSUME NEW i \in 1 .. Len(pending'), pending'[i].on PROVE (OffBehind(pending, i) \/ FxLags(pending[i]))'
    BY <1>1, <2>1, <2>3 DEF FxQueueSounds, OffBehind, FxLags
  <2>4. 0 \notin down
    BY <1>2, FxNumbers
  <2>. QED BY <1>1, <2>1, <2>2, <2>3, <2>4 DEF FxQueueSounds
<1>. QED BY <1>1, <1>3, <1>4

\* The second half of a handler puts its events into the queue.
LEMMA FxQueueFinishes ==
  ASSUME EffectAssumption, FxTypes, FxQueueSounds, Finish, effect \in {"latency", "delay"}
  PROVE  FxQueueSounds'
<1>. DEFINE on == Event(half.delay, TRUE, Note(half.key))
            off == Event(half.delay, FALSE, Note(half.key))
            later == Event(half.delay + 1, FALSE, Note(half.key))
            waits(e) == \/ e.note \in astray
                        \/ /\ effect = "latency" /\ call # "clear"
                           /\ \E k \in down : e.note = Note(k) /\ e.due <= memo[k]
<1>1. /\ half' = Idle /\ half'.key = 0 /\ half'.notes = {} /\ half'.delay = 0 /\ half.key # 0
      /\ UNCHANGED <<effect, setting, down, latch, call, astray>> /\ half.key \in EffectKey
      /\ half.notes = {Note(half.key)} /\ 0 \notin down
  <2>1. 0 \notin down
    BY FxNumbers DEF FxTypes
  <2>. QED BY <2>1 DEF Finish, Idle, FxTypes, FxQueueSounds
<1>2. /\ on \in FxEvent /\ on.due = half.delay /\ on.on = TRUE /\ on.note = Note(half.key)
      /\ off \in FxEvent /\ off.due = half.delay /\ off.on = FALSE /\ off.note = Note(half.key)
      /\ later \in FxEvent /\ later.due = half.delay + 1 /\ later.on = FALSE
      /\ later.note = Note(half.key)
  <2>1. half.delay \in Int /\ half.delay + 1 \in Int
    BY FxDelay
  <2>2. /\ on \in FxEvent /\ on.due = half.delay /\ on.on = TRUE /\ on.note = Note(half.key)
    BY <1>1, <2>1, FxEvents
  <2>n. FALSE \in BOOLEAN /\ half.key \in EffectKey
    BY <1>1
  <2>3. /\ off \in FxEvent /\ off.due = half.delay /\ off.on = FALSE /\ off.note = Note(half.key)
    BY ONLY <2>1, <2>n, FxEvents, Zenon DEF off
  <2>4. /\ later \in FxEvent /\ later.due = half.delay + 1 /\ later.on = FALSE
        /\ later.note = Note(half.key)
    BY ONLY <2>1, <2>n, FxEvents, Zenon DEF later
  <2>. QED BY <2>2, <2>3, <2>4
<1>3. pending \in Seq(FxEvent) /\ memo \in [EffectKey -> Setting \cup {0}] /\ down \subseteq EffectKey
  BY DEF FxTypes
<1>4. \A i \in 1 .. Len(pending) : pending[i].due \in Int
  <2>1. \A i \in 1 .. Len(pending) : pending[i] \in FxEvent
    BY <1>3
  <2>. QED BY <2>1 DEF FxEvent
<1>5. ASSUME sounding' = sounding, memo' = memo, \A n : OffOf(pending, n) => OffOf(pending', n),
             half.key \in down \/ OffOf(pending', Note(half.key)),
             \A i \in 1 .. Len(pending') : pending'[i].on => OffBehind(pending', i) \/ waits(pending'[i])
      PROVE  FxQueueSounds'
  <2>1. ASSUME NEW n \in sounding' \ astray' PROVE FxEnds(n)'
    <3>1. n = Note(half.key) \/ OffOf(pending, n) \/ \E k \in down : n = Note(k)
      BY <1>1, <1>5, <2>1 DEF FxQueueSounds, FxEnds
    <3>2. OffOf(pending', n) \/ \E k \in down : n = Note(k)
      BY <1>5, <3>1
    <3>. QED BY <1>1, <3>2 DEF FxEnds, OffOf
  <2>2. ASSUME NEW i \in 1 .. Len(pending'), pending'[i].on PROVE (OffBehind(pending, i) \/ FxLags(pending[i]))'
    <3>1. CASE OffBehind(pending', i)
      BY <3>1 DEF OffBehind
    <3>2. CASE pending'[i].note \in astray
      BY <1>1, <3>2 DEF FxLags
    <3>3. CASE /\ effect = "latency" /\ call # "clear"
               /\ \E k \in down : pending'[i].note = Note(k) /\ pending'[i].due <= memo[k]
      <4>1. PICK k \in down : pending'[i].note = Note(k) /\ pending'[i].due <= memo[k]
        BY <3>3
      <4>2. k \in down' /\ call' # "clear" /\ effect' = "latency" /\ pending'[i].due <= memo'[k] /\ k \in EffectKey
        BY <1>1, <1>3, <1>5, <3>3, <4>1
      <4>. QED BY <4>1, <4>2 DEF FxLags
    <3>. QED BY <1>5, <2>2, <3>1, <3>2, <3>3
  <2>. QED BY <1>1, <2>1, <2>2 DEF FxQueueSounds
\* An event that was there lags as it did, unless it waits for this handler.
<1>6. ASSUME NEW i \in 1 .. Len(pending), FxLags(pending[i]),
             half.key \in down \/ ~(pending[i].note = Note(half.key) /\ pending[i].due <= half.delay)
      PROVE  waits(pending[i])
  BY <1>3, <1>6 DEF FxLags
<1>7. CASE effect = "latency" /\ half.key \in down
  <2>1. PICK p \in Places(pending, on) : pending' = InsertAt(pending, p, on)
    <3>1. (half.key \in down) = TRUE
      BY <1>7
    <3>2. LatencySends(half.key \in down)
      BY <1>7 DEF Finish, Sends, ChordRemembers, PlaceEchoes
    <3>3. Scheduled(pending, Event(half.delay, (half.key \in down), Note(half.key)), pending')
      BY <3>2 DEF LatencySends
    <3>4. Scheduled(pending, on, pending')
      BY <3>1, <3>3
    <3>. QED BY <3>4 DEF Scheduled
  <2>2. sounding' = sounding /\ memo' = memo
    BY <1>7 DEF Finish, Sends, ChordRemembers, PlaceEchoes, LatencySends
  <2>3. /\ \A n : OffOf(pending, n) => OffOf(pending', n)
        /\ \A i \in 1 .. Len(pending') : pending'[i] = on \/ \E j \in 1 .. Len(pending) :
             pending'[i] = pending[j] /\ (OffBehind(pending, j) => OffBehind(pending', i))
    <3>. HIDE DEF on
    <3>. QED BY <1>2, <1>3, <2>1, FxOneMore
  <2>4. ASSUME NEW i \in 1 .. Len(pending'), pending'[i].on PROVE OffBehind(pending', i) \/ waits(pending'[i])
    <3>1. CASE pending'[i] = on
      <4>1. \/ half.notes \subseteq astray
            \/ call = "" /\ memo[half.key] = half.delay
        BY <1>7 DEF FxQueueSounds
      <4>2. half.delay <= half.delay
        BY FxDelay
      <4>3. on.note = Note(half.key) /\ on.due = half.delay
        BY <1>2
      <4>. QED BY <1>1, <1>7, <3>1, <4>1, <4>2, <4>3
    <3>2. ASSUME NEW j \in 1 .. Len(pending), pending'[i] = pending[j], OffBehind(pending, j) => OffBehind(pending', i)
          PROVE  OffBehind(pending', i) \/ waits(pending'[i])
      <4>1. OffBehind(pending, j) \/ FxLags(pending[j])
        BY <2>4, <3>2 DEF FxQueueSounds
      <4>. QED BY <1>6, <1>7, <2>2, <3>2, <4>1
    <3>. QED BY <2>3, <3>1, <3>2
  <2>. QED BY <1>5, <1>7, <2>2, <2>3, <2>4
<1>8. CASE half.key \notin down
  <2>1. PICK p \in Places(pending, off) : pending' = InsertAt(pending, p, off)
    <3>1. (half.key \in down) = FALSE
      BY <1>8
    <3>2. LatencySends(half.key \in down)
      BY <1>8 DEF Finish, Sends
    <3>3. Scheduled(pending, Event(half.delay, (half.key \in down), Note(half.key)), pending')
      BY <3>2 DEF LatencySends
    <3>4. Scheduled(pending, off, pending')
      BY <3>1, <3>3
    <3>. QED BY <3>4 DEF Scheduled
  <2>2. sounding' = sounding /\ memo' = memo
    BY <1>8 DEF Finish, Sends, LatencySends
  <2>3. /\ \A n : OffOf(pending, n) => OffOf(pending', n)
        /\ OffOf(pending', Note(half.key))
        /\ \A i \in 1 .. Len(pending') : pending'[i] = off \/ \E j \in 1 .. Len(pending) :
             /\ pending'[i] = pending[j] /\ (OffBehind(pending, j) => OffBehind(pending', i))
             /\ pending[j].note = Note(half.key) /\ pending[j].due <= half.delay => OffBehind(pending', i)
    <3>. HIDE DEF off
    <3>1. /\ \A n : OffOf(pending, n) => OffOf(pending', n)
          /\ ~off.on => OffOf(pending', off.note)
          /\ \A i \in 1 .. Len(pending') : pending'[i] = off \/ \E j \in 1 .. Len(pending) :
              /\ pending'[i] = pending[j] /\ (OffBehind(pending, j) => OffBehind(pending', i))
              /\ ~off.on /\ off.note = pending[j].note /\ pending[j].due <= off.due => OffBehind(pending', i)
      BY <1>2, <1>3, <2>1, FxOneMore
    <3>2. ~off.on /\ off.note = Note(half.key) /\ off.due = half.delay
      BY <1>2
    <3>. QED BY <3>1, <3>2
  <2>4. ASSUME NEW i \in 1 .. Len(pending'), pending'[i].on PROVE OffBehind(pending', i) \/ waits(pending'[i])
    <3>1. pending'[i] # off
      BY <1>2, <2>4
    <3>2. ASSUME NEW j \in 1 .. Len(pending), pending'[i] = pending[j], OffBehind(pending, j) => OffBehind(pending', i),
                 pending[j].note = Note(half.key) /\ pending[j].due <= half.delay => OffBehind(pending', i)
          PROVE  OffBehind(pending', i) \/ waits(pending'[i])
      <4>1. OffBehind(pending, j) \/ FxLags(pending[j])
        BY <2>4, <3>2 DEF FxQueueSounds
      <4>. QED BY <1>6, <2>2, <3>2, <4>1
    <3>. QED BY <2>3, <3>1, <3>2
  <2>. QED BY <1>5, <2>2, <2>3, <2>4
<1>9. CASE effect = "delay"
  <2>1. PICK p \in Places(pending, on) : Scheduled(InsertAt(pending, p, on), later, pending')
    <3>1. PlaceEchoes
      BY <1>9 DEF Finish, Sends, LatencySends, ChordRemembers
    <3>. QED BY <3>1 DEF PlaceEchoes
  <2>2. sounding' = sounding /\ memo' = memo /\ half.key \in down
    BY <1>9 DEF Finish, Sends, LatencySends, ChordRemembers, PlaceEchoes
  <2>. DEFINE between == InsertAt(pending, p, on)
  <2>3. PICK q \in Places(between, later) : pending' = InsertAt(between, q, later)
    BY <2>1 DEF Scheduled
  <2>4. /\ between \in Seq(FxEvent)
        /\ \A n : OffOf(pending, n) => OffOf(between, n)
        /\ \A i \in 1 .. Len(between) : between[i] = on \/ \E j \in 1 .. Len(pending) :
             between[i] = pending[j] /\ (OffBehind(pending, j) => OffBehind(between, i))
    <3>. HIDE DEF on
    <3>. QED BY <1>2, <1>3, <2>1, FxOneMore
  <2>. HIDE DEF between
  <2>5. /\ \A n : OffOf(between, n) => OffOf(pending', n)
        /\ \A i \in 1 .. Len(pending') : pending'[i] = later \/ \E j \in 1 .. Len(between) :
             /\ pending'[i] = between[j] /\ (OffBehind(between, j) => OffBehind(pending', i))
             /\ between[j] = on => OffBehind(pending', i)
    <3>. HIDE DEF on, later
    <3>1. /\ \A n : OffOf(between, n) => OffOf(pending', n)
          /\ \A i \in 1 .. Len(pending') : pending'[i] = later \/ \E j \in 1 .. Len(between) :
              /\ pending'[i] = between[j] /\ (OffBehind(between, j) => OffBehind(pending', i))
              /\ ~later.on /\ later.note = between[j].note /\ between[j].due <= later.due
                   => OffBehind(pending', i)
      BY <1>2, <2>3, <2>4, FxOneMore
    <3>2. ~later.on /\ later.note = on.note /\ on.due <= later.due
      BY <1>2, FxDelay
    <3>. QED BY <3>1, <3>2
  <2>6. ASSUME NEW i \in 1 .. Len(pending'), pending'[i].on PROVE OffBehind(pending', i) \/ waits(pending'[i])
    <3>1. pending'[i] # later
      BY <1>2, <2>6
    <3>2. ASSUME NEW j \in 1 .. Len(between), pending'[i] = between[j],
                 OffBehind(between, j) => OffBehind(pending', i), between[j] # on
          PROVE  OffBehind(pending', i) \/ waits(pending'[i])
      <4>1. PICK l \in 1 .. Len(pending) :
              between[j] = pending[l] /\ (OffBehind(pending, l) => OffBehind(between, j))
        BY <2>4, <3>2
      <4>2. OffBehind(pending, l) \/ FxLags(pending[l])
        BY <2>6, <3>2, <4>1 DEF FxQueueSounds
      <4>. QED BY <1>6, <2>2, <3>2, <4>1, <4>2
    <3>. QED BY <2>5, <3>1, <3>2
  <2>. QED BY <1>5, <2>2, <2>4, <2>5, <2>6
<1>. QED BY <1>7, <1>8, <1>9

\* A step of the two.
LEMMA FxQueueStep ==
  ASSUME EffectAssumption, FxTypes, FxQueueSounds, EffectNext, effect \in {"latency", "delay"}
  PROVE  FxQueueSounds'
<1>1. CASE \E k \in EffectKey : Press(k) \/ Release(k)
  BY <1>1, FxQueuePresses, FxQueueReleases
<1>2. CASE Finish
  BY <1>2, FxQueueFinishes
<1>3. pending \in Seq(FxEvent) /\ down \subseteq EffectKey
  BY DEF FxTypes
\* cancel_scheduled: what loses its NoteOff is astray.
<1>4. ASSUME Cancel, UNCHANGED <<effect, down, half, memo, sounding>>, call' = call \/ call # ""
      PROVE  FxQueueSounds'
  <2>1. pending' = <<>> /\ astray' = astray \cup {n \in sounding : \E e \in ToSet(pending) : ~e.on /\ e.note = n}
    BY <1>4 DEF Cancel
  <2>2. ASSUME NEW n \in sounding' \ astray' PROVE FxEnds(n)'
    <3>1. n \in sounding \ astray /\ ~\E e \in ToSet(pending) : ~e.on /\ e.note = n
      BY <1>4, <2>1, <2>2
    <3>2. ~OffOf(pending, n)
      BY <1>3, <3>1, FxOffIn
    <3>3. n \in half.notes \/ \E k \in down : n = Note(k)
      BY <3>1, <3>2 DEF FxQueueSounds, FxEnds
    <3>4. down' = down /\ half' = half
      BY <1>4
    <3>. QED BY <3>3, <3>4 DEF FxEnds
  <2>3. Len(pending') = 0
    BY <2>1
  <2>4. \A i \in 1 .. Len(pending') : pending'[i].on => (OffBehind(pending, i) \/ FxLags(pending[i]))'
    BY <2>3
  <2>5. astray \subseteq astray' /\ UNCHANGED <<effect, down, half, memo>> /\ (call' = call \/ call # "")
    BY <1>4, <2>1
  <2>. QED BY <2>2, <2>4, <2>5 DEF FxQueueSounds
<1>5. CASE Transport
  <2>1. Cancel /\ UNCHANGED <<effect, down, half, memo, sounding, call>>
    BY <1>5 DEF Transport, HoldStop, DelayStop
  <2>. QED BY <1>4, <2>1
<1>6. CASE CallSends
  <2>1. Cancel /\ UNCHANGED <<effect, down, half, memo, sounding>> /\ call = "off"
    BY <1>6 DEF CallSends, HoldPanic, ChordPanic, ChannelPanic, LatencyPanic
  <2>. QED BY <1>4, <2>1
<1>7. CASE Fires
  <2>1. /\ pending # <<>> /\ pending' = Tail(pending) /\ UNCHANGED <<effect, down, half, memo, call, astray>>
        /\ Head(pending).on => sounding' = sounding \cup {Head(pending).note}
        /\ ~Head(pending).on => sounding' = sounding \ {Head(pending).note}
    BY <1>7 DEF Fires
  <2>2. /\ \A n : OffOf(pending, n) => OffOf(pending', n) \/ (~Head(pending).on /\ n = Head(pending).note)
        /\ OffBehind(pending, 1) => OffOf(pending', Head(pending).note)
        /\ \A i \in 1 .. Len(pending') : /\ i + 1 \in 1 .. Len(pending) /\ pending'[i] = pending[i + 1]
                                         /\ OffBehind(pending, i + 1) => OffBehind(pending', i)
    BY <1>3, <2>1, FxOneLess
  <2>3. ASSUME Head(pending).on, Head(pending).note \notin astray
        PROVE  \/ OffOf(pending', Head(pending).note) \/ Head(pending).note \in half.notes
               \/ \E k \in down : Head(pending).note = Note(k)
    <3>1. 1 \in 1 .. Len(pending) /\ pending[1] = Head(pending)
      BY <1>3, <2>1
    <3>2. OffBehind(pending, 1) \/ FxLags(Head(pending))
      BY <2>3, <3>1 DEF FxQueueSounds
    <3>3. FxLags(Head(pending)) =>
            \E k \in EffectKey : Head(pending).note = Note(k) /\ (k \in down \/ half.key = k)
      BY <2>3 DEF FxLags
    <3>4. FxLags(Head(pending)) => Head(pending).note \in half.notes \/ \E k \in down : Head(pending).note = Note(k)
      BY <3>3, FxNumbers DEF FxQueueSounds
    <3>5. OffOf(pending', Head(pending).note) \/ Head(pending).note \in half.notes
          \/ \E k \in down : Head(pending).note = Note(k)
      BY <2>2, <3>2, <3>4
    <3>. QED BY <3>5
  <2>4. ASSUME NEW n \in sounding' \ astray' PROVE FxEnds(n)'
    <3>0. down' = down /\ half' = half
      BY <2>1
    <3>1. CASE n = Head(pending).note
      <4>1. n \in half.notes \/ OffOf(pending', n) \/ \E k \in down : n = Note(k)
        BY <2>1, <2>3, <2>4, <3>1
      <4>. QED BY <3>0, <4>1 DEF FxEnds, OffOf
    <3>2. CASE n # Head(pending).note
      <4>1. n \in sounding \ astray
        BY <2>1, <2>4, <3>2
      <4>2. n \in half.notes \/ OffOf(pending', n) \/ \E k \in down : n = Note(k)
        BY <2>2, <3>2, <4>1 DEF FxQueueSounds, FxEnds
      <4>. QED BY <3>0, <4>2 DEF FxEnds, OffOf
    <3>. QED BY <3>1, <3>2
  <2>5. ASSUME NEW i \in 1 .. Len(pending'), pending'[i].on PROVE (OffBehind(pending, i) \/ FxLags(pending[i]))'
    <3>1. OffBehind(pending, i + 1) \/ FxLags(pending[i + 1])
      BY <2>2, <2>5 DEF FxQueueSounds
    <3>2. CASE OffBehind(pending, i + 1)
      BY <2>2, <3>2 DEF OffBehind
    <3>3. CASE FxLags(pending[i + 1])
      <4>1. pending'[i] = pending[i + 1]
        BY <2>2
      <4>. QED BY <2>1, <3>3, <4>1 DEF FxLags
    <3>. QED BY <3>1, <3>2, <3>3
  <2>. QED BY <2>1, <2>4, <2>5 DEF FxQueueSounds
<1>8. CASE TimePasses
  <2>1. /\ pending' = [i \in DOMAIN pending |-> [pending[i] EXCEPT !.due = @ - 1]]
        /\ UNCHANGED <<effect, down, half, memo, sounding, call, astray>>
    BY <1>8 DEF TimePasses
  <2>2. /\ Len(pending') = Len(pending)
        /\ \A i \in 1 .. Len(pending) :
             /\ pending'[i].due = pending[i].due - 1 /\ pending[i].due \in Int
             /\ pending'[i].on = pending[i].on /\ pending'[i].note = pending[i].note
    BY <1>3, <2>1, FxLater
  <2>3. \A n : OffOf(pending, n) => OffOf(pending', n)
    BY <2>2 DEF OffOf
  <2>4. ASSUME NEW n \in sounding' \ astray' PROVE FxEnds(n)'
    <3>1. n \in half.notes \/ OffOf(pending', n) \/ \E k \in down : n = Note(k)
      BY <2>1, <2>3, <2>4 DEF FxQueueSounds, FxEnds
    <3>2. down' = down /\ half' = half
      BY <2>1
    <3>. QED BY <3>1, <3>2 DEF FxEnds, OffOf
  <2>5. ASSUME NEW i \in 1 .. Len(pending'), pending'[i].on PROVE (OffBehind(pending, i) \/ FxLags(pending[i]))'
    <3>1. i \in 1 .. Len(pending) /\ pending[i].on
      BY <2>2, <2>5
    <3>2. CASE OffBehind(pending, i)
      <4>1. OffBehind(pending', i)
        BY <2>2, <3>1, <3>2 DEF OffBehind
      <4>. QED BY <4>1 DEF OffBehind
    <3>3. CASE pending[i].note \in astray
      BY <2>1, <2>2, <3>1, <3>3 DEF FxLags
    <3>4. CASE FxLags(pending[i]) /\ pending[i].note \notin astray
      <4>1. PICK k \in EffectKey :
              /\ effect = "latency" /\ pending[i].note = Note(k)
              /\ \/ k \in down /\ call # "clear" /\ pending[i].due <= memo[k]
                 \/ k \notin down /\ half.key = k /\ pending[i].due <= half.delay
        BY <3>4 DEF FxLags
      <4>2. half.delay \in Int /\ memo[k] \in Int
        <5>1. memo[k] \in Setting \cup {0}
          BY DEF FxTypes
        <5>. QED BY <5>1, FxDelay, FxNumbers
      <4>3. /\ pending[i].due <= memo[k] => pending'[i].due <= memo[k]
            /\ pending[i].due <= half.delay => pending'[i].due <= half.delay
        BY <2>2, <3>1, <4>2
      <4>4. pending'[i].note = Note(k)
        BY <2>2, <3>1, <4>1
      <4>. QED BY <2>1, <4>1, <4>3, <4>4 DEF FxLags
    <3>. QED BY <3>1, <3>2, <3>3, <3>4 DEF FxQueueSounds
  <2>. QED BY <2>1, <2>4, <2>5 DEF FxQueueSounds
<1>9. ASSUME UNCHANGED <<effect, down, half, memo, pending>>, sounding' \subseteq sounding, astray \subseteq astray',
             call' # "clear", call' = call \/ (half.key \in down => half.notes \subseteq astray')
      PROVE  FxQueueSounds'
  <2>1. ASSUME NEW n \in sounding' \ astray' PROVE FxEnds(n)'
    BY <1>9, <2>1 DEF FxQueueSounds, FxEnds, OffOf
  <2>2. ASSUME NEW i \in 1 .. Len(pending'), pending'[i].on PROVE (OffBehind(pending, i) \/ FxLags(pending[i]))'
    BY <1>9, <2>2 DEF FxQueueSounds, OffBehind, FxLags
  <2>. QED BY <1>9, <2>1, <2>2 DEF FxQueueSounds
<1>10. CASE Panic
  <2>1. /\ UNCHANGED <<effect, down, half, memo, pending>> /\ call' = "off" /\ sounding' = {} /\ astray \subseteq astray'
        /\ half.key \in down => half.notes \subseteq astray'
    BY <1>10 DEF Panic, Begins
  <2>. QED BY <1>9, <2>1
<1>11. CASE \E s \in (IF effect = "hold" THEN {1, 2} ELSE Setting) : SetParam(s)
  <2>1. UNCHANGED <<effect, down, half, memo, pending, sounding, call, astray>>
    BY <1>11 DEF SetParam
  <2>2. ASSUME NEW n \in sounding' \ astray' PROVE FxEnds(n)'
    BY <2>1, <2>2 DEF FxQueueSounds, FxEnds, OffOf
  <2>3. ASSUME NEW i \in 1 .. Len(pending'), pending'[i].on PROVE (OffBehind(pending, i) \/ FxLags(pending[i]))'
    BY <2>1, <2>3 DEF FxQueueSounds, OffBehind, FxLags
  <2>. QED BY <2>1, <2>2, <2>3 DEF FxQueueSounds
<1>12. CASE \E k \in EffectKey \cup {0} : Learn(k)
  BY <1>12 DEF Learn
<1>13. CASE CallClears
  <2>1. /\ call = "clear" /\ call' = "" /\ UNCHANGED <<effect, down, half, pending, sounding, astray>>
    BY <1>13 DEF CallClears
  <2>2. ASSUME NEW n \in sounding' \ astray' PROVE FxEnds(n)'
    BY <2>1, <2>2 DEF FxQueueSounds, FxEnds, OffOf
  <2>3. ASSUME NEW i \in 1 .. Len(pending'), pending'[i].on PROVE (OffBehind(pending, i) \/ FxLags(pending[i]))'
    BY <2>1, <2>3 DEF FxQueueSounds, OffBehind, FxLags
  <2>. QED BY <2>1, <2>2, <2>3 DEF FxQueueSounds
<1>. QED
  BY <1>1, <1>2, <1>5, <1>6, <1>7, <1>8, <1>10, <1>11, <1>12, <1>13 DEF EffectNext

\* What sounds is ended in each of the plugins.
FxInv == FxTypes /\ FxHold /\ FxKeys /\ FxQueue

\* It holds when the plugin starts.
LEMMA FxStarts ==
  ASSUME EffectAssumption, EffectInit
  PROVE  FxInv
<1>1. /\ effect \in {"hold", "chord", "channel", "latency", "delay"} /\ setting = 1 /\ down = {}
      /\ half = Idle /\ half.key = 0 /\ half.notes = {} /\ half.delay = 0
      /\ memo = [k \in EffectKey |-> 0] /\ latch = Unlatched /\ pending = <<>> /\ sounding = {}
      /\ call = "" /\ astray = {}
  BY DEF EffectInit, Idle
<1>2. latch \in FxLatch /\ latch.held = {} /\ latch.physical = {}
  <2>1. Unlatched \in FxLatch /\ Unlatched.held = {} /\ Unlatched.physical = {}
    BY DEF Unlatched, FxLatch
  <2>. QED BY <1>1, <2>1
<1>3. <<>> \in Seq(FxEvent)
  OBVIOUS
<1>4. FxTypes
  BY <1>1, <1>2, <1>3, FxNumbers DEF FxTypes
<1>5. FxHold
  BY <1>1, <1>2 DEF FxHold, FxHoldSounds, FxHoldLocks
<1>6. FxKeys
  <2>1. \A k \in EffectKey \ down : memo[k] = 0
    BY <1>1
  <2>2. half.key \notin down /\ sounding \ astray = {} /\ call = "" /\ pending = <<>>
    BY <1>1
  <2>. QED BY <2>1, <2>2, Zenon DEF FxKeys, FxKeySounds
<1>7. FxQueue
  <2>1. Len(pending) = 0
    BY <1>1
  <2>2. \A i \in 1 .. Len(pending) : FALSE
    BY <2>1
  <2>3. half.key = 0 /\ half.key \notin down /\ sounding \ astray = {}
    BY <1>1
  <2>. QED BY <2>2, <2>3, Zenon DEF FxQueue, FxQueueSounds
<1>. QED BY <1>4, <1>5, <1>6, <1>7 DEF FxInv

\* A step of the plugin keeps it.
LEMMA FxSteps ==
  ASSUME EffectAssumption, FxInv, EffectNext
  PROVE  FxInv'
<1>1. FxTypes /\ FxHold /\ FxKeys /\ FxQueue
  BY DEF FxInv
<1>2. effect' = effect /\ FxTypes'
  <2>1. effect' = effect
    BY DEF EffectNext, Press, Release, Finish, Transport, Fires,
       TimePasses, SetParam, Begins, Learn, Panic, CallSends, CallClears
  <2>. QED BY <1>1, <2>1, FxTyped
<1>3. FxHold'
  BY <1>1, <1>2, FxHoldStep DEF FxHold
<1>4. FxKeys'
  BY <1>1, <1>2, FxKeyStep DEF FxKeys
<1>5. FxQueue'
  BY <1>1, <1>2, FxQueueStep DEF FxQueue
<1>. QED BY <1>2, <1>3, <1>4, <1>5 DEF FxInv

\* A step that leaves the plugin alone keeps it.
LEMMA FxStays ==
  ASSUME FxInv, UNCHANGED effectVars
  PROVE  FxInv'
<1>1. FxTypes'
  BY DEF FxInv, FxTypes, effectVars
<1>2. FxHold'
  BY DEF FxInv, FxHold, FxHoldSounds, FxHoldLocks, Latched, effectVars
<1>3. FxKeys'
  BY DEF FxInv, FxKeys, FxKeySounds, effectVars
<1>4. FxQueue'
  BY DEF FxInv, FxQueue, FxQueueSounds, FxEnds, FxLags, OffOf, OffBehind, effectVars
<1>. QED BY <1>1, <1>2, <1>3, <1>4 DEF FxInv

\* It is what the property asks.
LEMMA FxSettles ==
  ASSUME FxInv
  PROVE  EffectsEnd
<1>0. FxTypes /\ FxHold /\ FxKeys /\ FxQueue
  BY DEF FxInv
<1>1. ASSUME NEW n \in sounding \ astray PROVE Owned(n)
  <2>1. CASE effect = "hold"
    BY <1>0, <1>1, <2>1 DEF FxHold, FxHoldSounds, Owned
  <2>2. CASE effect \in {"chord", "channel"}
    <3>1. n \in half.notes \/ \E k \in down : n \in Notes(k, memo[k])
      BY <1>0, <1>1, <2>2, FxNotesAre DEF FxKeys, FxKeySounds
    <3>. QED BY <2>2, <3>1 DEF Owned
  <2>3. CASE effect \in {"latency", "delay"}
    <3>1. FxEnds(n)
      BY <1>0, <1>1, <2>3 DEF FxQueue, FxQueueSounds
    <3>2. OffOf(pending, n) => \E e \in ToSet(pending) : ~e.on /\ e.note = n
      BY <1>0, FxOffIn DEF FxTypes
    <3>. QED BY <2>3, <3>1, <3>2 DEF FxEnds, Owned
  <2>. QED BY <1>0, <2>1, <2>2, <2>3 DEF FxTypes
<1>2. effect = "hold" /\ ~Toggles /\ down = {} /\ latch.held # {} => latch.locked
  BY DEF FxInv, FxHold, FxHoldLocks, Toggles
<1>. QED BY <1>1, <1>2 DEF EffectsEnd
=============================================================================
