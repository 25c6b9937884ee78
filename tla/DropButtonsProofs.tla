-------------------------- MODULE DropButtonsProofs --------------------------
(* What is parked in the queue belongs to an armed slot, and the drop lands  *)
(* last (DropButtons): the inductive invariant and its steps.                *)
EXTENDS DropButtons, TLAPS

States == {"idle", "captured", "scheduled"}
Halves == [job : {"rest", "press", "tick"}, button : Button \cup {0}, slots : [Key -> SlotType],
           lands : SUBSET Key, states : [Button -> States]]
DropTypes ==
  /\ state \in [Button -> States] /\ sched \in [Key -> SlotType]
  /\ parked \subseteq [button : Button, at : 0 .. Horizon]
  /\ half \in [Thread -> Halves] /\ half["web"].job # "tick"
  /\ \A t \in Thread : half[t].job = "press" => half[t].button \in Button
  /\ ticks \in Nat /\ alone \in BOOLEAN /\ steady \in BOOLEAN

\* One call at a time, and what it has read is still so.
HalfKept ==
  /\ half["web"].job = "rest" \/ half["plugin"].job = "rest"
  /\ \A t \in Thread : half[t].job # "rest" => half[t].slots = sched
  /\ \A t \in Thread : half[t].job = "press" => half[t].states = state
\* An armed button is scheduled, in one slot.
SlotKept ==
  /\ \A k \in Key : Armed(sched, k) => state[sched[k].button] = "scheduled"
  /\ \A k \in Key : sched[k].sent => Armed(sched, k)
  /\ Armed(sched, "hard") => sched["hard"].button # sched["fade"].button
\* What is parked and not late is of a slot that relies on it, and no later than its bar.
QueueKept ==
  /\ \A e \in parked : e.at > 0 =>
       \E k \in Key : sched[k].button = e.button /\ sched[k].sent /\ e.at <= sched[k].at
  /\ \A e, f \in parked : e.button = f.button /\ e.at > 0 /\ f.at > 0 => e = f
\* What is still parked of a slot that lands is late.
LandKept ==
  half["plugin"].job = "tick" =>
    \A k \in half["plugin"].lands :
      Armed(sched, k) /\ \A e \in parked : e.button = sched[k].button => e.at = 0

\* While all goes to plan: the queue holds what the slots sent and is not heard yet, the
\* drop is heard in the last sixteenth before its bar, and the riser's bar comes first.
Of(k) == [button |-> sched[k].button, at |-> sched[k].at]
Due(k) == Armed(sched, k) /\ sched[k].at = 0
DropPlan ==
  /\ \A e \in parked : e.at > 0 /\ \E k \in Key : sched[k].sent /\ e = Of(k)
  /\ sched["hard"].sent /\ Of("hard") \notin parked =>
       sched["hard"].at <= 1 /\ last \in {sched["hard"].button, 0}
  /\ Armed(sched, "hard") /\ sched["fade"].sent => sched["fade"].at < sched["hard"].at
\* The drop is heard, its bar comes with the next sixteenth.
Early == sched["hard"].sent /\ Of("hard") \notin parked /\ sched["hard"].at = 1
DropCount == (ticks = 0 => \A k \in Key : ~Due(k)) /\ (Early => ticks = 0)
DropTime == IF half["plugin"].job = "tick"
            THEN half["plugin"].lands = {k \in Key : Due(k)} /\ ~Early
            ELSE DropCount
DropInv ==
  /\ DropTypes
  /\ alone => HalfKept /\ SlotKept /\ QueueKept /\ LandKept
  /\ steady => alone /\ DropPlan /\ DropTime

\* Buttons are numbers from 1, and there are two slots and two threads.
LEMMA DropNumbers ==
  ASSUME DropAssumption
  PROVE  /\ 0 \notin Button /\ Horizon \in Nat /\ Horizon > 0 /\ Backlog \in Nat /\ Backlog > 0
         /\ \A n \in 0 .. Horizon : n \in Nat
         /\ "hard" \in Key /\ "fade" \in Key /\ \A k \in Key : k = "hard" \/ k = "fade"
         /\ "web" \in Thread /\ "plugin" \in Thread /\ \A t \in Thread : t = "web" \/ t = "plugin"
  BY DEF DropAssumption, Key, Thread

\* An open slot, and a thread at rest.
LEMMA DropOpen ==
  ASSUME DropAssumption
  PROVE  /\ Open \in SlotType /\ Open.button = 0 /\ Open.at = 0 /\ Open.sent = FALSE
         /\ Clear \in [Key -> SlotType] /\ \A k \in Key : Clear[k] = Open
         /\ AtRest \in Halves /\ AtRest.job = "rest"
<1>1. /\ Open \in SlotType /\ Open.button = 0 /\ Open.at = 0 /\ Open.sent = FALSE
      /\ Clear \in [Key -> SlotType] /\ \A k \in Key : Clear[k] = Open
  BY DropNumbers DEF Open, Clear, SlotType
<1>2. AtRest \in Halves /\ AtRest.job = "rest"
  BY <1>1 DEF AtRest, Halves, States
<1>. QED BY <1>1, <1>2

\* A button given up is captured, and no other changes.
LEMMA DropReleases ==
  ASSUME NEW st \in [Button -> States], NEW b \in Button \cup {0}
  PROVE  /\ Released(b, st) \in [Button -> States]
         /\ \A c \in Button : c # b => Released(b, st)[c] = st[c]
  BY DEF Released, States

\* A slot.
LEMMA DropSlot ==
  ASSUME NEW slots \in [Key -> SlotType], NEW k \in Key
  PROVE  /\ slots[k] \in SlotType /\ slots[k].button \in Button \cup {0}
         /\ slots[k].at \in 0 .. Horizon /\ slots[k].sent \in BOOLEAN
  BY DEF SlotType

\* What a thread is doing.
LEMMA DropHalf ==
  ASSUME DropTypes, NEW t \in Thread
  PROVE  /\ half[t] \in Halves /\ half[t].job \in {"rest", "press", "tick"}
         /\ half[t].button \in Button \cup {0} /\ half[t].slots \in [Key -> SlotType]
         /\ half[t].lands \in SUBSET Key /\ half[t].states \in [Button -> States]
  BY DEF DropTypes, Halves

\* The clock moves the slots.
LEMMA DropMoves ==
  ASSUME DropAssumption, NEW slots \in [Key -> SlotType]
  PROVE  /\ Closer(slots) \in [Key -> SlotType]
         /\ \A k \in Key : /\ Closer(slots)[k].button = slots[k].button
                           /\ Closer(slots)[k].sent = slots[k].sent
                           /\ Closer(slots)[k].at = Sooner(slots[k].at)
         /\ \A d \in 1 .. Horizon :
              /\ (\A k \in Key : slots[k].at + d <= Horizon) => Later(slots, d) \in [Key -> SlotType]
              /\ \A k \in Key : /\ Later(slots, d)[k].button = slots[k].button
                                /\ Later(slots, d)[k].sent = slots[k].sent
                                /\ Later(slots, d)[k].at >= slots[k].at
<1>1. ASSUME NEW k \in Key
      PROVE  /\ Closer(slots)[k] = [slots[k] EXCEPT !.at = Sooner(slots[k].at)]
             /\ Sooner(slots[k].at) \in 0 .. Horizon /\ slots[k] \in SlotType /\ slots[k].at \in Nat
  BY DropNumbers, DropSlot DEF Closer, Sooner
<1>2. Closer(slots) \in [Key -> SlotType]
  <2>1. \A k \in Key : Closer(slots)[k] \in SlotType
    BY <1>1 DEF SlotType
  <2>. QED BY <2>1 DEF Closer
<1>3. ASSUME NEW k \in Key
      PROVE  /\ Closer(slots)[k].button = slots[k].button /\ Closer(slots)[k].sent = slots[k].sent
             /\ Closer(slots)[k].at = Sooner(slots[k].at)
  BY <1>1 DEF SlotType
<1>4. ASSUME NEW d \in 1 .. Horizon, NEW k \in Key
      PROVE  /\ Later(slots, d)[k].button = slots[k].button /\ Later(slots, d)[k].sent = slots[k].sent
             /\ Later(slots, d)[k].at >= slots[k].at
             /\ slots[k].at + d <= Horizon => Later(slots, d)[k] \in SlotType
  <2>1. /\ Later(slots, d)[k] = IF Armed(slots, k) THEN [slots[k] EXCEPT !.at = slots[k].at + d] ELSE slots[k]
    BY DEF Later
  <2>2. slots[k] \in SlotType /\ slots[k].at \in Nat /\ d \in Nat /\ Horizon \in Nat
    <3>1. slots[k] \in SlotType /\ slots[k].at \in Nat
      BY <1>1
    <3>2. \A n \in 1 .. Horizon : n \in Nat
      BY DropNumbers
    <3>. QED BY <3>1, <3>2, DropNumbers
  <2>. QED BY <2>1, <2>2 DEF SlotType
<1>5. ASSUME NEW d \in 1 .. Horizon, \A k \in Key : slots[k].at + d <= Horizon
      PROVE  Later(slots, d) \in [Key -> SlotType]
  BY <1>4, <1>5 DEF Later
<1>. QED BY <1>2, <1>3, <1>4, <1>5

\* With nothing armed and nothing parked there is nothing to keep.
LEMMA DropEmpty ==
  ASSUME DropAssumption, DropTypes, sched = Clear, parked = {}
  PROVE  /\ SlotKept /\ QueueKept /\ DropPlan
         /\ \A k \in Key : ~Armed(sched, k) /\ ~sched[k].sent /\ ~Due(k)
<1>1. \A k \in Key : ~Armed(sched, k) /\ ~sched[k].sent /\ ~Due(k)
  BY DropOpen DEF Armed, Due
<1>. QED BY <1>1, DropNumbers DEF SlotKept, QueueKept, DropPlan

\* A late slot has nothing parked but what is late too.
LEMMA DropLate ==
  ASSUME DropAssumption, DropTypes, SlotKept, QueueKept, NEW k \in Key, Due(k)
  PROVE  \A e \in parked : e.button = sched[k].button => e.at = 0
<1>. SUFFICES ASSUME NEW e \in parked, e.button = sched[k].button, e.at # 0 PROVE FALSE
  OBVIOUS
<1>1. e.at \in Nat /\ e.at > 0
  BY DropNumbers DEF DropTypes
<1>2. PICK j \in Key : sched[j].button = e.button /\ sched[j].sent /\ e.at <= sched[j].at
  BY <1>1 DEF QueueKept
<1>3. j = k
  BY <1>2, DropNumbers DEF SlotKept, Due, Armed
<1>. QED BY <1>1, <1>2, <1>3 DEF Due

\* A call begins, alone or not.
LEMMA DropBegins ==
  ASSUME DropAssumption, DropInv, NEW t \in Thread, NEW h \in Halves, Begins(t, h),
         UNCHANGED <<state, sched, parked>>, h.slots = sched, ticks' \in Nat,
         \/ h.job = "press" /\ h.button \in Button /\ h.states = state /\ ticks' = ticks
         \/ h.job = "tick" /\ t = "plugin" /\ h.lands = {k \in Key : Due(k)} /\ ticks # 0
  PROVE  DropInv'
<1>1. /\ DropTypes /\ half[t] = AtRest /\ half' = [half EXCEPT ![t] = h]
      /\ alone' = (Empty \/ (alone /\ NoneAtWork)) /\ steady' = (Empty \/ (steady /\ NoneAtWork))
      /\ steady' => last' = last
  BY DEF DropInv, Begins, Heard
<1>2. half'[t] = h /\ \A u \in Thread : u # t => half'[u] = half[u]
  BY <1>1 DEF DropTypes
<1>3. DropTypes'
  <2>1. half' \in [Thread -> Halves]
    BY <1>1 DEF DropTypes
  <2>2. half'["web"].job # "tick"
    BY <1>1, <1>2, DropNumbers DEF DropTypes
  <2>3. \A u \in Thread : half'[u].job = "press" => half'[u].button \in Button
    BY <1>1, <1>2 DEF DropTypes
  <2>. QED BY <1>1, <2>1, <2>2, <2>3 DEF DropTypes
<1>4. /\ Armed(sched, "hard")' = Armed(sched, "hard") /\ Early' = Early /\ \A k : Of(k)' = Of(k) /\ Due(k)' = Due(k)
      /\ (SlotKept => SlotKept') /\ (QueueKept => QueueKept')
  BY DEF Of, Due, Early, Armed, SlotKept, QueueKept
<1>5. NoneAtWork => \A u \in Thread : half[u].job = "rest"
  BY DropOpen DEF NoneAtWork
<1>6. ASSUME alone' PROVE NoneAtWork /\ SlotKept /\ QueueKept
  <2>1. CASE Empty
    BY <1>1, <2>1, DropEmpty DEF Empty
  <2>2. CASE alone /\ NoneAtWork
    BY <2>2 DEF DropInv
  <2>. QED BY <1>1, <1>6, <2>1, <2>2
<1>7. ASSUME alone' PROVE HalfKept' /\ SlotKept' /\ QueueKept' /\ LandKept'
  <2>1. \A u \in Thread : u # t => half'[u].job = "rest"
    BY <1>2, <1>5, <1>6, <1>7
  <2>2. HalfKept'
    BY <1>2, <2>1, DropNumbers DEF HalfKept
  <2>3. ASSUME half'["plugin"].job = "tick", NEW k \in half'["plugin"].lands
        PROVE  Armed(sched, k)' /\ \A e \in parked' : e.button = sched'[k].button => e.at = 0
    <3>1. k \in Key /\ Due(k)
      BY <1>2, <2>1, <2>3, DropNumbers
    <3>. QED BY <1>1, <1>6, <1>7, <3>1, DropLate DEF Due, Armed
  <2>. QED BY <1>4, <1>6, <1>7, <2>2, <2>3 DEF LandKept
<1>8. ASSUME steady' PROVE alone' /\ DropPlan' /\ DropTime'
  <2>1. alone' /\ NoneAtWork /\ DropPlan
    <3>1. CASE Empty
      BY <1>1, <3>1, DropEmpty DEF Empty
    <3>2. CASE steady /\ NoneAtWork
      BY <1>1, <3>2 DEF DropInv
    <3>. QED BY <1>1, <1>8, <3>1, <3>2
  <2>2. DropPlan'
    BY <1>1, <1>4, <1>8, <2>1 DEF DropPlan
  <2>3. half["plugin"].job = "rest" /\ (half'["plugin"].job # "rest" => t = "plugin")
    BY <1>2, <1>5, <2>1, DropNumbers
  <2>4. DropCount
    <3>1. CASE Empty
      BY <1>1, <3>1, DropEmpty, DropNumbers DEF Empty, DropCount, Early
    <3>2. CASE steady
      BY <2>3, <3>2 DEF DropInv, DropTime
    <3>. QED BY <1>1, <1>8, <3>1, <3>2
  <2>5. CASE h.job = "press" /\ ticks' = ticks
    <3>1. half'["plugin"].job # "tick"
      BY <1>2, <2>3, <2>5, DropNumbers
    <3>. QED BY <1>4, <2>1, <2>2, <2>4, <2>5, <3>1 DEF DropTime, DropCount
  <2>6. CASE h.job = "tick" /\ t = "plugin" /\ h.lands = {k \in Key : Due(k)} /\ ticks # 0
    <3>1. half'["plugin"] = h
      BY <1>2, <2>6
    <3>2. ~Early
      BY <2>4, <2>6 DEF DropCount
    <3>. QED BY <1>4, <2>1, <2>2, <2>6, <3>1, <3>2 DEF DropTime
  <2>. QED BY <2>5, <2>6
<1>. QED BY <1>3, <1>7, <1>8 DEF DropInv

\* A call ends: both threads are at rest.
LEMMA DropEnds ==
  ASSUME DropAssumption, DropInv, NEW t \in Thread, Ends(t), half[t].job # "rest"
  PROVE  /\ UNCHANGED <<ticks, alone, steady>>
         /\ half' \in [Thread -> Halves] /\ half'["web"].job # "tick" /\ half'[t].job = "rest"
         /\ \A u \in Thread : half'[u].job = "press" => half'[u].button \in Button
         /\ alone => /\ HalfKept' /\ LandKept' /\ half'["plugin"].job = "rest"
                     /\ half[t].slots = sched /\ SlotKept /\ QueueKept
                     /\ half[t].job = "press" => half[t].states = state /\ half["plugin"].job # "tick"
         /\ steady => alone /\ DropPlan /\ DropTime
<1>1. DropTypes /\ UNCHANGED <<ticks, alone, steady>> /\ half' = [half EXCEPT ![t] = AtRest]
  BY DEF DropInv, Ends
<1>2. half'[t] = AtRest /\ \A u \in Thread : u # t => half'[u] = half[u]
  BY <1>1 DEF DropTypes
<1>3. /\ half' \in [Thread -> Halves] /\ half'["web"].job # "tick" /\ half'[t].job = "rest"
      /\ \A u \in Thread : half'[u].job = "press" => half'[u].button \in Button
  BY <1>1, <1>2, DropOpen, DropNumbers DEF DropTypes
<1>4. ASSUME alone
      PROVE  /\ HalfKept' /\ LandKept' /\ half'["plugin"].job = "rest"
             /\ half[t].slots = sched /\ SlotKept /\ QueueKept
             /\ half[t].job = "press" => half[t].states = state /\ half["plugin"].job # "tick"
  <2>1. HalfKept /\ SlotKept /\ QueueKept
    BY <1>4 DEF DropInv
  <2>2. \A u \in Thread : half'[u].job = "rest"
    BY <1>2, <1>3, <2>1, DropNumbers DEF HalfKept
  <2>3. HalfKept' /\ LandKept'
    BY <2>2, DropNumbers DEF HalfKept, LandKept
  <2>4. half[t].job = "press" => half["plugin"].job # "tick"
    BY <2>1, DropNumbers DEF HalfKept
  <2>. QED BY <2>1, <2>2, <2>3, <2>4, DropNumbers DEF HalfKept
<1>. QED BY <1>1, <1>3, <1>4 DEF DropInv

\* So a press keeps the invariant when it keeps what is about the slots.
LEMMA DropPressed ==
  ASSUME DropAssumption, DropInv, NEW t \in Thread, Presses(t), Ends(t),
         state' \in [Button -> States], sched' \in [Key -> SlotType],
         parked' \subseteq [button : Button, at : 0 .. Horizon],
         alone /\ SlotKept /\ QueueKept /\ half[t].slots = sched /\ half[t].states = state
           => SlotKept' /\ QueueKept',
         steady /\ SlotKept /\ DropPlan /\ DropCount /\ half[t].slots = sched /\ half[t].states = state
           => DropPlan' /\ (ticks = 0 => \A k \in Key : ~Due(k)') /\ (Early' => ticks = 0)
  PROVE  DropInv'
<1>1. half[t].job = "press"
  BY DEF Presses
<1>2. DropTypes'
  BY <1>1, DropEnds DEF DropInv, DropTypes
<1>3. alone' => HalfKept' /\ SlotKept' /\ QueueKept' /\ LandKept'
  BY <1>1, DropEnds
<1>4. ASSUME steady' PROVE alone' /\ DropPlan' /\ DropTime'
  <2>1. /\ alone /\ DropPlan /\ DropTime /\ SlotKept /\ half[t].slots = sched /\ half[t].states = state
        /\ half["plugin"].job # "tick" /\ half'["plugin"].job = "rest" /\ UNCHANGED <<ticks, alone, steady>>
    BY <1>1, <1>4, DropEnds
  <2>. QED BY <1>4, <2>1 DEF DropTime, DropCount
<1>. QED BY <1>2, <1>3, <1>4 DEF DropInv

\* A capture.
LEMMA DropCaptures ==
  ASSUME DropAssumption, DropInv, NEW t \in Thread, Capture(t)
  PROVE  DropInv'
<1>. DEFINE b == half[t].button
            st == half[t].states
<1>1. /\ Presses(t) /\ Ends(t) /\ UNCHANGED <<sched, parked, last>>
      /\ state' = IF st[b] = "scheduled" THEN state ELSE [st EXCEPT ![b] = "captured"]
  BY DEF Capture
<1>2. DropTypes
  BY DEF DropInv
<1>3. state' \in [Button -> States] /\ b \in Button
  BY <1>1, <1>2, DropHalf DEF DropTypes, States, Presses
<1>4. ASSUME SlotKept, st = state PROVE SlotKept'
  <2>1. \A c \in Button : state[c] = "scheduled" => state'[c] = "scheduled"
    BY <1>1, <1>2, <1>3, <1>4 DEF DropTypes
  <2>2. \A k \in Key : Armed(sched, k) => sched[k].button \in Button
    BY <1>2, DropSlot DEF DropTypes, Armed
  <2>. QED BY <1>1, <1>4, <2>1, <2>2 DEF SlotKept, Armed
<1>5. QueueKept => QueueKept'
  BY <1>1 DEF QueueKept
<1>6. DropPlan /\ DropCount => DropPlan' /\ (ticks = 0 => \A k \in Key : ~Due(k)') /\ (Early' => ticks = 0)
  BY <1>1 DEF DropPlan, DropCount, Early, Due, Armed, Of
<1>. QED BY <1>1, <1>2, <1>3, <1>4, <1>5, <1>6, DropPressed DEF DropTypes

\* A button fired at once kills the riser in flight.
LEMMA DropNow ==
  ASSUME DropAssumption, DropInv, NEW t \in Thread, FireNow(t)
  PROVE  DropInv'
<1>. DEFINE b == half[t].button
            slots == half[t].slots
            st == half[t].states
            f == slots["fade"].button
<1>1. /\ Presses(t) /\ Ends(t) /\ st[b] = "captured" /\ Heard(0)
      /\ sched' = IF f = 0 THEN sched ELSE [slots EXCEPT !["fade"] = Open]
      /\ parked' = IF f = 0 THEN parked ELSE {e \in parked : e.button # f}
      /\ state' = [Released(f, st) EXCEPT ![b] = "captured"]
  BY DEF FireNow, Without
<1>2. DropTypes /\ b \in Button /\ slots \in [Key -> SlotType] /\ st \in [Button -> States] /\ f \in Button \cup {0}
  <2>1. DropTypes
    BY DEF DropInv
  <2>2. slots \in [Key -> SlotType] /\ st \in [Button -> States] /\ b \in Button
    BY <1>1, <2>1, DropHalf DEF DropTypes, Presses
  <2>. QED BY <2>1, <2>2, DropNumbers, DropSlot
<1>3. Released(f, st) \in [Button -> States] /\ \A c \in Button : c # f => Released(f, st)[c] = st[c]
  BY <1>2, DropReleases
<1>4. /\ state' \in [Button -> States] /\ \A c \in Button : c \notin {b, f} => state'[c] = st[c]
      /\ sched' \in [Key -> SlotType] /\ parked' \subseteq parked
      /\ parked' \subseteq [button : Button, at : 0 .. Horizon]
  <2>1. state' \in [Button -> States] /\ \A c \in Button : c \notin {b, f} => state'[c] = st[c]
    BY <1>1, <1>2, <1>3 DEF States
  <2>2. sched' \in [Key -> SlotType]
    BY <1>1, <1>2, DropOpen, DropNumbers DEF DropTypes
  <2>. QED BY <1>1, <1>2, <2>1, <2>2 DEF DropTypes
<1>5. ASSUME slots = sched
      PROVE  /\ sched'["hard"] = sched["hard"]
             /\ sched'["fade"].button = 0 /\ (sched'["fade"].sent => sched["fade"].sent /\ f = 0)
             /\ Armed(sched, "hard")' = Armed(sched, "hard") /\ ~Armed(sched, "fade")'
             /\ Of("hard")' = Of("hard") /\ Due("hard")' = Due("hard") /\ ~Due("fade")'
  <2>1. /\ sched'["hard"] = sched["hard"]
        /\ sched'["fade"].button = 0 /\ (sched'["fade"].sent => sched["fade"].sent /\ f = 0)
    BY <1>1, <1>2, <1>5, DropOpen, DropNumbers
  <2>. QED BY <2>1 DEF Armed, Of, Due
<1>6. ASSUME slots = sched, st = state, SlotKept
      PROVE  /\ SlotKept' /\ ~sched'["fade"].sent
             /\ sched["hard"].sent => sched["hard"].button # f
  <2>1. ~sched'["fade"].sent
    BY <1>5, <1>6, DropNumbers DEF SlotKept, Armed
  <2>2. Armed(sched, "hard") => sched["hard"].button # f /\ sched["hard"].button # b /\ sched["hard"].button \in Button
    BY <1>1, <1>2, <1>6, DropNumbers, DropSlot DEF SlotKept, Armed
  <2>3. Armed(sched, "hard") => state'[sched["hard"].button] = "scheduled"
    BY <1>4, <1>6, <2>2, DropNumbers DEF SlotKept
  <2>4. SlotKept'
    BY <1>5, <1>6, <2>1, <2>2, <2>3, DropNumbers DEF SlotKept, Armed
  <2>. QED BY <1>6, <2>1, <2>2, <2>4, DropNumbers DEF SlotKept
<1>7. ASSUME slots = sched, st = state, SlotKept, QueueKept PROVE QueueKept'
  <2>1. ASSUME NEW e \in parked', e.at > 0
        PROVE  \E k \in Key : sched'[k].button = e.button /\ sched'[k].sent /\ e.at <= sched'[k].at
    <3>1. PICK k \in Key : sched[k].button = e.button /\ sched[k].sent /\ e.at <= sched[k].at
      BY <1>4, <1>7, <2>1 DEF QueueKept
    <3>2. k # "fade"
      BY <1>1, <1>7, <2>1, <3>1, DropNumbers DEF SlotKept, Armed
    <3>. QED BY <1>5, <1>7, <3>1, <3>2, DropNumbers
  <2>. QED BY <1>4, <1>7, <2>1 DEF QueueKept
<1>8. ASSUME slots = sched, st = state, SlotKept, DropPlan, DropCount, steady
      PROVE  DropPlan' /\ (ticks = 0 => \A k \in Key : ~Due(k)') /\ (Early' => ticks = 0)
  <2>1. steady' /\ last' = 0
    BY <1>1, <1>8 DEF Ends, Heard
  <2>2. ASSUME NEW e \in parked' PROVE e.at > 0 /\ \E k \in Key : sched'[k].sent /\ e = Of(k)'
    <3>1. PICK k \in Key : e.at > 0 /\ sched[k].sent /\ e = Of(k)
      BY <1>4, <1>8, <2>2 DEF DropPlan
    <3>2. k # "fade"
      BY <1>1, <1>8, <2>2, <3>1, DropNumbers DEF SlotKept, Armed, Of
    <3>. QED BY <1>5, <1>8, <3>1, <3>2, DropNumbers
  <2>3. sched["hard"].sent /\ Of("hard") \in parked => Of("hard") \in parked'
    BY <1>1, <1>6, <1>8 DEF Of
  <2>4. DropPlan'
    BY <1>5, <1>6, <1>8, <2>1, <2>2, <2>3 DEF DropPlan
  <2>5. Early' => Early
    BY <1>5, <1>8, <2>3 DEF Early
  <2>. QED BY <1>5, <1>8, <2>4, <2>5, DropNumbers DEF DropCount
<1>. QED BY <1>1, <1>4, <1>6, <1>7, <1>8, DropPressed

\* A button given up, its slots open.
LEMMA DropCancels ==
  ASSUME DropAssumption, DropInv, NEW t \in Thread, Cancel(t)
  PROVE  DropInv'
<1>. DEFINE b == half[t].button
            slots == half[t].slots
            mine == {k \in Key : slots[k].button = b}
<1>1. /\ Presses(t) /\ Ends(t) /\ UNCHANGED last
      /\ IF mine = {} THEN UNCHANGED <<state, sched, parked>>
         ELSE /\ sched' = [k \in Key |-> IF k \in mine THEN Open ELSE slots[k]]
              /\ parked' = {e \in parked : e.button # b} /\ state' = Released(b, state)
  BY DEF Cancel, Without
<1>2. DropTypes /\ b \in Button /\ slots \in [Key -> SlotType]
  <2>1. DropTypes
    BY DEF DropInv
  <2>. QED BY <1>1, <2>1, DropHalf DEF DropTypes, Presses
<1>3. CASE mine = {}
  <2>1. UNCHANGED <<state, sched, parked, last>>
    BY <1>1, <1>3
  <2>2. (SlotKept => SlotKept') /\ (QueueKept => QueueKept')
    BY <2>1 DEF SlotKept, QueueKept, Armed
  <2>3. DropPlan /\ DropCount => DropPlan' /\ (ticks = 0 => \A k \in Key : ~Due(k)') /\ (Early' => ticks = 0)
    BY <2>1 DEF DropPlan, DropCount, Early, Due, Armed, Of
  <2>. QED BY <1>1, <1>2, <2>1, <2>2, <2>3, DropPressed DEF DropTypes
<1>4. CASE mine # {}
  <2>1. /\ parked' = {e \in parked : e.button # b} /\ state' = Released(b, state)
        /\ sched' = [k \in Key |-> IF slots[k].button = b THEN Open ELSE slots[k]]
    BY <1>1, <1>4
  <2>2. /\ state' \in [Button -> States] /\ \A c \in Button : c # b => state'[c] = state[c]
        /\ sched' \in [Key -> SlotType] /\ parked' \subseteq [button : Button, at : 0 .. Horizon]
    BY <1>2, <2>1, DropReleases, DropOpen DEF DropTypes
  <2>3. ASSUME slots = sched, NEW k \in Key
        PROVE  /\ sched[k].button = b => sched'[k] = Open
               /\ sched[k].button # b => sched'[k] = sched[k]
               /\ sched[k].button \in Button \cup {0}
               /\ sched'[k].sent => sched'[k] = sched[k] /\ sched[k].button # b
               /\ Armed(sched, k)' => sched'[k] = sched[k] /\ sched[k].button # b /\ Armed(sched, k)
               /\ Due(k)' => Due(k)
    <3>1. /\ sched[k].button = b => sched'[k] = Open
          /\ sched[k].button # b => sched'[k] = sched[k]
          /\ sched[k].button \in Button \cup {0}
      BY <1>2, <2>1, <2>3, DropSlot DEF DropTypes
    <3>. QED BY <3>1, DropOpen DEF Armed, Due
  <2>4. ASSUME slots = sched, SlotKept PROVE SlotKept'
    <3>1. ASSUME NEW k \in Key
          PROVE  /\ Armed(sched, k)' => state'[sched'[k].button] = "scheduled"
                 /\ sched'[k].sent => Armed(sched, k)'
      <4>1. Armed(sched, k) => sched[k].button \in Button /\ state[sched[k].button] = "scheduled"
        BY <2>3, <2>4 DEF SlotKept, Armed
      <4>2. sched'[k].sent => Armed(sched, k)'
        BY <2>3, <2>4 DEF SlotKept, Armed
      <4>. QED BY <2>2, <2>3, <2>4, <4>1, <4>2
    <3>2. Armed(sched, "hard")' => sched'["hard"].button # sched'["fade"].button
      BY <2>3, <2>4, DropNumbers, DropOpen DEF SlotKept, Armed
    <3>. QED BY <3>1, <3>2 DEF SlotKept
  <2>5. ASSUME slots = sched, QueueKept PROVE QueueKept'
    <3>1. ASSUME NEW e \in parked', e.at > 0
          PROVE  \E k \in Key : sched'[k].button = e.button /\ sched'[k].sent /\ e.at <= sched'[k].at
      <4>1. PICK k \in Key : sched[k].button = e.button /\ sched[k].sent /\ e.at <= sched[k].at
        BY <2>1, <2>5, <3>1 DEF QueueKept
      <4>. QED BY <2>1, <2>3, <2>5, <3>1, <4>1
    <3>. QED BY <2>1, <2>5, <3>1 DEF QueueKept
  <2>6. ASSUME slots = sched, SlotKept, DropPlan, DropCount
        PROVE  DropPlan' /\ (ticks = 0 => \A k \in Key : ~Due(k)') /\ (Early' => ticks = 0)
    <3>1. ASSUME NEW e \in parked' PROVE e.at > 0 /\ \E k \in Key : sched'[k].sent /\ e = Of(k)'
      <4>1. PICK k \in Key : e.at > 0 /\ sched[k].sent /\ e = Of(k)
        BY <2>1, <2>6, <3>1 DEF DropPlan
      <4>2. sched[k].button # b
        BY <2>1, <3>1, <4>1 DEF Of
      <4>. QED BY <2>3, <2>6, <4>1, <4>2 DEF Of
    <3>2. sched'["hard"].sent => /\ sched'["hard"] = sched["hard"] /\ sched["hard"].sent
                                 /\ Of("hard")' = Of("hard") /\ (Of("hard") \in parked => Of("hard") \in parked')
      BY <2>1, <2>3, <2>6, DropNumbers DEF Of
    <3>3. Early' => Early
      BY <3>2 DEF Early
    <3>4. Armed(sched, "hard")' /\ sched'["fade"].sent => sched'["fade"].at < sched'["hard"].at
      BY <2>3, <2>6, DropNumbers DEF DropPlan
    <3>5. DropPlan'
      BY <1>1, <2>6, <3>1, <3>2, <3>4 DEF DropPlan
    <3>. QED BY <2>3, <2>6, <3>3, <3>5 DEF DropCount
  <2>. QED BY <1>1, <2>2, <2>4, <2>5, <2>6, DropPressed
<1>. QED BY <1>3, <1>4

\* A button armed in a slot: its CCs are parked if they may be, what it takes the place of
\* or outdoes is withdrawn.
LEMMA DropArms ==
  ASSUME DropAssumption, DropInv, NEW t \in Thread, NEW k \in Key, NEW at \in 1 .. Horizon,
         NEW timed \in BOOLEAN, Schedule(t, k, at, timed)
  PROVE  DropInv'
<1>. DEFINE b == half[t].button
            slots == half[t].slots
            st == half[t].states
            old == slots[k].button
            outdone == Outdone(b, k, at, slots)
            sends == timed /\ MayPark(b, k, at, slots)
            queue == IF outdone THEN Without(slots["fade"].button, Bumped(old)) ELSE Bumped(old)
            new == [button |-> b, at |-> at]
            armed == [button |-> b, at |-> at, sent |-> sends]
<1>1. /\ Presses(t) /\ st[b] = "captured" /\ Ends(t) /\ UNCHANGED last
      /\ state' = [Released(old, st) EXCEPT ![b] = "scheduled"]
      /\ sched' = [j \in Key |-> IF j = k THEN armed
                                 ELSE IF outdone THEN [slots[j] EXCEPT !.sent = FALSE] ELSE slots[j]]
      /\ parked' = IF sends THEN queue \cup {new} ELSE queue
  BY DEF Schedule
<1>2. /\ DropTypes /\ b \in Button /\ slots \in [Key -> SlotType] /\ st \in [Button -> States]
      /\ old \in Button \cup {0} /\ sends \in BOOLEAN /\ outdone \in BOOLEAN
      /\ at \in Nat /\ at > 0 /\ at \in 0 .. Horizon
  <2>1. DropTypes
    BY DEF DropInv
  <2>2. slots \in [Key -> SlotType] /\ st \in [Button -> States] /\ b \in Button
    BY <1>1, <2>1, DropHalf DEF DropTypes, Presses
  <2>3. sends \in BOOLEAN /\ outdone \in BOOLEAN
    BY DEF MayPark, Outdone
  <2>4. at \in Nat /\ at > 0 /\ at \in 0 .. Horizon
    BY DropNumbers
  <2>. QED BY <2>1, <2>2, <2>3, <2>4, DropSlot
<1>3. /\ Released(old, st) \in [Button -> States]
      /\ \A c \in Button : c # old => Released(old, st)[c] = st[c]
  BY <1>2, DropReleases
<1>4. /\ queue \subseteq parked
      /\ \A e \in queue : (old # 0 => e.button # old) /\ (outdone => e.button # slots["fade"].button)
      /\ \A e \in parked : e.button # old /\ (outdone => e.button # slots["fade"].button) => e \in queue
  BY DEF Bumped, Without
<1>5. outdone => k = "hard" /\ slots["fade"].button \notin {0, b} /\ slots["fade"].at >= at
  BY DEF Outdone
<1>6. sends /\ k = "fade" => slots["hard"].button \in {0, b} \/ ~(slots["hard"].at <= at)
  BY DEF MayPark
<1>. HIDE DEF outdone, sends, queue
<1>7. /\ state' \in [Button -> States] /\ state'[b] = "scheduled"
      /\ \A c \in Button : c \notin {b, old} => state'[c] = st[c]
      /\ new \in [button : Button, at : 0 .. Horizon] /\ armed \in SlotType
      /\ new.button = b /\ new.at = at /\ armed.button = b /\ armed.at = at /\ armed.sent = sends
  BY <1>1, <1>2, <1>3 DEF States, SlotType
<1>. HIDE DEF armed, new
<1>8. ASSUME NEW j \in Key
      PROVE  /\ j = k => sched'[j] = armed
             /\ j # k /\ ~outdone => sched'[j] = slots[j]
             /\ j # k => sched'[j].button = slots[j].button /\ sched'[j].at = slots[j].at
             /\ j # k /\ outdone => sched'[j].sent = FALSE
             /\ sched'[j] \in SlotType
  <2>1. slots[j] \in SlotType
    BY <1>2, DropSlot
  <2>2. /\ [slots[j] EXCEPT !.sent = FALSE] \in SlotType
        /\ [slots[j] EXCEPT !.sent = FALSE].sent = FALSE
        /\ [slots[j] EXCEPT !.sent = FALSE].button = slots[j].button
        /\ [slots[j] EXCEPT !.sent = FALSE].at = slots[j].at
    BY <2>1 DEF SlotType
  <2>3. sched'[j] = IF j = k THEN armed ELSE IF outdone THEN [slots[j] EXCEPT !.sent = FALSE] ELSE slots[j]
    BY <1>1
  <2>. QED BY <1>7, <2>1, <2>2, <2>3
<1>9. sched' \in [Key -> SlotType]
  BY <1>1, <1>8
<1>10. parked' \subseteq [button : Button, at : 0 .. Horizon]
  BY <1>1, <1>2, <1>4, <1>7 DEF DropTypes
<1>11. ASSUME slots = sched, st = state, SlotKept
       PROVE  \A j \in Key : /\ sched[j].button # b
                             /\ j # k /\ Armed(sched, j) => sched[j].button \notin {old, b}
                             /\ Armed(sched, j) => sched[j].button \in Button
  <2>1. \A j \in Key : Armed(sched, j) => state[sched[j].button] = "scheduled"
    BY <1>11 DEF SlotKept
  <2>2. \A j \in Key : sched[j].button # b
    BY <1>1, <1>2, <1>11, <2>1, DropNumbers DEF Armed
  <2>3. \A j \in Key : j # k /\ Armed(sched, j) => sched[j].button # old
    <3>1. Armed(sched, "hard") => sched["hard"].button # sched["fade"].button
      BY <1>11 DEF SlotKept
    <3>2. Armed(sched, "fade") => sched["hard"].button # sched["fade"].button
      BY <3>1 DEF Armed
    <3>. QED BY <1>11, <3>1, <3>2, DropNumbers
  <2>4. \A j \in Key : sched[j].button \in Button \cup {0}
    BY <1>2, DropSlot DEF DropTypes
  <2>. QED BY <2>2, <2>3, <2>4 DEF Armed
<1>12. ASSUME slots = sched, st = state, SlotKept PROVE SlotKept'
  <2>1. ASSUME NEW j \in Key
        PROVE  /\ Armed(sched, j)' => state'[sched'[j].button] = "scheduled"
               /\ sched'[j].sent => Armed(sched, j)'
    <3>1. CASE j = k
      <4>1. sched'[j].button = b /\ b # 0
        BY <1>2, <1>7, <1>8, <3>1, DropNumbers
      <4>. QED BY <1>7, <4>1 DEF Armed
    <3>2. CASE j # k
      <4>1. Armed(sched, j)' = Armed(sched, j) /\ (sched'[j].sent => sched[j].sent)
        BY <1>8, <1>12, <3>2, <1>2 DEF Armed
      <4>2. Armed(sched, j) => state'[sched[j].button] = "scheduled"
        BY <1>7, <1>11, <1>12, <3>2 DEF SlotKept
      <4>. QED BY <1>8, <1>12, <3>2, <4>1, <4>2 DEF SlotKept
    <3>. QED BY <3>1, <3>2
  <2>2. Armed(sched, "hard")' => sched'["hard"].button # sched'["fade"].button
    <3>1. CASE k = "hard"
      <4>1. sched'["hard"].button = b /\ sched'["fade"].button = sched["fade"].button
        BY <1>7, <1>8, <1>12, <3>1, DropNumbers
      <4>. QED BY <1>11, <1>12, <4>1, DropNumbers
    <3>2. CASE k = "fade"
      <4>1. sched'["fade"].button = b /\ sched'["hard"].button = sched["hard"].button
        BY <1>7, <1>8, <1>12, <3>2, DropNumbers
      <4>. QED BY <1>11, <1>12, <4>1, DropNumbers
    <3>. QED BY <3>1, <3>2, DropNumbers
  <2>. QED BY <2>1, <2>2 DEF SlotKept
<1>13. ASSUME slots = sched, st = state, SlotKept, NEW e \in queue, NEW j \in Key,
              sched[j].sent, sched[j].button = e.button
       PROVE  j # k /\ ~outdone /\ sched'[j] = sched[j]
  <2>1. Armed(sched, j)
    BY <1>13 DEF SlotKept
  <2>2. j # k
    BY <1>4, <1>13, <2>1 DEF Armed
  <2>3. ~outdone
    BY <1>4, <1>5, <1>13, <2>2, DropNumbers
  <2>. QED BY <1>8, <1>13, <2>2, <2>3
<1>14. ASSUME slots = sched, st = state, SlotKept, QueueKept PROVE QueueKept'
  <2>1. ASSUME NEW e \in queue, e.at > 0
        PROVE  /\ \E j \in Key : sched'[j].button = e.button /\ sched'[j].sent /\ e.at <= sched'[j].at
               /\ e.button # b
    <3>1. PICK j \in Key : sched[j].button = e.button /\ sched[j].sent /\ e.at <= sched[j].at
      BY <1>4, <1>14, <2>1 DEF QueueKept
    <3>. QED BY <1>11, <1>13, <1>14, <2>1, <3>1
  <2>2. sends => sched'[k].button = new.button /\ sched'[k].sent /\ new.at <= sched'[k].at
    <3>1. sched'[k] = armed /\ new.button = b /\ new.at = at /\ armed.button = b /\ armed.at = at
      BY <1>7, <1>8
    <3>2. sends => armed.sent
      BY <1>7
    <3>. QED BY <1>2, <3>1, <3>2
  <2>3. ASSUME NEW e \in parked', e.at > 0
        PROVE  \E j \in Key : sched'[j].button = e.button /\ sched'[j].sent /\ e.at <= sched'[j].at
    BY <1>1, <2>1, <2>2, <2>3
  <2>4. ASSUME NEW e \in parked', NEW g \in parked', e.button = g.button, e.at > 0, g.at > 0 PROVE e = g
    BY <1>1, <1>4, <1>7, <1>14, <2>1, <2>4 DEF QueueKept
  <2>. QED BY <2>3, <2>4 DEF QueueKept
<1>15. ASSUME slots = sched, st = state, SlotKept, DropPlan, DropCount
       PROVE  DropPlan' /\ (ticks = 0 => \A j \in Key : ~Due(j)') /\ (Early' => ticks = 0)
  <2>1. Of(k)' = new
    BY <1>7, <1>8 DEF Of, new
  <2>2. ASSUME NEW e \in parked' PROVE e.at > 0 /\ \E j \in Key : sched'[j].sent /\ e = Of(j)'
    <3>1. CASE e \in queue
      <4>1. PICK j \in Key : e.at > 0 /\ sched[j].sent /\ e = Of(j)
        BY <1>4, <1>15, <3>1 DEF DropPlan
      <4>2. sched'[j] = sched[j]
        BY <1>13, <1>15, <3>1, <4>1 DEF Of
      <4>. QED BY <4>1, <4>2 DEF Of
    <3>2. CASE e = new /\ sends
      BY <1>2, <1>7, <1>8, <2>1, <3>2
    <3>. QED BY <1>1, <2>2, <3>1, <3>2
  <2>3. sched'["hard"].sent => \/ Of("hard")' \in parked'
                               \/ k # "hard" /\ sched["hard"].sent /\ sched'["hard"] = sched["hard"]
    BY <1>1, <1>5, <1>7, <1>8, <1>15, <2>1, DropNumbers
  <2>4. k # "hard" /\ sched["hard"].sent /\ Of("hard") \in parked => Of("hard") \in parked'
    <3>1. k # "hard" /\ sched["hard"].sent => Of("hard").button # old /\ ~outdone
      BY <1>5, <1>11, <1>15, DropNumbers DEF SlotKept, Of
    <3>. QED BY <1>1, <1>4, <3>1
  <2>5. sched'["hard"] = sched["hard"] => Of("hard")' = Of("hard")
    BY DEF Of
  <2>6. sched'["hard"].sent /\ Of("hard")' \notin parked' =>
          /\ sched["hard"].sent /\ Of("hard") \notin parked /\ sched'["hard"] = sched["hard"]
    BY <2>3, <2>4, <2>5
  <2>7. Armed(sched, "hard")' /\ sched'["fade"].sent => sched'["fade"].at < sched'["hard"].at
    <3>1. CASE k = "hard"
      <4>1. sched'["fade"].sent => ~outdone /\ sched["fade"].sent /\ sched'["fade"] = sched["fade"]
        BY <1>8, <1>15, <3>1, DropNumbers
      <4>2. ~outdone /\ sched["fade"].sent => ~(sched["fade"].at >= at)
        BY <1>11, <1>15, <3>1, DropNumbers DEF SlotKept, outdone, Outdone, Armed
      <4>3. sched["fade"].at \in Nat
        BY <1>2, DropNumbers, DropSlot DEF DropTypes
      <4>4. sched'["hard"] = armed /\ armed.at = at
        BY <1>7, <1>8, <3>1
      <4>. QED BY <1>2, <4>1, <4>2, <4>3, <4>4
    <3>2. CASE k = "fade"
      <4>1. sched'["fade"] = armed /\ sched'["hard"] = sched["hard"]
        BY <1>5, <1>8, <1>15, <3>2, DropNumbers
      <4>2. Armed(sched, "hard") /\ sends => ~(sched["hard"].at <= at)
        BY <1>6, <1>11, <1>15, <3>2, DropNumbers DEF Armed
      <4>3. sched["hard"].at \in Nat
        BY <1>2, DropNumbers, DropSlot DEF DropTypes
      <4>4. (sched'["fade"].sent => sends) /\ sched'["fade"].at = at
        BY <1>7, <4>1
      <4>5. Armed(sched, "hard")' => Armed(sched, "hard")
        BY <4>1 DEF Armed
      <4>. QED BY <1>2, <4>1, <4>2, <4>3, <4>4, <4>5
    <3>. QED BY <3>1, <3>2, DropNumbers
  <2>8. DropPlan'
    BY <1>1, <1>15, <2>2, <2>6, <2>7 DEF DropPlan
  <2>9. \A j \in Key : Due(j)' => Due(j)
    <3>1. ~Due(k)'
      <4>1. sched'[k].at = at
        BY <1>7, <1>8
      <4>. QED BY <1>2, <4>1 DEF Due
    <3>2. \A j \in Key : j # k => sched'[j].button = sched[j].button /\ sched'[j].at = sched[j].at
      BY <1>8, <1>15
    <3>. QED BY <3>1, <3>2 DEF Due, Armed
  <2>10. Early' => Early
    BY <2>6 DEF Early
  <2>. QED BY <1>15, <2>8, <2>9, <2>10 DEF DropCount
<1>. QED BY <1>1, <1>7, <1>9, <1>10, <1>12, <1>14, <1>15, DropPressed

\* The plugin takes a sixteenth from its queue.
LEMMA DropReads ==
  ASSUME DropAssumption, DropInv, TickReads
  PROVE  DropInv'
<1>1. /\ ticks > 0 /\ ticks' = ticks - 1 /\ half["plugin"] = AtRest /\ UNCHANGED <<state, sched, parked>>
      /\ DropTypes /\ ticks' \in Nat
  BY DEF TickReads, DropInv, DropTypes
<1>2. CASE sched = Clear
  <2>1. UNCHANGED <<half, alone, steady, last>>
    BY <1>2 DEF TickReads
  <2>2. \A k \in Key : ~Armed(sched, k) /\ ~sched[k].sent /\ ~Due(k)
    BY <1>2, DropOpen DEF Armed, Due
  <2>3. DropTypes'
    BY <1>1, <2>1 DEF DropTypes
  <2>4. alone' => HalfKept' /\ SlotKept' /\ QueueKept' /\ LandKept'
    BY <1>1, <2>1 DEF DropInv, HalfKept, SlotKept, QueueKept, LandKept, Armed
  <2>5. ASSUME steady' PROVE alone' /\ DropPlan' /\ DropTime'
    <3>1. alone /\ DropPlan
      BY <2>1, <2>5 DEF DropInv
    <3>2. DropPlan' /\ ~Early' /\ \A k \in Key : ~Due(k)'
      BY <1>1, <2>1, <2>2, <3>1, DropNumbers DEF DropPlan, Early, Due, Of, Armed
    <3>3. half'["plugin"].job = "rest"
      BY <1>1, <2>1, DropOpen
    <3>. QED BY <2>1, <3>1, <3>2, <3>3 DEF DropTime, DropCount
  <2>. QED BY <2>3, <2>4, <2>5 DEF DropInv
<1>3. CASE sched # Clear
  <2>. DEFINE h == [job |-> "tick", button |-> 0, slots |-> sched,
                    lands |-> {k \in Key : Armed(sched, k) /\ sched[k].at = 0},
                    states |-> [b \in Button |-> "idle"]]
  <2>1. Begins("plugin", h)
    BY <1>3 DEF TickReads
  <2>2. h \in Halves /\ h.job = "tick" /\ h.slots = sched /\ h.lands = {k \in Key : Due(k)}
    BY <1>1 DEF Halves, States, DropTypes, Due
  <2>3. ticks # 0
    BY <1>1
  <2>. HIDE DEF h
  <2>. QED BY <1>1, <2>1, <2>2, <2>3, DropBegins, DropNumbers
<1>. QED BY <1>2, <1>3

\* A press begins.
LEMMA DropPresses ==
  ASSUME DropAssumption, DropInv, NEW t \in Thread, NEW b \in Button, PressReads(t, b)
  PROVE  DropInv'
<1>. DEFINE h == [job |-> "press", button |-> b, slots |-> sched, lands |-> {}, states |-> state]
<1>1. Begins(t, h) /\ UNCHANGED <<state, sched, parked, ticks>> /\ DropTypes
  BY DEF PressReads, DropInv
<1>2. h \in Halves /\ h.job = "press" /\ h.button \in Button /\ h.slots = sched /\ h.states = state
  BY <1>1 DEF Halves, DropTypes
<1>3. ticks' \in Nat
  BY <1>1 DEF DropTypes
<1>. HIDE DEF h
<1>. QED BY <1>1, <1>2, <1>3, DropBegins

\* The slots that were due are served: the drop first, and the riser ends with it.
LEMMA DropWrites ==
  ASSUME DropAssumption, DropInv, TickWrites
  PROVE  DropInv' /\ DropStep
<1>. DEFINE slots == half["plugin"].slots
            lands == half["plugin"].lands
            hard == slots["hard"]
            fade == slots["fade"]
<1>1. /\ half["plugin"].job = "tick" /\ Ends("plugin")
      /\ \/ /\ "hard" \in lands /\ Sent(hard)
            /\ sched' = Clear /\ parked' = Bumped(fade.button)
            /\ state' = Released(fade.button, Released(hard.button, state))
         \/ /\ lands = {"fade"} /\ Sent(fade)
            /\ sched' = [slots EXCEPT !["fade"] = Open] /\ UNCHANGED parked
            /\ state' = Released(fade.button, state)
         \/ /\ lands = {}
            /\ sched' \in {slots, sched} /\ UNCHANGED <<state, parked>>
            /\ Heard(last) \/ (Armed(slots, "fade") /\ Heard(0))
  BY DEF TickWrites
<1>2. /\ DropTypes /\ slots \in [Key -> SlotType] /\ lands \in SUBSET Key
      /\ hard.button \in Button \cup {0} /\ fade.button \in Button \cup {0}
  <2>1. DropTypes
    BY DEF DropInv
  <2>2. slots \in [Key -> SlotType] /\ lands \in SUBSET Key
    BY <2>1, DropHalf, DropNumbers
  <2>. QED BY <2>1, <2>2, DropNumbers, DropSlot
<1>3. /\ UNCHANGED <<ticks, alone, steady>> /\ half' \in [Thread -> Halves] /\ half'["web"].job # "tick"
      /\ half'["plugin"].job = "rest"
      /\ \A u \in Thread : half'[u].job = "press" => half'[u].button \in Button
      /\ alone => HalfKept' /\ LandKept' /\ slots = sched /\ SlotKept /\ QueueKept /\ LandKept
      /\ steady => alone /\ DropPlan /\ lands = {k \in Key : Due(k)} /\ ~Early
  <2>1. alone => LandKept
    BY DEF DropInv
  <2>2. steady => lands = {k \in Key : Due(k)} /\ ~Early
    BY <1>1 DEF DropInv, DropTime
  <2>. QED BY <1>1, <2>1, <2>2, DropEnds, DropNumbers
<1>4. \A st \in [Button -> States], b \in Button \cup {0} :
         Released(b, st) \in [Button -> States] /\ \A c \in Button : c # b => Released(b, st)[c] = st[c]
  BY DropReleases
<1>. HIDE DEF slots, lands, hard, fade
<1>5. CASE "hard" \in lands /\ Sent(hard) /\ sched' = Clear /\ parked' = Bumped(fade.button)
           /\ state' = Released(fade.button, Released(hard.button, state))
  <2>1. parked' \subseteq parked /\ \A e \in parked' : fade.button # 0 => e.button # fade.button
    BY <1>5 DEF Bumped, Without
  <2>2. DropTypes'
    <3>1. state' \in [Button -> States]
      BY <1>2, <1>4, <1>5 DEF DropTypes
    <3>. QED BY <1>2, <1>3, <1>5, <2>1, <3>1, DropOpen DEF DropTypes
  <2>3. \A k \in Key : ~Armed(sched, k)' /\ ~sched'[k].sent /\ ~Due(k)'
    BY <1>5, DropOpen DEF Armed, Due
  <2>4. ASSUME alone, NEW e \in parked', e.at > 0 PROVE FALSE
    <3>1. PICK k \in Key : sched[k].button = e.button /\ sched[k].sent /\ e.at <= sched[k].at
      BY <1>3, <2>1, <2>4 DEF QueueKept
    <3>2. k # "fade"
      BY <1>3, <2>1, <2>4, <3>1 DEF SlotKept, Armed, fade
    <3>3. e.at = 0
      BY <1>1, <1>3, <1>5, <2>1, <2>4, <3>1, <3>2, DropNumbers DEF LandKept, lands
    <3>. QED BY <2>4, <3>3
  <2>5. alone' => HalfKept' /\ SlotKept' /\ QueueKept' /\ LandKept'
    <3>1. SlotKept'
      BY <2>3, DropNumbers DEF SlotKept
    <3>2. alone => QueueKept'
      BY <2>4 DEF QueueKept
    <3>. QED BY <1>3, <3>1, <3>2
  <2>6. steady => parked' = {}
    BY <1>3, <2>1, <2>4 DEF DropPlan
  <2>7. ASSUME steady PROVE alone' /\ DropPlan' /\ DropTime'
    <3>1. DropPlan'
      BY <2>3, <2>6, <2>7, DropNumbers DEF DropPlan
    <3>2. DropTime'
      BY <1>3, <2>3, DropNumbers DEF DropTime, DropCount, Early
    <3>. QED BY <1>3, <2>7, <3>1, <3>2
  <2>8. DropInv'
    BY <1>3, <2>2, <2>5, <2>7 DEF DropInv
  <2>9. ASSUME steady PROVE last' \in {hard.button, 0}
    <3>1. Due("hard") /\ slots = sched /\ hard = sched["hard"]
      BY <1>3, <1>5, <2>9 DEF hard, slots
    <3>2. last' = IF hard.sent THEN last ELSE hard.button
      BY <1>3, <1>5, <2>9 DEF Sent, Heard
    <3>3. hard.sent => last \in {hard.button, 0}
      <4>1. ASSUME Of("hard") \in parked PROVE FALSE
        <5>1. Of("hard").at > 0 /\ Of("hard").at = sched["hard"].at
          BY <1>3, <2>9, <4>1 DEF DropPlan, Of
        <5>. QED BY <3>1, <5>1 DEF Due
      <4>. QED BY <1>3, <2>9, <3>1, <4>1 DEF DropPlan
    <3>. QED BY <3>2, <3>3
  <2>. QED BY <1>5, <2>6, <2>8, <2>9 DEF DropStep, hard, slots
<1>6. CASE lands = {"fade"} /\ Sent(fade) /\ sched' = [slots EXCEPT !["fade"] = Open] /\ UNCHANGED parked
           /\ state' = Released(fade.button, state)
  <2>1. sched'["fade"] = Open /\ sched'["hard"] = slots["hard"] /\ sched' \in [Key -> SlotType]
    BY <1>2, <1>6, DropOpen, DropNumbers
  <2>2. DropTypes'
    <3>1. state' \in [Button -> States]
      BY <1>2, <1>4, <1>6 DEF DropTypes
    <3>. QED BY <1>2, <1>3, <1>6, <2>1, <3>1 DEF DropTypes
  <2>3. ~Armed(sched, "fade")' /\ ~sched'["fade"].sent /\ ~Due("fade")'
    BY <2>1, DropOpen DEF Armed, Due
  <2>4. ASSUME alone PROVE SlotKept' /\ QueueKept'
    <3>1. sched'["hard"] = sched["hard"] /\ slots = sched /\ SlotKept /\ QueueKept /\ LandKept
      BY <1>3, <2>1, <2>4
    <3>2. Armed(sched, "hard") => /\ sched["hard"].button \in Button /\ sched["hard"].button # fade.button
                                  /\ state[sched["hard"].button] = "scheduled"
      BY <1>2, <3>1, DropNumbers, DropSlot DEF SlotKept, Armed, DropTypes, fade
    <3>3. Armed(sched, "hard") => state'[sched["hard"].button] = "scheduled"
      BY <1>2, <1>4, <1>6, <3>2 DEF DropTypes
    <3>4. SlotKept'
      BY <2>1, <2>3, <3>1, <3>3, DropNumbers, DropOpen DEF SlotKept, Armed
    <3>5. ASSUME NEW e \in parked, e.at > 0
          PROVE  sched["hard"].button = e.button /\ sched["hard"].sent /\ e.at <= sched["hard"].at
      <4>1. PICK k \in Key : sched[k].button = e.button /\ sched[k].sent /\ e.at <= sched[k].at
        BY <3>1, <3>5 DEF QueueKept
      <4>2. k # "fade"
        BY <1>1, <1>6, <3>1, <3>5, <4>1 DEF LandKept, lands
      <4>. QED BY <4>1, <4>2, DropNumbers
    <3>6. QueueKept'
      BY <1>6, <3>1, <3>5, DropNumbers DEF QueueKept
    <3>. QED BY <3>4, <3>6
  <2>5. ASSUME steady PROVE DropPlan' /\ DropTime'
    <3>1. /\ sched'["hard"] = sched["hard"] /\ slots = sched /\ DropPlan /\ ~Early /\ SlotKept
          /\ \A k \in Key : Due(k) => k = "fade"
      BY <1>3, <1>6, <2>1, <2>5
    <3>2. Due("fade")
      BY <1>3, <1>6, <2>5
    <3>3. /\ Of("hard")' = Of("hard") /\ Due("hard")' = Due("hard") /\ Early' = Early
          /\ ~Due("hard")
      BY <1>6, <3>1, DropNumbers DEF Of, Due, Early, Armed
    <3>4. ASSUME NEW e \in parked' PROVE e.at > 0 /\ \E k \in Key : sched'[k].sent /\ e = Of(k)'
      <4>1. PICK k \in Key : e.at > 0 /\ sched[k].sent /\ e = Of(k)
        BY <1>6, <3>1, <3>4 DEF DropPlan
      <4>2. k # "fade"
        BY <3>2, <4>1 DEF Due, Of
      <4>. QED BY <3>1, <3>3, <4>1, <4>2, DropNumbers
    <3>5. sched["hard"].sent => Of("hard") \in parked
      <4>1. sched["hard"].sent => Armed(sched, "hard") /\ sched["hard"].at # 0 /\ sched["hard"].at \in Nat
        BY <1>2, <3>1, <3>3, DropNumbers, DropSlot DEF SlotKept, Due, DropTypes
      <4>. QED BY <3>1, <4>1 DEF DropPlan, Early
    <3>6. DropPlan'
      BY <1>6, <2>3, <3>1, <3>3, <3>4, <3>5 DEF DropPlan
    <3>7. \A k \in Key : ~Due(k)'
      BY <2>3, <3>3, DropNumbers
    <3>. QED BY <1>3, <3>1, <3>3, <3>6, <3>7 DEF DropTime, DropCount
  <2>6. DropInv'
    BY <1>3, <2>2, <2>4, <2>5 DEF DropInv
  <2>. QED BY <1>6, <2>6 DEF DropStep, lands
<1>7. CASE lands = {} /\ sched' \in {slots, sched} /\ UNCHANGED <<state, parked>>
           /\ (Heard(last) \/ (Armed(slots, "fade") /\ Heard(0)))
  <2>1. DropTypes'
    BY <1>2, <1>3, <1>7 DEF DropTypes
  <2>2. alone => sched' = sched
    BY <1>3, <1>7
  <2>3. alone => SlotKept' /\ QueueKept'
    BY <1>3, <1>7, <2>2 DEF SlotKept, QueueKept, Armed
  <2>4. ASSUME steady PROVE DropPlan' /\ DropTime'
    <3>1. DropPlan /\ ~Early /\ sched' = sched /\ UNCHANGED parked /\ last' \in {last, 0} /\ \A k \in Key : ~Due(k)
      BY <1>3, <1>7, <2>2, <2>4 DEF Heard
    <3>2. DropPlan' /\ ~Early' /\ \A k \in Key : ~Due(k)'
      BY <3>1 DEF DropPlan, Early, Due, Of, Armed
    <3>. QED BY <1>3, <3>2 DEF DropTime, DropCount
  <2>5. DropInv'
    BY <1>3, <2>1, <2>3, <2>4 DEF DropInv
  <2>. QED BY <1>7, <2>5 DEF DropStep, lands
<1>. QED BY <1>1, <1>5, <1>6, <1>7 DEF slots, lands, hard, fade

\* The queue delivers.
LEMMA DropDelivers ==
  ASSUME DropAssumption, DropInv, NEW e \in parked, Deliver(e)
  PROVE  DropInv'
<1>1. /\ parked' = parked \ {e} /\ UNCHANGED <<state, sched, half, ticks, alone>>
      /\ steady' = (steady /\ e.at = 1 /\ ticks = 0 /\ half["plugin"] = AtRest)
      /\ last' = IF steady' THEN e.button ELSE 0
  BY DEF Deliver, Heard
<1>2. DropTypes'
  BY <1>1 DEF DropInv, DropTypes
<1>3. alone' => HalfKept' /\ SlotKept' /\ QueueKept' /\ LandKept'
  BY <1>1 DEF DropInv, HalfKept, SlotKept, QueueKept, LandKept, Armed
<1>4. ASSUME steady' PROVE alone' /\ DropPlan' /\ DropTime'
  <2>1. /\ steady /\ e.at = 1 /\ ticks = 0 /\ last' = e.button /\ half["plugin"].job = "rest"
        /\ alone /\ DropPlan /\ DropTime /\ SlotKept
    BY <1>1, <1>4, DropOpen DEF DropInv
  <2>2. \A k : /\ Of(k)' = Of(k) /\ Due(k)' = Due(k) /\ Armed(sched, k)' = Armed(sched, k)
    BY <1>1 DEF Of, Due, Armed
  <2>3. PICK k \in Key : sched[k].sent /\ e = Of(k)
    BY <2>1 DEF DropPlan
  <2>4. CASE k = "hard"
    <3>1. sched["hard"].at = 1 /\ last' = sched["hard"].button
      BY <2>1, <2>3, <2>4 DEF Of
    <3>2. DropPlan'
      BY <1>1, <2>1, <2>2, <3>1 DEF DropPlan
    <3>. QED BY <1>1, <2>1, <2>2, <3>2 DEF DropTime, DropCount
  <2>5. CASE k = "fade"
    <3>1. sched["fade"].sent /\ sched["fade"].at = 1
      BY <2>1, <2>3, <2>5 DEF Of
    <3>2. ASSUME sched["hard"].sent PROVE Of("hard") \in parked'
      <4>1. Armed(sched, "hard") /\ ~(sched["hard"].at <= 1) /\ Of("hard") # e
        <5>1. Armed(sched, "hard") /\ sched["fade"].at < sched["hard"].at
          BY <2>1, <3>1, <3>2, DropNumbers DEF SlotKept, DropPlan
        <5>2. sched["hard"].at \in Nat
          BY <3>1, DropNumbers, DropSlot DEF DropInv, DropTypes
        <5>3. Of("hard").at = sched["hard"].at
          BY DEF Of
        <5>. QED BY <2>1, <3>1, <5>1, <5>2, <5>3
      <4>. QED BY <1>1, <2>1, <3>2, <4>1 DEF DropPlan
    <3>3. DropPlan'
      BY <1>1, <2>1, <2>2, <3>2 DEF DropPlan
    <3>4. ~Early'
      BY <1>1, <2>2, <3>2 DEF Early
    <3>. QED BY <1>1, <2>1, <2>2, <3>3, <3>4 DEF DropTime, DropCount
  <2>. QED BY <1>1, <2>1, <2>3, <2>4, <2>5, DropNumbers
<1>. QED BY <1>2, <1>3, <1>4 DEF DropInv

\* The plugin's half of a call keeps up with the count.
LEMMA DropKeepsUp ==
  ASSUME DropAssumption, DropTypes, HalfKept, half["web"] = AtRest, NEW slots \in [Key -> SlotType],
         half' = [half EXCEPT !["plugin"].slots = slots], state' = state,
         half["plugin"].job # "rest" => sched' = slots
  PROVE  HalfKept'
<1>1. /\ half'["web"] = half["web"] /\ half'["plugin"] = [half["plugin"] EXCEPT !.slots = slots]
      /\ half["plugin"] \in Halves
  BY DropHalf, DropNumbers DEF DropTypes
<1>2. /\ half'["plugin"].job = half["plugin"].job /\ half'["plugin"].slots = slots
      /\ half'["plugin"].states = half["plugin"].states
  BY <1>1 DEF Halves
<1>3. half'["web"].job = "rest"
  BY <1>1, DropOpen
<1>. QED BY <1>1, <1>2, <1>3, DropNumbers DEF HalfKept

\* And its types.
LEMMA DropShifts ==
  ASSUME DropAssumption, DropTypes, NEW slots \in [Key -> SlotType],
         half' = [half EXCEPT !["plugin"].slots = slots]
  PROVE  /\ half' \in [Thread -> Halves] /\ half'["web"].job # "tick"
         /\ \A t \in Thread : half'[t].job = "press" => half'[t].button \in Button
         /\ half'["plugin"].job = half["plugin"].job /\ half'["plugin"].lands = half["plugin"].lands
<1>1. /\ half'["web"] = half["web"] /\ half'["plugin"] = [half["plugin"] EXCEPT !.slots = slots]
      /\ half["plugin"] \in Halves /\ DOMAIN half' = Thread
  BY DropHalf, DropNumbers DEF DropTypes
<1>2. [half["plugin"] EXCEPT !.slots = slots] \in Halves
  BY <1>1 DEF Halves
<1>3. /\ half'["plugin"].job = half["plugin"].job /\ half'["plugin"].lands = half["plugin"].lands
      /\ half'["plugin"].button = half["plugin"].button
  BY <1>1 DEF Halves
<1>4. half' \in [Thread -> Halves]
  <2>1. \A t \in Thread : half'[t] \in Halves
    BY <1>1, <1>2, DropNumbers DEF DropTypes
  <2>. QED BY <2>1 DEF DropTypes
<1>. QED BY <1>1, <1>3, <1>4, DropNumbers DEF DropTypes

\* START moves the slots, and leaves the queue where it is.
LEMMA DropRestarts ==
  ASSUME DropAssumption, DropInv, NEW d \in 1 .. Horizon, Restart(d)
  PROVE  DropInv'
<1>. DEFINE slots == half["plugin"].slots
<1>1. /\ half["web"] = AtRest /\ UNCHANGED <<state, parked, alone>> /\ ticks' = 0 /\ steady' = FALSE
      /\ sched' = Later(sched, d) /\ half' = [half EXCEPT !["plugin"].slots = Later(slots, d)]
      /\ \A k \in Key : sched[k].at + d <= Horizon /\ slots[k].at + d <= Horizon
  BY DEF Restart
<1>2. DropTypes /\ sched \in [Key -> SlotType] /\ slots \in [Key -> SlotType]
  BY DropHalf, DropNumbers DEF DropInv, DropTypes
<1>3. /\ sched' \in [Key -> SlotType] /\ Later(slots, d) \in [Key -> SlotType]
      /\ \A k \in Key : /\ sched'[k].button = sched[k].button /\ sched'[k].sent = sched[k].sent
                        /\ sched'[k].at >= sched[k].at
                        /\ Armed(sched, k)' = Armed(sched, k)
  BY <1>1, <1>2, DropMoves DEF Armed
<1>4. /\ half' \in [Thread -> Halves] /\ half'["web"].job # "tick"
      /\ \A t \in Thread : half'[t].job = "press" => half'[t].button \in Button
      /\ half'["plugin"].job = half["plugin"].job /\ half'["plugin"].lands = half["plugin"].lands
  BY <1>1, <1>2, <1>3, DropShifts
<1>5. DropTypes'
  BY <1>1, <1>2, <1>3, <1>4 DEF DropTypes
<1>6. ASSUME alone PROVE HalfKept' /\ SlotKept' /\ QueueKept' /\ LandKept'
  <2>1. HalfKept /\ SlotKept /\ QueueKept /\ LandKept
    BY <1>6 DEF DropInv
  <2>2. HalfKept'
    BY <1>1, <1>2, <1>3, <2>1, DropKeepsUp, DropNumbers DEF HalfKept
  <2>3. SlotKept'
    BY <1>1, <1>3, <2>1, DropNumbers DEF SlotKept
  <2>4. ASSUME NEW e \in parked, e.at > 0
        PROVE  \E k \in Key : sched'[k].button = e.button /\ sched'[k].sent /\ e.at <= sched'[k].at
    <3>1. PICK k \in Key : sched[k].button = e.button /\ sched[k].sent /\ e.at <= sched[k].at
      BY <2>1, <2>4 DEF QueueKept
    <3>2. e.at \in Nat /\ sched[k].at \in Nat /\ sched'[k].at \in Nat
      BY <1>2, <1>3, DropNumbers, DropSlot DEF DropTypes
    <3>. QED BY <1>3, <3>1, <3>2
  <2>5. QueueKept'
    BY <1>1, <2>1, <2>4 DEF QueueKept
  <2>6. half["plugin"].lands \subseteq Key
    BY <1>2, DropHalf, DropNumbers
  <2>7. LandKept'
    BY <1>1, <1>3, <1>4, <2>1, <2>6 DEF LandKept
  <2>. QED BY <2>2, <2>3, <2>5, <2>7
<1>. QED BY <1>1, <1>5, <1>6 DEF DropInv

\* A sixteenth of the clock.
LEMMA DropTicks ==
  ASSUME DropAssumption, DropInv, Tick
  PROVE  DropInv'
<1>. DEFINE slots == half["plugin"].slots
            moved(e) == [e EXCEPT !.at = Sooner(e.at)]
<1>1. /\ half["web"] = AtRest /\ UNCHANGED <<state, alone>>
      /\ ticks' = IF ticks < Backlog THEN ticks + 1 ELSE ticks
      /\ sched' = Closer(sched) /\ half' = [half EXCEPT !["plugin"].slots = Closer(slots)]
      /\ parked' = {moved(e) : e \in parked}
      /\ steady' = (steady /\ ticks = 0 /\ NoneAtWork /\ \A e \in parked : e.at > 1)
      /\ steady' => last' = last
  BY DEF Tick, Heard
<1>2. DropTypes /\ sched \in [Key -> SlotType] /\ slots \in [Key -> SlotType]
  BY DropHalf, DropNumbers DEF DropInv, DropTypes
<1>3. /\ sched' \in [Key -> SlotType] /\ Closer(slots) \in [Key -> SlotType]
      /\ \A k \in Key : /\ sched'[k].button = sched[k].button /\ sched'[k].sent = sched[k].sent
                        /\ sched'[k].at = IF sched[k].at = 0 THEN 0 ELSE sched[k].at - 1
                        /\ sched[k].at \in Nat
                        /\ Armed(sched, k)' = Armed(sched, k)
  BY <1>1, <1>2, DropMoves, DropSlot, DropNumbers DEF Armed, Sooner
<1>4. /\ half' \in [Thread -> Halves] /\ half'["web"].job # "tick"
      /\ \A t \in Thread : half'[t].job = "press" => half'[t].button \in Button
      /\ half'["plugin"].job = half["plugin"].job /\ half'["plugin"].lands = half["plugin"].lands
  BY <1>1, <1>2, <1>3, DropShifts
<1>5. ASSUME NEW e \in parked
      PROVE  /\ moved(e) \in [button : Button, at : 0 .. Horizon] /\ moved(e).button = e.button
             /\ moved(e).at = (IF e.at = 0 THEN 0 ELSE e.at - 1) /\ e.at \in Nat
             /\ e = [button |-> e.button, at |-> e.at]
             /\ moved(e) = [button |-> e.button, at |-> IF e.at = 0 THEN 0 ELSE e.at - 1]
  <2>1. e \in [button : Button, at : 0 .. Horizon] /\ e.at \in Nat /\ e.at \in 0 .. Horizon /\ Horizon \in Nat
    BY <1>2, DropNumbers DEF DropTypes
  <2>2. Sooner(e.at) = (IF e.at = 0 THEN 0 ELSE e.at - 1) /\ Sooner(e.at) \in 0 .. Horizon
    BY <2>1 DEF Sooner
  <2>. QED BY <2>1, <2>2
<1>. HIDE DEF moved
<1>6. DropTypes'
  <2>1. parked' \subseteq [button : Button, at : 0 .. Horizon]
    BY <1>1, <1>5
  <2>2. ticks' \in Nat /\ steady' \in BOOLEAN
    BY <1>1, <1>2, DropNumbers DEF DropTypes
  <2>. QED BY <1>1, <1>2, <1>3, <1>4, <2>1, <2>2 DEF DropTypes
<1>7. ASSUME alone PROVE HalfKept' /\ SlotKept' /\ QueueKept' /\ LandKept'
  <2>1. HalfKept /\ SlotKept /\ QueueKept /\ LandKept
    BY <1>7 DEF DropInv
  <2>2. HalfKept'
    BY <1>1, <1>2, <1>3, <2>1, DropKeepsUp, DropNumbers DEF HalfKept
  <2>3. SlotKept'
    BY <1>1, <1>3, <2>1, DropNumbers DEF SlotKept
  <2>4. ASSUME NEW e \in parked, moved(e).at > 0
        PROVE  \E k \in Key : /\ sched'[k].button = moved(e).button /\ sched'[k].sent
                              /\ moved(e).at <= sched'[k].at
    <3>1. e.at > 0
      BY <1>5, <2>4
    <3>2. PICK k \in Key : sched[k].button = e.button /\ sched[k].sent /\ e.at <= sched[k].at
      BY <2>1, <3>1 DEF QueueKept
    <3>3. moved(e).at <= sched'[k].at
      BY <1>3, <1>5, <3>1, <3>2
    <3>. QED BY <1>3, <1>5, <3>2, <3>3
  <2>5. ASSUME NEW e \in parked, NEW f \in parked, moved(e).button = moved(f).button,
               moved(e).at > 0, moved(f).at > 0
        PROVE  e = f
    <3>1. e.button = f.button /\ e.at > 0 /\ f.at > 0
      BY <1>5, <2>5
    <3>. QED BY <2>1, <3>1 DEF QueueKept
  <2>6. QueueKept'
    BY <1>1, <2>4, <2>5 DEF QueueKept
  <2>7. half["plugin"].lands \subseteq Key
    BY <1>2, DropHalf, DropNumbers
  <2>8. LandKept'
    BY <1>1, <1>3, <1>4, <1>5, <2>1, <2>7 DEF LandKept
  <2>. QED BY <2>2, <2>3, <2>6, <2>8
<1>8. ASSUME steady' PROVE alone' /\ DropPlan' /\ DropTime'
  <2>1. /\ steady /\ alone /\ ticks = 0 /\ half["plugin"].job = "rest" /\ \A e \in parked : e.at > 1
        /\ DropPlan /\ DropTime /\ SlotKept /\ last' = last
    BY <1>1, <1>8, DropOpen, DropNumbers DEF DropInv, NoneAtWork
  <2>2. \A k \in Key : ~Due(k)
    BY <2>1 DEF DropTime, DropCount
  <2>3. \A k \in Key : Armed(sched, k) => sched[k].at > 0 /\ sched'[k].at = sched[k].at - 1
    BY <1>3, <2>2 DEF Due
  <2>4. \A k \in Key : sched[k].sent => Armed(sched, k)
    BY <2>1 DEF SlotKept
  <2>5. ASSUME NEW e \in parked, NEW k \in Key, sched[k].sent, e = Of(k)
        PROVE  moved(e).at > 0 /\ sched'[k].sent /\ moved(e) = Of(k)'
    <3>1. e.at = sched[k].at /\ e.button = sched[k].button /\ e.at > 1
      BY <2>1, <2>5 DEF Of
    <3>2. sched'[k].at = e.at - 1 /\ sched'[k].button = e.button /\ sched'[k].sent
      BY <1>3, <2>3, <2>4, <2>5, <3>1
    <3>3. moved(e) = [button |-> e.button, at |-> e.at - 1] /\ moved(e).at = e.at - 1
      BY <1>5, <3>1
    <3>. QED BY <1>5, <3>1, <3>2, <3>3 DEF Of
  <2>6. \A e \in parked' : e.at > 0 /\ \E k \in Key : sched'[k].sent /\ e = Of(k)'
    BY <1>1, <2>1, <2>5 DEF DropPlan
  <2>7. ASSUME sched'["hard"].sent, Of("hard")' \notin parked'
        PROVE  sched["hard"].sent /\ Of("hard") \notin parked /\ sched["hard"].at = 1 /\ sched'["hard"].at = 0
    <3>1. sched["hard"].sent /\ Of("hard") \notin parked
      BY <1>1, <1>3, <2>5, <2>7, DropNumbers
    <3>2. sched["hard"].at <= 1
      BY <2>1, <3>1 DEF DropPlan
    <3>. QED BY <1>3, <2>3, <2>4, <3>1, <3>2, DropNumbers
  <2>8. Armed(sched, "hard")' /\ sched'["fade"].sent => sched'["fade"].at < sched'["hard"].at
    <3>1. Armed(sched, "hard") /\ sched["fade"].sent => sched["fade"].at < sched["hard"].at
      BY <2>1 DEF DropPlan
    <3>. QED BY <1>3, <2>3, <2>4, <3>1, DropNumbers
  <2>9. DropPlan'
    <3>1. sched'["hard"].sent /\ Of("hard")' \notin parked' => last' \in {sched'["hard"].button, 0}
      BY <1>3, <2>1, <2>7, DropNumbers DEF DropPlan
    <3>. QED BY <2>6, <2>7, <2>8, <3>1 DEF DropPlan
  <2>10. ~Early' /\ ticks' # 0
    BY <1>1, <2>1, <2>7, DropNumbers DEF Early
  <2>. QED BY <1>1, <1>4, <2>1, <2>9, <2>10 DEF DropTime, DropCount
<1>. QED BY <1>1, <1>6, <1>7, <1>8 DEF DropInv

\* A step that leaves the drop buttons alone.
LEMMA DropStays ==
  ASSUME DropInv, UNCHANGED dropVars
  PROVE  DropInv'
<1>1. UNCHANGED <<state, sched, parked, half, ticks, alone, steady, last>>
  BY DEF dropVars
<1>2. DropTypes => DropTypes'
  BY <1>1 DEF DropTypes
<1>3. (HalfKept => HalfKept') /\ (SlotKept => SlotKept') /\ (QueueKept => QueueKept') /\ (LandKept => LandKept')
  BY <1>1 DEF HalfKept, SlotKept, QueueKept, LandKept, Armed
<1>4. (DropPlan => DropPlan') /\ (DropTime => DropTime')
  BY <1>1 DEF DropPlan, DropTime, DropCount, Early, Due, Of, Armed
<1>. QED BY <1>1, <1>2, <1>3, <1>4 DEF DropInv

\* A step of the controller keeps it.
LEMMA DropSteps ==
  ASSUME DropAssumption, DropInv, DropNext
  PROVE  DropInv'
<1>1. CASE TickReads \/ TickWrites \/ Tick
  BY <1>1, DropReads, DropWrites, DropTicks
<1>2. CASE (\E e \in parked : Deliver(e)) \/ \E d \in 1 .. Horizon : Restart(d)
  BY <1>2, DropDelivers, DropRestarts
<1>3. ASSUME NEW t \in Thread, (\E b \in Button : PressReads(t, b)) \/ Capture(t) \/ FireNow(t) \/ Cancel(t)
      PROVE  DropInv'
  BY <1>3, DropPresses, DropNow, DropCancels, DropCaptures
<1>4. ASSUME NEW t \in Thread, \E k \in Key, at \in 1 .. Horizon, timed \in BOOLEAN : Schedule(t, k, at, timed)
      PROVE  DropInv'
  BY <1>4, DropArms
<1>. QED BY <1>1, <1>2, <1>3, <1>4 DEF DropNext

\* What fires lands last: a step that ends a tick.
LEMMA DropLands ==
  ASSUME DropAssumption, DropInv, DropNext
  PROVE  DropStep
<1>. SUFFICES ASSUME half["plugin"].job = "tick", half'["plugin"].job # "tick" PROVE DropStep
  BY DEF DropStep
<1>0. DropTypes /\ "plugin" \in Thread
  BY DropNumbers DEF DropInv
<1>1. ~UNCHANGED half
  OBVIOUS
<1>2. ASSUME NEW t \in Thread, Presses(t), Ends(t) PROVE FALSE
  <2>1. t # "plugin"
    BY <1>2 DEF Presses
  <2>. QED BY <1>0, <1>2, <2>1 DEF Ends, DropTypes
<1>3. ASSUME NEW t \in Thread, NEW b \in Button, PressReads(t, b) PROVE FALSE
  <2>1. half[t] = AtRest /\ \E h : half' = [half EXCEPT ![t] = h]
    BY <1>3 DEF PressReads, Begins
  <2>2. t # "plugin"
    BY <2>1, DropOpen
  <2>. QED BY <1>0, <2>1, <2>2 DEF DropTypes
<1>4. ASSUME TickReads PROVE FALSE
  BY <1>4, <1>1, DropOpen DEF TickReads
<1>5. ASSUME NEW slots, half' = [half EXCEPT !["plugin"].slots = slots] PROVE FALSE
  BY <1>0, <1>5, DropHalf DEF DropTypes, Halves
<1>6. ASSUME Tick PROVE FALSE
  BY <1>5, <1>6 DEF Tick
<1>7. ASSUME NEW d \in 1 .. Horizon, Restart(d) PROVE FALSE
  BY <1>5, <1>7 DEF Restart
<1>8. ASSUME NEW e \in parked, Deliver(e) PROVE FALSE
  BY <1>1, <1>8 DEF Deliver
<1>9. TickWrites
  <2>1. ASSUME NEW t \in Thread PROVE ~Capture(t) /\ ~FireNow(t) /\ ~Cancel(t)
    BY <1>2 DEF Capture, FireNow, Cancel
  <2>2. ASSUME NEW t \in Thread, NEW k \in Key, NEW at \in 1 .. Horizon, NEW timed \in BOOLEAN,
               Schedule(t, k, at, timed)
        PROVE  FALSE
    BY <1>2, <2>2 DEF Schedule
  <2>. QED BY <1>3, <1>4, <1>6, <1>7, <1>8, <2>1, <2>2 DEF DropNext
<1>. QED BY <1>9, DropWrites

\* It holds when the plugin starts.
LEMMA DropStarts ==
  ASSUME DropAssumption, DropInit
  PROVE  DropInv
<1>1. /\ state = [b \in Button |-> "idle"] /\ sched = Clear /\ parked = {}
      /\ half = [t \in Thread |-> AtRest] /\ ticks = 0 /\ alone = TRUE /\ steady = TRUE
  BY DEF DropInit
<1>2. \A t \in Thread : half[t].job = "rest"
  BY <1>1, DropOpen
<1>3. DropTypes
  BY <1>1, <1>2, DropOpen, DropNumbers DEF DropTypes, States
<1>4. /\ SlotKept /\ QueueKept /\ DropPlan
      /\ \A k \in Key : ~Armed(sched, k) /\ ~sched[k].sent /\ ~Due(k)
  BY <1>1, <1>3, DropEmpty
<1>5. HalfKept /\ LandKept /\ DropTime
  BY <1>1, <1>2, <1>4, DropNumbers DEF HalfKept, LandKept, DropTime, DropCount, Early
<1>. QED BY <1>1, <1>3, <1>4, <1>5 DEF DropInv

\* What the queue holds is promised to one slot.
LEMMA DropEvicts ==
  ASSUME DropInv
  PROVE  EvictedWithSlot
  BY DEF EvictedWithSlot, DropInv, QueueKept
=============================================================================
