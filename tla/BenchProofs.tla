----------------------------- MODULE BenchProofs -----------------------------
(* What holds of the plugins and of the hub's links, each on the bench, for   *)
(* every value of the bench's constants.  Three components have a module of   *)
(* proofs of their own, whose lemmas are taken over to the bench here.        *)
EXTENDS MCBench, TLAPS


-----------------------------------------------------------------------------
(* Arpeggiator.  What sounds is in _playing_notes, so that whoever cancels   *)
(* the scheduled NoteOffs ends it.                                           *)
(* (b1 is keys, b2 pedal, b3 held, b4 slots, b5 heads, b6 sync, b7 pattern,  *)
(* b8 change, b12 playing, b13 offs, b14 sounds, b15 timed.)                 *)

ArpHeads == [seq : Arp!Index, write : Arp!Index]
ArpTypes ==
  /\ b1 \subseteq ArpNotes /\ b2 \in BOOLEAN /\ b3 \subseteq ArpNotes
  /\ b4 \in [Arp!Index -> ArpNotes \cup {Arp!None}]
  /\ b5 \in ArpHeads
  /\ b12 \subseteq ArpNotes /\ b13 \in [ArpNotes -> Nat] /\ b15 \in BOOLEAN
ArpInv == part = "arp" => ArpTypes /\ Arp!NotesEnd

\* The step of a bench that is on another component, or on none.
LEMMA ArpElsewhere ==
  ASSUME ArpInv, [BenchNext]_benchVars, ~(part = "arp" /\ Arp!ArpNext /\ part' = part)
  PROVE  ArpInv'
<1>1. CASE UNCHANGED benchVars
  BY <1>1 DEF ArpInv, ArpTypes, Arp!NotesEnd, ArpHeads, Arp!Index, Arp!None, benchVars
<1>2. CASE part # "arp" /\ part' = part
  BY <1>2 DEF ArpInv
<1>. QED BY <1>1, <1>2 DEF BenchNext, On

\* The steps of the sequence are numbers below step_count.
LEMMA ArpIndex ==
  0 \in Arp!Index /\ \A i \in Arp!Index : i \in Nat /\ (i + 1) % Steps \in Arp!Index
  BY BenchAssumption DEF BenchAssumption, Arp!ArpAssumption, Arp!Index

\* Silencing ends all that sounds.
LEMMA ArpSilence ==
  ASSUME ArpTypes, Arp!NotesEnd, NEW quiet \in BOOLEAN, Arp!SilenceIf(quiet)
  PROVE  b12' \subseteq ArpNotes /\ b13' \in [ArpNotes -> Nat] /\ b15' \in BOOLEAN /\ Arp!NotesEnd'
<1>1. CASE quiet
  <2>1. b12' = {} /\ b13' = [n \in ArpNotes |-> 0] /\ b14' = b14 \ b12 /\ b15' = TRUE
    BY <1>1 DEF Arp!SilenceIf, Arp!SilenceAll
  <2>2. b14' = {}
    BY <2>1 DEF Arp!NotesEnd
  <2>. QED BY <2>1, <2>2 DEF Arp!NotesEnd
<1>2. CASE ~quiet
  BY <1>2 DEF ArpTypes, Arp!SilenceIf, Arp!output, Arp!NotesEnd
<1>. QED BY <1>1, <1>2

\* A step of the arp gives each of its notes a NoteOff, or marks that their length is not
\* known, and ends the step before.
LEMMA ArpFire ==
  ASSUME ArpTypes, Arp!NotesEnd, NEW notes \in SUBSET ArpNotes, Arp!Fire(notes)
  PROVE  b12' \subseteq ArpNotes /\ b13' \in [ArpNotes -> Nat] /\ b15' \in BOOLEAN /\ Arp!NotesEnd'
<1>1. b15' \in BOOLEAN
  BY DEF Arp!Fire, Arp!PeriodKnown
<1>2. /\ b13' \in [ArpNotes -> Nat]
      /\ b15' => \A n \in notes : b13'[n] > 0
  BY <1>1 DEF ArpTypes, Arp!Fire
<1>3. b12' = notes /\ b14' = notes
  BY DEF Arp!NotesEnd, Arp!Fire
<1>. QED BY <1>1, <1>2, <1>3 DEF Arp!NotesEnd

\* The notes that a step may play are notes.
LEMMA ArpAdvance ==
  ASSUME ArpTypes, Arp!NotesEnd, Arp!Advance
  PROVE  ArpTypes' /\ Arp!NotesEnd'
<1>1. UNCHANGED <<b1, b2, b3, b4>> /\ b5' \in ArpHeads
  <2>1. CASE Arp!AdvanceProgrammed
    BY <2>1, ArpIndex DEF ArpTypes, ArpHeads, Arp!Advance, Arp!AdvanceProgrammed
  <2>2. CASE Arp!AdvanceHeld
    <3>1. b5 \in ArpHeads /\ (b5.seq + 1) % Steps \in Arp!Index
      BY ArpIndex DEF ArpTypes, ArpHeads
    <3>2. b5' \in {b5, [b5 EXCEPT !.seq = (b5.seq + 1) % Steps]}
      BY <2>2 DEF Arp!AdvanceHeld
    <3>. QED BY <3>1, <3>2 DEF ArpHeads, Arp!Advance
  <2>. QED BY <2>1, <2>2 DEF Arp!Advance
<1>2. \/ UNCHANGED Arp!output
      \/ \E notes \in SUBSET ArpNotes : Arp!Fire(notes)
  <2>1. CASE Arp!AdvanceProgrammed
    <3>1. {b4[b5.seq]} \ {Arp!None} \subseteq ArpNotes
      BY DEF ArpTypes, ArpHeads
    <3>. QED BY <2>1, <3>1 DEF Arp!AdvanceProgrammed
  <2>2. CASE Arp!AdvanceHeld
    BY <2>2 DEF Arp!AdvanceHeld, Arp!output, ArpTypes
  <2>. QED BY <2>1, <2>2 DEF Arp!Advance
<1>3. b12' \subseteq ArpNotes /\ b13' \in [ArpNotes -> Nat] /\ b15' \in BOOLEAN /\ Arp!NotesEnd'
  BY <1>2, ArpFire DEF ArpTypes, Arp!NotesEnd, Arp!output
<1>. QED BY <1>1, <1>3 DEF ArpTypes, ArpHeads, Arp!Index, Arp!None

\* A step of the arpeggiator keeps the invariant.
LEMMA ArpStep ==
  ASSUME ArpInv, [BenchNext]_benchVars
  PROVE  ArpInv'
<1>. SUFFICES ASSUME part = "arp", Arp!ArpNext, part' = part
              PROVE  ArpTypes' /\ Arp!NotesEnd'
  BY ArpElsewhere DEF ArpInv
<1>1. ArpTypes /\ Arp!NotesEnd
  BY DEF ArpInv
<1>2. ASSUME UNCHANGED Arp!output, b1' \subseteq ArpNotes, b2' \in BOOLEAN, b3' \subseteq ArpNotes,
             b4' \in [Arp!Index -> ArpNotes \cup {Arp!None}],
             b5' \in ArpHeads
      PROVE  ArpTypes' /\ Arp!NotesEnd'
  BY <1>1, <1>2 DEF ArpTypes, Arp!output, Arp!NotesEnd, ArpHeads, Arp!Index, Arp!None
<1>3. ASSUME NEW quiet \in BOOLEAN, Arp!SilenceIf(quiet),
             b1' \subseteq ArpNotes, b2' \in BOOLEAN, b3' \subseteq ArpNotes,
             b4' \in [Arp!Index -> ArpNotes \cup {Arp!None}],
             b5' \in ArpHeads
      PROVE  ArpTypes' /\ Arp!NotesEnd'
  BY <1>1, <1>3, ArpSilence DEF ArpTypes, ArpHeads, Arp!Index, Arp!None
<1>4. ASSUME NEW n \in ArpNotes, Arp!Press(n) PROVE ArpTypes' /\ Arp!NotesEnd'
  <2>1. CASE Arp!PressProgrammed(n)
    BY <1>1, <1>2, <1>4, <2>1, ArpIndex DEF ArpTypes, ArpHeads, Arp!Press, Arp!PressProgrammed
  <2>2. CASE Arp!PressHeld(n)
    BY <1>1, <1>2, <1>4, <2>2, ArpIndex DEF ArpTypes, ArpHeads, Arp!Press, Arp!PressHeld
  <2>. QED BY <1>4, <2>1, <2>2 DEF Arp!Press
<1>5. ASSUME NEW n \in ArpNotes, Arp!Release(n) PROVE ArpTypes' /\ Arp!NotesEnd'
  <2>1. CASE Arp!Programmed
    <3>1. /\ UNCHANGED <<b2, b3, b5>> /\ b1' \subseteq ArpNotes /\ b4' \in {b4, Arp!Empty}
          /\ \E quiet \in BOOLEAN : Arp!SilenceIf(quiet)
      BY <1>1, <1>5, <2>1 DEF ArpTypes, Arp!Release, Arp!ReleaseProgrammed
    <3>. QED BY <1>1, <1>3, <3>1 DEF ArpTypes, Arp!Empty
  <2>2. CASE ~Arp!Programmed /\ b2
    BY <1>1, <1>2, <1>5, <2>2 DEF ArpTypes, Arp!Release
  <2>3. CASE ~Arp!Programmed /\ ~b2
    <3>1. /\ UNCHANGED <<b2, b4, b5>> /\ b1' \subseteq ArpNotes /\ b3' \subseteq ArpNotes
          /\ \E quiet \in BOOLEAN : Arp!SilenceIf(quiet)
      BY <1>1, <1>5, <2>3 DEF ArpTypes, Arp!Release, Arp!Drop
    <3>. QED BY <1>1, <1>3, <3>1 DEF ArpTypes
  <2>. QED BY <1>1, <2>1, <2>2, <2>3 DEF ArpTypes
<1>6. ASSUME NEW n \in ArpNotes, Arp!GateEnds(n) PROVE ArpTypes' /\ Arp!NotesEnd'
  <2>1. /\ UNCHANGED <<b1, b2, b3, b4, b5, b12, b15>> /\ b14' = b14 \ {n}
        /\ b13' = [b13 EXCEPT ![n] = @ - 1] /\ b13[n] > 0
    BY <1>6 DEF Arp!GateEnds, Arp!input
  <2>. QED BY <1>1, <2>1 DEF ArpTypes, Arp!NotesEnd, ArpHeads, Arp!Index, Arp!None
<1>7. CASE Arp!PedalDown
  BY <1>1, <1>2, <1>7 DEF ArpTypes, Arp!PedalDown
<1>8. CASE Arp!PedalUp
  <2>1. CASE Arp!Programmed
    <3>1. /\ UNCHANGED <<b1, b3, b5, Arp!output>> /\ b2' = FALSE
          /\ b4' = [i \in Arp!Index |-> IF b4[i] \in b1 THEN b4[i] ELSE Arp!None]
      BY <1>8, <2>1 DEF Arp!PedalUp
    <3>. QED BY <1>1, <1>2, <3>1 DEF ArpTypes
  <2>2. CASE ~Arp!Programmed
    <3>1. /\ UNCHANGED <<b1, b4, b5>> /\ b2' = FALSE /\ b3' \subseteq ArpNotes
          /\ \E quiet \in BOOLEAN : Arp!SilenceIf(quiet)
      BY <1>1, <1>8, <2>2 DEF ArpTypes, Arp!PedalUp, Arp!Drop
    <3>. QED BY <1>1, <1>3, <3>1 DEF ArpTypes
  <2>. QED BY <2>1, <2>2
<1>9. CASE Arp!Tick \/ Arp!RunnerSteps \/ Arp!RunnerWakes
  <2>1. CASE Arp!Advance
    BY <1>1, <2>1, ArpAdvance
  <2>2. CASE UNCHANGED <<Arp!input, Arp!output>>
    BY <1>1, <1>2, <2>2 DEF ArpTypes, Arp!input
  <2>. QED BY <1>9, <2>1, <2>2 DEF Arp!Tick, Arp!RunnerWakes, Arp!RunnerSteps
<1>10. CASE Arp!TransportStart
  <2>1. UNCHANGED <<b1, b2, b3, b4>> /\ b5' \in ArpHeads
    BY <1>1, <1>10, ArpIndex DEF ArpTypes, ArpHeads, Arp!TransportStart
  <2>2. UNCHANGED Arp!output \/ Arp!Fire({})
    BY <1>10 DEF Arp!TransportStart
  <2>3. b12' \subseteq ArpNotes /\ b13' \in [ArpNotes -> Nat] /\ b15' \in BOOLEAN /\ Arp!NotesEnd'
    BY <1>1, <2>2, ArpFire DEF ArpTypes, Arp!NotesEnd, Arp!output
  <2>. QED BY <1>1, <2>1, <2>3 DEF ArpTypes, Arp!Index, Arp!None
<1>11. CASE Arp!TransportStop
  BY <1>1, <1>3, <1>11 DEF ArpTypes, Arp!TransportStop, Arp!input
<1>12. CASE Arp!Panic
  <2>1. /\ b1' = {} /\ b2' = FALSE /\ b3' = {} /\ b4' = Arp!Empty /\ b5' \in ArpHeads
        /\ Arp!SilenceIf(TRUE)
    BY <1>1, <1>12, ArpIndex DEF ArpTypes, ArpHeads, Arp!Panic, Arp!SilenceIf
  <2>. QED BY <1>3, <2>1 DEF Arp!Empty
<1>13. ASSUME NEW m, Arp!SetSync(m) \/ Arp!SyncChanged \/ Arp!SetPattern(m) PROVE ArpTypes' /\ Arp!NotesEnd'
  <2>1. UNCHANGED <<b1, b2, b3, b4, Arp!output>> /\ b5' \in ArpHeads
    BY <1>1, <1>13, ArpIndex DEF ArpTypes, ArpHeads, Arp!SetSync, Arp!SyncChanged, Arp!SetPattern
  <2>. QED BY <1>1, <1>2, <2>1 DEF ArpTypes
<1>. QED
  BY <1>4, <1>5, <1>6, <1>7, <1>8, <1>9, <1>10, <1>11, <1>12, <1>13 DEF Arp!ArpNext

\* The arpeggiator starts with nothing held and nothing that sounds.
LEMMA ArpStart == BenchInit => ArpInv
<1>. SUFFICES ASSUME BenchInit, part = "arp" PROVE ArpTypes /\ Arp!NotesEnd
  BY DEF ArpInv
<1>1. Arp!ArpInit
  BY DEF BenchInit
<1>2. ArpTypes
  BY <1>1, ArpIndex DEF Arp!ArpInit, ArpTypes, ArpHeads, Arp!Empty
<1>. QED BY <1>1, <1>2 DEF Arp!ArpInit, Arp!NotesEnd

\* No key that is up stays in the chord without the pedal.
THEOREM NoGhosts == BenchSpec => NoNewGhosts
<1>1. ArpInv /\ [BenchNext]_benchVars => [part = "arp" => Arp!GhostStep]_benchVars
  <2>. SUFFICES ASSUME ArpInv, BenchNext, part = "arp", b7 # "programmed"
                PROVE  Arp!Ghosts' \subseteq Arp!Ghosts
    BY DEF Arp!GhostStep
  <2>1. Arp!ArpNext /\ b3 \subseteq ArpNotes
    BY DEF BenchNext, On, ArpInv, ArpTypes
  <2>. USE DEF Arp!Ghosts
  <2>2. ASSUME NEW n \in ArpNotes, Arp!Press(n) \/ Arp!Release(n) \/ Arp!GateEnds(n)
        PROVE  Arp!Ghosts' \subseteq Arp!Ghosts
    BY <2>2 DEF Arp!Press, Arp!PressHeld, Arp!Release, Arp!Drop, Arp!GateEnds, Arp!input,
       Arp!Programmed
  <2>3. CASE Arp!PedalDown \/ Arp!PedalUp
    BY <2>1, <2>3 DEF Arp!PedalDown, Arp!PedalUp, Arp!Drop, Arp!Programmed
  <2>4. CASE Arp!Tick \/ Arp!RunnerWakes \/ Arp!RunnerSteps
    BY <2>4 DEF Arp!Tick, Arp!RunnerWakes, Arp!RunnerSteps, Arp!Advance, Arp!input
  <2>5. CASE Arp!TransportStart \/ Arp!TransportStop \/ Arp!Panic
    BY <2>5 DEF Arp!TransportStart, Arp!TransportStop, Arp!Panic, Arp!input
  <2>6. ASSUME NEW m, Arp!SetSync(m) \/ Arp!SyncChanged \/ Arp!SetPattern(m)
        PROVE  Arp!Ghosts' \subseteq Arp!Ghosts
    BY <2>6 DEF Arp!SetSync, Arp!SyncChanged, Arp!SetPattern
  <2>. QED BY <2>1, <2>2, <2>3, <2>4, <2>5, <2>6 DEF Arp!ArpNext
<1>. QED BY <1>1, ArpStart, ArpStep, PTL DEF BenchSpec, NoNewGhosts
-----------------------------------------------------------------------------
(* Cartesian.  While the mode is Latch, and was set with no stamp under way, *)
(* none can begin: the grid and the slot can only change together.           *)
(* (b8 is fill, b9 lap, b10 grid, b11 bank, b12 active, b13 stamp, b14 clean.) *)

CartSlots == [fill : BOOLEAN, grid : 0..Cart!Hand]
CartTypes ==
  /\ b8 \in BOOLEAN /\ b9 \in 0..Laps /\ b10 \in 0..Cart!Hand /\ b12 \in CartSlot
  /\ b11 \in [CartSlot -> CartSlots] /\ b13 \in [Cart!Thread -> 0..Cart!None]
CartFrozen == ~b8 /\ b14 => b10 = b11[b12].grid /\ \A t \in Cart!Thread : Cart!Free(t)
CartInv == part = "cart" => CartTypes /\ CartFrozen

\* Laps and the two marks are different numbers.
LEMMA CartMarks ==
  /\ Laps \in Nat /\ 0 \in 0..Laps /\ 0..Laps \subseteq 0..Cart!Hand /\ Cart!Hand \in 0..Cart!Hand
  /\ 0..Laps \subseteq 0..Cart!None /\ Cart!None \in 0..Cart!None
  /\ \A s \in 0..Cart!None : s # Cart!None => s \in 0..Cart!Hand
  /\ \A l \in 0..Laps : (l + 1) % (Laps + 1) \in 0..Laps
  BY BenchAssumption DEF BenchAssumption, Cart!CartAssumption, Cart!Hand, Cart!None

\* What the user sets goes into the slot, when no stamp is under way.
LEMMA CartSets ==
  ASSUME CartTypes, NEW t \in Cart!Thread, NEW mode \in BOOLEAN, NEW cells \in 0..Cart!Hand,
         NEW content \in CartSlots, Cart!Sets(t, mode, cells, content),
         ~mode => content.grid = cells /\ UNCHANGED b13,
         b9' \in 0..Laps, b13' \in [Cart!Thread -> 0..Cart!None]
  PROVE  CartTypes' /\ CartFrozen'
<1>1. /\ b8' = mode /\ b10' = cells /\ b11' = [b11 EXCEPT ![b12] = content] /\ b12' = b12
      /\ b14' = \A u \in Cart!Thread : Cart!Free(u)
  BY DEF Cart!Sets
<1>2. b11' \in [CartSlot -> CartSlots] /\ b11'[b12] = content
  BY <1>1 DEF CartTypes
<1>3. CartTypes'
  BY <1>1, <1>2 DEF CartTypes, CartSlots, Cart!Thread, Cart!Hand, Cart!None
<1>4. CartFrozen'
  <2>1. SUFFICES ASSUME ~mode, \A u \in Cart!Thread : Cart!Free(u), b13' = b13
                 PROVE  b10' = b11'[b12'].grid /\ (\A u \in Cart!Thread : Cart!Free(u))'
    BY <1>1 DEF CartFrozen
  <2>. QED BY <1>1, <1>2, <2>1 DEF Cart!Free, Cart!None, Cart!Thread
<1>. QED BY <1>3, <1>4

\* A stamp that starts in Live leaves Latch alone.
LEMMA CartRestamp ==
  ASSUME CartTypes, CartFrozen, b9' \in 0..Laps,
         \/ UNCHANGED b13
         \/ \E u \in Cart!Thread : Cart!Restamps(u, b9'),
         UNCHANGED Cart!gridVars
  PROVE  CartTypes' /\ CartFrozen'
<1>1. UNCHANGED <<b8, b10, b11, b12, b14>>
  BY DEF Cart!gridVars
<1>2. b13' \in [Cart!Thread -> 0..Cart!None] /\ (~b8 => UNCHANGED b13)
  BY CartMarks DEF CartTypes, Cart!Restamps
<1>3. CartTypes'
  BY <1>1, <1>2 DEF CartTypes, CartSlots, Cart!Thread, Cart!Hand, Cart!None
<1>. QED BY <1>1, <1>2, <1>3 DEF CartFrozen, Cart!Free, Cart!None, Cart!Thread

\* A step of the grid keeps the invariant.
LEMMA CartStep ==
  ASSUME CartInv, [BenchNext]_benchVars
  PROVE  CartInv'
<1>1. CASE UNCHANGED benchVars
  BY <1>1 DEF CartInv, CartTypes, CartSlots, CartFrozen, Cart!Free, Cart!None, Cart!Hand,
     Cart!Thread, benchVars
<1>2. CASE part # "cart" /\ part' = part
  BY <1>2 DEF CartInv
<1>3. CASE part = "cart" /\ Cart!CartNext /\ part' = part
  <2>. SUFFICES CartTypes' /\ CartFrozen'
    BY DEF CartInv
  <2>1. CartTypes /\ CartFrozen
    BY <1>3 DEF CartInv
  <2>2. {"plugin", "runner", "web"} = Cart!Thread
    BY DEF Cart!Thread
  <2>3. ASSUME NEW k \in CartKey, NEW d \in BOOLEAN, Cart!NoteOn(k, d) \/ Cart!NoteOff(k, d)
        PROVE  CartTypes' /\ CartFrozen'
    <3>1. /\ b9' \in {b9, 0} /\ UNCHANGED Cart!gridVars
          /\ UNCHANGED b13 \/ \E u \in Cart!Thread : Cart!Restamps(u, b9')
      BY <2>2, <2>3 DEF Cart!NoteOn, Cart!NoteOff
    <3>2. b9' \in 0..Laps
      BY <2>1, <3>1, CartMarks DEF CartTypes
    <3>. QED BY <2>1, <3>1, <3>2, CartRestamp
  <2>4. ASSUME NEW down \in BOOLEAN, Cart!Pedal(down) PROVE CartTypes' /\ CartFrozen'
    BY <2>1, <2>2, <2>4, CartRestamp DEF Cart!Pedal, CartTypes
  <2>5. ASSUME NEW x \in BOOLEAN, NEW y \in BOOLEAN, Cart!Tick(x, y) \/ Cart!RunnerTick(y)
        PROVE  CartTypes' /\ CartFrozen'
    <3>1. /\ b9' \in {b9, 0, (b9 + 1) % (Laps + 1)} /\ UNCHANGED Cart!gridVars
          /\ UNCHANGED b13 \/ \E u \in Cart!Thread : Cart!Restamps(u, b9')
      BY <2>2, <2>5 DEF Cart!Tick, Cart!RunnerTick, Cart!AdvanceY
    <3>2. b9' \in 0..Laps
      BY <2>1, <3>1, CartMarks DEF CartTypes
    <3>. QED BY <2>1, <2>2, <3>1, <3>2, CartRestamp
  <2>6. ASSUME \/ Cart!TransportStart \/ Cart!TransportStop \/ Cart!Panic \/ Cart!Voicing
               \/ \E m \in {"tempo", "free", "transport"} : Cart!SetSync(m)
        PROVE  CartTypes' /\ CartFrozen'
    <3>1. /\ b9' \in {b9, 0} /\ UNCHANGED Cart!gridVars
          /\ UNCHANGED b13 \/ \E u \in Cart!Thread : Cart!Restamps(u, b9')
      BY <2>2, <2>6 DEF Cart!TransportStart, Cart!TransportStop, Cart!Panic, Cart!Voicing,
         Cart!SetSync
    <3>. QED BY <2>1, <2>2, <3>1, CartMarks, CartRestamp DEF CartTypes
  <2>7. CASE Cart!Latch
    <3>1. [fill |-> FALSE, grid |-> b10] \in CartSlots
      BY <2>1 DEF CartTypes, CartSlots
    <3>. QED BY <2>1, <2>2, <2>7, <3>1, CartSets DEF Cart!Latch, CartTypes
  <2>8. CASE Cart!Autofill
    <3>1. [b11[b12] EXCEPT !.fill = TRUE] \in CartSlots
      BY <2>1 DEF CartTypes, CartSlots
    <3>2. b9' \in 0..Laps /\ b13' \in [Cart!Thread -> 0..Cart!None]
      BY <2>1, <2>8, CartMarks DEF Cart!Autofill, CartTypes
    <3>. QED BY <2>1, <2>2, <2>8, <3>1, <3>2, CartSets DEF Cart!Autofill, CartTypes
  <2>9. CASE Cart!EditCell \/ Cart!RecordFill
    <3>1. [b11[b12] EXCEPT !.grid = Cart!Hand] \in CartSlots
          /\ [b11[b12] EXCEPT !.grid = Cart!Hand].grid = Cart!Hand
      BY <2>1, CartMarks DEF CartTypes, CartSlots
    <3>. QED BY <2>1, <2>2, <2>9, <3>1, CartMarks, CartSets
         DEF Cart!EditCell, Cart!RecordFill, CartTypes
  <2>10. ASSUME NEW t \in {"plugin", "web"}, NEW s \in CartSlot, Cart!LoadSlot(t, s)
         PROVE  CartTypes' /\ CartFrozen'
    <3>1. /\ b8' = b11[s].fill /\ b10' = b11[s].grid /\ b12' = s /\ b9' = 0
          /\ b14' = \A u \in Cart!Thread : Cart!Free(u)
          /\ UNCHANGED <<b11, b13>>
      BY <2>10 DEF Cart!LoadSlot
    <3>2. CartTypes'
      BY <2>1, <3>1, CartMarks DEF CartTypes, CartSlots, Cart!Hand, Cart!Thread, Cart!None
    <3>. QED BY <3>1, <3>2 DEF CartFrozen, Cart!Free, Cart!None, Cart!Thread
  <2>11. ASSUME NEW t \in Cart!Thread, Cart!Stamped(t) PROVE CartTypes' /\ CartFrozen'
    <3>1. /\ ~Cart!Free(t) /\ b10' = b13[t] /\ b13' = [b13 EXCEPT ![t] = Cart!None]
          /\ UNCHANGED <<b8, b9, b11, b12, b14>>
      BY <2>11 DEF Cart!Stamped
    <3>2. b13[t] \in 0..Cart!Hand
      BY <2>1, <3>1, CartMarks DEF CartTypes, Cart!Free
    <3>3. CartTypes'
      BY <2>1, <3>1, <3>2, CartMarks DEF CartTypes, CartSlots, Cart!Hand, Cart!Thread, Cart!None
    <3>4. ~(~b8 /\ b14)
      BY <2>1, <3>1 DEF CartFrozen
    <3>. QED BY <3>1, <3>3, <3>4 DEF CartFrozen
  <2>. QED
    BY <1>3, <2>2, <2>3, <2>4, <2>5, <2>6, <2>7, <2>8, <2>9, <2>10, <2>11 DEF Cart!CartNext
<1>. QED BY <1>1, <1>2, <1>3 DEF BenchNext, On

\* Latched, the grid that sounds is the one that is saved.
THEOREM GridFrozen == BenchSpec => []FrozenGrid
<1>1. BenchInit => CartInv
  <2>. SUFFICES ASSUME Cart!CartInit PROVE CartTypes /\ CartFrozen
    BY DEF BenchInit, CartInv
  <2>1. CartTypes
    BY CartMarks, BenchAssumption
       DEF Cart!CartInit, CartTypes, CartSlots, BenchAssumption, Cart!CartAssumption
  <2>. QED BY <2>1 DEF Cart!CartInit, CartFrozen
<1>2. CartInv => FrozenGrid
  BY DEF CartInv, CartFrozen, FrozenGrid, Cart!FrozenGrid
<1>. QED BY <1>1, <1>2, CartStep, PTL DEF BenchSpec
-----------------------------------------------------------------------------
(* SlotBank.  A switch that is alone has the bank to itself: nothing is     *)
(* recorded, and what it has written so far is the slot's.                  *)
(* (b1 is live, b2 slots, b3 active, b4 suppress, b5 load.)                 *)

SlotLoad == [slot : Slot \cup {0}, todo : SUBSET Param, alone : BOOLEAN]
SlotTypes ==
  /\ b1 \in [Param -> Value] /\ b2 \in [Slot -> [Param -> Value]] /\ b3 \in Slot
  /\ b4 \in BOOLEAN /\ b5 \in [Bnk!Thread -> SlotLoad]
  /\ \A t \in Bnk!Thread : b5[t].slot = 0 => b5[t] = Bnk!Idle
SlotAlone ==
  \A t \in Bnk!Thread : b5[t].slot # 0 /\ b5[t].alone =>
    /\ b4 /\ b3 = b5[t].slot
    /\ \A u \in Bnk!Thread : u # t => b5[u] = Bnk!Idle
    /\ \A p \in Param \ b5[t].todo : b1[p] = b2[b5[t].slot][p]
SlotInv == part = "slots" => SlotTypes /\ SlotAlone

\* The slots are numbers from 1, and a bank at rest is a state of the loads.
LEMMA SlotFacts ==
  /\ 0 \notin Slot /\ 1 \in Slot /\ 0 \in Value
  /\ Bnk!Idle \in SlotLoad /\ Bnk!Idle.slot = 0 /\ Bnk!Idle.alone = TRUE
  /\ Bnk!Defaults \in [Param -> Value]
  BY BenchAssumption
     DEF BenchAssumption, Bnk!SlotAssumption, Bnk!Idle, Bnk!Defaults, SlotLoad

\* A load that something else has touched is not alone any more.
LEMMA SlotDisturbs ==
  ASSUME SlotTypes
  PROVE  /\ Bnk!Disturbed \in [Bnk!Thread -> SlotLoad]
         /\ \A t \in Bnk!Thread :
              /\ Bnk!Disturbed[t].slot = b5[t].slot
              /\ b5[t].slot = 0 => Bnk!Disturbed[t] = Bnk!Idle
              /\ b5[t].slot # 0 => Bnk!Disturbed[t].alone = FALSE
<1>1. ASSUME NEW t \in Bnk!Thread
      PROVE  /\ Bnk!Disturbed[t] \in SlotLoad
             /\ Bnk!Disturbed[t].slot = b5[t].slot
             /\ b5[t].slot = 0 => Bnk!Disturbed[t] = Bnk!Idle
             /\ b5[t].slot # 0 => Bnk!Disturbed[t].alone = FALSE
  <2>1. b5[t] \in SlotLoad
    BY DEF SlotTypes
  <2>2. CASE b5[t].slot = 0
    BY <2>2, SlotFacts DEF SlotTypes, Bnk!Disturbed
  <2>3. CASE b5[t].slot # 0
    <3>1. Bnk!Disturbed[t] = [b5[t] EXCEPT !.alone = FALSE]
      BY <2>3, SlotFacts DEF Bnk!Disturbed
    <3>. QED BY <2>1, <2>3, <3>1 DEF SlotLoad
  <2>. QED BY <2>2, <2>3
<1>. QED BY <1>1 DEF Bnk!Disturbed

\* A load that begins: alone only if no other one is under way.
LEMMA SlotLoads ==
  ASSUME SlotTypes, SlotAlone, NEW t \in Bnk!Thread, NEW s \in Slot, b5[t] = Bnk!Idle,
         Bnk!StartsLoad(t, s), b1' = b1, b2' \in [Slot -> [Param -> Value]]
  PROVE  SlotTypes' /\ SlotAlone'
<1>. DEFINE new == [slot |-> s, todo |-> Param, alone |-> \A u \in Bnk!Thread : b5[u] = Bnk!Idle]
<1>1. /\ b5' = [Bnk!Disturbed EXCEPT ![t] = new] /\ b3' = s /\ b4' = TRUE
  BY DEF Bnk!StartsLoad, Bnk!Loads
<1>2. new \in SlotLoad /\ new.slot # 0 /\ new.todo = Param
      /\ (new.alone => \A u \in Bnk!Thread : b5[u] = Bnk!Idle) /\ new.slot = s
  BY SlotFacts DEF SlotLoad
<1>. HIDE DEF new
<1>3. /\ b5' \in [Bnk!Thread -> SlotLoad] /\ b5'[t] = new
      /\ \A u \in Bnk!Thread \ {t} : b5'[u] = Bnk!Disturbed[u]
  BY <1>1, <1>2, SlotDisturbs
<1>4. SlotTypes'
  BY <1>1, <1>2, <1>3, SlotDisturbs DEF SlotTypes, Bnk!Thread, Bnk!Idle, SlotLoad
<1>5. SlotAlone'
  <2>1. SUFFICES ASSUME NEW u \in Bnk!Thread, b5'[u].slot # 0, b5'[u].alone
                 PROVE  /\ b4' /\ b3' = b5'[u].slot
                        /\ \A v \in Bnk!Thread : v # u => b5'[v] = Bnk!Idle
                        /\ \A p \in Param \ b5'[u].todo : b1'[p] = b2'[b5'[u].slot][p]
    BY DEF SlotAlone, Bnk!Thread, Bnk!Idle
  <2>2. u = t
    BY <1>3, <2>1, SlotDisturbs
  <2>3. \A v \in Bnk!Thread : v # t => b5'[v] = Bnk!Idle
    BY <1>2, <1>3, <2>1, <2>2, SlotDisturbs, SlotFacts
  <2>. QED BY <1>1, <1>2, <1>3, <2>2, <2>3
<1>. QED BY <1>4, <1>5

\* Anything else that touches the bank.
LEMMA SlotTouched ==
  ASSUME SlotTypes, b5' = Bnk!Disturbed, UNCHANGED <<b3, b4>>,
         b1' \in [Param -> Value], b2' \in [Slot -> [Param -> Value]]
  PROVE  SlotTypes' /\ SlotAlone'
<1>1. SlotTypes'
  BY SlotDisturbs DEF SlotTypes, SlotLoad, Bnk!Thread, Bnk!Idle
<1>2. \A t \in Bnk!Thread : ~(b5'[t].slot # 0 /\ b5'[t].alone)
  BY SlotDisturbs
<1>. QED BY <1>1, <1>2 DEF SlotAlone, Bnk!Thread

\* One parameter of a load.
LEMMA SlotLoadsParam ==
  ASSUME SlotTypes, SlotAlone, NEW t \in Bnk!Thread, Bnk!LoadParam(t)
  PROVE  SlotTypes' /\ SlotAlone'
         /\ (b5[t].alone => b2' = b2) /\ b5'[t].slot = b5[t].slot
         /\ \A u \in Bnk!Thread \ {t} : b5'[u] = b5[u]
<1>1. PICK p \in b5[t].todo :
        /\ b1' = [b1 EXCEPT ![p] = b2[b5[t].slot][p]]
        /\ b2' = Bnk!Recorded(p, b2[b5[t].slot][p])
        /\ b5' = [b5 EXCEPT ![t].todo = @ \ {p}]
        /\ UNCHANGED <<b3, b4>>
  BY DEF Bnk!LoadParam
<1>2. /\ b5[t] \in SlotLoad /\ b5[t].slot # 0 /\ b5[t].slot \in Slot /\ p \in Param
      /\ b2[b5[t].slot][p] \in Value
  BY <1>1 DEF SlotTypes, SlotLoad, Bnk!Idle
<1>3. b1' \in [Param -> Value] /\ b2' \in [Slot -> [Param -> Value]]
  BY <1>1, <1>2 DEF SlotTypes, Bnk!Recorded
<1>4. /\ b5' \in [Bnk!Thread -> SlotLoad] /\ b5'[t] = [b5[t] EXCEPT !.todo = @ \ {p}]
      /\ \A u \in Bnk!Thread \ {t} : b5'[u] = b5[u]
  BY <1>1, <1>2 DEF SlotTypes, SlotLoad
<1>5. b5'[t].slot = b5[t].slot /\ b5'[t].alone = b5[t].alone /\ b5'[t].todo = b5[t].todo \ {p}
  BY <1>2, <1>4 DEF SlotLoad
<1>6. SlotTypes'
  BY <1>1, <1>2, <1>3, <1>4, <1>5 DEF SlotTypes, SlotLoad, Bnk!Thread, Bnk!Idle
<1>7. ASSUME b5[t].alone PROVE b2' = b2
  BY <1>1, <1>2, <1>7 DEF SlotAlone, Bnk!Recorded
<1>8. SlotAlone'
  <2>1. SUFFICES ASSUME NEW u \in Bnk!Thread, b5'[u].slot # 0, b5'[u].alone
                 PROVE  /\ b4' /\ b3' = b5'[u].slot
                        /\ \A v \in Bnk!Thread : v # u => b5'[v] = Bnk!Idle
                        /\ \A q \in Param \ b5'[u].todo : b1'[q] = b2'[b5'[u].slot][q]
    BY DEF SlotAlone, Bnk!Thread, Bnk!Idle
  <2>2. u = t
    BY <1>2, <1>4, <2>1, SlotFacts DEF SlotAlone
  <2>3. b2' = b2
    BY <1>5, <1>7, <2>1, <2>2
  <2>. QED BY <1>1, <1>2, <1>4, <1>5, <2>1, <2>2, <2>3 DEF SlotAlone, SlotTypes
<1>. QED BY <1>4, <1>5, <1>6, <1>7, <1>8

\* A load that is over.
LEMMA SlotEnds ==
  ASSUME SlotTypes, SlotAlone, NEW t \in Bnk!Thread, Bnk!EndLoad(t)
  PROVE  SlotTypes' /\ SlotAlone' /\ \A u \in Bnk!Thread \ {t} : b5'[u] = b5[u]
<1>1. /\ b5[t].slot # 0 /\ b5[t].todo = {} /\ b3' = b5[t].slot /\ b4' = FALSE
      /\ b5' = [b5 EXCEPT ![t] = Bnk!Idle] /\ UNCHANGED <<b1, b2>>
  BY DEF Bnk!EndLoad
<1>2. /\ b5' \in [Bnk!Thread -> SlotLoad] /\ b5'[t] = Bnk!Idle
      /\ \A u \in Bnk!Thread \ {t} : b5'[u] = b5[u]
  BY <1>1, SlotFacts DEF SlotTypes
<1>3. SlotTypes'
  BY <1>1, <1>2 DEF SlotTypes, SlotLoad, Bnk!Thread, Bnk!Idle
<1>4. \A u \in Bnk!Thread : ~(b5'[u].slot # 0 /\ b5'[u].alone)
  BY <1>1, <1>2, SlotFacts DEF SlotAlone
<1>. QED BY <1>2, <1>3, <1>4 DEF SlotAlone, Bnk!Thread

\* A step of the bank keeps the invariant.
LEMMA SlotStep ==
  ASSUME SlotInv, [BenchNext]_benchVars
  PROVE  SlotInv'
<1>1. CASE UNCHANGED benchVars
  BY <1>1 DEF SlotInv, SlotTypes, SlotAlone, SlotLoad, Bnk!Thread, Bnk!Idle, benchVars
<1>2. CASE part # "slots" /\ part' = part
  BY <1>2 DEF SlotInv
<1>3. CASE part = "slots" /\ Bnk!SlotNext /\ part' = part
  <2>. SUFFICES SlotTypes' /\ SlotAlone'
    BY DEF SlotInv
  <2>1. SlotTypes /\ SlotAlone /\ {"plugin", "web"} = Bnk!Thread
    BY <1>3 DEF SlotInv, Bnk!Thread
  <2>2. ASSUME NEW p \in Param, NEW v \in Value, Bnk!Edit(p, v) PROVE SlotTypes' /\ SlotAlone'
    <3>1. b1' \in [Param -> Value] /\ b2' \in [Slot -> [Param -> Value]]
      BY <2>1, <2>2 DEF SlotTypes, Bnk!Edit, Bnk!Recorded
    <3>. QED BY <2>1, <2>2, <3>1, SlotTouched DEF Bnk!Edit
  <2>3. ASSUME NEW s \in Slot, NEW content \in [Param -> Value], Bnk!Command(s, content)
        PROVE  SlotTypes' /\ SlotAlone'
    <3>1. b1' = b1 /\ b2' \in [Slot -> [Param -> Value]]
      BY <2>1, <2>3 DEF SlotTypes, Bnk!Command
    <3>2. CASE s = b3
      BY <2>1, <2>3, <3>1, <3>2, SlotLoads DEF Bnk!Command
    <3>3. CASE s # b3
      BY <2>1, <2>3, <3>1, <3>3, SlotTouched DEF Bnk!Command, SlotTypes
    <3>. QED BY <3>2, <3>3
  <2>4. ASSUME NEW s \in Slot, Bnk!Clone(s) \/ Bnk!Clear(s) PROVE SlotTypes' /\ SlotAlone'
    <3>1. b2[b3] \in [Param -> Value] /\ Bnk!Defaults \in [Param -> Value]
      BY <2>1, SlotFacts DEF SlotTypes
    <3>. QED BY <2>3, <2>4, <3>1 DEF Bnk!Clone, Bnk!Clear
  <2>5. ASSUME NEW s \in Slot, NEW t \in Bnk!Thread, Bnk!BeginLoad(t, s)
        PROVE  SlotTypes' /\ SlotAlone'
    BY <2>1, <2>5, SlotLoads DEF Bnk!BeginLoad, SlotTypes
  <2>6. ASSUME NEW t \in Bnk!Thread, Bnk!LoadParam(t) \/ Bnk!EndLoad(t)
        PROVE  SlotTypes' /\ SlotAlone'
    BY <2>1, <2>6, SlotLoadsParam, SlotEnds
  <2>. QED BY <1>3, <2>2, <2>4, <2>5, <2>6 DEF Bnk!SlotNext
<1>. QED BY <1>1, <1>2, <1>3 DEF BenchNext, On

\* A switch that nothing overlaps changes no slot, and ends with the chosen slot's
\* content in the live parameters.
THEOREM SwitchHarmless == BenchSpec => SwitchKeepsSlots
<1>1. BenchInit => SlotInv
  <2>. SUFFICES ASSUME Bnk!SlotInit PROVE SlotTypes /\ SlotAlone
    BY DEF BenchInit, SlotInv
  <2>1. SlotTypes
    BY SlotFacts DEF Bnk!SlotInit, SlotTypes
  <2>2. \A t \in Bnk!Thread : b5[t] = Bnk!Idle
    BY DEF Bnk!SlotInit
  <2>. QED BY <2>1, <2>2, SlotFacts DEF SlotAlone
<1>2. SlotInv /\ [BenchNext]_benchVars => [part = "slots" => Bnk!SwitchStep]_benchVars
  <2>. SUFFICES ASSUME SlotInv, BenchNext, part = "slots", NEW t \in Bnk!Thread,
                       b5[t].slot # 0, b5[t].alone, b5'[t] # b5[t], b5'[t].alone
                PROVE  /\ b2' = b2
                       /\ b5'[t] = Bnk!Idle => b1' = b2'[b5[t].slot] /\ b3' = b5[t].slot
    BY DEF Bnk!SwitchStep
  <2>1. SlotTypes /\ SlotAlone /\ Bnk!SlotNext
    BY DEF SlotInv, BenchNext, On
  <2>2. b5'[t] # Bnk!Disturbed[t]
    BY <2>1, SlotDisturbs
  <2>3. ASSUME NEW u \in Bnk!Thread, NEW s, Bnk!StartsLoad(u, s), b5[u] = Bnk!Idle PROVE FALSE
    <3>1. u # t
      BY <2>3, SlotFacts
    <3>2. \E new : b5' = [Bnk!Disturbed EXCEPT ![u] = new]
      BY <2>3 DEF Bnk!StartsLoad, Bnk!Loads
    <3>3. b5'[t] = Bnk!Disturbed[t]
      BY <2>1, <3>1, <3>2, SlotDisturbs
    <3>. QED BY <2>2, <3>3
  <2>4. ASSUME NEW s, NEW content, Bnk!Command(s, content) PROVE FALSE
    BY <2>2, <2>3, <2>4 DEF Bnk!Command, Bnk!Thread
  <2>5. ASSUME NEW u \in Bnk!Thread, Bnk!LoadParam(u) PROVE b2' = b2 /\ b5'[t] # Bnk!Idle
    BY <2>1, <2>5, SlotLoadsParam, SlotFacts
  <2>6. ASSUME NEW u \in Bnk!Thread, Bnk!EndLoad(u)
        PROVE  b2' = b2 /\ b1' = b2'[b5[t].slot] /\ b3' = b5[t].slot
    <3>1. u = t
      BY <2>1, <2>6, SlotEnds
    <3>2. b5[t].todo = {} /\ b3' = b5[t].slot /\ UNCHANGED <<b1, b2>>
      BY <2>6, <3>1 DEF Bnk!EndLoad
    <3>3. /\ b1 \in [Param -> Value] /\ b2[b5[t].slot] \in [Param -> Value]
          /\ \A p \in Param : b1[p] = b2[b5[t].slot][p]
      BY <2>1, <3>2 DEF SlotTypes, SlotAlone
    <3>. QED BY <3>2, <3>3
  <2>. QED
    BY <2>1, <2>2, <2>3, <2>4, <2>5, <2>6
       DEF Bnk!SlotNext, Bnk!Edit, Bnk!Clone, Bnk!Clear, Bnk!BeginLoad
<1>. QED BY <1>1, <1>2, SlotStep, PTL DEF BenchSpec, SwitchKeepsSlots
-----------------------------------------------------------------------------
(* PluginHost.  Between its loop's end and its start the plugin sounds      *)
(* nothing, as long as what it sent to let go reached the destinations.     *)
(* (b3 is inst, b7 sounding.)                                               *)

HostInv ==
  part = "host" =>
    /\ b3 = [f \in DOMAIN Host!Gone |-> b3[f]]
    /\ b3.client = "open" /\ b3.thread \in {"none", "starting", "ended"} => ~b7

\* A step of the host keeps it.
LEMMA HostStep ==
  ASSUME HostInv, [BenchNext]_benchVars
  PROVE  HostInv'
<1>1. CASE UNCHANGED benchVars
  BY <1>1 DEF HostInv, Host!Gone, benchVars
<1>2. CASE part # "host" /\ part' = part
  BY <1>2 DEF HostInv
<1>3. CASE part = "host" /\ Host!HostNext /\ part' = part
  <2>. USE DEF HostInv, Host!Gone
  <2>1. ASSUME b3' = b3, b7' = b7 \/ ~b7' PROVE HostInv'
    BY <1>3, <2>1
  <2>2. CASE Host!ClockTick \/ Host!TransportStart \/ Host!TransportContinue
             \/ Host!TransportStop \/ Host!Panic \/ Host!Incoming \/ Host!GateEnds
    BY <2>1, <2>2 DEF Host!ClockTick, Host!TransportStart, Host!TransportContinue,
       Host!TransportStop, Host!Panic, Host!Incoming, Host!GateEnds, Host!SilenceAll
  <2>3. CASE Host!CreateInstance
    BY <1>3, <2>3 DEF Host!CreateInstance, Host!NoClient, Host!Started, Host!SilenceAll
  <2>4. CASE Host!StopInstance \/ Host!CloseClient
    BY <1>3, <2>4 DEF Host!StopInstance, Host!CloseClient
  <2>5. CASE Host!OnStart \/ Host!Select \/ Host!SlowReturns \/ Host!EventsDone
             \/ Host!MessagesDone \/ Host!OnStop
    BY <1>3, <2>5 DEF Host!OnStart, Host!Select, Host!SlowReturns, Host!EventsDone,
       Host!MessagesDone, Host!OnStop, Host!At, Host!Thread, Host!Reaches
  <2>6. CASE Host!Dispatch
    BY <1>3, <2>6 DEF Host!Dispatch, Host!Thread
  <2>7. CASE Host!TakeMessage
    BY <1>3, <2>7 DEF Host!TakeMessage, Host!Thread
  <2>. QED
    BY <1>3, <2>2, <2>3, <2>4, <2>5, <2>6, <2>7 DEF Host!HostNext, Host!ThreadStep
<1>. QED BY <1>1, <1>2, <1>3 DEF BenchNext, On

\* A plugin's client is closed when no note of it sounds.
THEOREM QuietlyClosed == BenchSpec => ClosedQuiet
<1>1. BenchInit => HostInv
  BY DEF BenchInit, HostInv, Host!HostInit, Host!Gone
<1>2. HostInv /\ [BenchNext]_benchVars => [part = "host" => Host!QuietClose]_benchVars
  <2>. SUFFICES ASSUME HostInv, Host!HostNext, part = "host", b3.client = "open",
                       b3'.client = "closed", b3.thread # "slow"
                PROVE  ~b7
    BY DEF BenchNext, On, Host!QuietClose, Host!Thread
  <2>1. CASE Host!CloseClient
    BY <2>1 DEF HostInv, Host!CloseClient
  <2>2. CASE ~Host!CloseClient
    BY <2>2 DEF HostInv, Host!Gone, Host!HostNext, Host!ThreadStep, Host!ClockTick,
       Host!TransportStart, Host!TransportContinue,
       Host!TransportStop, Host!Panic, Host!Incoming, Host!GateEnds, Host!CreateInstance,
       Host!NoClient, Host!Started, Host!StopInstance, Host!OnStart, Host!Select,
       Host!SlowReturns, Host!EventsDone, Host!MessagesDone, Host!OnStop, Host!At,
       Host!Dispatch, Host!TakeMessage
  <2>. QED BY <2>1, <2>2
<1>. QED BY <1>1, <1>2, HostStep, PTL DEF BenchSpec, ClosedQuiet

-----------------------------------------------------------------------------
(* BleBridge.  An object is registered in the same step in which its client *)
(* is opened, its reader started and its watcher subscribed; every way out  *)
(* takes it out of _bridges first.                                          *)

\* The objects that exist, and what the registered one and those past their
\* registration have.
BleInv ==
  part = "ble" =>
    /\ b3 \subseteq Dev /\ b4 \in [Dev -> Ble!Phase]
    /\ \A d \in b3 : b3 = {d} /\ b4[d] = "open" /\ d \in b5 \cap b6 \cap b7

\* A step of the bridge keeps it.
LEMMA BleStep ==
  ASSUME BleInv, [BenchNext]_benchVars
  PROVE  BleInv'
<1>1. CASE UNCHANGED benchVars
  BY <1>1 DEF BleInv, benchVars, Ble!Phase
<1>2. CASE part = "ble" /\ Ble!BridgeNext /\ part' = part
  <2>. USE DEF BleInv, Ble!Phase, Ble!To, Ble!Fails, Ble!Ours, Ble!Tears
  <2>1. ASSUME NEW d \in Dev,
               \/ Ble!StartBridge(d) \/ Ble!EnsureAgent(d) \/ Ble!CheckLink(d) \/ Ble!Dial(d)
               \/ Ble!AwaitServices(d) \/ Ble!FindCharacteristic(d) \/ Ble!Bond(d)
               \/ Ble!StartNotify(d) \/ Ble!Unwatch(d) \/ Ble!CloseClient(d)
        PROVE  BleInv'
    BY <1>2, <2>1
       DEF Ble!StartBridge, Ble!EnsureAgent, Ble!CheckLink, Ble!Dial, Ble!AwaitServices,
           Ble!FindCharacteristic, Ble!Bond, Ble!StartNotify, Ble!Unwatch, Ble!CloseClient
  <2>2. ASSUME NEW d \in Dev, Ble!Opens(d) PROVE BleInv'
    BY <1>2, <2>2 DEF Ble!Opens
  <2>3. CASE Ble!Disconnect \/ Ble!OnDevDropped
    BY <1>2, <2>3 DEF Ble!Disconnect, Ble!OnDevDropped, Ble!Stops, Ble!Quits
  <2>4. CASE Ble!LinkDrops \/ Ble!LinkRises \/ Ble!ServicesResolve
    BY <1>2, <2>4 DEF Ble!LinkDrops, Ble!LinkRises, Ble!ServicesResolve
  <2>. QED BY <1>2, <2>1, <2>2, <2>3, <2>4 DEF Ble!BridgeNext
<1>3. CASE part # "ble" /\ part' = part
  BY <1>3 DEF BleInv
<1>. QED BY <1>1, <1>2, <1>3 DEF BenchNext, On

\* A bridge that is answered for plays.
THEOREM BridgePlays == BenchSpec => []RegisteredPlays
<1>1. BenchInit => BleInv
  BY DEF BenchInit, BleInv, Ble!BridgeInit, Ble!Phase
<1>2. BleInv /\ [BenchNext]_benchVars => BleInv'
  BY BleStep
<1>3. BleInv => RegisteredPlays
  BY DEF BleInv, RegisteredPlays, Ble!RegisteredPlays
<1>. QED BY <1>1, <1>2, <1>3, PTL DEF BenchSpec
-----------------------------------------------------------------------------
(* EventStream.  One value at a time is carried from the coalescer, or from  *)
(* the thread that wrote it, to the outboxes; what the view ends up with is  *)
(* what was sent last, and what is stored, once no writer holds it and       *)
(* nothing is queued.                                                        *)
(* (b1 is stored, b2 wiring, b3 pending, b4 sent, b5 emitting, b6 calls,     *)
(* b7 conn, b8 outbox, b9 view, b10 shown, b11 sure, b12 text,        *)
(* b13 stamped.)                                                             *)

\* The events of the parameter in an outbox; the value of the last, or else what is
\* shown already, is what the view ends up with.
StrMine(queue) == {i \in 1 .. Len(queue) : queue[i] # Str!Other}
StrLast(queue, v) == \A i \in StrMine(queue) : (\A j \in StrMine(queue) : j <= i) => queue[i] = v
StrEnds(v) ==
  IF b13 # {} \/ b5 # <<>> \/ b6 # <<>> THEN v = b4
  ELSE (StrMine(b8) = {} => b10 = v) /\ StrLast(b8, v)

StrMoves ==
  /\ b12 => b3 = 0 /\ b5 = <<>>
  /\ ~b12 => b13 = {} /\ (b6 # <<>> => b6[1] = b4)
  /\ b5 # <<>> => b6 = <<>> /\ Len(b5) = 1 /\ b5[1] = b4
  /\ b6 # <<>> => Len(b6) = 1
  /\ b4 = 0 => b5 = <<>> /\ b6 = <<>> /\ b13 = {}
  /\ \A w \in b13 : b2[w] # 0
StrViews == (b9 = "live" => b7 \in {"subscribed", "broken"}) /\ (b7 = "subscribed" => b9 = "live")
StrRest == \A w \in Str!Writer : b2[w] = 0
\* A view that has fetched its instance lacks nothing, a live one gets what it lacks.
StrFetched ==
  /\ StrRest /\ b3 = 0 /\ b10 = b1 /\ b4 \in {0, b1}
  /\ \A i \in StrMine(b8) : b8[i] = b1
StrSure ==
  /\ b9 # "closed"
  /\ b4 # 0 => StrEnds(b4)
  /\ \A w \in b13 : b2[w] = b4
  /\ b13 = {} /\ b6 # <<>> => b6[1] = b4
  /\ \A w \in Str!Writer : b2[w] # 0 => b2[w] = b1 /\ \A u \in Str!Writer : u # w => b2[u] = 0
  /\ StrRest /\ b3 # 0 => b3 = b1
  /\ StrRest /\ b3 = 0 => StrEnds(b1)
  /\ b9 = "fetched" => StrFetched
  /\ b9 = "live" => b7 = "subscribed"
StrInv ==
  part = "events" => Str!StreamTypeOK /\ StrMoves /\ StrViews /\ (b11 => StrSure)

\* The outbox after one more event: all of the view's own are still there, and the new
\* one is the last.
LEMMA StrPut ==
  ASSUME Str!StreamTypeOK, NEW m \in Level \cup {0}, Str!Put(m), ~Str!Loses
  PROVE  /\ m = 0 => /\ StrMine(b8') = {} <=> StrMine(b8) = {}
                     /\ \A v : StrLast(b8, v) => StrLast(b8', v)
         /\ m # 0 => StrMine(b8') # {} /\ StrLast(b8', m)
         /\ \A v : m \in {0, v} /\ (\A i \in StrMine(b8) : b8[i] = v) => \A i \in StrMine(b8') : b8'[i] = v
<1>1. /\ b8 \in Seq(Level \cup {0}) /\ Len(b8) \in Nat /\ Len(b8) <= OutboxSize
      /\ OutboxSize \in Nat /\ OutboxSize > 0
  BY BenchAssumption DEF BenchAssumption, Str!StreamAssumption, Str!StreamTypeOK, Str!Other
<1>2. CASE Len(b8) # OutboxSize
  <2>1. /\ Len(b8') = Len(b8) + 1 /\ b8'[Len(b8) + 1] = m
        /\ \A i \in 1 .. Len(b8) : b8'[i] = b8[i]
    BY <1>1, <1>2 DEF Str!Put
  <2>2. m = 0 => StrMine(b8') = StrMine(b8)
    BY <1>1, <2>1 DEF StrMine, Str!Other
  <2>3. m # 0 => Len(b8) + 1 \in StrMine(b8')
    BY <1>1, <2>1 DEF StrMine, Str!Other
  <2>4. ASSUME m # 0 PROVE StrLast(b8', m)
    <3>1. SUFFICES ASSUME NEW i \in StrMine(b8'), \A j \in StrMine(b8') : j <= i
                   PROVE  b8'[i] = m
      BY DEF StrLast
    <3>2. Len(b8) + 1 <= i /\ i \in 1 .. Len(b8')
      BY <2>3, <2>4, <3>1 DEF StrMine
    <3>. QED BY <1>1, <2>1, <3>2
  <2>5. ASSUME m = 0, NEW v, StrLast(b8, v) PROVE StrLast(b8', v)
    BY <2>1, <2>2, <2>5 DEF StrLast, StrMine
  <2>6. ASSUME NEW v, m \in {0, v}, \A i \in StrMine(b8) : b8[i] = v, NEW i \in StrMine(b8')
        PROVE  b8'[i] = v
    BY <1>1, <2>1, <2>6 DEF StrMine, Str!Other
  <2>. QED BY <2>2, <2>3, <2>4, <2>5, <2>6
<1>3. CASE Len(b8) = OutboxSize
  <2>1. /\ Len(b8') = Len(b8) /\ b8'[Len(b8)] = m
        /\ \A i \in 1 .. Len(b8) - 1 : b8'[i] = b8[i + 1]
    BY <1>1, <1>3 DEF Str!Put
  <2>2. 1 \notin StrMine(b8)
    BY <1>1, <1>3 DEF Str!Loses, StrMine, Str!Other
  <2>3. \A i \in StrMine(b8) : i - 1 \in 1 .. Len(b8) - 1 /\ i - 1 \in StrMine(b8')
    BY <1>1, <2>1, <2>2 DEF StrMine, Str!Other
  <2>4. \A i \in StrMine(b8') : i # Len(b8) \/ m = 0 => i + 1 \in StrMine(b8) /\ b8'[i] = b8[i + 1]
    BY <1>1, <2>1 DEF StrMine, Str!Other
  <2>5. m # 0 => Len(b8) \in StrMine(b8')
    BY <1>1, <1>3, <2>1 DEF StrMine, Str!Other
  <2>6. ASSUME m # 0 PROVE StrLast(b8', m)
    <3>1. SUFFICES ASSUME NEW i \in StrMine(b8'), \A j \in StrMine(b8') : j <= i
                   PROVE  b8'[i] = m
      BY DEF StrLast
    <3>2. Len(b8) <= i /\ i \in 1 .. Len(b8')
      BY <2>5, <2>6, <3>1 DEF StrMine
    <3>. QED BY <1>1, <2>1, <3>2
  <2>7. ASSUME m = 0, NEW v, StrLast(b8, v) PROVE StrLast(b8', v)
    <3>1. SUFFICES ASSUME NEW i \in StrMine(b8'), \A j \in StrMine(b8') : j <= i
                   PROVE  b8'[i] = v
      BY DEF StrLast
    <3>2. i + 1 \in StrMine(b8) /\ b8'[i] = b8[i + 1] /\ i \in Nat
      BY <1>1, <2>1, <2>4, <2>7 DEF StrMine
    <3>3. ASSUME NEW j \in StrMine(b8) PROVE j <= i + 1
      <4>1. j - 1 <= i /\ j \in Nat
        BY <2>3, <3>1 DEF StrMine
      <4>. QED BY <3>2, <4>1
    <3>. QED BY <2>7, <3>2, <3>3 DEF StrLast
  <2>8. ASSUME NEW v, m \in {0, v}, \A i \in StrMine(b8) : b8[i] = v, NEW i \in StrMine(b8')
        PROVE  b8'[i] = v
    BY <1>1, <2>1, <2>4, <2>8 DEF StrMine, Str!Other
  <2>9. m = 0 => (StrMine(b8') = {} <=> StrMine(b8) = {})
    BY <2>3, <2>4
  <2>. QED BY <2>5, <2>6, <2>7, <2>8, <2>9
<1>. QED BY <1>2, <1>3

\* The outbox after one more event is an outbox.
LEMMA StrPutTypes ==
  ASSUME Str!StreamTypeOK, NEW m \in Level \cup {0}, Str!Put(m)
  PROVE  b8' \in Seq(Level \cup {0}) /\ Len(b8') <= OutboxSize
<1>1. b8 \in Seq(Level \cup {0}) /\ Len(b8) <= OutboxSize /\ OutboxSize \in Nat /\ OutboxSize > 0
  BY BenchAssumption DEF BenchAssumption, Str!StreamAssumption, Str!StreamTypeOK, Str!Other
<1>. QED BY <1>1 DEF Str!Put

\* A step of the stream keeps the types.
LEMMA StrTypes ==
  ASSUME Str!StreamTypeOK, StrMoves, Str!StreamNext
  PROVE  Str!StreamTypeOK'
<1>. USE DEF Str!StreamTypeOK, Str!coalescerVars, Str!clientVars
<1>1. ASSUME NEW w \in Str!Writer, NEW v \in Level,
             \/ Str!Recreate(v) \/ Str!Store(w, v) \/ Str!Submit(w)
             \/ Str!Stamp(w) \/ Str!EmitNow(w)
      PROVE  Str!StreamTypeOK'
  <2>1. ASSUME Str!Recreate(v) PROVE Str!StreamTypeOK'
    BY <2>1 DEF Str!Recreate
  <2>2. ASSUME Str!Store(w, v) PROVE Str!StreamTypeOK'
    <3>1. b2' \in [Str!Writer -> Level \cup {0}]
      BY <2>2 DEF Str!Store
    <3>. QED BY <2>2, <3>1 DEF Str!Store
  <2>3. ASSUME Str!Submit(w) PROVE Str!StreamTypeOK'
    <3>1. b2' \in [Str!Writer -> Level \cup {0}]
      BY <2>3 DEF Str!Submit
    <3>. QED BY <2>3, <3>1 DEF Str!Submit
  <2>4. ASSUME Str!Stamp(w) PROVE Str!StreamTypeOK'
    <3>1. b2' \in [Str!Writer -> Level \cup {0}] /\ b13' \subseteq Str!Writer
      BY <2>4 DEF Str!Stamp
    <3>2. b3' \in Level \cup {0} /\ b4' \in Level \cup {0}
      BY <2>4 DEF Str!Stamp
    <3>. QED BY <2>4, <3>1, <3>2 DEF Str!Stamp
  <2>5. ASSUME Str!EmitNow(w), b2[w] # 0 PROVE Str!StreamTypeOK'
    <3>1. b2' \in [Str!Writer -> Level \cup {0}] /\ b13' \subseteq Str!Writer
      BY <2>5 DEF Str!EmitNow
    <3>2. b6' \in Seq(Level)
      BY <2>5 DEF Str!EmitNow
    <3>. QED BY <2>5, <3>1, <3>2 DEF Str!EmitNow
  <2>6. Str!EmitNow(w) => b2[w] # 0
    BY DEF Str!EmitNow, StrMoves
  <2>. QED BY <1>1, <2>1, <2>2, <2>3, <2>4, <2>5, <2>6
<1>2. CASE Str!Flush
  <2>1. b3 # 0 => <<b3>> \in Seq(Level)
    OBVIOUS
  <2>. QED BY <1>2, <2>1 DEF Str!Flush
<1>3. CASE Str!Emit
  <2>1. Tail(b5) \in Seq(Level) /\ Append(b6, Head(b5)) \in Seq(Level)
    BY <1>3 DEF Str!Emit
  <2>. QED BY <1>3, <2>1 DEF Str!Emit
<1>4. CASE Str!SendSse
  <2>1. Tail(b6) \in Seq(Level) /\ Head(b6) \in Level
    BY <1>4 DEF Str!SendSse
  <2>2. b8' \in Seq(Level \cup {0}) /\ Len(b8') <= OutboxSize
    BY <1>4, <2>1, StrPutTypes DEF Str!SendSse, Str!Other
  <2>. QED BY <1>4, <2>1, <2>2 DEF Str!SendSse, Str!Other
<1>5. ASSUME NEW heartbeat \in BOOLEAN, Str!SendOther(heartbeat)
      PROVE  Str!StreamTypeOK'
  <2>1. b8' \in Seq(Level \cup {0}) /\ Len(b8') <= OutboxSize
    BY <1>5, StrPutTypes DEF Str!SendOther, Str!Other
  <2>. QED BY <1>5, <2>1 DEF Str!SendOther, Str!Other
<1>6. OutboxSize >= 0 /\ <<>> \in Seq(Level \cup {0}) /\ Len(<<>>) = 0
  BY BenchAssumption DEF BenchAssumption, Str!StreamAssumption
<1>7. CASE Str!Drain
  <2>1. b10' \in Level \cup {0}
    BY <1>7 DEF Str!Drain, Str!Other
  <2>. QED BY <1>6, <1>7, <2>1 DEF Str!Drain, Str!Other
<1>8. CASE Str!Connect \/ Str!PeerLeaves \/ Str!Shed
  BY <1>6, <1>8 DEF Str!Connect, Str!PeerLeaves, Str!Shed, Str!Other
<1>9. CASE Str!Open \/ Str!Subscribe \/ Str!Leave
  BY <1>9 DEF Str!Open, Str!Subscribe, Str!Leave, Str!InStep
<1>. QED BY <1>1, <1>2, <1>3, <1>4, <1>5, <1>7, <1>8, <1>9 DEF Str!StreamNext, Str!Writer

\* One value at a time is on its way, and a subscribed connection is a live view's.
LEMMA StrMoving ==
  ASSUME Str!StreamTypeOK, StrMoves, StrViews, Str!StreamNext
  PROVE  StrMoves' /\ StrViews'
<1>. USE DEF StrMoves, StrViews, Str!coalescerVars, Str!clientVars
<1>1. ASSUME UNCHANGED <<b2, b3, b4, b5, b6, b7, b9, b12, b13>> PROVE StrMoves' /\ StrViews'
  BY <1>1
<1>2. \/ Str!Drain \/ \E heartbeat \in BOOLEAN : Str!SendOther(heartbeat)
      \/ \E v \in Level : Str!Recreate(v)
      => UNCHANGED <<b2, b3, b4, b5, b6, b7, b9, b12, b13>>
  BY DEF Str!Recreate, Str!SendOther, Str!Drain
<1>3. CASE Str!Flush
  <2>1. Len(<<b3>>) = 1 /\ <<b3>>[1] = b3 /\ <<b3>> # <<>>
    OBVIOUS
  <2>. QED BY <1>3, <2>1 DEF Str!Flush
<1>4. CASE Str!Emit
  <2>1. /\ b5 \in Seq(Level) /\ b5 # <<>> /\ b6 = <<>> /\ Len(b5) = 1 /\ b5[1] = b4
        /\ UNCHANGED <<b2, b3, b4, b7, b9, b12, b13>>
    BY <1>4 DEF Str!Emit, Str!StreamTypeOK
  <2>2. b5' = <<>> /\ b6' = <<b4>>
    BY <1>4, <2>1 DEF Str!Emit
  <2>. QED BY <2>1, <2>2
<1>5. CASE Str!SendSse
  <2>1. /\ b6 \in Seq(Level) /\ b6 # <<>> /\ b5 = <<>> /\ Len(b6) = 1
        /\ UNCHANGED <<b2, b3, b4, b5, b7, b9, b12, b13>>
    BY <1>5 DEF Str!SendSse, Str!StreamTypeOK
  <2>2. b6' = <<>>
    BY <1>5, <2>1 DEF Str!SendSse
  <2>. QED BY <2>1, <2>2
<1>6. CASE Str!Connect \/ Str!PeerLeaves \/ Str!Shed \/ Str!Open \/ Str!Subscribe \/ Str!Leave
  BY <1>6 DEF Str!Connect, Str!PeerLeaves, Str!Shed, Str!Open, Str!Subscribe, Str!Leave
<1>7. ASSUME NEW w \in Str!Writer, NEW v \in Level, Str!Store(w, v) PROVE StrMoves' /\ StrViews'
  <2>1. /\ UNCHANGED <<b3, b4, b5, b6, b7, b9, b12, b13>> /\ v # 0
        /\ \A u \in Str!Writer : b2'[u] = IF u = w THEN v ELSE b2[u]
    BY <1>7, BenchAssumption
       DEF Str!Store, Str!StreamTypeOK, BenchAssumption, Str!StreamAssumption
  <2>. QED BY <2>1 DEF Str!StreamTypeOK
<1>8. ASSUME NEW w \in Str!Writer, Str!Submit(w) PROVE StrMoves' /\ StrViews'
  BY <1>8 DEF Str!Submit
<1>9. ASSUME NEW w \in Str!Writer, Str!Stamp(w) PROVE StrMoves' /\ StrViews'
  <2>1. /\ UNCHANGED <<b5, b6, b7, b9, b12>> /\ b12 /\ b3 = 0 /\ b5 = <<>> /\ b3' = 0
        /\ b2[w] # 0 /\ w \notin b13
    BY <1>9 DEF Str!Stamp
  <2>2. CASE b2[w] = b4
    <3>1. b4' = b4 /\ b13' = b13 /\ \A u \in Str!Writer : u # w => b2'[u] = b2[u]
      BY <1>9, <2>2 DEF Str!Stamp, Str!StreamTypeOK
    <3>. QED BY <2>1, <3>1 DEF Str!StreamTypeOK
  <2>3. CASE b2[w] # b4
    <3>1. b4' = b2[w] /\ b13' = b13 \cup {w} /\ b2' = b2
      BY <1>9, <2>3 DEF Str!Stamp
    <3>. QED BY <2>1, <3>1
  <2>. QED BY <2>2, <2>3
<1>10. ASSUME NEW w \in Str!Writer, Str!EmitNow(w) PROVE StrMoves' /\ StrViews'
  <2>1. /\ UNCHANGED <<b3, b4, b5, b7, b9, b12>> /\ b12 /\ b4 # 0 /\ b13' = b13 \ {w}
        /\ \A u \in Str!Writer : u # w => b2'[u] = b2[u]
    BY <1>10 DEF Str!EmitNow, Str!StreamTypeOK
  <2>2. Len(b6') = 1
    BY <1>10 DEF Str!EmitNow
  <2>. QED BY <2>1, <2>2 DEF Str!StreamTypeOK
<1>. QED
  BY <1>1, <1>2, <1>3, <1>4, <1>5, <1>6, <1>7, <1>8, <1>9, <1>10 DEF Str!StreamNext

\* What has been sent is what the view ends up with, in every outbox.
LEMMA StrSent ==
  ASSUME Str!StreamTypeOK, StrMoves, StrViews, b11 => StrSure, Str!SendSse, b11'
  PROVE  StrSure'
<1>1. /\ b6 # <<>> /\ b5 = <<>> /\ Head(b6) = b6[1] /\ b6[1] \in Level /\ b6[1] # 0 /\ b4 # 0
      /\ b6' = <<>> /\ UNCHANGED <<b1, b2, b3, b4, b5, b7, b9, b10, b13>>
  <2>1. b6 \in Seq(Level) /\ b6 # <<>> /\ Len(b6) = 1 /\ b4 # 0 /\ b5 = <<>>
    BY DEF Str!SendSse, Str!StreamTypeOK, StrMoves
  <2>2. Head(b6) = b6[1] /\ b6[1] \in Level
    BY <2>1
  <2>3. b6' = <<>>
    BY <2>1 DEF Str!SendSse
  <2>4. b6[1] # 0
    BY <2>2, BenchAssumption DEF BenchAssumption, Str!StreamAssumption
  <2>. QED BY <2>1, <2>2, <2>3, <2>4 DEF Str!SendSse, Str!coalescerVars
<1>2. b11 /\ StrSure /\ (b13 = {} => b6[1] = b4)
  BY <1>1 DEF Str!SendSse, StrSure
<1>3. b9 = "live" => Str!Put(b6[1]) /\ ~Str!Loses
  BY <1>1, <1>2 DEF StrSure, Str!SendSse
<1>4. CASE b9 = "live"
  <2>1. StrMine(b8') # {} /\ StrLast(b8', b6[1])
    BY <1>1, <1>3, <1>4, StrPut
  <2>2. StrEnds(b4)'
    BY <1>1, <1>2, <2>1 DEF StrEnds, StrLast, StrMine
  <2>3. StrRest /\ b3 = 0 => b1 = b4
    BY <1>1, <1>2 DEF StrSure, StrEnds
  <2>. QED BY <1>1, <1>2, <1>4, <2>2, <2>3 DEF StrSure, StrRest, StrEnds, StrLast, StrMine
<1>5. CASE b9 = "fetched"
  <2>1. StrFetched /\ b4 = b1 /\ b6[1] = b1
    <3>1. StrFetched /\ b4 = b1
      BY <1>1, <1>2, <1>5 DEF StrSure, StrFetched
    <3>2. b13 = {}
      BY <3>1 DEF StrFetched, StrRest, StrMoves, Str!StreamTypeOK
    <3>. QED BY <1>2, <3>1, <3>2
  <2>2. \A i \in StrMine(b8') : b8'[i] = b1
    <3>1. CASE b8' = b8
      BY <2>1, <3>1 DEF StrFetched
    <3>2. CASE Str!Put(b6[1]) /\ ~Str!Loses
      BY <1>1, <2>1, <3>2, StrPut DEF StrFetched
    <3>. QED BY <1>1, <1>2, <3>1, <3>2 DEF Str!SendSse
  <2>3. StrFetched'
    BY <1>1, <2>1, <2>2 DEF StrFetched, StrRest, StrMine
  <2>4. StrEnds(b1)'
    BY <1>1, <2>1, <2>2 DEF StrEnds, StrFetched, StrLast, StrMine
  <2>. QED BY <1>1, <1>2, <1>5, <2>1, <2>3, <2>4 DEF StrSure, StrRest, StrEnds, StrLast, StrMine
<1>. QED BY <1>2, <1>4, <1>5 DEF StrSure, Str!StreamTypeOK

\* No other event in the outbox changes what the view ends up with.
LEMMA StrOthers ==
  ASSUME Str!StreamTypeOK, b11 => StrSure, NEW heartbeat \in BOOLEAN,
         Str!SendOther(heartbeat), b11'
  PROVE  StrSure'
<1>1. /\ Str!Put(0) /\ ~Str!Loses /\ b11 /\ StrSure
      /\ UNCHANGED <<b1, b2, b3, b4, b5, b6, b7, b9, b10, b13>>
  BY DEF Str!SendOther, Str!Other, Str!coalescerVars
<1>2. /\ StrMine(b8') = {} <=> StrMine(b8) = {}
      /\ \A v : StrLast(b8, v) => StrLast(b8', v)
      /\ \A v : (\A i \in StrMine(b8) : b8[i] = v) => \A i \in StrMine(b8') : b8'[i] = v
  BY <1>1, StrPut
<1>3. \A v : StrEnds(v) => StrEnds(v)'
  BY <1>1, <1>2 DEF StrEnds, StrLast, StrMine
<1>4. StrFetched => StrFetched'
  BY <1>1, <1>2 DEF StrFetched, StrRest, StrMine
<1>. QED BY <1>1, <1>3, <1>4 DEF StrSure, StrRest, StrEnds, StrLast, StrMine

\* What the connection writes out is what the view shows.
LEMMA StrDrained ==
  ASSUME Str!StreamTypeOK, b11 => StrSure, Str!Drain, b11'
  PROVE  StrSure'
<1>1. /\ b8' = <<>> /\ b11 /\ StrSure /\ b9 # "closed"
      /\ UNCHANGED <<b1, b2, b3, b4, b5, b6, b7, b9, b13>>
  BY DEF Str!Drain, Str!coalescerVars, StrSure
<1>2. \/ StrMine(b8) = {} /\ b10' = b10
      \/ \E i \in StrMine(b8) : (\A j \in StrMine(b8) : j <= i) /\ b10' = b8[i]
  BY <1>1 DEF Str!Drain, StrMine
<1>3. StrMine(b8') = {}
  BY <1>1 DEF StrMine
<1>4. ASSUME NEW v, StrEnds(v) PROVE StrEnds(v)'
  <2>1. StrMine(b8)' = {} /\ StrLast(b8', v)
    BY <1>3 DEF StrMine, StrLast
  <2>2. b13 = {} /\ b5 = <<>> /\ b6 = <<>> => b10' = v
    BY <1>2, <1>4 DEF StrEnds, StrLast
  <2>. QED BY <1>1, <1>4, <2>1, <2>2 DEF StrEnds, StrLast, StrMine
<1>5. StrFetched => StrFetched'
  BY <1>1, <1>2, <1>3 DEF StrFetched, StrRest, StrMine
<1>. QED BY <1>1, <1>4, <1>5 DEF StrSure, StrRest, StrEnds, StrLast, StrMine

\* The coalescer hands over what is queued, unless it was sent already.
LEMMA StrFlushed ==
  ASSUME Str!StreamTypeOK, StrMoves, b11 => StrSure, Str!Flush \/ Str!Emit, b11'
  PROVE  StrSure'
<1>1. b11 /\ StrSure /\ UNCHANGED <<b1, b2, b7, b8, b9, b10, b13>> /\ b13 = {}
  BY DEF Str!Flush, Str!Emit, Str!clientVars, StrMoves
<1>2. CASE Str!Flush
  <2>1. b5 = <<>> /\ b6 = <<>> /\ b6' = b6 /\ b3 # 0 /\ b3' = 0
    BY <1>2 DEF Str!Flush
  <2>2. CASE b3 = b4
    <3>1. UNCHANGED <<b4, b5>>
      BY <1>2, <2>2 DEF Str!Flush
    <3>2. \A v : StrEnds(v)' <=> StrEnds(v)
      BY <1>1, <2>1, <3>1 DEF StrEnds, StrLast, StrMine
    <3>3. b9 # "fetched"
      BY <1>1, <2>1 DEF StrSure, StrFetched
    <3>. QED BY <1>1, <2>1, <2>2, <3>1, <3>2, <3>3 DEF StrSure, StrRest, StrEnds, StrLast, StrMine
  <2>3. CASE b3 # b4
    <3>1. b5' = <<b3>> /\ b4' = b3 /\ <<b3>> # <<>>
      BY <1>2, <2>3 DEF Str!Flush
    <3>2. \A v : StrEnds(v)' <=> v = b3
      BY <3>1 DEF StrEnds
    <3>3. b9 # "fetched"
      BY <1>1, <2>1 DEF StrSure, StrFetched
    <3>. QED BY <1>1, <2>1, <3>1, <3>2, <3>3 DEF StrSure, StrRest, StrEnds, StrLast, StrMine
  <2>. QED BY <2>2, <2>3
<1>3. CASE Str!Emit
  <2>1. /\ b5 # <<>> /\ b6 = <<>> /\ b6' = Append(b6, Head(b5)) /\ b5[1] = b4
        /\ UNCHANGED <<b3, b4>>
    BY <1>3 DEF Str!Emit, StrMoves
  <2>2. b6' # <<>> /\ b6'[1] = b4
    BY <2>1 DEF Str!StreamTypeOK
  <2>3. \A v : StrEnds(v)' <=> StrEnds(v)
    BY <2>1, <2>2 DEF StrEnds
  <2>4. StrFetched => StrFetched'
    BY <1>1, <2>1 DEF StrFetched, StrRest, StrMine
  <2>. QED BY <1>1, <2>1, <2>2, <2>3, <2>4 DEF StrSure, StrRest, StrEnds, StrLast, StrMine
<1>. QED BY <1>2, <1>3

\* A writer stores a value and hands it to the coalescer.
LEMMA StrWritten ==
  ASSUME Str!StreamTypeOK, StrMoves, b11 => StrSure, b11',
         NEW w \in Str!Writer, Str!Submit(w) \/ \E v \in Level : Str!Store(w, v)
  PROVE  StrSure'
<1>1. b11 /\ StrSure /\ UNCHANGED <<b4, b5, b6, b7, b8, b9, b10, b13>> /\ b13 = {}
  BY DEF Str!Submit, Str!Store, Str!clientVars, Str!coalescerVars, StrMoves, Str!StreamTypeOK
<1>2. \A v : StrEnds(v)' <=> StrEnds(v)
  BY <1>1 DEF StrEnds, StrLast, StrMine
<1>3. ASSUME NEW v \in Level, Str!Store(w, v) PROVE StrSure'
  <2>1. /\ b9 = "live" /\ StrRest /\ b1' = v /\ b3' = b3 /\ v # 0
        /\ b2' = [b2 EXCEPT ![w] = v]
    BY <1>3, BenchAssumption
       DEF Str!Store, Str!coalescerVars, StrRest, BenchAssumption, Str!StreamAssumption
  <2>2. \A u \in Str!Writer : b2'[u] = IF u = w THEN v ELSE 0
    BY <2>1 DEF StrRest, Str!StreamTypeOK
  <2>3. ~StrRest'
    BY <2>1, <2>2 DEF StrRest
  <2>. QED BY <1>1, <1>2, <2>1, <2>2, <2>3 DEF StrSure, StrEnds, StrLast, StrMine
<1>4. CASE Str!Submit(w)
  <2>1. b2[w] # 0 /\ b3' = b2[w] /\ b2' = [b2 EXCEPT ![w] = 0] /\ b1' = b1
    BY <1>4 DEF Str!Submit
  <2>2. b2[w] = b1 /\ \A u \in Str!Writer : b2'[u] = 0
    BY <1>1, <2>1 DEF StrSure, Str!StreamTypeOK
  <2>3. b9 # "fetched"
    BY <1>1, <2>1 DEF StrSure, StrFetched, StrRest
  <2>. QED BY <1>1, <1>2, <2>1, <2>2, <2>3 DEF StrSure, StrRest, StrEnds, StrLast, StrMine
<1>. QED BY <1>3, <1>4

\* The thread that wrote a string marks it as sent, and emits it.
LEMMA StrStamped ==
  ASSUME Str!StreamTypeOK, StrMoves, b11 => StrSure, b11',
         NEW w \in Str!Writer, Str!Stamp(w) \/ Str!EmitNow(w)
  PROVE  StrSure'
<1>1. b11 /\ StrSure /\ UNCHANGED <<b1, b5, b7, b8, b9, b10>> /\ b3' = 0 /\ b2[w] # 0
  BY DEF Str!Stamp, Str!EmitNow, Str!clientVars, Str!coalescerVars, StrMoves
<1>2. /\ b2[w] = b1 /\ b9 # "fetched"
      /\ \A u \in Str!Writer : u # w => b2[u] = 0
      /\ \A u \in b13 : u = w
  <2>1. b2[w] = b1 /\ \A u \in Str!Writer : u # w => b2[u] = 0
    BY <1>1 DEF StrSure
  <2>. QED BY <1>1, <2>1 DEF StrSure, StrFetched, StrRest, StrMoves, Str!StreamTypeOK
<1>3. CASE Str!Stamp(w) /\ b2[w] = b4
  <2>1. /\ UNCHANGED <<b4, b6, b13>> /\ b4 # 0 /\ \A u \in Str!Writer : b2'[u] = 0
        /\ b13 = {}
    BY <1>1, <1>2, <1>3 DEF Str!Stamp, Str!StreamTypeOK
  <2>2. \A v : StrEnds(v)' <=> StrEnds(v)
    BY <1>1, <2>1 DEF StrEnds, StrLast, StrMine
  <2>3. StrEnds(b1)
    BY <1>1, <1>2, <1>3, <2>1 DEF StrSure
  <2>. QED BY <1>1, <1>2, <2>1, <2>2, <2>3 DEF StrSure, StrRest, StrEnds, StrLast, StrMine
<1>4. CASE Str!Stamp(w) /\ b2[w] # b4
  <2>1. b13' = b13 \cup {w} /\ b4' = b2[w] /\ b2' = b2
    BY <1>4 DEF Str!Stamp
  <2>2. StrEnds(b4)' /\ ~StrRest'
    BY <1>1, <2>1 DEF StrEnds, StrRest
  <2>. QED BY <1>1, <1>2, <2>1, <2>2 DEF StrSure, StrRest, StrEnds, StrLast, StrMine
<1>5. CASE Str!EmitNow(w)
  <2>1. /\ b13' = {} /\ b6' = <<b4>> /\ b4' = b4 /\ b4 = b1
        /\ \A u \in Str!Writer : b2'[u] = 0
    BY <1>1, <1>2, <1>5 DEF Str!EmitNow, Str!coalescerVars, StrSure, Str!StreamTypeOK
  <2>2. b6'[1] = b4 /\ b6' # <<>>
    BY <2>1
  <2>3. \A v : StrEnds(v)' <=> v = b4
    BY <2>1, <2>2 DEF StrEnds
  <2>. QED BY <1>1, <1>2, <2>1, <2>2, <2>3 DEF StrSure, StrRest, StrEnds, StrLast, StrMine
<1>. QED BY <1>3, <1>4, <1>5

\* Connections and pages that come and go.
LEMMA StrVisited ==
  ASSUME Str!StreamTypeOK, StrMoves, StrViews, b11 => StrSure, b11',
         \/ Str!Connect \/ Str!PeerLeaves \/ Str!Shed \/ Str!Open \/ Str!Subscribe
         \/ Str!Leave \/ \E v \in Level : Str!Recreate(v)
  PROVE  StrSure'
<1>0. Str!Connect \/ Str!Shed \/ Str!Open \/ Str!Subscribe
  <2>1. Str!PeerLeaves \/ Str!Leave \/ (\E v \in Level : Str!Recreate(v)) => b11' = FALSE
    BY DEF Str!PeerLeaves, Str!Leave, Str!Recreate
  <2>. QED BY <2>1
<1>1. UNCHANGED <<b1, b2, b3, b4, b5, b6, b13>>
  BY <1>0 DEF Str!Connect, Str!Shed, Str!Open, Str!Subscribe, Str!coalescerVars
<1>2. ASSUME StrFetched, b9 = "fetched", b6 # <<>> => b6[1] = b4, UNCHANGED <<b9, b10>>,
             b8' \in {b8, <<>>}
      PROVE  StrSure'
  <2>0. b13 = {}
    BY <1>2 DEF StrFetched, StrRest, StrMoves, Str!StreamTypeOK
  <2>1. \A i \in StrMine(b8') : b8'[i] = b1
    BY <1>2 DEF StrFetched, StrMine
  <2>2. StrFetched'
    BY <1>1, <1>2, <2>1 DEF StrFetched, StrRest, StrMine
  <2>3. b5 # <<>> \/ b6 # <<>> => b4 = b1
    BY <1>2 DEF StrMoves, StrFetched
  <2>4. StrEnds(b1)'
    BY <1>1, <1>2, <2>0, <2>1, <2>3 DEF StrEnds, StrFetched, StrLast, StrMine
  <2>. QED BY <1>1, <1>2, <2>0, <2>2, <2>4 DEF StrSure, StrFetched, StrRest, StrEnds, StrLast, StrMine
<1>3. CASE Str!Connect
  <2>1. b11 /\ StrSure /\ b9 = "fetched" /\ b8' = <<>> /\ UNCHANGED <<b9, b10>>
    BY <1>3 DEF Str!Connect, StrSure, Str!StreamTypeOK
  <2>2. b13 = {}
    BY <2>1 DEF StrSure, StrFetched, StrRest, StrMoves, Str!StreamTypeOK
  <2>. QED BY <1>2, <2>1, <2>2 DEF StrSure
<1>4. CASE Str!Shed
  <2>1. b11 /\ StrSure /\ b9 = "fetched" /\ b8' = <<>> /\ UNCHANGED <<b9, b10>>
    BY <1>4 DEF Str!Shed, StrSure, Str!StreamTypeOK
  <2>2. b13 = {}
    BY <2>1 DEF StrSure, StrFetched, StrRest, StrMoves, Str!StreamTypeOK
  <2>. QED BY <1>2, <2>1, <2>2 DEF StrSure
<1>5. CASE Str!Open
  <2>1. b9' = "fetched" /\ b10' = b1 /\ Str!InStep /\ b8' = b8
    BY <1>5 DEF Str!Open
  <2>2. StrFetched'
    BY <1>1, <2>1 DEF StrFetched, StrRest, StrMine, Str!InStep, Str!Other
  <2>3. StrMine(b8') = {}
    BY <2>1 DEF StrMine, Str!InStep
  <2>4. /\ b5 # <<>> \/ b6 # <<>> => b4 = b1
        /\ b6 # <<>> => b6[1] = b4
        /\ b13 = {}
    <3>1. b6 # <<>> => 1 \in 1 .. Len(b6)
      BY DEF StrMoves
    <3>. QED BY <2>1, <3>1 DEF StrMoves, Str!InStep, Str!StreamTypeOK
  <2>5. StrEnds(b1)'
    BY <1>1, <2>1, <2>3, <2>4 DEF StrEnds, StrLast, StrMine
  <2>. QED BY <1>1, <2>1, <2>2, <2>4, <2>5 DEF StrSure, StrFetched, StrRest, StrEnds, StrLast, StrMine
<1>6. CASE Str!Subscribe
  <2>1. b11 /\ StrSure /\ b9 = "fetched" /\ b9' = "live" /\ b7' = "subscribed" /\ UNCHANGED <<b8, b10>>
    BY <1>6 DEF Str!Subscribe
  <2>. QED BY <1>1, <2>1 DEF StrSure, StrFetched, StrRest, StrEnds, StrLast, StrMine
<1>. QED BY <1>0, <1>3, <1>4, <1>5, <1>6

\* A step of the stream keeps it.
LEMMA StrStep ==
  ASSUME StrInv, [BenchNext]_benchVars
  PROVE  StrInv'
<1>1. CASE UNCHANGED benchVars
  BY <1>1 DEF StrInv, StrMoves, StrViews, StrSure, StrFetched, StrRest, StrEnds, StrLast,
     StrMine, Str!StreamTypeOK, benchVars
<1>2. CASE part # "events" /\ part' = part
  BY <1>2 DEF StrInv
<1>3. CASE part = "events" /\ Str!StreamNext /\ part' = part
  <2>1. Str!StreamTypeOK /\ StrMoves /\ StrViews /\ (b11 => StrSure)
    BY <1>3 DEF StrInv
  <2>2. b11' => StrSure'
    BY <1>3, <2>1, StrSent, StrOthers, StrDrained, StrFlushed, StrWritten, StrStamped, StrVisited
       DEF Str!StreamNext
  <2>. QED BY <1>3, <2>1, <2>2, StrTypes, StrMoving DEF StrInv
<1>. QED BY <1>1, <1>2, <1>3 DEF BenchNext, On

\* The freshest value reaches the consumer: when everything is delivered, a view that
\* nothing happened to which the code cannot make up for shows what is stored.
THEOREM FreshestShown == BenchSpec => []QuietIsFresh
<1>1. BenchInit => StrInv
  <2>1. ASSUME Str!StreamInit PROVE Str!StreamTypeOK /\ StrMoves /\ StrViews /\ ~b11
    <3>1. /\ OutboxSize >= 0 /\ <<>> \in Seq(Level) /\ <<>> \in Seq(Level \cup {0}) /\ Len(<<>>) = 0
      BY BenchAssumption DEF BenchAssumption, Str!StreamAssumption
    <3>2. Str!StreamTypeOK
      BY <2>1, <3>1 DEF Str!StreamInit, Str!StreamTypeOK, Str!Other
    <3>3. b11 = FALSE
      BY <2>1 DEF Str!StreamInit
    <3>. QED BY <2>1, <3>2, <3>3 DEF Str!StreamInit, StrMoves, StrViews
  <2>. QED BY <2>1 DEF BenchInit, StrInv
<1>2. StrInv => QuietIsFresh
  <2>1. SUFFICES ASSUME Str!StreamTypeOK, StrMoves, StrSure, Str!Quiet PROVE b10 = b1
    BY DEF StrInv, QuietIsFresh, Str!QuietIsFresh
  <2>2. StrEnds(b1) /\ StrMine(b8) = {}
    BY <2>1 DEF StrSure, StrRest, Str!Quiet, StrMine
  <2>3. b13 = {}
    BY <2>1 DEF StrInv, StrMoves, Str!Quiet, Str!StreamTypeOK
  <2>. QED BY <2>1, <2>2, <2>3 DEF StrEnds, Str!Quiet
<1>. QED BY <1>1, <1>2, StrStep, PTL DEF BenchSpec

-----------------------------------------------------------------------------
(* DropButtons.  The lemmas are those of DropButtonsProofs.                  *)

DrpP == INSTANCE DropButtonsProofs WITH state <- b1, sched <- b2, parked <- b3, half <- b4,
          ticks <- b5, alone <- b6, steady <- b7, last <- b8
DropsInv == part = "drops" => DrpP!DropInv

\* Both names of the component mean the same.
LEMMA DropsSame ==
  /\ DrpP!DropAssumption
  /\ Drp!DropInit => DrpP!DropInit
  /\ Drp!DropNext => DrpP!DropNext
  /\ DrpP!EvictedWithSlot => Drp!EvictedWithSlot
  /\ DrpP!DropStep => Drp!DropStep
<1>. USE DEF Drp!Thread, DrpP!Thread, Drp!Key, DrpP!Key, Drp!Open, DrpP!Open, Drp!Clear, DrpP!Clear,
       Drp!AtRest, DrpP!AtRest
<1>1. DrpP!DropAssumption
  BY BenchAssumption DEF BenchAssumption, Drp!DropAssumption, DrpP!DropAssumption
<1>2. Drp!DropInit => DrpP!DropInit
  BY DEF Drp!DropInit, DrpP!DropInit
<1>3. DrpP!EvictedWithSlot => Drp!EvictedWithSlot
  BY DEF Drp!EvictedWithSlot, DrpP!EvictedWithSlot
<1>4. DrpP!DropStep => Drp!DropStep
  BY DEF Drp!DropStep, DrpP!DropStep
<1>. USE DEF Drp!Armed, DrpP!Armed, Drp!Without, DrpP!Without, Drp!Released, DrpP!Released,
       Drp!NoneAtWork, DrpP!NoneAtWork, Drp!Empty, DrpP!Empty, Drp!Followed, DrpP!Followed,
       Drp!Heard, DrpP!Heard, Drp!Presses, DrpP!Presses, Drp!Bumped, DrpP!Bumped
<1>5. \A t, h : Drp!Begins(t, h) => DrpP!Begins(t, h)
  BY DEF Drp!Begins, DrpP!Begins
<1>6. \A t : Drp!Ends(t) => DrpP!Ends(t)
  BY DEF Drp!Ends, DrpP!Ends
<1>7. \A t, b : Drp!PressReads(t, b) => DrpP!PressReads(t, b)
  BY <1>5 DEF Drp!PressReads, DrpP!PressReads
<1>8. \A t : Drp!Capture(t) => DrpP!Capture(t)
  BY <1>6 DEF Drp!Capture, DrpP!Capture
<1>9. \A t : Drp!FireNow(t) => DrpP!FireNow(t)
  BY <1>6 DEF Drp!FireNow, DrpP!FireNow
<1>10. \A t : Drp!Cancel(t) => DrpP!Cancel(t)
  BY <1>6 DEF Drp!Cancel, DrpP!Cancel
<1>11. \A t, k, at, timed : Drp!Schedule(t, k, at, timed) => DrpP!Schedule(t, k, at, timed)
  BY <1>6 DEF Drp!Schedule, DrpP!Schedule, Drp!MayPark, DrpP!MayPark, Drp!Outdone, DrpP!Outdone
<1>12. Drp!TickReads => DrpP!TickReads
  BY <1>5 DEF Drp!TickReads, DrpP!TickReads
<1>13. Drp!TickWrites => DrpP!TickWrites
  BY <1>6 DEF Drp!TickWrites, DrpP!TickWrites, Drp!Sent, DrpP!Sent
<1>14. Drp!Tick => DrpP!Tick
  BY DEF Drp!Tick, DrpP!Tick, Drp!Closer, DrpP!Closer, Drp!Sooner, DrpP!Sooner
<1>15. \A e : Drp!Deliver(e) => DrpP!Deliver(e)
  BY DEF Drp!Deliver, DrpP!Deliver
<1>16. \A d : Drp!Restart(d) => DrpP!Restart(d)
  BY DEF Drp!Restart, DrpP!Restart, Drp!Later, DrpP!Later
<1>17. Drp!DropNext => DrpP!DropNext
  BY <1>7, <1>8, <1>9, <1>10, <1>11, <1>12, <1>13, <1>14, <1>15, <1>16
     DEF Drp!DropNext, DrpP!DropNext
<1>. QED BY <1>1, <1>2, <1>3, <1>4, <1>17

\* The buttons keep their slots and their queue in step, from the start on.
LEMMA DropsStep ==
  /\ BenchInit => DropsInv
  /\ DropsInv /\ [BenchNext]_benchVars => DropsInv'
<1>1. BenchInit => DropsInv
  <2>1. Drp!DropInit => DrpP!DropInv
    BY DropsSame, DrpP!DropStarts
  <2>. QED BY <2>1 DEF BenchInit, DropsInv
<1>2. ASSUME DropsInv, [BenchNext]_benchVars PROVE DropsInv'
  <2>1. CASE UNCHANGED benchVars
    <3>1. DrpP!DropInv => DrpP!DropInv'
      BY <2>1, DropsSame, DrpP!DropStays DEF benchVars, DrpP!dropVars
    <3>. QED BY <1>2, <2>1, <3>1 DEF DropsInv, benchVars
  <2>2. CASE part # "drops" /\ part' = part
    BY <2>2 DEF DropsInv
  <2>3. CASE part = "drops" /\ Drp!DropNext /\ part' = part
    <3>1. DrpP!DropInv'
      BY <1>2, <2>3, DropsSame, DrpP!DropSteps DEF DropsInv
    <3>. QED BY <3>1 DEF DropsInv
  <2>. QED BY <1>2, <2>1, <2>2, <2>3 DEF BenchNext, On
<1>. QED BY <1>1, <1>2

\* As long as no two calls overlap, what is parked in the ALSA queue for a bar to come
\* belongs to an armed slot that relies on it, once: every path that abandons a slot takes
\* it out again, whatever the tempo does and wherever START moves the bars.
THEOREM SlotEviction == BenchSpec => []EvictedWithSlot
<1>1. DropsInv => EvictedWithSlot
  BY DropsSame, DrpP!DropEvicts DEF DropsInv, EvictedWithSlot
<1>. QED BY <1>1, DropsStep, PTL DEF BenchSpec

\* When a drop fires the synth has heard it last, and nothing of the riser is to come, if
\* no two calls overlap, no START comes and what is parked arrives in its last sixteenth.
THEOREM DropsLast == BenchSpec => DropWins
<1>1. DropsInv /\ [BenchNext]_benchVars => [part = "drops" => Drp!DropStep]_benchVars
  <2>. SUFFICES ASSUME part = "drops", DrpP!DropInv, BenchNext PROVE Drp!DropStep
    BY DEF DropsInv
  <2>1. Drp!DropNext
    BY DEF BenchNext, On
  <2>. QED BY <2>1, DropsSame, DrpP!DropLands
<1>. QED BY <1>1, DropsStep, PTL DEF BenchSpec, DropWins

-----------------------------------------------------------------------------
(* DeviceRegistry.  The lemmas are those of DeviceRegistryProofs.            *)

RegP == INSTANCE DeviceRegistryProofs WITH plugged <- b1, registered <- b2, alias <- b3,
          present <- b4, routes <- b5, names <- b6, custom <- b7,
          wired <- b8, settled <- b9
UsbInv == part = "usb" => RegP!RegInv

\* Both names of the component mean the same.
LEMMA UsbSame ==
  /\ Reg!RegistryInit => RegP!RegistryInit
  /\ Reg!RegistryNext => RegP!RegistryNext
  /\ RegP!IdentityStep => Reg!IdentityStep
<1>1. /\ Reg!Identity = RegP!Identity /\ Reg!Online = RegP!Online /\ Reg!Referenced = RegP!Referenced
      /\ \A d : Reg!Legacy(d) = RegP!Legacy(d)
  BY DEF Reg!Identity, RegP!Identity, Reg!Online, RegP!Online, Reg!Referenced, RegP!Referenced,
       Reg!Legacy, RegP!Legacy
<1>2. \A d : Reg!Canonical(d) = RegP!Canonical(d)
  BY <1>1 DEF Reg!Canonical, RegP!Canonical
<1>3. Reg!Exact = RegP!Exact 
  BY <1>1, <1>2 DEF Reg!Exact, RegP!Exact
<1>4. Reg!ByPort = RegP!ByPort 
  BY <1>1, <1>3 DEF Reg!ByPort, RegP!ByPort
<1>5. Reg!Claimed = RegP!Claimed
  BY <1>1, <1>2, <1>3, <1>4 DEF Reg!Claimed, RegP!Claimed
<1>6. Reg!Kept = RegP!Kept
  BY DEF Reg!Kept, RegP!Kept, Reg!Claimed, RegP!Claimed, Reg!Exact, RegP!Exact, Reg!ByPort,
       RegP!ByPort, Reg!Canonical, RegP!Canonical, Reg!Identity, RegP!Identity, Reg!Online,
       RegP!Online, Reg!Referenced, RegP!Referenced, Reg!Legacy, RegP!Legacy
<1>7. \A d : Reg!Evident(d) = RegP!Evident(d)
  BY <1>2, <1>6 DEF Reg!Evident, RegP!Evident
<1>8. Reg!Missing = RegP!Missing
  BY <1>1, <1>7 DEF Reg!Missing, RegP!Missing
<1>9. Reg!Newcomers = RegP!Newcomers
  <2>1. ASSUME NEW d PROVE /\ Reg!Online = RegP!Online /\ Reg!Referenced = RegP!Referenced
                           /\ Reg!Legacy(d) = RegP!Legacy(d) /\ Reg!Canonical(d) = RegP!Canonical(d)
                           /\ Reg!Evident(d) = RegP!Evident(d) /\ Reg!Kept = RegP!Kept
    BY <1>1, <1>2, <1>6, <1>7
  <2>2. ASSUME NEW d PROVE d \in Reg!Newcomers <=> d \in RegP!Newcomers
    BY <2>1 DEF Reg!Newcomers, RegP!Newcomers
  <2>3. Reg!Newcomers \subseteq RegP!Newcomers /\ RegP!Newcomers \subseteq Reg!Newcomers
    BY <2>2
  <2>. QED BY <2>3
<1>10. Reg!Recognised = RegP!Recognised
  BY <1>8, <1>9 DEF Reg!Recognised, RegP!Recognised, Reg!Single, RegP!Single
<1>11. \A d : Reg!IdentityOf(d) = RegP!IdentityOf(d)
  BY <1>7, <1>8, <1>10 DEF Reg!IdentityOf, RegP!IdentityOf
<1>12. Reg!Scans <=> RegP!Scans
  <2>1. [d \in Device |-> IF d \in Reg!Online THEN {Reg!IdentityOf(d)} ELSE {}]
          = [d \in Device |-> IF d \in RegP!Online THEN {RegP!IdentityOf(d)} ELSE {}]
    BY <1>1, <1>11
  <2>2. {Reg!Canonical(d) : d \in Reg!Online} = {RegP!Canonical(d) : d \in RegP!Online}
    BY <1>1, <1>2
  <2>3. {Reg!Canonical(d) : d \in Reg!Recognised} = {RegP!Canonical(d) : d \in RegP!Recognised}
    BY <1>2, <1>10
  <2>. DEFINE With(known, missing, more) ==
                [c \in DOMAIN known \cup more |->
                   IF c \in DOMAIN known THEN known[c] ELSE CHOOSE id \in missing : TRUE]
              Rest(registered, here) == b2' = registered /\ b4' = here /\ b9' = TRUE
  <2>4. Reg!Scans <=>
          /\ Rest([d \in Device |-> IF d \in Reg!Online THEN {Reg!IdentityOf(d)} ELSE {}],
                  {Reg!Canonical(d) : d \in Reg!Online})
          /\ b3' = With(Reg!Kept, Reg!Missing, {Reg!Canonical(d) : d \in Reg!Recognised})
    BY DEF Reg!Scans
  <2>5. RegP!Scans <=>
          /\ Rest([d \in Device |-> IF d \in RegP!Online THEN {RegP!IdentityOf(d)} ELSE {}],
                  {RegP!Canonical(d) : d \in RegP!Online})
          /\ b3' = With(RegP!Kept, RegP!Missing, {RegP!Canonical(d) : d \in RegP!Recognised})
    BY DEF RegP!Scans
  <2>. HIDE DEF With, Rest
  <2>. QED BY <1>6, <1>8, <2>1, <2>2, <2>3, <2>4, <2>5
<1>13. Reg!Rescan <=> RegP!Rescan
  <2>. DEFINE Back(live, found) ==
                /\ \E back \in SUBSET found : b8' = live \cup back
                /\ UNCHANGED <<b1, b5, b6, b7>>
              Live == UNION {b2[d] : d \in b8}
              Away == (b5 \cup (IF b9 THEN {} ELSE UNION {b2[d] : d \in Device})) \ Live
  <2>1. ASSUME NEW ids
        PROVE  {d \in Reg!Online : Reg!IdentityOf(d) \in ids} = {d \in RegP!Online : RegP!IdentityOf(d) \in ids}
    BY <1>1, <1>11
  <2>2. Reg!Rescan <=> Reg!Scans /\ Back({d \in Reg!Online : Reg!IdentityOf(d) \in Live},
                                        {d \in Reg!Online : Reg!IdentityOf(d) \in Away})
    BY DEF Reg!Rescan
  <2>3. RegP!Rescan <=> RegP!Scans /\ Back({d \in RegP!Online : RegP!IdentityOf(d) \in Live},
                                          {d \in RegP!Online : RegP!IdentityOf(d) \in Away})
    BY DEF RegP!Rescan
  <2>. HIDE DEF Back, Live, Away
  <2>. QED BY <1>12, <2>1, <2>2, <2>3
<1>14. Reg!RegistryInit => RegP!RegistryInit
  BY DEF Reg!RegistryInit, RegP!RegistryInit
<1>15. \A ids, customs : Reg!Snapshot(ids, customs) <=> RegP!Snapshot(ids, customs)
  BY DEF Reg!Snapshot, RegP!Snapshot
<1>16. Reg!Save => RegP!Save
  <2>1. Reg!Committed = RegP!Committed /\ Reg!CommittedNames = RegP!CommittedNames
    BY DEF Reg!Committed, RegP!Committed, Reg!CommittedNames, RegP!CommittedNames
  <2>. QED BY <1>15, <2>1 DEF Reg!Save, RegP!Save
<1>17. (Reg!Autosave => RegP!Autosave) /\ (Reg!Refresh => RegP!Refresh)
  BY <1>1, <1>12, <1>15 DEF Reg!Autosave, RegP!Autosave, Reg!Refresh, RegP!Refresh
<1>18. \A doc, import : Reg!Load(doc, import) => RegP!Load(doc, import)
  BY DEF Reg!Load, RegP!Load
<1>19. \A d : Reg!Rename(d) => RegP!Rename(d)
  BY <1>1 DEF Reg!Rename, RegP!Rename, Reg!Known, RegP!Known, Reg!Referenced, RegP!Referenced
<1>20. RegP!IdentityStep => Reg!IdentityStep
  BY <1>13 DEF Reg!IdentityStep, RegP!IdentityStep, Reg!Referenced, RegP!Referenced, Reg!Online,
       RegP!Online
<1>21. Reg!RegistryNext => RegP!RegistryNext
  <2>1. ASSUME NEW d \in Device,
               Reg!Plug(d) \/ Reg!Unplug(d) \/ Reg!Rename(d) \/ Reg!Connect(d) \/ Reg!Disconnect(d)
        PROVE  RegP!RegistryNext
    <3>1. RegP!Plug(d) \/ RegP!Unplug(d) \/ RegP!Rename(d) \/ RegP!Connect(d) \/ RegP!Disconnect(d)
      BY <1>1, <1>19, <2>1 DEF Reg!Plug, RegP!Plug, Reg!Unplug, RegP!Unplug, Reg!Connect, RegP!Connect,
                        Reg!Disconnect, RegP!Disconnect, Reg!Known, RegP!Known
    <3>. QED BY <3>1 DEF RegP!RegistryNext
  <2>2. ASSUME NEW id \in Reg!Identity, Reg!Forget(id) PROVE RegP!RegistryNext
    <3>1. RegP!Forget(id) /\ id \in RegP!Identity
      BY <1>1, <2>2 DEF Reg!Forget, RegP!Forget
    <3>. QED BY <3>1 DEF RegP!RegistryNext
  <2>3. CASE \E doc \in Document, import \in BOOLEAN : Reg!Load(doc, import)
    BY <1>18, <2>3 DEF RegP!RegistryNext
  <2>4. CASE Reg!Refresh \/ Reg!Rescan \/ Reg!Autosave \/ Reg!Save
    BY <1>13, <1>16, <1>17, <2>4 DEF RegP!RegistryNext
  <2>. QED BY <2>1, <2>2, <2>3, <2>4 DEF Reg!RegistryNext
<1>. QED BY <1>14, <1>20, <1>21

\* The registry stays in order, from the start on.
LEMMA UsbStep ==
  /\ BenchInit => UsbInv
  /\ UsbInv /\ [BenchNext]_benchVars => UsbInv'
<1>1. BenchInit => UsbInv
  <2>1. Reg!RegistryInit => RegP!RegInv
    BY UsbSame, RegP!RegStarts
  <2>. QED BY <2>1 DEF BenchInit, UsbInv
<1>2. ASSUME UsbInv, [BenchNext]_benchVars PROVE UsbInv'
  <2>1. CASE UNCHANGED benchVars
    <3>1. RegP!RegInv => RegP!RegInv'
      BY <2>1, RegP!RegStays DEF benchVars, RegP!registryVars
    <3>. QED BY <1>2, <2>1, <3>1 DEF UsbInv, benchVars
  <2>2. CASE part # "usb" /\ part' = part
    BY <2>2 DEF UsbInv
  <2>3. CASE part = "usb" /\ Reg!RegistryNext /\ part' = part
    <3>1. RegP!RegInv'
      BY <1>2, <2>3, UsbSame, RegP!RegSteps DEF UsbInv
    <3>. QED BY <3>1 DEF UsbInv
  <2>. QED BY <1>2, <2>1, <2>2, <2>3 DEF BenchNext, On
<1>. QED BY <1>1, <1>2

\* A device keeps its identity, and the routes saved by it, while nothing is plugged or
\* loaded and the configuration names what it named: neither a rescan, nor an autosave,
\* nor a rename, nor a Save that commits the aliases loses them.
THEOREM IdentityKept == BenchSpec => KeepsIdentity
<1>1. UsbInv /\ [BenchNext]_benchVars => [part = "usb" => Reg!IdentityStep]_benchVars
  <2>. SUFFICES ASSUME part = "usb", RegP!RegInv, BenchNext PROVE Reg!IdentityStep
    BY DEF UsbInv
  <2>1. Reg!RegistryNext
    BY DEF BenchNext, On
  <2>. QED BY <2>1, UsbSame, RegP!RegKeeps
<1>. QED BY <1>1, UsbStep, PTL DEF BenchSpec, KeepsIdentity

-----------------------------------------------------------------------------
(* NoteEffects.  The lemmas are those of NoteEffectsProofs.                  *)

FxP == INSTANCE NoteEffectsProofs WITH effect <- b1, setting <- b2, release <- b3,
          down <- b4, half <- b5, memo <- b6, latch <- b7, pending <- b8,
          sounding <- b9, call <- b10, astray <- b11, calls <- b12
EffectsInv == part = "effect" => FxP!FxInv

\* Both names of the component mean the same.
LEMMA EffectsSame ==
  /\ FxP!EffectAssumption
  /\ Fx!EffectInit => FxP!EffectInit
  /\ Fx!EffectNext => FxP!EffectNext
  /\ FxP!EffectsEnd => Fx!EffectsEnd
<1>1. FxP!EffectAssumption
  BY BenchAssumption DEF BenchAssumption, Fx!EffectAssumption, FxP!EffectAssumption
<1>2. Fx!EffectInit => FxP!EffectInit
  BY DEF Fx!EffectInit, FxP!EffectInit, Fx!Idle, FxP!Idle, Fx!Unlatched, FxP!Unlatched
<1>3. FxP!EffectsEnd => Fx!EffectsEnd
  BY DEF Fx!EffectsEnd, FxP!EffectsEnd, Fx!Owned, FxP!Owned, Fx!Notes, FxP!Notes, Fx!Note,
       FxP!Note, Fx!Latched, FxP!Latched, Fx!Toggles, FxP!Toggles, Fx!ToSet, FxP!ToSet
<1>4. \A k, s : Fx!Notes(k, s) = FxP!Notes(k, s)
  BY DEF Fx!Notes, FxP!Notes
<1>5. ASSUME NEW k \in EffectKey, Fx!Press(k) PROVE FxP!Press(k)
  BY <1>5, <1>4 DEF Fx!Press, FxP!Press, Fx!HoldPress, FxP!HoldPress, Fx!ChordPress,
       FxP!ChordPress, Fx!ChannelPress, FxP!ChannelPress, Fx!LatencyPress, FxP!LatencyPress,
       Fx!DelayPress, FxP!DelayPress, Fx!Note, FxP!Note, Fx!Latched, FxP!Latched, Fx!Toggles,
       FxP!Toggles, Fx!Idle, FxP!Idle, Fx!Unlatched, FxP!Unlatched, Fx!Overlapped,
       FxP!Overlapped, Fx!ReleaseAll, FxP!ReleaseAll, Fx!Plays, FxP!Plays, Fx!HoldToggle,
       FxP!HoldToggle, Fx!HoldAdd, FxP!HoldAdd, Fx!Remembers, FxP!Remembers
<1>6. ASSUME NEW k \in EffectKey, Fx!Release(k) PROVE FxP!Release(k)
  BY <1>6, <1>4 DEF Fx!Release, FxP!Release, Fx!HoldRelease, FxP!HoldRelease, Fx!ChordRelease,
       FxP!ChordRelease, Fx!ChannelRelease, FxP!ChannelRelease, Fx!LatencyRelease,
       FxP!LatencyRelease, Fx!DelayRelease, FxP!DelayRelease, Fx!Note, FxP!Note, Fx!Toggles,
       FxP!Toggles, Fx!Idle, FxP!Idle, Fx!Discard, FxP!Discard, Fx!Takes, FxP!Takes,
       Fx!Remembered, FxP!Remembered
<1>7. ASSUME Fx!Finish PROVE FxP!Finish
  BY <1>7 DEF Fx!Finish, FxP!Finish, Fx!Idle, FxP!Idle, Fx!Sends, FxP!Sends, Fx!LatencySends,
       FxP!LatencySends, Fx!ChordRemembers, FxP!ChordRemembers, Fx!PlaceEchoes,
       FxP!PlaceEchoes, Fx!Scheduled, FxP!Scheduled, Fx!Places, FxP!Places, Fx!Event,
       FxP!Event, Fx!Note, FxP!Note, Fx!InsertAt, FxP!InsertAt
<1>8. ASSUME Fx!Transport \/ Fx!Fires \/ Fx!TimePasses PROVE FxP!Transport \/ FxP!Fires \/ FxP!TimePasses
  BY <1>8 DEF Fx!Transport, FxP!Transport, Fx!HoldStop, FxP!HoldStop, Fx!DelayStop,
       FxP!DelayStop, Fx!ReleaseAll, FxP!ReleaseAll, Fx!Unlatched, FxP!Unlatched, Fx!Latched,
       FxP!Latched, Fx!Note, FxP!Note, Fx!Cancel, FxP!Cancel, Fx!ToSet, FxP!ToSet, Fx!Fires,
       FxP!Fires, Fx!TimePasses, FxP!TimePasses, Fx!Idle, FxP!Idle
<1>9. ASSUME Fx!Panic \/ Fx!CallSends \/ Fx!CallClears PROVE FxP!Panic \/ FxP!CallSends \/ FxP!CallClears
  BY <1>9, <1>4 DEF Fx!Panic, FxP!Panic, Fx!Begins, FxP!Begins, Fx!CallSends, FxP!CallSends,
       Fx!HoldPanic, FxP!HoldPanic, Fx!ChordPanic, FxP!ChordPanic, Fx!ChannelPanic,
       FxP!ChannelPanic, Fx!LatencyPanic, FxP!LatencyPanic, Fx!Cancel, FxP!Cancel, Fx!ToSet,
       FxP!ToSet, Fx!Note, FxP!Note, Fx!Latched, FxP!Latched, Fx!CallClears, FxP!CallClears,
       Fx!Unlatched, FxP!Unlatched
<1>10. ASSUME NEW s, Fx!SetParam(s) PROVE FxP!SetParam(s)
  BY <1>10 DEF Fx!SetParam, FxP!SetParam, Fx!Begins, FxP!Begins
<1>11. ASSUME NEW k, Fx!Learn(k) PROVE FxP!Learn(k)
  BY <1>11 DEF Fx!Learn, FxP!Learn
<1>12. Fx!EffectNext => FxP!EffectNext
  <2>1. CASE \E k \in EffectKey : Fx!Press(k) \/ Fx!Release(k)
    BY <1>5, <1>6, <2>1 DEF FxP!EffectNext
  <2>. QED BY <1>7, <1>8, <1>9, <1>10, <1>11, <2>1 DEF Fx!EffectNext, FxP!EffectNext
<1>. QED BY <1>1, <1>2, <1>3, <1>12

\* Every note of a plugin that passes notes on has what ends it, from the start on.
LEMMA EffectsStep ==
  /\ BenchInit => EffectsInv
  /\ EffectsInv /\ [BenchNext]_benchVars => EffectsInv'
<1>1. BenchInit => EffectsInv
  <2>1. Fx!EffectInit => FxP!FxInv
    BY EffectsSame, FxP!FxStarts
  <2>. QED BY <2>1 DEF BenchInit, EffectsInv
<1>2. ASSUME EffectsInv, [BenchNext]_benchVars PROVE EffectsInv'
  <2>1. CASE UNCHANGED benchVars
    <3>1. FxP!FxInv => FxP!FxInv'
      BY <2>1, EffectsSame, FxP!FxStays DEF benchVars, FxP!effectVars
    <3>. QED BY <1>2, <2>1, <3>1 DEF EffectsInv, benchVars
  <2>2. CASE part # "effect" /\ part' = part
    BY <2>2 DEF EffectsInv
  <2>3. CASE part = "effect" /\ Fx!EffectNext /\ part' = part
    <3>1. FxP!FxInv'
      BY <1>2, <2>3, EffectsSame, FxP!FxSteps DEF EffectsInv
    <3>. QED BY <3>1 DEF EffectsInv
  <2>. QED BY <1>2, <2>1, <2>2, <2>3 DEF BenchNext, On
<1>. QED BY <1>1, <1>2

\* Every note that sounds has its end coming, in the arpeggiator and in the plugins
\* that pass notes on: what ends it is in _playing_notes, in the queue, in the latch
\* or remembered with the key that is down.
THEOREM AllNotesEnd == BenchSpec => []NotesEnd
<1>1. EffectsInv /\ part = "effect" => Fx!EffectsEnd
  <2>1. FxP!FxInv => FxP!EffectsEnd
    BY EffectsSame, FxP!FxSettles
  <2>. QED BY <2>1, EffectsSame DEF EffectsInv
<1>2. ArpInv /\ EffectsInv => NotesEnd
  BY <1>1 DEF ArpInv, NotesEnd
<1>. QED BY <1>2, ArpStart, ArpStep, EffectsStep, PTL DEF BenchSpec
=============================================================================
