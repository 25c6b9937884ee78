----------------------------- MODULE Euclidean -----------------------------
(***************************************************************************)
(* plugins/euclidean: the held chord voiced by an Euclidean pattern, with a *)
(* fade envelope that moves on the firing steps only.  When the last key is *)
(* released the pattern goes on with the notes that sounded (the tail)      *)
(* until the envelope is down.                                              *)
(***************************************************************************)
EXTENDS Integers, FiniteSets

CONSTANTS
  EucKey,     \* the keys of the player
  Full        \* the firing steps of the longest fade: the envelope in such steps

EucAssumption == Full \in Nat \ {0} /\ IsFiniteSet(EucKey)

VARIABLES
  pressed,    \* _physically_pressed
  held,       \* _held_notes
  pedal,      \* _sustain_active
  sync,       \* sync_mode
  transport,  \* _transport_playing
  runner,     \* _free_running: the free runner's thread lives
  playing,    \* _playing_notes: the keys whose notes the last step has fired
  value,      \* _fade_value, 0 .. Full
  slope,      \* _fade_dir, what a firing step adds
  tail        \* _fadeout_notes

inputVars == <<pressed, pedal>>
timeVars == <<sync, transport, runner>>
fadeVars == <<value, slope, tail>>
eucVars == <<inputVars, timeVars, held, playing, fadeVars>>

EucInit ==
  /\ pressed = {} /\ held = {} /\ pedal = FALSE
  /\ sync = "tempo" /\ transport = FALSE /\ runner = FALSE
  /\ playing = {} /\ value = 0 /\ slope = 0 /\ tail = {}

\* on_note_on: a key during a fade-out takes the envelope up again; the first key of a
\* phrase begins the fade-in (rise: what its knob makes of a step, 0 for none) and, in
\* the free mode, the runner.
NoteOn(k, rise) ==
  LET first == held = {} /\ tail = {}
  IN /\ k \notin pressed /\ pressed' = pressed \cup {k} /\ held' = held \cup {k} /\ tail' = {}
     /\ IF first
        THEN /\ value' = (IF rise = 0 THEN Full ELSE 0) /\ slope' = rise
             /\ runner' = (runner \/ sync = "free")
        ELSE /\ IF slope < 0 \/ tail # {} THEN value' = Full /\ slope' = 0 ELSE UNCHANGED <<value, slope>>
             /\ UNCHANGED runner
     /\ UNCHANGED <<pedal, sync, transport, playing>>

\* _begin_fade_out_or_stop (fall: what its knob makes of a step, 0 for none).
FadeOut(fall) ==
  IF fall = 0 \/ value = 0
  THEN runner' = FALSE /\ value' = 0 /\ slope' = 0 /\ tail' = {} /\ playing' = {}
  ELSE /\ tail' = (IF pressed' # {} THEN pressed' ELSE playing) /\ slope' = -fall
       /\ UNCHANGED <<runner, value, playing>>

Keeps(keys, fall) ==
  /\ held' = keys
  /\ IF keys = {} THEN FadeOut(fall) ELSE UNCHANGED <<runner, playing, fadeVars>>

NoteOff(k, fall) ==
  /\ k \in pressed /\ pressed' = pressed \ {k}
  /\ IF pedal THEN UNCHANGED <<held, runner, playing, fadeVars>> ELSE Keeps(held \ {k}, fall)
  /\ UNCHANGED <<pedal, sync, transport>>

PedalDown == ~pedal /\ pedal' = TRUE /\ UNCHANGED <<pressed, timeVars, held, playing, fadeVars>>
PedalUp(fall) ==
  /\ pedal /\ pedal' = FALSE /\ UNCHANGED <<pressed, sync, transport>>
  /\ Keeps(held \cap pressed, fall)

Clamp(v) == IF v < 0 THEN 0 ELSE IF v > Full THEN Full ELSE v

\* _advance: a rest only cuts the note.  A firing step moves the envelope first, then
\* plays; the last step of a fade-out also forgets the keys and ends the runner.
Rests == playing' = {} /\ UNCHANGED <<held, runner, fadeVars>>

Ends == value' = 0 /\ slope' = 0 /\ tail' = {} /\ held' = {} /\ runner' = FALSE

Fires ==
  LET source == IF held # {} THEN held ELSE tail
      next == Clamp(value + slope)
  IN IF source = {} THEN Rests
     ELSE /\ \E k \in source : playing' = {k}
          /\ IF slope < 0 /\ next = 0 THEN Ends
             ELSE /\ value' = next /\ slope' = (IF slope > 0 /\ next = Full THEN 0 ELSE slope)
                  /\ UNCHANGED <<tail, held, runner>>

Step(fires) == IF fires THEN Fires ELSE Rests

\* A tick of the clock that finds the transport stopped starts it.
Tick(fires) ==
  /\ sync # "free" /\ transport' = (transport \/ sync = "transport") /\ Step(fires)
  /\ UNCHANGED <<inputVars, sync>>
RunnerStep(fires) == runner /\ Step(fires) /\ UNCHANGED <<inputVars, sync, transport>>

\* The note's own end: the gate.
GateEnds == playing # {} /\ playing' = {} /\ UNCHANGED <<inputVars, timeVars, held, fadeVars>>

TransportStart ==
  /\ sync = "transport" /\ playing' = {} /\ transport' = TRUE
  /\ UNCHANGED <<inputVars, sync, runner, held, fadeVars>>
TransportStop ==
  /\ sync = "transport" /\ playing' = {} /\ transport' = FALSE
  /\ UNCHANGED <<inputVars, sync, runner, held, fadeVars>>

\* Mutant: the free runner starts for held keys only.
HasInput_HeldOnly == held # {}
HasInput == held # {} \/ tail # {}

SetSync(m) ==
  /\ sync # m /\ sync' = m /\ runner' = (m = "free" /\ HasInput)
  /\ transport' = (transport /\ m # "transport")
  /\ UNCHANGED <<inputVars, held, playing, fadeVars>>

Panic ==
  /\ held \cup tail # {}
  /\ runner' = FALSE /\ held' = {} /\ pressed' = {} /\ pedal' = FALSE
  /\ value' = 0 /\ slope' = 0 /\ tail' = {} /\ playing' = {}
  /\ UNCHANGED <<sync, transport>>

Fade == 0 .. Full
EucNext ==
  \/ \E k \in EucKey, f \in Fade : NoteOn(k, f) \/ NoteOff(k, f)
  \/ PedalDown \/ (\E f \in Fade : PedalUp(f))
  \/ \E fires \in BOOLEAN : Tick(fires) \/ RunnerStep(fires)
  \/ GateEnds \/ TransportStart \/ TransportStop \/ Panic
  \/ \E m \in {"tempo", "free", "transport"} : SetSync(m)

\* The clock ticks, the runner wakes up, and the pattern has a step that fires.
EucProgress == Tick(TRUE) \/ RunnerStep(TRUE)
EucSpec == EucInit /\ [][EucNext]_eucVars /\ WF_eucVars(EucProgress)

-----------------------------------------------------------------------------

EucTypeOK ==
  /\ pressed \cup held \cup playing \cup tail \subseteq EucKey
  /\ {pedal, transport, runner} \subseteq BOOLEAN /\ sync \in {"tempo", "free", "transport"}
  /\ value \in 0 .. Full /\ slope \in -Full .. Full

\* A fade-out comes to its end, by itself or by a new key, whatever the player, the
\* transport and the sync mode do meanwhile: no tail plays for ever.
Fading == tail # {}
FadeEnds == Fading ~> ~Fading
=============================================================================
