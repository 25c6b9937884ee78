----------------------------- MODULE Arpeggiator -----------------------------
(***************************************************************************)
(* plugins/arpeggiator: keys and a sustain pedal feed a chord (or, in the   *)
(* "programmed" pattern, the slots of a step sequence), which clock ticks   *)
(* or free runner threads play one step at a time.  Each note gets its      *)
(* NoteOff in two ways: scheduled in the ALSA queue at the end of its gate, *)
(* and from _playing_notes when the next step fires or the arp is silenced. *)
(* The first is left out when the length of a step is not known.  A setting *)
(* is written on the web server's loop, and on_param_change follows: keys,  *)
(* ticks and runners may come in between.                                   *)
(* Which of the held notes is next is left open: the other patterns (up,    *)
(* down, random, chord: all of them) are one here, "held".                  *)
(***************************************************************************)
EXTENDS Naturals

CONSTANTS
  ArpNotes,   \* the keys
  Steps,      \* step_count
  MaxRunners, \* bound on the free runner threads
  MaxOffs     \* bound on the NoteOffs scheduled for a note

ArpAssumption ==
  ArpNotes \subseteq Nat \ {0} /\ Steps \in Nat \ {0} /\ MaxRunners \in Nat /\ MaxOffs \in Nat

VARIABLES
  keys, pedal,     \* _physically_pressed, _sustain_active
  held,            \* the notes in _held_notes (their order is the pattern's)
  slots,           \* _step_slots: a note or None
  heads,           \* _seq_step (modulo its cycle) and _write_slot
  sync, pattern,   \* the parameters sync_mode and pattern
  change,          \* sync_mode is written, and its on_param_change has not run yet
  runs, runners,   \* _free_running; the runner threads there are
  late,            \* those of them that have seen _free_running and not stepped yet
  playing,         \* _playing_notes
  offs,            \* for each note: its scheduled NoteOffs
  sounds,          \* the notes sounding at the destination
  timed            \* the length of their step was known (for the properties)

input   == <<keys, pedal, held, slots, heads, sync, pattern, change>>
output  == <<playing, offs, sounds, timed>>
settings == <<sync, pattern, change>>
arpVars == <<input, runs, runners, late, output>>

Mode == {"free", "tempo", "transport"}
Pattern == {"held", "programmed"}
None  == 0
Index == 0..(Steps - 1)
Empty == [i \in Index |-> None]

ArpInit ==
  /\ keys = {} /\ pedal = FALSE /\ held = {} /\ slots = Empty
  /\ heads = [seq |-> 0, write |-> 0]
  /\ sync = "transport" /\ pattern = "held" /\ change = FALSE
  /\ runs = FALSE /\ runners = 0 /\ late = 0
  /\ playing = {} /\ offs = [n \in ArpNotes |-> 0] /\ sounds = {} /\ timed = TRUE

Programmed == pattern = "programmed"
HasInput   == IF Programmed THEN slots # Empty ELSE held # {}

\* Mutant: the scheduled NoteOffs are cancelled, and that is all.
SilenceAll_CancelOnly ==
  offs' = [n \in ArpNotes |-> 0] /\ playing' = {} /\ sounds' = sounds /\ timed' = TRUE

\* _silence_all: cancel what is scheduled and end what is playing.
SilenceAll ==
  offs' = [n \in ArpNotes |-> 0] /\ playing' = {} /\ sounds' = sounds \ playing /\ timed' = TRUE

SilenceIf(quiet) == IF quiet THEN SilenceAll ELSE UNCHANGED output

\* _rate_period_seconds: the length of a step is known in the mode "free", and in the
\* others as soon as the clock bus has an estimate of its tempo (which is left open).
PeriodKnown(notes) == timed' \in {TRUE} \cup (IF notes = {} \/ sync = "free" THEN {} ELSE {FALSE})

\* _note_off_current, and then the notes of the step, their NoteOffs with them if the
\* length of the step is known.
Fire(notes) ==
  /\ \A n \in notes : offs[n] < MaxOffs
  /\ playing' = notes /\ sounds' = (sounds \ playing) \cup notes /\ PeriodKnown(notes)
  /\ offs' = [n \in ArpNotes |-> offs[n] + (IF n \in notes /\ timed' THEN 1 ELSE 0)]

StartRunner == runners < MaxRunners /\ runs' = TRUE /\ runners' = runners + 1
NoRunner == UNCHANGED <<runs, runners>>

-----------------------------------------------------------------------------
(* The player: on_note_on, on_note_off, on_cc (64).                        *)

PressProgrammed(n) ==
  /\ slots' = [slots EXCEPT ![heads.write] = n]
  /\ heads' = [seq |-> IF slots = Empty THEN 0 ELSE heads.seq, write |-> (heads.write + 1) % Steps]
  /\ IF slots = Empty /\ sync = "free" /\ ~runs THEN StartRunner ELSE NoRunner
  /\ UNCHANGED held

\* A note held by the pedal may be pressed again: it stays one entry.
PressHeld(n) ==
  /\ held' = held \cup {n}
  /\ heads' = IF held' = {n} THEN [heads EXCEPT !.seq = 0] ELSE heads
  /\ IF held' = {n} /\ sync = "free" THEN StartRunner ELSE NoRunner
  /\ UNCHANGED slots

Press(n) ==
  /\ n \notin keys /\ keys' = keys \cup {n}
  /\ IF Programmed THEN PressProgrammed(n) ELSE PressHeld(n)
  /\ UNCHANGED <<pedal, settings, late, output>>

\* The last note that is dropped takes the runner and the sounding notes along.
Drop(gone) ==
  /\ held' = held \ gone
  /\ runs' = (runs /\ held' # {}) /\ SilenceIf(held' = {})
  /\ UNCHANGED slots

\* The phrase ends when no slot refers to a key that is down.
ReleaseProgrammed ==
  LET over == ~pedal /\ \A i \in Index : slots[i] \notin keys'
  IN  /\ slots' = IF over THEN Empty ELSE slots
      /\ runs' = (runs /\ ~over) /\ SilenceIf(over)
      /\ UNCHANGED held

Release(n) ==
  /\ n \in keys /\ keys' = keys \ {n}
  /\ IF Programmed THEN ReleaseProgrammed
     ELSE IF pedal THEN UNCHANGED <<held, slots, runs, output>>
     ELSE Drop({n})
  /\ UNCHANGED <<pedal, heads, settings, runners, late>>

PedalDown ==
  /\ ~pedal /\ pedal' = TRUE
  /\ UNCHANGED <<keys, held, slots, heads, settings, runs, runners, late, output>>

\* Mutant: the chord forgets to drop what only the pedal held.
PedalUp_KeepsChord ==
  /\ pedal /\ pedal' = FALSE
  /\ slots' = [i \in Index |-> IF Programmed /\ slots[i] \notin keys THEN None ELSE slots[i]]
  /\ UNCHANGED <<keys, held, heads, settings, runs, runners, late, output>>

\* _on_sustain_release.
PedalUp ==
  /\ pedal /\ pedal' = FALSE
  /\ IF Programmed
     THEN /\ slots' = [i \in Index |-> IF slots[i] \in keys THEN slots[i] ELSE None]
          /\ UNCHANGED <<held, runs, output>>
     ELSE Drop(ArpNotes \ keys)
  /\ UNCHANGED <<keys, heads, settings, runners, late>>

-----------------------------------------------------------------------------
(* _advance: one step, under the lock.  A step may be switched off.        *)

AdvanceProgrammed ==
  /\ heads' = [seq |-> (heads.seq + 1) % Steps, write |-> (heads.seq + 1) % Steps]
  /\ Fire({slots[heads.seq]} \ {None}) \/ Fire({})

AdvanceHeld ==
  /\ heads' = IF held = {} THEN heads ELSE [heads EXCEPT !.seq = (@ + 1) % Steps]
  /\ IF held = {} THEN UNCHANGED output
     ELSE Fire({}) \/ Fire(held) \/ \E n \in held : Fire({n})

Advance == /\ IF Programmed THEN AdvanceProgrammed ELSE AdvanceHeld
           /\ UNCHANGED <<keys, pedal, held, slots, settings>>

\* on_tick for the division of the rate: in transport mode it makes up for a
\* Start that never came.
Tick ==
  /\ sync # "free" /\ Advance
  /\ UNCHANGED <<runs, runners, late>>

\* A free runner wakes up: on to another step, or the end of the thread.
RunnerWakes ==
  /\ late < runners
  /\ IF runs THEN late' = late + 1 /\ UNCHANGED runners ELSE runners' = runners - 1 /\ UNCHANGED late
  /\ UNCHANGED <<input, runs, output>>

\* Its step, whatever has become of the mode since.
RunnerSteps ==
  /\ late > 0 /\ late' = late - 1 /\ Advance
  /\ UNCHANGED <<runs, runners>>

GateEnds(n) ==
  /\ offs[n] > 0 /\ offs' = [offs EXCEPT ![n] = @ - 1] /\ sounds' = sounds \ {n}
  /\ UNCHANGED <<input, runs, runners, late, playing, timed>>

-----------------------------------------------------------------------------
(* on_transport_start, on_transport_stop, on_param_change, panic.          *)

TransportStart ==
  /\ IF sync = "transport" THEN heads' = [heads EXCEPT !.seq = 0] /\ Fire({})
     ELSE UNCHANGED <<heads, output>>
  /\ UNCHANGED <<keys, pedal, held, slots, settings, runs, runners, late>>

TransportStop ==
  /\ SilenceIf(sync = "transport")
  /\ UNCHANGED <<input, runs, runners, late>>

\* The host's set_param writes the value ...
SetSync(mode) ==
  /\ ~change /\ sync' = mode /\ change' = TRUE
  /\ UNCHANGED <<keys, pedal, held, slots, heads, pattern, runs, runners, late, output>>

\* ... and calls on_param_change.
SyncChanged ==
  /\ change /\ change' = FALSE
  /\ IF sync = "free" /\ HasInput THEN StartRunner ELSE runs' = FALSE /\ UNCHANGED runners
  /\ UNCHANGED <<keys, pedal, held, slots, heads, sync, pattern, late, output>>

SetPattern(p) ==
  /\ ~change /\ pattern' = p
  /\ heads' = IF p = "programmed" THEN [heads EXCEPT !.write = 0] ELSE heads
  /\ UNCHANGED <<keys, pedal, held, slots, sync, change, runs, runners, late, output>>

Panic ==
  /\ keys' = {} /\ pedal' = FALSE /\ held' = {} /\ slots' = Empty /\ runs' = FALSE
  /\ heads' = [heads EXCEPT !.write = 0] /\ SilenceAll
  /\ UNCHANGED <<settings, runners, late>>

ArpNext ==
  \/ \E n \in ArpNotes : Press(n) \/ Release(n) \/ GateEnds(n)
  \/ PedalDown \/ PedalUp \/ Tick \/ RunnerWakes \/ RunnerSteps
  \/ TransportStart \/ TransportStop \/ Panic \/ SyncChanged
  \/ \E mode \in Mode : SetSync(mode)
  \/ \E p \in Pattern : SetPattern(p)

ArpSpec == ArpInit /\ [][ArpNext]_arpVars

-----------------------------------------------------------------------------

ArpTypeOK ==
  /\ keys \subseteq ArpNotes /\ pedal \in BOOLEAN /\ held \subseteq ArpNotes
  /\ slots \in [Index -> ArpNotes \cup {None}] /\ heads \in [seq : Index, write : Index]
  /\ sync \in Mode /\ pattern \in Pattern /\ change \in BOOLEAN
  /\ runs \in BOOLEAN /\ runners \in 0..MaxRunners /\ late \in 0..runners
  /\ playing \subseteq ArpNotes /\ offs \in [ArpNotes -> 0..MaxOffs] /\ sounds \subseteq ArpNotes
  /\ timed \in BOOLEAN

\* Every sounding note ends even if no further tick comes (the clock is pulled out):
\* its NoteOff is in the queue, through panics, stops and changes of pattern and mode.
\* Only the notes of a step whose length was not known (another mode than "free", and no
\* clock yet) go without; those the arpeggiator remembers, to end them with its next step
\* or when it falls silent.
NotesEnd == \A n \in sounds : n \in playing /\ (timed => offs[n] > 0)

\* Notes played for a key that is not down, nor kept by the pedal.
Ghosts == IF pedal THEN {} ELSE held \ keys

\* As long as the pattern is not "programmed", no order of keys and pedal leaves a
\* note in the chord that nobody holds.
GhostStep == pattern # "programmed" => Ghosts' \subseteq Ghosts
NoNewGhosts == [][GhostStep]_arpVars
=============================================================================
