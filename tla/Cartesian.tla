----------------------------- MODULE Cartesian -----------------------------
(***************************************************************************)
(* plugins/cartesian: a grid of note offsets walked by the X clock under    *)
(* the held keys.  Live, the grid is stamped from the voicing by every      *)
(* thread that notices a change (a key, the Y clock, a wheel); latched, it  *)
(* is the user's, and the active slot of the bank holds the same grid.      *)
(***************************************************************************)
EXTENDS Naturals, FiniteSets

CONSTANTS
  CartKey,    \* the keys of the player
  Laps,       \* the inversions of the voicing: the Y clock stamps one after the other
  CartSlot    \* the slots of the bank, numbers from 1

CartAssumption == Laps \in Nat /\ CartSlot \subseteq Nat /\ 1 \in CartSlot

VARIABLES
  pressed,    \* _physically_pressed
  held,       \* _held
  pedal,      \* _sustain_active
  sync,       \* sync_mode
  transport,  \* _transport_playing
  runner,     \* _free_running: the free runner's thread lives
  sounding,   \* _playing_notes is not empty
  fill,       \* fill_mode: TRUE is Live, FALSE is Latch
  lap,        \* _inv_lap, as far as the voicing sees it
  grid,       \* the offsets: the lap they were stamped with, or Hand
  bank,       \* pattern_slots: fill_mode and grid of each
  active,     \* active_slot
  stamp,      \* for each thread: the grid _apply_fill is about to write, or None
  clean       \* no stamp was under way when the mode or the grid was last set (for the property)

keysVars == <<pressed, held, pedal>>
timeVars == <<sync, transport, runner>>
gridVars == <<fill, grid, bank, active, clean>>
cartVars == <<keysVars, timeVars, sounding, lap, gridVars, stamp>>

Thread == {"plugin", "runner", "web"}
Hand == Laps + 1     \* cells that the user has set, or that a fill has recorded
None == Laps + 2     \* the thread stamps nothing

CartInit ==
  /\ pressed = {} /\ held = {} /\ pedal = FALSE
  /\ sync = "tempo" /\ transport = FALSE /\ runner = FALSE /\ sounding = FALSE
  /\ fill = TRUE /\ lap = 0 /\ grid = 0 /\ active = 1
  /\ bank = [s \in CartSlot |-> [fill |-> TRUE, grid |-> Hand]]
  /\ stamp = [t \in Thread |-> None] /\ clean = TRUE

Free(t) == stamp[t] = None
\* _live_restamp: the mode is looked at now, the grid is written when the thread gets there.
Restamps(t, l) == stamp' = IF fill THEN [stamp EXCEPT ![t] = l] ELSE stamp
Stamped(t) ==
  /\ ~Free(t) /\ grid' = stamp[t] /\ stamp' = [stamp EXCEPT ![t] = None]
  /\ UNCHANGED <<keysVars, timeVars, sounding, lap, fill, bank, active, clean>>

\* on_note_on on the play channel: the first key of a phrase starts at the first cell,
\* and starts the free runner; in a key (Diatonic) every new root restamps.
NoteOn(k, diatonic) ==
  /\ Free("plugin") /\ k \notin pressed
  /\ pressed' = pressed \cup {k} /\ held' = held \cup {k}
  /\ lap' = IF held = {} THEN 0 ELSE lap
  /\ runner' = (runner \/ (held = {} /\ sync = "free"))
  /\ IF held = {} \/ diatonic THEN Restamps("plugin", lap') ELSE UNCHANGED stamp
  /\ UNCHANGED <<pedal, sync, transport, sounding, gridVars>>

\* The keys that stay; with the last one gone the runner ends and the note is cut.
Keeps(keys) ==
  /\ held' = keys /\ runner' = (runner /\ keys # {}) /\ sounding' = (sounding /\ keys # {})

NoteOff(k, diatonic) ==
  /\ Free("plugin") /\ k \in pressed /\ pressed' = pressed \ {k}
  /\ IF pedal THEN UNCHANGED <<held, runner, sounding>> ELSE Keeps(held \ {k})
  /\ IF ~pedal /\ held' # {} /\ diatonic THEN Restamps("plugin", lap) ELSE UNCHANGED stamp
  /\ UNCHANGED <<pedal, sync, transport, lap, gridVars>>

Pedal(down) ==
  /\ Free("plugin") /\ pedal # down /\ pedal' = down
  /\ IF down THEN UNCHANGED <<held, runner, sounding>> ELSE Keeps(held \cap pressed)
  /\ UNCHANGED <<pressed, sync, transport, lap, gridVars, stamp>>

\* The X clock fires the next cell (an empty one rests), the Y clock pulses the inversion.
AdvanceX == sounding' \in IF held = {} THEN {sounding} ELSE BOOLEAN
AdvanceY(t) == lap' = (lap + 1) % (Laps + 1) /\ Restamps(t, lap')

\* on_tick: a tick of either rate, or of both, in this order; a tick that finds the
\* transport stopped starts it.
Tick(x, y) ==
  /\ Free("plugin") /\ sync # "free"
  /\ transport' = (transport \/ sync = "transport")
  /\ IF x THEN AdvanceX ELSE UNCHANGED sounding
  /\ LET restarts == sync = "transport" /\ ~transport
     IN IF y THEN AdvanceY("plugin") ELSE lap' = (IF restarts THEN 0 ELSE lap) /\ UNCHANGED stamp
  /\ UNCHANGED <<keysVars, sync, runner, gridVars>>

RunnerTick(y) ==
  /\ runner /\ Free("runner")
  /\ IF y THEN AdvanceY("runner") /\ UNCHANGED sounding ELSE AdvanceX /\ UNCHANGED <<lap, stamp>>
  /\ UNCHANGED <<keysVars, timeVars, gridVars>>

TransportStart ==
  /\ Free("plugin") /\ sync = "transport"
  /\ transport' = TRUE /\ sounding' = FALSE /\ lap' = 0 /\ Restamps("plugin", 0)
  /\ UNCHANGED <<keysVars, sync, runner, gridVars>>

TransportStop ==
  /\ Free("plugin") /\ sync = "transport" /\ transport /\ transport' = FALSE /\ sounding' = FALSE
  /\ UNCHANGED <<keysVars, sync, runner, lap, gridVars, stamp>>

SetSync(m) ==
  /\ Free("web") /\ sync # m /\ sync' = m
  /\ runner' = (m = "free" /\ held # {})
  /\ transport' = (transport /\ m # "transport")
  /\ UNCHANGED <<keysVars, sounding, lap, gridVars, stamp>>

Panic ==
  /\ held # {} /\ Free("web")
  /\ runner' = FALSE /\ held' = {} /\ pressed' = {} /\ pedal' = FALSE /\ sounding' = FALSE
  /\ UNCHANGED <<sync, transport, lap, gridVars, stamp>>

\* What the user sets: the mode and the grid, and what of it the slot records.
Sets(t, mode, cells, content) ==
  /\ Free(t) /\ fill' = mode /\ grid' = cells /\ bank' = [bank EXCEPT ![active] = content]
  /\ clean' = \A u \in Thread : Free(u)
  /\ UNCHANGED <<keysVars, timeVars, sounding, active>>

\* Mutant: the switch to Latch does not commit the grid to the slot.
Latch_Uncommitted == Sets("web", FALSE, grid, [fill |-> FALSE, grid |-> bank[active].grid]) /\ UNCHANGED <<lap, stamp>>
\* The Autofill button off: the stamped grid is frozen and committed to the slot ...
Latch == Sets("web", FALSE, grid, [fill |-> FALSE, grid |-> grid]) /\ UNCHANGED <<lap, stamp>>
\* ... and on: the grid is stamped anew.
Autofill ==
  /\ Sets("web", TRUE, grid, [bank[active] EXCEPT !.fill = TRUE])
  /\ lap' = 0 /\ stamp' = [stamp EXCEPT !["web"] = 0]

\* A cell set on the surface.
EditCell == Sets("web", fill, Hand, [bank[active] EXCEPT !.grid = Hand]) /\ UNCHANGED <<lap, stamp>>

\* _record_fill: a note of the fill channel latches the surface and records its cell;
\* the slot does not record that the mode has changed.
RecordFill == Sets("plugin", FALSE, Hand, [bank[active] EXCEPT !.grid = Hand]) /\ UNCHANGED <<lap, stamp>>

\* The wheels of the voicing.
Voicing ==
  /\ Free("web") /\ lap' \in {lap, 0} /\ Restamps("web", lap')
  /\ UNCHANGED <<keysVars, timeVars, sounding, gridVars>>

\* load_slot (its interleavings are SlotBank's): the grid is the last it writes.
LoadSlot(t, s) ==
  /\ Free(t) /\ (t = "plugin" => s # active)
  /\ fill' = bank[s].fill /\ grid' = bank[s].grid /\ active' = s /\ lap' = 0
  /\ clean' = \A u \in Thread : Free(u)
  /\ UNCHANGED <<keysVars, timeVars, sounding, bank, stamp>>

CartNext ==
  \/ \E k \in CartKey, diatonic \in BOOLEAN : NoteOn(k, diatonic) \/ NoteOff(k, diatonic)
  \/ \E down \in BOOLEAN : Pedal(down)
  \/ \E x, y \in BOOLEAN : Tick(x, y)
  \/ \E y \in BOOLEAN : RunnerTick(y)
  \/ TransportStart \/ TransportStop \/ Panic
  \/ \E m \in {"tempo", "free", "transport"} : SetSync(m)
  \/ Latch \/ Autofill \/ EditCell \/ RecordFill \/ Voicing
  \/ \E t \in {"plugin", "web"}, s \in CartSlot : LoadSlot(t, s)
  \/ \E t \in Thread : Stamped(t)

CartSpec == CartInit /\ [][CartNext]_cartVars

-----------------------------------------------------------------------------

CartTypeOK ==
  /\ pressed \subseteq CartKey /\ held \subseteq CartKey /\ pedal \in BOOLEAN
  /\ sync \in {"tempo", "free", "transport"} /\ {transport, runner, sounding, fill, clean} \subseteq BOOLEAN
  /\ lap \in 0 .. Laps /\ grid \in 0 .. Hand /\ active \in CartSlot
  /\ bank \in [CartSlot -> [fill : BOOLEAN, grid : 0 .. Hand]] /\ stamp \in [Thread -> 0 .. None]

\* "Latch: freeze the current grid by committing it into the active slot, so the frozen
\* state is what gets saved": latched, the grid that sounds is the slot's, unless a
\* stamp was under way when it was latched.
FrozenGrid == (~fill /\ clean) => grid = bank[active].grid
=============================================================================
