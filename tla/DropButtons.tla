---------------------------- MODULE DropButtons ----------------------------
(***************************************************************************)
(* controller_base.py: the drop buttons of a controller.  A button holds a  *)
(* snapshot of the cells and fires it at once, or at a bar: then it waits   *)
(* in one of two slots, `hard' or `fade' (a riser: the cells glide to the   *)
(* snapshot), and usually its CCs are already parked in the ALSA queue to   *)
(* arrive just before the bar.  The slots count the ticks of the clock bus; *)
(* the parked CCs wait for a real time that tick_to_monotonic estimates, so *)
(* they may arrive at any moment, before the bar or after it.               *)
(*                                                                          *)
(* Presses come on the web server's loop (the screen) and on the plugin's   *)
(* thread (a bound note), on_tick on the plugin's thread, and none of them  *)
(* takes a lock: each is two steps, one that reads the slots and states and *)
(* one that writes back what it made of them.                               *)
(***************************************************************************)
EXTENDS Naturals

CONSTANTS
  Button,     \* the drop buttons, numbers from 1
  Horizon,    \* the longest wait for a bar, in sixteenths
  Backlog     \* the sixteenths that may wait for the plugin's thread

DropAssumption == {Horizon, Backlog} \cup Button \subseteq Nat \ {0}

VARIABLES
  state,      \* drop_states: "idle", "captured" or "scheduled"
  sched,      \* drop_schedule: for each slot the armed button and the ticks to its bar
  parked,     \* the snapshots in the ALSA queue: the button and the ticks to the bar
  half,       \* for each thread the call it is in the middle of, with what it has read
  ticks,      \* _tick_queue: the sixteenths the plugin's thread has not taken yet
  alone,      \* since the slots and the queue were empty no two calls have overlapped
  steady,     \* and since then no START came, every sixteenth was served before the next,
              \* and what is parked arrived in the last sixteenth before its bar
  last        \* while steady, the button whose snapshot the synth has heard last, 0: some
              \* other CC (alone, steady and last are for the properties)

dropVars == <<state, sched, parked, half, ticks, alone, steady, last>>

Thread == {"web", "plugin"}
Key == {"fade", "hard"}
Open == [button |-> 0, at |-> 0, sent |-> FALSE]
Clear == [k \in Key |-> Open]
AtRest == [job |-> "rest", button |-> 0, slots |-> Clear, lands |-> {},
           states |-> [b \in Button |-> "idle"]]

DropInit ==
  /\ state = [b \in Button |-> "idle"]
  /\ sched = Clear /\ parked = {}
  /\ half = [t \in Thread |-> AtRest] /\ ticks = 0 /\ alone = TRUE /\ steady = TRUE /\ last = 0

Armed(slots, k) == slots[k].button # 0
Without(b, queue) == {e \in queue : e.button # b}
\* A button given up: its state goes back to captured.
Released(b, st) == IF b = 0 THEN st ELSE [st EXCEPT ![b] = "captured"]

NoneAtWork == \A t \in Thread : half[t] = AtRest
Empty == sched = Clear /\ parked = {} /\ NoneAtWork
\* Bound: once two calls have overlapped, the music goes on until all is empty again, but
\* no button is pressed and no START comes.
Followed == alone \/ Empty
\* The CCs the synth hears.
Heard(b) == last' = IF steady' THEN b ELSE 0
\* A call starts and reads, h: with all it has read; and a call ends.
Begins(t, h) ==
  /\ half[t] = AtRest /\ half' = [half EXCEPT ![t] = h]
  /\ alone' = (Empty \/ (alone /\ NoneAtWork)) /\ steady' = (Empty \/ (steady /\ NoneAtWork))
  /\ Heard(last)
Ends(t) == half' = [half EXCEPT ![t] = AtRest] /\ UNCHANGED <<ticks, alone, steady>>

\* A press of the screen, or of a bound note (a tap fires, a long one captures).
PressReads(t, b) ==
  /\ Followed
  /\ Begins(t, [job |-> "press", button |-> b, slots |-> sched, lands |-> {}, states |-> state])
  /\ UNCHANGED <<state, sched, parked, ticks>>

Presses(t) == half[t].job = "press"

\* _capture_drop: a scheduled button keeps its slot (and what it has parked).
Capture(t) ==
  LET b == half[t].button st == half[t].states
  IN /\ Presses(t) /\ Ends(t)
     /\ state' = IF st[b] = "scheduled" THEN state ELSE [st EXCEPT ![b] = "captured"]
     /\ UNCHANGED <<sched, parked, last>>

\* "Now": _kill_inflight_fade, and the snapshot goes out.
FireNow(t) ==
  LET b == half[t].button slots == half[t].slots st == half[t].states f == slots["fade"].button
  IN /\ Presses(t) /\ st[b] = "captured" /\ Ends(t)
     /\ sched' = IF f = 0 THEN sched ELSE [slots EXCEPT !["fade"] = Open]
     /\ parked' = IF f = 0 THEN parked ELSE Without(f, parked)
     /\ state' = [Released(f, st) EXCEPT ![b] = "captured"] /\ Heard(0)

\* Mutant: the button that is bumped from the slot leaves its CCs in the queue.
Bumped_StillParked(b) == parked
\* The CCs of a button that is given up leave the queue (_evict_pending_fire).
Bumped(b) == IF b = 0 THEN parked ELSE Without(b, parked)

\* Mutant: a riser armed after a drop parks its target all the same.
MayPark_Always(b, k, at, slots) == TRUE
\* A riser does not park behind, or together with, a drop that is armed already.
MayPark(b, k, at, slots) ==
  ~(k = "fade" /\ slots["hard"].button \notin {0, b} /\ slots["hard"].at <= at)

\* The riser that a drop armed now will cut short withdraws what it has parked.
Outdone(b, k, at, slots) ==
  k = "hard" /\ slots["fade"].button \notin {0, b} /\ slots["fade"].at >= at

\* _fire_drop of a button with a bar mode, into the slot k of its settings, which may
\* change between any two presses.  at: the ticks to the bar, synced or free; timed:
\* the clock bus knows its tempo.
Schedule(t, k, at, timed) ==
  LET b == half[t].button slots == half[t].slots st == half[t].states
      old == slots[k].button
      outdone == Outdone(b, k, at, slots)
      sends == timed /\ MayPark(b, k, at, slots)
      queue == IF outdone THEN Without(slots["fade"].button, Bumped(old)) ELSE Bumped(old)
  IN /\ Presses(t) /\ st[b] = "captured" /\ Ends(t)
     /\ state' = [Released(old, st) EXCEPT ![b] = "scheduled"]
     /\ sched' = [j \in Key |-> IF j = k THEN [button |-> b, at |-> at, sent |-> sends]
                                ELSE IF outdone THEN [slots[j] EXCEPT !.sent = FALSE] ELSE slots[j]]
     /\ parked' = IF sends THEN queue \cup {[button |-> b, at |-> at]} ELSE queue
     /\ UNCHANGED last

\* A second press, or the cancel of the screen: _cancel_drop.
Cancel(t) ==
  LET b == half[t].button slots == half[t].slots
      mine == {k \in Key : slots[k].button = b}
  IN /\ Presses(t) /\ Ends(t)
     /\ IF mine = {} THEN UNCHANGED <<state, sched, parked>>
        ELSE /\ sched' = [k \in Key |-> IF k \in mine THEN Open ELSE slots[k]]
             /\ parked' = Without(b, parked) /\ state' = Released(b, state)
     /\ UNCHANGED last

\* on_tick reads the slots and compares their bars with the count of the bus.
TickReads ==
  /\ ticks > 0 /\ ticks' = ticks - 1 /\ half["plugin"] = AtRest
  /\ IF sched = Clear THEN UNCHANGED <<half, alone, steady, last>>
     ELSE Begins("plugin", [job |-> "tick", button |-> 0, slots |-> sched,
                            lands |-> {k \in Key : Armed(sched, k) /\ sched[k].at = 0},
                            states |-> [b \in Button |-> "idle"]])
  /\ UNCHANGED <<state, sched, parked>>

\* _tick_slot at the boundary: what has not gone through the queue is sent now.
Sent(slot) == Heard(IF slot.sent THEN last ELSE slot.button)

\* The rest of on_tick: the drop first, and a riser still in flight ends with it; else
\* the riser lands, or steps towards its target, which may or may not send a CC and
\* change the slots (the progress is rounded).
TickWrites ==
  LET slots == half["plugin"].slots lands == half["plugin"].lands
      hard == slots["hard"] fade == slots["fade"]
  IN /\ half["plugin"].job = "tick" /\ Ends("plugin")
     /\ \/ /\ "hard" \in lands /\ Sent(hard)
           /\ sched' = Clear /\ parked' = Bumped(fade.button)
           /\ state' = Released(fade.button, Released(hard.button, state))
        \/ /\ lands = {"fade"} /\ Sent(fade)
           /\ sched' = [slots EXCEPT !["fade"] = Open] /\ UNCHANGED parked
           /\ state' = Released(fade.button, state)
        \/ /\ lands = {}
           /\ sched' \in {slots, sched} /\ UNCHANGED <<state, parked>>
           /\ Heard(last) \/ (Armed(slots, "fade") /\ Heard(0))

Sooner(n) == IF n = 0 THEN 0 ELSE n - 1
Closer(slots) == [k \in Key |-> [slots[k] EXCEPT !.at = Sooner(@)]]
Later(slots, d) == [k \in Key |-> IF Armed(slots, k) THEN [slots[k] EXCEPT !.at = @ + d] ELSE slots[k]]

\* A sixteenth of the clock bus, on the loop: it counts, and wakes the plugin unless its
\* queue is full.
Tick ==
  /\ half["web"] = AtRest
  /\ ticks' = IF ticks < Backlog THEN ticks + 1 ELSE ticks
  /\ sched' = Closer(sched)
  /\ half' = [half EXCEPT !["plugin"].slots = Closer(@)]
  /\ parked' = {[e EXCEPT !.at = Sooner(@)] : e \in parked}
  /\ steady' = (steady /\ ticks = 0 /\ NoneAtWork /\ \A e \in parked : e.at > 1)
  /\ Heard(last) /\ UNCHANGED <<state, alone>>

\* The ALSA queue delivers what it holds when its real time comes.
Deliver(e) ==
  /\ parked' = parked \ {e}
  /\ steady' = (steady /\ e.at = 1 /\ ticks = 0 /\ half["plugin"] = AtRest) /\ Heard(e.button)
  /\ UNCHANGED <<state, sched, half, ticks, alone>>

\* START resets the count of the bus: the bars of the armed slots move into the future,
\* what is parked does not, and the sixteenths that wait for the plugin are dropped.
Restart(d) ==
  /\ Followed /\ half["web"] = AtRest /\ sched # Clear
  /\ \A k \in Key : sched[k].at + d <= Horizon /\ half["plugin"].slots[k].at + d <= Horizon
  /\ sched' = Later(sched, d) /\ half' = [half EXCEPT !["plugin"].slots = Later(@, d)]
  /\ ticks' = 0 /\ steady' = FALSE /\ last' = 0
  /\ UNCHANGED <<state, parked, alone>>

DropNext ==
  \/ \E t \in Thread :
       \/ \E b \in Button : PressReads(t, b)
       \/ Capture(t) \/ FireNow(t) \/ Cancel(t)
       \/ \E k \in Key, at \in 1 .. Horizon, timed \in BOOLEAN : Schedule(t, k, at, timed)
  \/ TickReads \/ TickWrites \/ Tick
  \/ \E e \in parked : Deliver(e)
  \/ \E d \in 1 .. Horizon : Restart(d)

DropSpec == DropInit /\ [][DropNext]_dropVars

-----------------------------------------------------------------------------

SlotType == [button : Button \cup {0}, at : 0 .. Horizon, sent : BOOLEAN]
DropTypeOK ==
  /\ \A b \in Button : state[b] \in {"idle", "captured", "scheduled"}
  /\ \A k \in Key : sched[k] \in SlotType
  /\ \A t \in Thread :
       /\ half[t].job \in {"rest", "press", "tick"} /\ half[t].button \in Button \cup {0}
       /\ half[t].lands \subseteq Key /\ \A k \in Key : half[t].slots[k] \in SlotType
       /\ \A b \in Button : half[t].states[b] \in {"idle", "captured", "scheduled"}
  /\ parked \subseteq [button : Button, at : 0 .. Horizon]
  /\ last \in Button \cup {0} /\ ticks \in 0 .. Backlog
  /\ alone \in BOOLEAN /\ steady \in BOOLEAN

\* "EVERY path that abandons a slot" pulls the button's CCs from the ALSA queue: what is
\* parked for a bar still to come belongs to an armed slot that relies on it, once each,
\* however late or early the queue delivers and wherever START moves the bars.
EvictedWithSlot ==
  alone => \A e \in parked : e.at > 0 =>
             /\ \E k \in Key : sched[k].button = e.button /\ sched[k].sent
             /\ \A f \in parked : f.button = e.button /\ f.at > 0 => e = f

\* The drop wins: when it fires, whichever of drop and riser was pressed first, the synth
\* has heard it last (or a button pressed "now" since) and nothing of the riser is left
\* to come.
DropStep ==
  (/\ steady /\ half["plugin"].job = "tick" /\ half'["plugin"].job # "tick"
   /\ "hard" \in half["plugin"].lands)
  => last' \in {half["plugin"].slots["hard"].button, 0} /\ sched' = Clear /\ parked' = {}
DropWins == [][DropStep]_dropVars
=============================================================================
