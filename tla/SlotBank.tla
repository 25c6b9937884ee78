------------------------------ MODULE SlotBank ------------------------------
(***************************************************************************)
(* slot_bank.py: the pattern bank of the Arpeggiator, the Euclidean and the *)
(* Cartesian.  The live parameters are a working copy of the active slot:   *)
(* an edit is recorded in it, a switch writes the chosen slot into the      *)
(* parameters, one by one.  Two threads switch and edit: the plugin's own   *)
(* (a trigger note) and the web server's (the strip, the wheels).           *)
(***************************************************************************)
EXTENDS Naturals, FiniteSets

CONSTANTS
  Slot,    \* the slots of the bank
  Param,   \* the snapshotted parameters
  Value    \* their values

SlotAssumption == 1 \in Slot /\ 0 \in Value /\ Slot \subseteq Nat \ {0}

VARIABLES
  live,    \* _param_values of the snapshotted parameters
  slots,   \* pattern_slots
  active,  \* active_slot
  suppress,\* _loading_slot
  load     \* for each thread: the slot it loads (0: none), what it has still to write,
           \* and whether nothing else has touched the bank since (for the property)

slotVars == <<live, slots, active, suppress, load>>

Thread == {"plugin", "web"}
Idle == [slot |-> 0, todo |-> {}, alone |-> TRUE]
Defaults == [p \in Param |-> 0]

\* init_slot_bank: every slot is a clone of the defaults.
SlotInit ==
  /\ live = Defaults /\ slots = [s \in Slot |-> Defaults] /\ active = 1
  /\ suppress = FALSE /\ load = [t \in Thread |-> Idle]

\* record_edit: nothing is recorded while any slot is being loaded.
Recorded(p, v) == IF suppress THEN slots ELSE [slots EXCEPT ![active][p] = v]

Disturbed == [t \in Thread |-> IF load[t] = Idle THEN Idle ELSE [load[t] EXCEPT !.alone = FALSE]]

\* A wheel of the surface: host.set_param, then on_param_change.
Edit(p, v) ==
  /\ load["web"] = Idle /\ live[p] # v
  /\ live' = [live EXCEPT ![p] = v] /\ slots' = Recorded(p, v) /\ load' = Disturbed
  /\ UNCHANGED <<active, suppress>>

Loads(t, s) ==
  load' = [Disturbed EXCEPT ![t] = [slot |-> s, todo |-> Param, alone |-> \A u \in Thread : load[u] = Idle]]

\* Mutant: the load neither moves active_slot first nor suppresses the recording.
StartsLoad_Unguarded(t, s) == Loads(t, s) /\ UNCHANGED <<active, suppress>>

StartsLoad(t, s) == Loads(t, s) /\ active' = s /\ suppress' = TRUE

\* load_slot from the strip, or from a trigger note of another slot than the active one.
BeginLoad(t, s) ==
  /\ load[t] = Idle /\ (t = "plugin" => s # active)
  /\ StartsLoad(t, s) /\ UNCHANGED <<live, slots>>

LoadParam(t) ==
  /\ \E p \in load[t].todo :
       LET v == slots[load[t].slot][p]
       IN /\ live' = [live EXCEPT ![p] = v] /\ slots' = Recorded(p, v)
          /\ load' = [load EXCEPT ![t].todo = @ \ {p}]
  /\ UNCHANGED <<active, suppress>>

EndLoad(t) ==
  /\ load[t].slot # 0 /\ load[t].todo = {}
  /\ active' = load[t].slot /\ suppress' = FALSE /\ load' = [load EXCEPT ![t] = Idle]
  /\ UNCHANGED <<live, slots>>

\* handle_command: clone_slot of the active slot, or clear_slot; a slot that is
\* active is loaded, too.
Command(s, content) ==
  /\ load["web"] = Idle /\ slots' = [slots EXCEPT ![s] = content]
  /\ IF s = active THEN StartsLoad("web", s) ELSE load' = Disturbed /\ UNCHANGED <<active, suppress>>
  /\ UNCHANGED live

Clone(s) == s # active /\ Command(s, slots[active])
Clear(s) == Command(s, Defaults)

SlotNext ==
  \/ \E p \in Param, v \in Value : Edit(p, v)
  \/ \E s \in Slot : Clone(s) \/ Clear(s) \/ \E t \in Thread : BeginLoad(t, s)
  \/ \E t \in Thread : LoadParam(t) \/ EndLoad(t)

SlotSpec == SlotInit /\ [][SlotNext]_slotVars

-----------------------------------------------------------------------------

SlotTypeOK ==
  /\ live \in [Param -> Value] /\ slots \in [Slot -> [Param -> Value]] /\ active \in Slot
  /\ suppress \in BOOLEAN /\ load \in [Thread -> [slot : Slot \cup {0}, todo : SUBSET Param, alone : BOOLEAN]]

\* A switch that nothing overlaps (no edit, no command, no other switch) changes no
\* slot and ends with the chosen slot's content in the live parameters.
SwitchStep ==
  \A t \in Thread : (load[t].slot # 0 /\ load[t].alone /\ load'[t] # load[t] /\ load'[t].alone) =>
       /\ slots' = slots
       /\ (load'[t] = Idle => live' = slots'[load[t].slot] /\ active' = load[t].slot)
SwitchKeepsSlots == [][SwitchStep]_slotVars
=============================================================================
