---------------------------- MODULE EdgeMappings ----------------------------
(***************************************************************************)
(* What a filtered edge does with an event (midi_filter.py).  There are    *)
(* two ways through FilterEngine, by the version of the hub's sequencer    *)
(* client: process_event with the events of MIDI 1.0, and process_ump with *)
(* the packets of MIDI 2.0, into which the kernel turns what a 1.0 device  *)
(* sends and out of which it turns what a 1.0 device receives.  Both are   *)
(* here, side by side, over the same edge.                                 *)
(*                                                                         *)
(* A channel number or a controller's is itself; values have the 7 bits of *)
(* MIDI 1.0, VelocityBits and ValueBits stand for the 16 and the 32 bits   *)
(* of MIDI 2.0.  Sources are MIDI 1.0 devices.  Left out are the CCs that   *)
(* the kernel collects into one packet (bank select with its program, RPN  *)
(* and NRPN) and on and off values that are not whole numbers.             *)
(***************************************************************************)
EXTENDS Integers, Sequences, SequencesExt, FiniteSetsExt

CONSTANTS Mapping,      \* the mappings a user may add
          Filter,       \* the filters: records [channels, groups]
          Input,        \* the events of the source
          Unset,        \* a field of a mapping that is None
          MaxMappings,  \* mappings of the edge
          VelocityBits, ValueBits

MappingAssumption == /\ MaxMappings \in Nat /\ VelocityBits > 7 /\ ValueBits > VelocityBits
                     /\ Unset \notin Nat

VARIABLES mappings, \* FilteredConnection.mappings
          filter,   \* FilteredConnection.filter
          toggled,  \* _toggle_state on the two ways: the indices that are True
          heard     \* what the destination heard of the last event, on the two ways

mappingVars == <<mappings, filter, toggled, heard>>

Way == {"event", "ump"}
----------------------------------------------------------------------------
(* midi_scale.py *)

RoundHalfEven(n, d) ==
    LET q == n \div d   twice == 2 * (n % d)
    IN  IF twice < d \/ (twice = d /\ q % 2 = 0) THEN q ELSE q + 1

\* Above the center the low bits repeat the value's own.
ScaleUp(val, src, dst) ==
    LET wide   == dst - src
        period == src - 1
        own    == val % 2^period
        repeat == IF wide > period THEN own * 2^(wide - period) ELSE own \div 2^(period - wide)
        fill   == MapThenSumSet(LAMBDA k : repeat \div 2^(k * period), 0 .. wide \div period)
    IN  IF val <= 2^period THEN val * 2^wide ELSE val * 2^wide + fill

ScaleDown(val, src, dst) == val \div 2^(src - dst)

\* from_midi_units of a whole number.
FromUnits(units) ==
    LET center == 2^(ValueBits - 1)
    IN  IF units <= 64 THEN RoundHalfEven(units * center, 64)
        ELSE center + RoundHalfEven((units - 64) * (center - 1), 63)
----------------------------------------------------------------------------
(* A mapping.  from is src_note or src_cc, to is dst_cc, dst_note or       *)
(* dst_cc_num; ch and toCh are its channels.                               *)

Toggle(mp) == mp.type = "note_to_cc_toggle"

\* _scale_value.
Scaled(mp, val) ==
    LET span    == mp.in[2] - mp.in[1]
        sign    == IF span < 0 THEN -1 ELSE 1
        product == (val - mp.in[1]) * (mp.out[2] - mp.out[1]) + mp.out[1] * span
    IN  IF span = 0 THEN mp.out[1]
        ELSE Max({0, Min({127, RoundHalfEven(sign * product, sign * span)})})

OutOf(mp, ch)  == IF mp.toCh = Unset THEN ch ELSE mp.toCh
Target(mp)     == IF mp.to = Unset THEN mp.from ELSE mp.to
Whole          == <<0, 127>>

\* validate_new_mapping: a mapping that does nothing ...
Pointless(mp) ==
    \/ /\ mp.type = "cc_to_cc" /\ OutOf(mp, mp.ch) = mp.ch /\ Target(mp) = mp.from
       /\ mp.in = Whole /\ mp.out = Whole
    \/ mp.type = "channel_map" /\ mp.ch # Unset /\ mp.ch = mp.toCh
    \/ /\ mp.type = "note_to_note" /\ mp.from # Unset
       /\ OutOf(mp, mp.ch) = mp.ch /\ mp.from = mp.to

\* ... or that is there already (_mappings_equivalent).  source is not compared.
Equivalent(a, b) ==
    /\ a.type = b.type /\ a.ch = b.ch /\ a.through = b.through
    /\ OutOf(a, a.ch) = OutOf(b, b.ch)
    /\ a.type \in {"note_to_cc", "note_to_cc_toggle"} =>
         a.from = b.from /\ a.to = b.to /\ a.on = b.on /\ a.off = b.off
    /\ a.type = "note_to_note" => a.from = b.from /\ a.to = b.to
    /\ a.type = "cc_to_cc" =>
         a.from = b.from /\ Target(a) = Target(b) /\ a.in = b.in /\ a.out = b.out

Refused(mp) == Pointless(mp) \/ \E i \in DOMAIN mappings : Equivalent(mappings[i], mp)
----------------------------------------------------------------------------
(* Filters *)

Group(e) ==
    CASE e.kind \in {"note_on", "note_off", "poly_pressure"} -> "note"
      [] e.kind = "program" -> "pc"
      [] e.kind = "pitch_bend" -> "pitchbend"
      [] e.kind = "chan_pressure" -> "aftertouch"
      [] OTHER -> e.kind

Voice(e) == e.kind # "clock"

\* allows_event, and the guards of process_ump.
Allows(e) == Group(e) \in filter.groups /\ (Voice(e) => e.ch \in filter.channels)
----------------------------------------------------------------------------
(* The two ways through the mappings.  A mapping that matches an event     *)
(* puts out a message, and consumes the event unless it lets it through.   *)

IsNote(e)     == e.kind \in {"note_on", "note_off"}
Pressed(e)    == e.kind = "note_on" /\ e.val > 0
Hits(mp, num) == mp.from = Unset \/ mp.from = num

\* The same guards on both ways.
Matches(mp, e) ==
    /\ Voice(e) \/ mp.type = "channel_map"
    /\ mp.ch = Unset \/ mp.ch = e.ch
    /\ CASE mp.type = "channel_map" -> mp.toCh # Unset
         [] mp.type = "cc_to_cc" -> e.kind = "cc" /\ mp.from # Unset /\ mp.from = e.num
         [] Toggle(mp) -> IsNote(e) /\ mp.from = e.num /\ mp.to # Unset
         [] OTHER -> IsNote(e) /\ Hits(mp, e.num) /\ mp.to # Unset

Consumed(e) == \E i \in DOMAIN mappings :
    Matches(mappings[i], e) /\ (mappings[i].type = "channel_map" \/ ~mappings[i].through)

\* A press turns its toggle mappings over.
Turned(e) == {i \in DOMAIN mappings : Toggle(mappings[i]) /\ Pressed(e) /\ Matches(mappings[i], e)}
Flip(set, e) == (set \ Turned(e)) \cup (Turned(e) \ set)

CC(ch, num, val) == [kind |-> "cc", ch |-> ch, num |-> num, val |-> val]

\* _apply_mappings: what mapping i puts out; on says whether its toggle is on.
EventOut(mp, e, on) ==
    CASE mp.type = "note_to_cc" ->
           <<CC(OutOf(mp, e.ch), mp.to,
                IF ~Pressed(e) THEN mp.off ELSE IF mp.source = "velocity" THEN e.val ELSE mp.on)>>
      [] Toggle(mp) ->
           IF Pressed(e) THEN <<CC(OutOf(mp, e.ch), mp.to, IF on THEN mp.on ELSE mp.off)>>
                         ELSE <<>>
      [] mp.type = "note_to_note" -> <<[e EXCEPT !.num = mp.to, !.ch = OutOf(mp, e.ch)]>>
      [] mp.type = "cc_to_cc" -> <<CC(OutOf(mp, e.ch), Target(mp), Scaled(mp, e.val))>>
      [] OTHER -> <<[e EXCEPT !.ch = mp.toCh]>>

\* Mutant: a release has a velocity, too.
UmpOut_Release(mp, p, on) ==
    CASE mp.type = "note_to_cc" ->
           <<CC(OutOf(mp, p.ch), mp.to,
                IF mp.source = "velocity" THEN ScaleUp(p.val, VelocityBits, ValueBits)
                ELSE FromUnits(IF p.kind = "note_on" THEN mp.on ELSE mp.off))>>
      [] Toggle(mp) ->
           IF p.kind = "note_on"
           THEN <<CC(OutOf(mp, p.ch), mp.to, FromUnits(IF on THEN mp.on ELSE mp.off))>>
           ELSE <<>>
      [] mp.type = "cc_to_cc" ->
           <<CC(OutOf(mp, p.ch), Target(mp),
                ScaleUp(Scaled(mp, ScaleDown(p.val, ValueBits, 7)), 7, ValueBits))>>
      [] mp.type = "note_to_note" -> <<[p EXCEPT !.num = mp.to, !.ch = OutOf(mp, p.ch)]>>
      [] OTHER -> <<[p EXCEPT !.ch = mp.toCh]>>

\* _apply_mappings_ump: the same of a packet.  (A controller's value that is on
\* the 7-bit lattice goes through _scale_value; all are, from a 1.0 source.)
UmpOut(mp, p, on) ==
    CASE mp.type = "note_to_cc" ->
           <<CC(OutOf(mp, p.ch), mp.to,
                IF p.kind = "note_on" /\ mp.source = "velocity"
                THEN ScaleUp(p.val, VelocityBits, ValueBits)
                ELSE FromUnits(IF p.kind = "note_on" THEN mp.on ELSE mp.off))>>
      [] Toggle(mp) ->
           IF p.kind = "note_on"
           THEN <<CC(OutOf(mp, p.ch), mp.to, FromUnits(IF on THEN mp.on ELSE mp.off))>>
           ELSE <<>>
      [] mp.type = "cc_to_cc" ->
           <<CC(OutOf(mp, p.ch), Target(mp),
                ScaleUp(Scaled(mp, ScaleDown(p.val, ValueBits, 7)), 7, ValueBits))>>
      [] mp.type = "note_to_note" -> <<[p EXCEPT !.num = mp.to, !.ch = OutOf(mp, p.ch)]>>
      [] OTHER -> <<[p EXCEPT !.ch = mp.toCh]>>

\* The kernel: a NoteOn of velocity 0 becomes a note off, values grow; and back,
\* where a note on keeps a velocity.
Up(e) ==
    IF IsNote(e) THEN [e EXCEPT !.kind = IF Pressed(e) THEN "note_on" ELSE "note_off",
                                !.val = ScaleUp(e.val, 7, VelocityBits)]
    ELSE IF Voice(e) THEN [e EXCEPT !.val = ScaleUp(e.val, 7, ValueBits)]
    ELSE e

Down(p) ==
    IF p.kind = "note_on" THEN [p EXCEPT !.val = Max({1, ScaleDown(p.val, VelocityBits, 7)})]
    ELSE IF p.kind = "note_off" THEN [p EXCEPT !.val = ScaleDown(p.val, VelocityBits, 7)]
    ELSE IF Voice(p) THEN [p EXCEPT !.val = ScaleDown(p.val, ValueBits, 7)]
    ELSE p

\* What a NoteOn of velocity 0 means to whoever hears it.
Meant(e) == IF e.kind = "note_on" /\ e.val = 0 THEN [e EXCEPT !.kind = "note_off"] ELSE e

\* What the mappings that match give, out[i] for the i-th, then the event itself if
\* none consumes it.
Through(e, out, itself) ==
    FlattenSeq([i \in DOMAIN mappings |-> IF Matches(mappings[i], e) THEN out[i] ELSE <<>>])
      \o (IF Consumed(e) THEN <<>> ELSE <<itself>>)

\* process_event.
EventWay(e, on) ==
    LET sent == Through(e, [i \in DOMAIN mappings |-> EventOut(mappings[i], e, i \in on)], e)
    IN  IF Allows(e) THEN [i \in DOMAIN sent |-> Meant(sent[i])] ELSE <<>>

\* process_ump: a system message is opaque to the mappings.
UmpWay(e, on) ==
    LET sent == Through(e, [i \in DOMAIN mappings |-> UmpOut(mappings[i], Up(e), i \in on)],
                        Up(e))
    IN  IF ~Allows(e) THEN <<>>
        ELSE IF ~Voice(e) THEN <<e>>
        ELSE [i \in DOMAIN sent |-> Down(sent[i])]
----------------------------------------------------------------------------
Quiet == [way \in Way |-> <<>>]

MappingInit ==
    /\ mappings = <<>> /\ filter \in Filter /\ toggled = [way \in Way |-> {}]
    /\ heard = Quiet

\* POST of a mapping.
AddMapping(mp) ==
    /\ Len(mappings) < MaxMappings /\ ~Refused(mp)
    /\ mappings' = Append(mappings, mp) /\ heard' = Quiet
    /\ UNCHANGED <<filter, toggled>>

\* _toggle_state goes when the edge is given back to the kernel: it has no
\* mappings, and a filter that lets everything pass.
Passes(f) == \A g \in Filter : g.groups \subseteq f.groups /\ g.channels \subseteq f.channels
ToggledOf(list, f) == IF list = <<>> /\ Passes(f) THEN [way \in Way |-> {}] ELSE toggled

\* DELETE by index: the toggles keep their indices, though the mappings behind
\* move up.
RemoveMapping(i) ==
    /\ mappings' = RemoveAt(mappings, i) /\ heard' = Quiet
    /\ toggled' = ToggledOf(mappings', filter)
    /\ UNCHANGED filter

\* PATCH of the filter.
UpdateFilter ==
    /\ filter' \in Filter \ {filter} /\ heard' = Quiet
    /\ toggled' = ToggledOf(mappings, filter')
    /\ UNCHANGED mappings

\* A rescan takes the edge down and sets it up again.
Restored ==
    /\ toggled' = [way \in Way |-> {}] /\ heard' = Quiet
    /\ UNCHANGED <<mappings, filter>>

Play(e) ==
    LET turn(way) == IF Allows(e) THEN Flip(toggled[way], e) ELSE toggled[way]
    IN  /\ toggled' = [way \in Way |-> turn(way)]
        /\ heard' = [way \in Way |-> IF way = "event" THEN EventWay(e, turn(way))
                                                      ELSE UmpWay(e, turn(way))]
        /\ UNCHANGED <<mappings, filter>>

MappingNext ==
    \/ \E mp \in Mapping : AddMapping(mp)
    \/ \E i \in DOMAIN mappings : RemoveMapping(i)
    \/ UpdateFilter \/ Restored
    \/ \E e \in Input : Play(e)

MappingSpec == MappingInit /\ [][MappingNext]_mappingVars
----------------------------------------------------------------------------
MappingTypeOK ==
    /\ mappings \in Seq(Mapping) /\ Len(mappings) <= MaxMappings /\ filter \in Filter
    /\ toggled \in [Way -> SUBSET (1 .. MaxMappings)]
    /\ \A way \in Way : \A i \in DOMAIN heard[way] : heard[way][i].val \in 0 .. 127

(* The two ways agree: what a 1.0 device plays reaches a 1.0 device as the *)
(* same messages in the same order through every list of mappings and      *)
(* every filter, in the events of the old client and in the packets of the *)
(* new one.  Not so the clock: on the old way two channel maps for any     *)
(* channel send each of its ticks twice.                                   *)
WaysAgree ==
    (\A way \in Way : \A i \in DOMAIN heard[way] : Voice(heard[way][i]))
      => heard["event"] = heard["ump"]
============================================================================
