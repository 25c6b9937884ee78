----------------------------- MODULE SysexLink -----------------------------
(***************************************************************************)
(* A SysEx dump over a network session: ALSA hands it over in chunks of    *)
(* any size, _SysExChunkFramer makes segments of them, each travels in an  *)
(* RTP-MIDI datagram, _parse_midi_list takes the datagram apart and        *)
(* SysExAssembler puts the message together (network_midi.py,              *)
(* apple_midi.py).  Bytes are themselves.                                  *)
(***************************************************************************)
EXTENDS Naturals, Sequences, SequencesExt, FiniteSetsExt

CONSTANTS
  Dump,       \* the dumps, in their order: 1..n
  Size,       \* data bytes of a dump
  MaxSegment, \* max_segment, framing included
  MaxWire,    \* datagrams in flight
  MaxMishaps  \* datagrams that are lost, duplicated or overtake others

LinkAssumption == /\ IsFiniteSet(Dump) /\ Dump = 1..Cardinality(Dump)
                  /\ Size \subseteq 1..9 /\ MaxSegment \in Nat \ (0..2) /\ MaxWire \in Nat /\ MaxMishaps \in Nat

VARIABLES
  rest,  \* what the device has still to send of its dump
  dump,  \* the latest dump, 0 before the first
  size,  \* its data bytes
  open,  \* _open of the framer
  wire,  \* the datagrams in flight: a segment, and the dump it is of
  partial,  \* _buf of the assembler: a sequence of the bytes so far; started or not
  heard, \* how often each dump reached the other end as it was sent
  mishaps, \* datagrams lost, duplicated or overtaking so far
  hurt   \* the dumps that were aborted, begun in the middle of another for the framer, or
         \* lost, duplicated or overtaken on the way

linkVars == <<rest, dump, size, open, wire, partial, heard, mishaps, hurt>>

F0 == 240
F4 == 244
F7 == 247
Whole(d, n) == <<F0>> \o [k \in 1..n |-> 10 * d + k] \o <<F7>>
NoPart == [started |-> FALSE, body |-> <<>>]

LinkInit ==
  /\ rest = <<>> /\ dump = 0 /\ size = [d \in Dump |-> 0] /\ open = FALSE /\ wire = <<>>
  /\ partial = NoPart /\ heard = [d \in Dump |-> 0] /\ mishaps = 0 /\ hurt = {}
-----------------------------------------------------------------------------
(* The sender *)

\* sysex_segments
Segments(message) ==
  IF Len(message) <= MaxSegment THEN <<message>>
  ELSE LET body == SubSeq(message, 2, Len(message) - 1)
           chunk == MaxSegment - 2
           pieces == (Len(body) + chunk - 1) \div chunk
       IN [i \in 1..pieces |->
             <<IF i = 1 THEN F0 ELSE F7>>
             \o SubSeq(body, (i - 1) * chunk + 1, Min({i * chunk, Len(body)}))
             \o <<IF i = pieces THEN F7 ELSE F0>>]

\* frame: the segments of a chunk.
Frame(chunk) ==
  IF open THEN << <<F7>> \o chunk \o (IF Last(chunk) = F7 THEN <<>> ELSE <<F0>>) >>
  ELSE IF chunk[1] # F0 THEN <<>>
  ELSE IF Last(chunk) = F7 THEN Segments(chunk) ELSE << chunk \o <<F0>> >>
StaysOpen(chunk) == Last(chunk) # F7 /\ (open \/ chunk[1] = F0)

\* The device starts a dump, whether the last one is complete or not.
StartDump(n) ==
  /\ dump + 1 \in Dump
  /\ dump' = dump + 1 /\ size' = [size EXCEPT ![dump + 1] = n] /\ rest' = Whole(dump + 1, n)
  /\ hurt' = hurt \cup (IF rest = <<>> THEN {} ELSE {dump}) \cup (IF open THEN {dump + 1} ELSE {})
  /\ UNCHANGED <<open, wire, partial, heard, mishaps>>

\* A chunk of n bytes arrives in the ALSA FIFO; send_midi.
SendChunk(n) ==
  /\ n \in 1..Len(rest)
  /\ LET segments == Frame(SubSeq(rest, 1, n))
     IN /\ Len(wire) + Len(segments) <= MaxWire
        /\ wire' = wire \o [i \in DOMAIN segments |-> [dump |-> dump, segment |-> segments[i]]]
  /\ open' = StaysOpen(SubSeq(rest, 1, n)) /\ rest' = SubSeq(rest, n + 1, Len(rest))
  /\ UNCHANGED <<dump, size, partial, heard, mishaps, hurt>>
-----------------------------------------------------------------------------
(* The receiver *)

\* _skip_delta: up to four bytes, to the first without its top bit.
AfterDelta(list, i) ==
  LET ends == {j \in i..Min({i + 3, Len(list)}) : list[j] < 128}
  IN IF ends = {} THEN Min({i + 4, Len(list) + 1}) ELSE Min(ends) + 1

\* _parse_midi_list, as far as SysEx goes: a data byte without a status ends the list.
Commands(list) ==
  LET from[i \in 1..Len(list) + 1] ==
        IF i > Len(list) \/ list[i] \notin {F0, F7} THEN <<>>
        ELSE LET ends == {j \in i + 1..Len(list) : list[j] \in {F0, F4, F7}}
             IN IF ends = {} THEN <<>>
                ELSE <<SubSeq(list, i, Min(ends))>> \o from[AfterDelta(list, Min(ends) + 1)]
  IN from[1]

\* Mutant: an opener goes on with what an unfinished message has left.
Opened_Extends(body) == partial.body \o body

Opened(body) == body

\* feed: the assembler after a segment, and the message it completes.
Feed(state, segment) ==
  LET body == SubSeq(segment, 2, Len(segment) - 1)
      all == IF segment[1] = F0 THEN Opened(body) ELSE state.partial.body \o body
  IN IF Last(segment) = F4 \/ (segment[1] = F7 /\ ~state.partial.started)
     THEN [state EXCEPT !.partial = NoPart]
     ELSE IF Last(segment) = F7
     THEN [partial |-> NoPart, messages |-> Append(state.messages, <<F0>> \o all \o <<F7>>)]
     ELSE [state EXCEPT !.partial = [started |-> TRUE, body |-> all]]

\* on_data
Receive(segment) ==
  LET after == FoldLeft(Feed, [partial |-> partial, messages |-> <<>>], Commands(segment))
  IN /\ partial' = after.partial
     /\ heard' = [d \in Dump |->
          heard[d] + Len(SelectSeq(after.messages, LAMBDA m : d <= dump /\ m = Whole(d, size[d])))]

\* Datagrams are overtaken, duplicated (kept) and lost.
Mishap(happens) == mishaps' = mishaps + (IF happens THEN 1 ELSE 0) /\ mishaps' <= MaxMishaps

Deliver(i, kept) ==
  /\ i \in DOMAIN wire /\ Mishap(i > 1 \/ kept)
  /\ Receive(wire[i].segment)
  /\ wire' = IF kept THEN wire ELSE RemoveAt(wire, i)
  /\ hurt' = hurt \cup (IF i > 1 THEN {wire[j].dump : j \in 1..i} ELSE {})
                  \cup (IF kept THEN {wire[i].dump} ELSE {})
  /\ UNCHANGED <<rest, dump, size, open>>

Lose(i) ==
  /\ i \in DOMAIN wire /\ Mishap(TRUE)
  /\ wire' = RemoveAt(wire, i) /\ hurt' = hurt \cup {wire[i].dump}
  /\ UNCHANGED <<rest, dump, size, open, partial, heard>>

LinkNext ==
  \/ \E n \in Size : StartDump(n)
  \/ \E n \in 1..Len(rest) : SendChunk(n)
  \/ \E i \in DOMAIN wire : Lose(i) \/ \E kept \in BOOLEAN : Deliver(i, kept)

LinkSpec == LinkInit /\ [][LinkNext]_linkVars
-----------------------------------------------------------------------------

LinkTypeOK ==
  /\ rest \in Seq(0..255) /\ dump \in Dump \cup {0} /\ size \in [Dump -> Size \cup {0}]
  /\ open \in BOOLEAN /\ Len(wire) <= MaxWire /\ partial.started \in BOOLEAN
  /\ partial.body \in Seq(0..255) /\ heard \in [Dump -> Nat]
  /\ mishaps \in 0..MaxMishaps /\ hurt \subseteq Dump

\* A dump that begins with the framer closed, is sent to its end and meets no mishap on the
\* way arrives whole, once, whatever has happened to the dumps before it.
UnhurtIsHeard ==
  \A d \in 1..dump : (/\ d \notin hurt /\ (d = dump => rest = <<>>)
                      /\ \A i \in DOMAIN wire : wire[i].dump # d) => heard[d] = 1
=============================================================================
