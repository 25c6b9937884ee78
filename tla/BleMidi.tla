------------------------------ MODULE BleMidi ------------------------------
(***************************************************************************)
(* One BLE-MIDI packet through the bridge: parse_ble_midi takes the bytes  *)
(* of a notification apart, _on_properties_changed makes an ALSA event of  *)
(* each message, and _event_to_midi with encode_ble_midi makes the bytes   *)
(* of an event on its way out (ble_midi_bridge.py).  Bytes are themselves. *)
(***************************************************************************)
EXTENDS Integers, Sequences, SequencesExt, FiniteSetsExt

CONSTANTS Message,    \* the MIDI messages the peripheral may send
          MaxMessages \* messages in one packet

PacketAssumption == /\ Message \subseteq Seq(0..255)
                    /\ MaxMessages \in Nat

VARIABLES sent,    \* the messages the peripheral put into the packet
          data,    \* the packet
          at,      \* i: the next byte
          running, \* running_status, 0 before the first status
          events   \* the ALSA events made so far

packetVars == <<sent, data, at, running, events>>
----------------------------------------------------------------------------
(* The messages *)

Voice(status) == status >= 128 /\ status < 240
Kind(status) == status - (status % 16)
RealTime(status) == status >= 248

\* _STATUS_DATA_LEN, and the data bytes of the system messages.
DataLength(status) ==
    CASE Voice(status) -> IF Kind(status) \in {192, 208} THEN 1 ELSE 2
      [] status = 242 -> 2
      [] status \in {241, 243} -> 1
      [] OTHER -> 0

\* _on_properties_changed skips a message of a single byte before it gets to its
\* branches, those for the clock and the transport among them.
Branches == {242, 248, 250, 251, 252}
IsPlayed(msg) == Len(msg) >= 2 /\ (Voice(msg[1]) \/ msg[1] \in Branches)

\* _on_properties_changed: one event of a complete message.
Event(msg) ==
    CASE ~Voice(msg[1]) /\ msg[1] # 242 -> [type |-> msg[1]]
      [] msg[1] = 242 -> [type |-> 242, value |-> msg[2] + 128 * msg[3]]
      [] Kind(msg[1]) = 224 ->
           [type |-> 224, channel |-> msg[1] % 16,
            value |-> 128 * msg[3] + msg[2] - 8192]
      [] Kind(msg[1]) \in {192, 208} ->
           [type |-> Kind(msg[1]), channel |-> msg[1] % 16, value |-> msg[2]]
      [] OTHER -> [type |-> Kind(msg[1]), channel |-> msg[1] % 16,
                   param |-> msg[2], value |-> msg[3]]

Fourteen(n) == <<n % 128, n \div 128>>
Clamp(n) == IF n < 0 THEN 0 ELSE IF n > 16383 THEN 16383 ELSE n

\* _event_to_midi: the message of an event.
Midi(event) ==
    CASE event.type = 242 -> <<242>> \o Fourteen(event.value % 16384)
      [] event.type > 242 -> <<event.type>>
      [] event.type = 224 ->
           <<224 + event.channel>> \o Fourteen(Clamp(event.value + 8192))
      [] event.type \in {192, 208} -> <<event.type + event.channel, event.value>>
      [] OTHER -> <<event.type + event.channel, event.param, event.value>>

\* encode_ble_midi: a packet of one message, at time 0.
Encoded(msg) == <<128, 128>> \o msg
----------------------------------------------------------------------------
(* The peripheral: it may leave out a status that has not changed since    *)
(* the last voice message, real-time messages in between or not.           *)

Repeats(msgs, k) ==
    LET before == {j \in 1 .. k - 1 : Voice(msgs[j][1])}
    IN  /\ Voice(msgs[k][1]) /\ before # {}
        /\ msgs[Max(before)][1] = msgs[k][1]

\* The end of a SysEx has a timestamp of its own.
Stamped(msgs, k, short) ==
    <<128 + k>> \o IF short /\ Repeats(msgs, k) THEN Tail(msgs[k])
                   ELSE IF msgs[k][1] = 240 THEN msgs[k] \o <<128 + k, 247>>
                   ELSE msgs[k]

Packet(msgs, short) ==
    <<128>> \o FlattenSeq([k \in DOMAIN msgs |-> Stamped(msgs, k, short)])

PacketInit ==
    \E n \in 1 .. MaxMessages : \E msgs \in [1 .. n -> Message], short \in BOOLEAN :
       /\ sent = msgs
       /\ \/ \E stray \in {<<>>, <<191>>} : data = Packet(msgs, short) \o stray
          \/ n = 1 /\ data = Encoded(msgs[1])
       /\ at = 2 /\ running = 0 /\ events = <<>>
----------------------------------------------------------------------------
(* parse_ble_midi: one action per way through the loop *)

Byte(i) == data[i]
IsData(i) == i <= Len(data) /\ data[i] < 128

\* A byte with bit 7 set at the head of the loop is a timestamp.
Start == IF data[at] >= 128 THEN at + 1 ELSE at

\* The data bytes of a message from i on: at most n, up to the next status.
Collected(i, n) ==
    SubSeq(data, i, i - 1 + Max({k \in 0 .. n :
                                   \A j \in 1 .. k : IsData(i + j - 1)}))

Plus(msg) == IF IsPlayed(msg) THEN Append(events, Event(msg)) ELSE events

More == at <= Len(data)

\* A stray timestamp at the end.
LastStamp == /\ More /\ Start > Len(data)
             /\ at' = Start
             /\ UNCHANGED <<sent, data, running, events>>


\* One byte of real time, which leaves the running status alone.
RealTimeByte == /\ More /\ Start <= Len(data) /\ RealTime(Byte(Start))
                /\ events' = Plus(<<Byte(Start)>>)
                /\ at' = Start + 1
                /\ UNCHANGED <<sent, data, running>>

\* Song position and the others, whole or not at all.
SystemCommon ==
    /\ More /\ Start <= Len(data) /\ Byte(Start) \in {241, 242, 243, 246}
    /\ LET status == Byte(Start)
           bytes  == Collected(Start + 1, DataLength(status))
       IN  /\ events' = IF Len(bytes) = DataLength(status)
                        THEN Plus(<<status>> \o bytes) ELSE events
           /\ at' = Start + 1 + Len(bytes)
    /\ UNCHANGED <<sent, data, running>>

\* SysEx, and its end, is dropped up to the next byte that is not data.
SysEx == /\ More /\ Start <= Len(data) /\ Byte(Start) \in {240, 244, 245, 247}
         /\ at' = Start + 1 + Len(Collected(Start + 1, Len(data)))
         /\ UNCHANGED <<sent, data, running, events>>

\* A voice message, with its status or with the running one.
VoiceMessage ==
    /\ More /\ Start <= Len(data) /\ Byte(Start) < 240
    /\ LET own    == Byte(Start) >= 128
           status == IF own THEN Byte(Start) ELSE running
           from   == IF own THEN Start + 1 ELSE Start
           bytes  == Collected(from, DataLength(status))
       IN  /\ running' = status
           /\ IF status = 0
              THEN at' = Start + 1 /\ UNCHANGED events
              ELSE /\ events' = IF Len(bytes) = DataLength(status)
                                THEN Plus(<<status>> \o bytes) ELSE events
                   /\ at' = from + Len(bytes)
    /\ UNCHANGED <<sent, data>>

PacketNext == LastStamp \/ RealTimeByte \/ SystemCommon \/ SysEx \/ VoiceMessage

\* The loop does not stop before the end of the packet.
PacketSpec == PacketInit /\ [][PacketNext]_packetVars /\ WF_packetVars(PacketNext)
----------------------------------------------------------------------------
PacketTypeOK == /\ Range(sent) \subseteq Message
                /\ at \in 2 .. Len(data) + 1
                /\ running \in {0} \cup 128 .. 239
                /\ Len(events) <= Len(sent)

\* What the manual says the bridge handles, but for the clock, Start, Stop and
\* Continue: these it lists too, and the code never plays them.
Promised(msg) == Voice(msg[1]) \/ msg[1] = 242

(* The bridge implements the player of voice messages and song positions:  *)
(* its events, turned back into messages by _event_to_midi, are the ones   *)
(* that were sent, each once and in order, and nothing else; none is lost, *)
(* though statuses are omitted and real-time bytes and SysEx stand between *)
(* them, and whether the peripheral or the hub encoded the packet.         *)
Player == INSTANCE MessagePlayer WITH
            Audible <- Promised, played <- [k \in DOMAIN events |-> Midi(events[k])]
=============================================================================
