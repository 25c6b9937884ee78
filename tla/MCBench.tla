------------------------------ MODULE MCBench ------------------------------
(***************************************************************************)
(* The bench: one component of the hub at a time, on its own.  The choice  *)
(* is made in the initial state.  The components share no state here, so   *)
(* they share the bench's variables b1, b2, ...: a component uses as many  *)
(* as it has, in the order of its declaration, and the rest are 0.  What   *)
(* is checked of a component is guarded by its being the one on the bench. *)
(***************************************************************************)
EXTENDS Naturals, Sequences

CONSTANTS
  QueueSize, PoolSize, Batch,
  ArpNotes, Steps, MaxRunners, MaxOffs,
  CartKey, Laps, CartSlot,
  EucKey, Full,
  Rows, Tracks, Bank, Taps,
  Slot, Param, Value,
  Button, Horizon, Backlog,
  Level, OutboxSize,
  Session, Tries, MaxUnanswered, ReapAfter,
  Dev, MaxDropped,
  Message, MaxMessages,
  Mapping, Filter, Input, Unset, MaxMappings, VelocityBits, ValueBits,
  Device, WithSerial, UsbPort, Document,
  EffectKey, Setting, MaxPending, MaxCalls,
  Dump, Size, MaxSegment, MaxWire, MaxMishaps

VARIABLES part, b1, b2, b3, b4, b5, b6, b7, b8, b9, b10, b11, b12, b13, b14, b15, b16,
          b17, b18, b19, b20, b21

benchVars == <<part, b1, b2, b3, b4, b5, b6, b7, b8, b9, b10, b11, b12, b13, b14, b15,
              b16, b17, b18, b19, b20, b21>>

Host == INSTANCE PluginHost WITH bus <- b1, told <- b2, inst <- b3, queue <- b4,
          pool <- b5, player <- b6, sounding <- b7, offAt <- b8
Arp == INSTANCE Arpeggiator WITH keys <- b1, pedal <- b2, held <- b3, slots <- b4,
          heads <- b5, sync <- b6, pattern <- b7, change <- b8, runs <- b9, runners <- b10,
          late <- b11, playing <- b12, offs <- b13, sounds <- b14, timed <- b15
Cart == INSTANCE Cartesian WITH pressed <- b1, held <- b2, pedal <- b3, sync <- b4,
          transport <- b5, runner <- b6, sounding <- b7, fill <- b8, lap <- b9,
          grid <- b10, bank <- b11, active <- b12, stamp <- b13, clean <- b14
Euc == INSTANCE Euclidean WITH pressed <- b1, held <- b2, pedal <- b3, sync <- b4,
          transport <- b5, runner <- b6, playing <- b7, value <- b8, slope <- b9,
          tail <- b10
Trk == INSTANCE Tracker WITH bank <- b1, grid <- b2, selected <- b3, queued <- b4,
          cursor <- b5, mode <- b6, playing <- b7, looping <- b8, launch <- b9,
          ending <- b10, at <- b11, rec <- b12, ringing <- b13, spread <- b14,
          chord <- b15, cell <- b16, due <- b17, preroll <- b18, switch <- b19,
          call <- b20, taps <- b21
Bnk == INSTANCE SlotBank WITH live <- b1, slots <- b2, active <- b3, suppress <- b4,
          load <- b5
Drp == INSTANCE DropButtons WITH state <- b1, sched <- b2, parked <- b3, half <- b4,
          ticks <- b5, alone <- b6, steady <- b7, last <- b8
Str == INSTANCE EventStream WITH stored <- b1, wiring <- b2, pending <- b3,
          sent <- b4, emitting <- b5, calls <- b6, conn <- b7, outbox <- b8,
          view <- b9, shown <- b10, sure <- b11, text <- b12, stamped <- b13
Net == INSTANCE NetworkMidi WITH exported <- b1, parts <- b2, unheard <- b3,
          net <- b4, listed <- b5, dial <- b6, tries <- b7, unanswered <- b8,
          answered <- b9, mirror <- b10, retry <- b11
Ble == INSTANCE BleBridge WITH link <- b1, gatt <- b2, bridge <- b3, device <- b4,
          client <- b5, reader <- b6, watching <- b7, dropped <- b8
Pkt == INSTANCE BleMidi WITH sent <- b1, data <- b2, at <- b3, running <- b4,
          events <- b5
Map == INSTANCE EdgeMappings WITH mappings <- b1, filter <- b2, toggled <- b3,
          heard <- b4
Reg == INSTANCE DeviceRegistry WITH plugged <- b1, registered <- b2, alias <- b3,
          present <- b4, routes <- b5, names <- b6, custom <- b7,
          wired <- b8, settled <- b9
Fx == INSTANCE NoteEffects WITH effect <- b1, setting <- b2, release <- b3,
          down <- b4, half <- b5, memo <- b6, latch <- b7, pending <- b8,
          sounding <- b9, call <- b10, astray <- b11, calls <- b12
Lnk == INSTANCE SysexLink WITH rest <- b1, dump <- b2, size <- b3, open <- b4,
          wire <- b5, partial <- b6, heard <- b7, mishaps <- b8, hurt <- b9

(* What BleMidi implements; the other components leave it with nothing to play. *)
Audible(msg) == Pkt!Promised(msg)
Player == INSTANCE MessagePlayer WITH
            sent <- IF part = "packet" THEN b1 ELSE <<>>,
            played <- IF part = "packet" THEN [k \in DOMAIN b5 |-> Pkt!Midi(b5[k])]
                                         ELSE <<>>

ASSUME BenchAssumption ==
  /\ Host!HostAssumption
  /\ Arp!ArpAssumption
  /\ Cart!CartAssumption
  /\ Euc!EucAssumption
  /\ Trk!TrackerAssumption
  /\ Bnk!SlotAssumption
  /\ Drp!DropAssumption
  /\ Str!StreamAssumption
  /\ Net!NetAssumption
  /\ Ble!BridgeAssumption
  /\ Pkt!PacketAssumption
  /\ Map!MappingAssumption
  /\ Reg!RegistryAssumption
  /\ Fx!EffectAssumption
  /\ Lnk!LinkAssumption

-----------------------------------------------------------------------------

(* The variables beyond those of the component. *)
After4 == <<b5, b6, b7, b8, b9, b10, b11, b12, b13, b14, b15, b16, b17, b18, b19,
             b20, b21>>
After5 == <<b6, b7, b8, b9, b10, b11, b12, b13, b14, b15, b16, b17, b18, b19, b20, b21>>
After8 == <<b9, b10, b11, b12, b13, b14, b15, b16, b17, b18, b19, b20, b21>>
After9 == <<b10, b11, b12, b13, b14, b15, b16, b17, b18, b19, b20, b21>>
After10 == <<b11, b12, b13, b14, b15, b16, b17, b18, b19, b20, b21>>
After11 == <<b12, b13, b14, b15, b16, b17, b18, b19, b20, b21>>
After12 == <<b13, b14, b15, b16, b17, b18, b19, b20, b21>>
After13 == <<b14, b15, b16, b17, b18, b19, b20, b21>>
After15 == <<b16, b17, b18, b19, b20, b21>>
After14 == <<b15, b16, b17, b18, b19, b20, b21>>
BenchInit ==
  \/ /\ part = "host" /\ Host!HostInit
     /\ b9 = 0 /\ b10 = 0 /\ b11 = 0 /\ b12 = 0 /\ b13 = 0 /\ b14 = 0 /\ b15 = 0 /\ b16 = 0
     /\ b17 = 0 /\ b18 = 0 /\ b19 = 0 /\ b20 = 0 /\ b21 = 0
  \/ /\ part = "arp" /\ Arp!ArpInit
     /\ b16 = 0 /\ b17 = 0 /\ b18 = 0 /\ b19 = 0 /\ b20 = 0 /\ b21 = 0
  \/ /\ part = "cart" /\ Cart!CartInit
     /\ b15 = 0 /\ b16 = 0 /\ b17 = 0 /\ b18 = 0 /\ b19 = 0 /\ b20 = 0 /\ b21 = 0
  \/ /\ part = "euc" /\ Euc!EucInit
     /\ b11 = 0 /\ b12 = 0 /\ b13 = 0 /\ b14 = 0 /\ b15 = 0 /\ b16 = 0 /\ b17 = 0 /\ b18 = 0
     /\ b19 = 0 /\ b20 = 0 /\ b21 = 0
  \/ /\ part = "tracker" /\ Trk!TrackerInit
  \/ /\ part = "slots" /\ Bnk!SlotInit
     /\ b6 = 0 /\ b7 = 0 /\ b8 = 0 /\ b9 = 0 /\ b10 = 0 /\ b11 = 0 /\ b12 = 0 /\ b13 = 0
     /\ b14 = 0 /\ b15 = 0 /\ b16 = 0 /\ b17 = 0 /\ b18 = 0 /\ b19 = 0 /\ b20 = 0 /\ b21 = 0
  \/ /\ part = "drops" /\ Drp!DropInit
     /\ b9 = 0 /\ b10 = 0 /\ b11 = 0 /\ b12 = 0 /\ b13 = 0 /\ b14 = 0 /\ b15 = 0 /\ b16 = 0 /\ b17 = 0
     /\ b18 = 0 /\ b19 = 0 /\ b20 = 0 /\ b21 = 0
  \/ /\ part = "events" /\ Str!StreamInit
     /\ b14 = 0 /\ b15 = 0 /\ b16 = 0 /\ b17 = 0 /\ b18 = 0 /\ b19 = 0
     /\ b20 = 0 /\ b21 = 0
  \/ /\ part = "net" /\ Net!NetInit
     /\ b12 = 0 /\ b13 = 0 /\ b14 = 0 /\ b15 = 0 /\ b16 = 0 /\ b17 = 0 /\ b18 = 0 /\ b19 = 0
     /\ b20 = 0 /\ b21 = 0
  \/ /\ part = "ble" /\ Ble!BridgeInit
     /\ b9 = 0 /\ b10 = 0 /\ b11 = 0 /\ b12 = 0 /\ b13 = 0 /\ b14 = 0 /\ b15 = 0 /\ b16 = 0
     /\ b17 = 0 /\ b18 = 0 /\ b19 = 0 /\ b20 = 0 /\ b21 = 0
  \/ /\ part = "packet" /\ Pkt!PacketInit
     /\ b6 = 0 /\ b7 = 0 /\ b8 = 0 /\ b9 = 0 /\ b10 = 0 /\ b11 = 0 /\ b12 = 0 /\ b13 = 0
     /\ b14 = 0 /\ b15 = 0 /\ b16 = 0 /\ b17 = 0 /\ b18 = 0 /\ b19 = 0 /\ b20 = 0 /\ b21 = 0
  \/ /\ part = "edge" /\ Map!MappingInit
     /\ b5 = 0 /\ b6 = 0 /\ b7 = 0 /\ b8 = 0 /\ b9 = 0 /\ b10 = 0 /\ b11 = 0 /\ b12 = 0
     /\ b13 = 0 /\ b14 = 0 /\ b15 = 0 /\ b16 = 0 /\ b17 = 0 /\ b18 = 0 /\ b19 = 0 /\ b20 = 0 /\ b21 = 0
  \/ /\ part = "usb" /\ Reg!RegistryInit
     /\ b10 = 0 /\ b11 = 0 /\ b12 = 0 /\ b13 = 0 /\ b14 = 0 /\ b15 = 0 /\ b16 = 0 /\ b17 = 0
     /\ b18 = 0 /\ b19 = 0 /\ b20 = 0 /\ b21 = 0
  \/ /\ part = "effect" /\ Fx!EffectInit
     /\ b13 = 0 /\ b14 = 0 /\ b15 = 0 /\ b16 = 0 /\ b17 = 0 /\ b18 = 0 /\ b19 = 0 /\ b20 = 0 /\ b21 = 0
  \/ /\ part = "sysex" /\ Lnk!LinkInit
     /\ b10 = 0 /\ b11 = 0 /\ b12 = 0 /\ b13 = 0 /\ b14 = 0 /\ b15 = 0 /\ b16 = 0 /\ b17 = 0
     /\ b18 = 0 /\ b19 = 0 /\ b20 = 0 /\ b21 = 0

On(name, beyond) == part = name /\ UNCHANGED <<part, beyond>>

BenchNext ==
  \/ On("host", After8) /\ Host!HostNext
  \/ On("arp", After15) /\ Arp!ArpNext
  \/ On("cart", After14) /\ Cart!CartNext
  \/ On("euc", After10) /\ Euc!EucNext
  \/ On("tracker", <<>>) /\ Trk!TrackerNext
  \/ On("slots", After5) /\ Bnk!SlotNext
  \/ On("drops", After8) /\ Drp!DropNext
  \/ On("events", After13) /\ Str!StreamNext
  \/ On("net", After11) /\ Net!NetNext
  \/ On("ble", After8) /\ Ble!BridgeNext
  \/ On("packet", After5) /\ Pkt!PacketNext
  \/ On("edge", After4) /\ Map!MappingNext
  \/ On("usb", After9) /\ Reg!RegistryNext
  \/ On("effect", After12) /\ Fx!EffectNext
  \/ On("sysex", After9) /\ Lnk!LinkNext

(* The fairness of each component, as its module states it. *)
BenchFairness ==
  /\ WF_benchVars(On("host", After8) /\ Host!ThreadStep)
  /\ WF_benchVars(On("euc", After10) /\ Euc!EucProgress)
  /\ WF_benchVars(On("packet", After5) /\ Pkt!PacketNext)
  /\ WF_benchVars(On("tracker", <<>>) /\ Trk!TrackerProgress)
  /\ \A s \in Session :
       /\ WF_benchVars(On("net", After11) /\ Net!Round(s))
       /\ WF_benchVars(On("net", After11) /\ Net!Silence(s))
       /\ WF_benchVars(On("net", After11) /\ Net!Reap(s))
       /\ WF_benchVars(On("net", After11) /\ Net!InviteTimesOut(s))
       /\ WF_benchVars(On("net", After11) /\ Net!Decide(s))

BenchSpec == BenchInit /\ [][BenchNext]_benchVars /\ BenchFairness
-----------------------------------------------------------------------------
(* The components' properties, each commented on in its module. *)

(* Every component's variables have their types. *)
PartsTypeOK ==
  /\ (part = "host" => Host!HostTypeOK)
  /\ (part = "arp" => Arp!ArpTypeOK)
  /\ (part = "cart" => Cart!CartTypeOK)
  /\ (part = "euc" => Euc!EucTypeOK)
  /\ (part = "tracker" => Trk!TrackerTypeOK)
  /\ (part = "slots" => Bnk!SlotTypeOK)
  /\ (part = "drops" => Drp!DropTypeOK)
  /\ (part = "events" => Str!StreamTypeOK)
  /\ (part = "net" => Net!NetTypeOK)
  /\ (part = "ble" => Ble!BridgeTypeOK)
  /\ (part = "packet" => Pkt!PacketTypeOK)
  /\ (part = "edge" => Map!MappingTypeOK)
  /\ (part = "usb" => Reg!RegistryTypeOK)
  /\ (part = "effect" => Fx!EffectTypeOK)
  /\ (part = "sysex" => Lnk!LinkTypeOK)

\* Start reaches a running plugin even when its queue was full (PluginHost).
StartHeard == (part = "host" /\ Host!StartDue) ~> (part = "host" => Host!StartOver)

\* A plugin's client is closed when no note of it sounds (PluginHost).
ClosedQuiet == [][part = "host" => Host!QuietClose]_benchVars

\* Every sounding note has its end coming; one whose length was not known is at least
\* remembered (Arpeggiator, NoteEffects).
NotesEnd ==
  /\ part = "arp" => Arp!NotesEnd
  /\ part = "effect" => Fx!EffectsEnd

\* As long as no pattern is programmed, no key that is up comes to stay in the chord without
\* the pedal (Arpeggiator).
NoNewGhosts == [][part = "arp" => Arp!GhostStep]_benchVars

\* Latched, the grid that sounds is the one that is saved (Cartesian).
FrozenGrid == part = "cart" => Cart!FrozenGrid

\* A fade-out ends, whatever happens to keys, transport and mode (Euclidean).
FadeEnds == (part = "euc" /\ Euc!Fading) ~> (part = "euc" => ~Euc!Fading)

\* A one-shot launch ends, unless the playback started to loop while it was under way; a
\* queued pattern gets its turn (Tracker).
LaunchesServed ==
  /\ (part = "tracker" /\ Trk!PlainOneShot) ~> (part = "tracker" => ~Trk!OneShot)
  /\ (part = "tracker" /\ Trk!QueueWaits) ~> (part = "tracker" => ~Trk!QueueWaits)

\* An undisturbed switch of the slot changes none of the slots (SlotBank).
SwitchKeepsSlots == [][part = "slots" => Bnk!SwitchStep]_benchVars

\* What is parked for a bar to come belongs to an armed slot, once, as long as no two calls
\* overlap (DropButtons).
EvictedWithSlot == part = "drops" => Drp!EvictedWithSlot

\* When a drop fires it is heard last, and nothing is left to come, as long as no two calls
\* overlap and the clock is steady (DropButtons).
DropWins == [][part = "drops" => Drp!DropStep]_benchVars

\* When all is delivered, a view shows the stored value (EventStream).
QuietIsFresh == part = "events" => Str!QuietIsFresh

\* Either end of a network session notices that the other is gone (NetworkMidi).
LossNoticed ==
  \A s \in Session :
    /\ (part = "net" /\ Net!Vanished(s)) ~> (part = "net" => Net!Noticed(s))
    /\ (part = "net" /\ Net!Orphan(s)) ~> (part = "net" => Net!Reaped(s))

\* A bridge that is answered for plays (BleBridge).
RegisteredPlays == part = "ble" => Ble!RegisteredPlays

\* A dump that meets no mishap arrives whole, whatever came before (SysexLink).
UnhurtIsHeard == part = "sysex" => Lnk!UnhurtIsHeard


\* The two ways through an edge's mappings agree (EdgeMappings).
WaysAgree == part = "edge" => Map!WaysAgree

\* Nothing but the cable, a Load, or a configuration that comes to name a device it did not
\* know, takes a device's identity or its edges (DeviceRegistry).
KeepsIdentity == [][part = "usb" => Reg!IdentityStep]_benchVars
-----------------------------------------------------------------------------
(* Instances. *)

\* A name alone; a device with a serial, routed, and one that is known by its port; a route
\* of the second to a port that the first document names otherwise.
MCDocument == {[routes |-> {}, names |-> {[port |-> 1]}],
  [routes |-> {[serial |-> 1]}, names |-> {[serial |-> 1], [port |-> 2]}],
  [routes |-> {[port |-> 2]}, names |-> {[port |-> 1]}]}

\* A pattern of two pages that an End marker cuts short, and a silent one.
MCBank == << << << <<"C-4">>, <<"---">> >>, << <<"Off">>, <<"End">> >> >>,
             << << <<"End">>, <<"---">> >> >> >>

\* A note on and off, with running status; a bend; a program; a song position; a
\* message without an event; real time; a SysEx.
MCMessage == {<<144, 60, 100>>, <<144, 60, 0>>, <<224, 0, 64>>, <<193, 5>>,
              <<242, 1, 2>>, <<243, 4>>, <<248>>, <<240, 3, 3>>}

\* Mappings of every type: with a channel and without, of one note and of any, with
\* fixed values and the velocity, through and not, with a range turned around.
Nothing == [type |-> "", ch |-> Unset, from |-> Unset, to |-> Unset, toCh |-> Unset,
            through |-> FALSE, on |-> 127, off |-> 0, source |-> "fixed",
            in |-> <<0, 127>>, out |-> <<0, 127>>]
MCMapping ==
  {[Nothing EXCEPT !.type = "note_to_cc", !.to = 7, !.source = "velocity", !.off = 5],
   [Nothing EXCEPT !.type = "note_to_cc", !.from = 60, !.to = 7, !.on = 101, !.through = TRUE,
                   !.toCh = 2],
   [Nothing EXCEPT !.type = "note_to_cc_toggle", !.from = 60, !.to = 8, !.on = 65, !.off = 64],
   [Nothing EXCEPT !.type = "note_to_note", !.from = 60, !.to = 72],
   [Nothing EXCEPT !.type = "cc_to_cc", !.ch = 1, !.from = 1, !.to = 11, !.in = <<20, 100>>,
                   !.out = <<127, 1>>],
   [Nothing EXCEPT !.type = "cc_to_cc", !.from = 1, !.in = <<0, 126>>, !.out = <<0, 63>>],
   [Nothing EXCEPT !.type = "cc_to_cc", !.from = 1],
   [Nothing EXCEPT !.type = "channel_map", !.ch = 1, !.toCh = 2],
   [Nothing EXCEPT !.type = "channel_map", !.toCh = 3]}

Groups == {"note", "cc", "pc", "pitchbend", "aftertouch", "clock"}
MCFilter == {[channels |-> {1, 2}, groups |-> Groups],
             [channels |-> {1}, groups |-> Groups \ {"note"}]}

MCEvent(kind, ch, num, val) == [kind |-> kind, ch |-> ch, num |-> num, val |-> val]
MCInput ==
  {MCEvent("note_on", 1, 60, 100), MCEvent("note_on", 2, 60, 1), MCEvent("note_on", 1, 61, 65),
   MCEvent("note_on", 1, 60, 0), MCEvent("note_off", 1, 60, 64), MCEvent("pitch_bend", 2, 0, 127),
   MCEvent("poly_pressure", 1, 60, 63), MCEvent("clock", 0, 0, 0)}
  \cup {MCEvent("cc", 1, 1, val) : val \in {0, 1, 20, 21, 63, 64, 65, 100, 127}}
=============================================================================
