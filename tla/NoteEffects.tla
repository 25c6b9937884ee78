---------------------------- MODULE NoteEffects ----------------------------
(***************************************************************************)
(* The plugins that pass a keyboard's notes on as other notes or at other  *)
(* times: Hold, Chord Generator, Channel Selector, Latency, MIDI Delay.    *)
(* An instance handles its keys on its own thread; panic() is called on a  *)
(* worker thread, on_param_change on the web server's, in the middle of a  *)
(* handler or around it.  One keyboard on one channel.                     *)
(***************************************************************************)
EXTENDS Naturals, Sequences, SequencesExt

CONSTANTS
  EffectKey,  \* the keys
  Setting,    \* chord types, channels or delays; in Hold 2 is the toggle mode
  MaxPending, \* events in the ALSA queue when a key is pressed
  MaxCalls    \* panics and changes of the mode of Hold

EffectAssumption == EffectKey \subseteq Nat \ {0} /\ {1, 2} \subseteq Setting /\ Setting \subseteq Nat \ {0}

VARIABLES
  effect,  \* which of the plugins
  setting, \* its parameter: chord, active_ch, delay_ms, toggle_notes
  release, \* release_note of Hold, 0: not enabled
  down,    \* the keys whose NoteOn is handled, or begun, and whose NoteOff is not
  half,    \* the handler the plugin's thread is in: its key, the notes it has still to
           \* send or to remember, and the delay it read
  memo,    \* _active, _held, _note_delay: the setting a key was pressed under, or 0
  latch,   \* Hold: _physical, _held, _toggled, _locked
  pending, \* the plugin's events in the ALSA queue, in order
  sounding,\* the notes that sound at the destination
  call,    \* the call of another thread: "off" (what is remembered is not released
           \* yet), "clear" (not forgotten yet), ""
  astray,  \* the notes that may be lost: of a press overlapped by a call, or left without
           \* their NoteOff by cancel_scheduled
  calls    \* calls so far

effectVars == <<effect, setting, release, down, half, memo, latch, pending, sounding, call, astray, calls>>

Idle == [key |-> 0, notes |-> {}, delay |-> 0]
Unlatched == [physical |-> {}, held |-> {}, toggled |-> {}, locked |-> FALSE]

\* The notes of a key pressed under a setting: a pair of channel and note number.
Notes(k, s) ==
  IF s = 0 THEN {}
  ELSE CASE effect = "chord" -> {<<0, k>>, <<0, k + s>>}
         [] effect = "channel" -> {<<s, k>>}
         [] OTHER -> {<<0, k>>}
Note(k) == <<0, k>>
Latched == latch.held \cup latch.toggled
Toggles == setting = 2

EffectInit ==
  /\ effect \in {"hold", "chord", "channel", "latency", "delay"}
  /\ setting = 1 /\ release = 0 /\ down = {} /\ half = Idle
  /\ memo = [k \in EffectKey |-> 0] /\ latch = Unlatched
  /\ pending = <<>> /\ sounding = {} /\ call = "" /\ astray = {} /\ calls = 0

\* send_event_at: the kernel keeps the queue sorted, equal times in the order of arrival.
Event(due, on, note) == [due |-> due, on |-> on, note |-> note]
Places(queue, e) ==
  {i \in 1 .. Len(queue) + 1 : /\ \A j \in 1 .. i - 1 : queue[j].due <= e.due
                              /\ \A j \in i .. Len(queue) : queue[j].due > e.due}
Scheduled(queue, e, next) == \E i \in Places(queue, e) : next = InsertAt(queue, i, e)

\* cancel_scheduled: a note whose NoteOn has left the queue loses its NoteOff.
Cancel ==
  /\ pending' = <<>>
  /\ astray' = astray \cup {n \in sounding : \E e \in ToSet(pending) : ~e.on /\ e.note = n}

\* A press that begins while another thread's call is under way.
Overlapped(notes) == astray' = IF call = "" THEN astray ELSE astray \cup notes
-----------------------------------------------------------------------------
(* Hold *)

\* _release_all: _physical is left alone.
ReleaseAll(kept) ==
  sounding' = sounding \ {Note(n) : n \in Latched} /\ latch' = [Unlatched EXCEPT !.physical = kept]

Plays(k) == half' = [Idle EXCEPT !.key = k, !.notes = {Note(k)}] /\ Overlapped({Note(k)})

\* In the toggle mode a press flips its note.
HoldToggle(k) ==
  IF k \in latch.toggled
  THEN /\ latch' = [latch EXCEPT !.toggled = @ \ {k}] /\ sounding' = sounding \ {Note(k)}
       /\ UNCHANGED <<half, astray>>
  ELSE latch' = [latch EXCEPT !.toggled = @ \cup {k}] /\ Plays(k) /\ UNCHANGED sounding

\* Otherwise it adds to the chord, or ends a locked chord and begins the next one.
HoldAdd(k) ==
  LET kept == IF latch.locked THEN [Unlatched EXCEPT !.physical = latch.physical] ELSE latch
  IN /\ latch' = [kept EXCEPT !.physical = @ \cup {k}, !.held = @ \cup {k}]
     /\ sounding' = IF latch.locked THEN sounding \ {Note(n) : n \in Latched} ELSE sounding
     /\ Plays(k)

HoldPress(k) ==
  /\ effect = "hold"
  /\ CASE k = release -> ReleaseAll(latch.physical) /\ UNCHANGED <<half, astray>>
       [] k # release /\ Toggles -> HoldToggle(k)
       [] OTHER -> HoldAdd(k)
  /\ UNCHANGED memo

Discard(k) == latch.physical \ {k}

HoldRelease(k) ==
  /\ effect = "hold"
  /\ latch' = IF Toggles THEN latch
              ELSE [latch EXCEPT !.physical = Discard(k),
                                 !.locked = @ \/ (Discard(k) = {} /\ latch.held # {})]
  /\ UNCHANGED <<half, memo, sounding>>
-----------------------------------------------------------------------------
(* Chord Generator: the notes sound, then they are remembered. *)

ChordPress(k) ==
  /\ effect = "chord"
  /\ sounding' = sounding \cup Notes(k, setting) /\ Overlapped(Notes(k, setting))
  /\ half' = [key |-> k, notes |-> Notes(k, setting), delay |-> setting]
  /\ UNCHANGED <<memo, latch>>

ChordRemembers ==
  /\ effect = "chord" /\ memo' = [memo EXCEPT ![half.key] = half.delay]
  /\ UNCHANGED <<sounding, pending>>

ChordRelease(k) ==
  /\ effect = "chord" /\ memo' = [memo EXCEPT ![k] = 0]
  /\ half' = [Idle EXCEPT !.key = k, !.notes = Notes(k, memo[k])]
  /\ UNCHANGED <<latch, sounding>>
-----------------------------------------------------------------------------
(* Channel Selector and Latency: the setting is remembered, then the note is sent. *)

\* Mutant: the NoteOff goes by the parameter of now.
Remembered_Now(k) == setting

\* The setting the key was pressed under, if it is still known.
Remembered(k) == IF memo[k] = 0 THEN setting ELSE memo[k]

Remembers(k) ==
  /\ memo' = [memo EXCEPT ![k] = setting] /\ Overlapped(Notes(k, setting))
  /\ half' = [key |-> k, notes |-> Notes(k, setting), delay |-> setting]
  /\ UNCHANGED <<latch, sounding>>

Takes(k) ==
  /\ memo' = [memo EXCEPT ![k] = 0]
  /\ half' = [key |-> k, notes |-> Notes(k, Remembered(k)), delay |-> Remembered(k)]
  /\ UNCHANGED <<latch, sounding>>

ChannelPress(k) == effect = "channel" /\ Remembers(k)
ChannelRelease(k) == effect = "channel" /\ Takes(k)

LatencyPress(k) == effect = "latency" /\ Remembers(k)
LatencyRelease(k) == effect = "latency" /\ Takes(k)

\* send_note_on_at, send_note_off_at, after the delay that was read.
LatencySends(on) ==
  /\ effect = "latency" /\ Scheduled(pending, Event(half.delay, on, Note(half.key)), pending')
  /\ UNCHANGED <<memo, sounding>>
-----------------------------------------------------------------------------
(* MIDI Delay: the note itself, then one echo. *)

DelayPress(k) ==
  /\ effect = "delay" /\ sounding' = sounding \cup {Note(k)} /\ Overlapped({Note(k)})
  /\ half' = [key |-> k, notes |-> {Note(k)}, delay |-> setting]
  /\ UNCHANGED <<memo, latch>>

PlaceEchoes ==
  /\ effect = "delay"
  /\ \E i \in Places(pending, Event(half.delay, TRUE, Note(half.key))) :
       Scheduled(InsertAt(pending, i, Event(half.delay, TRUE, Note(half.key))),
                 Event(half.delay + 1, FALSE, Note(half.key)), pending')
  /\ UNCHANGED <<memo, sounding>>

DelayRelease(k) ==
  effect = "delay" /\ sounding' = sounding \ {Note(k)} /\ UNCHANGED <<half, memo, latch>>
-----------------------------------------------------------------------------
(* The plugin's thread: a handler in two halves, and the transport. *)

\* After a note may have been lost no key is pressed: a bound.
Press(k) ==
  /\ half = Idle /\ k \notin down /\ astray = {} /\ Len(pending) < MaxPending
  /\ down' = down \cup {k}
  /\ HoldPress(k) \/ ChordPress(k) \/ ChannelPress(k) \/ LatencyPress(k) \/ DelayPress(k)
  /\ UNCHANGED <<effect, setting, release, pending, call, calls>>

Release(k) ==
  /\ half = Idle /\ k \in down /\ down' = down \ {k}
  /\ HoldRelease(k) \/ ChordRelease(k) \/ ChannelRelease(k) \/ LatencyRelease(k) \/ DelayRelease(k)
  /\ UNCHANGED <<effect, setting, release, pending, call, astray, calls>>

\* send_note_on, send_note_off
Sends(on) ==
  /\ effect \in (IF on THEN {"hold", "channel"} ELSE {"chord", "channel"})
  /\ sounding' = IF on THEN sounding \cup half.notes ELSE sounding \ half.notes
  /\ UNCHANGED <<memo, pending>>

Finish ==
  /\ half # Idle /\ half' = Idle
  /\ \/ Sends(half.key \in down) \/ LatencySends(half.key \in down)
     \/ half.key \in down /\ (ChordRemembers \/ PlaceEchoes)
  /\ UNCHANGED <<effect, setting, release, down, latch, call, astray, calls>>

\* on_transport_stop; the delay cancels on a start, too.
HoldStop == effect = "hold" /\ ReleaseAll({}) /\ UNCHANGED <<pending, astray>>
DelayStop == effect = "delay" /\ Cancel /\ UNCHANGED <<sounding, latch>>
Transport ==
  /\ half = Idle /\ (HoldStop \/ DelayStop)
  /\ UNCHANGED <<effect, setting, release, down, half, memo, call, calls>>

\* The queue: an event is due, or time passes.
Fires ==
  /\ pending # <<>> /\ Head(pending).due = 0
  /\ sounding' = IF Head(pending).on THEN sounding \cup {Head(pending).note}
                                     ELSE sounding \ {Head(pending).note}
  /\ pending' = Tail(pending)
  /\ UNCHANGED <<effect, setting, release, down, half, memo, latch, call, astray, calls>>

TimePasses ==
  /\ pending # <<>> /\ Head(pending).due > 0
  /\ pending' = [i \in DOMAIN pending |-> [pending[i] EXCEPT !.due = @ - 1]]
  /\ UNCHANGED <<effect, setting, release, down, half, memo, latch, sounding, call, astray, calls>>
-----------------------------------------------------------------------------
(* The other threads *)

\* A call begins; a press it finds half done may escape it.
Begins ==
  /\ call = "" /\ calls < MaxCalls /\ call' = "off" /\ calls' = calls + 1
  /\ astray' = IF half.key \in down THEN astray \cup half.notes ELSE astray
  /\ UNCHANGED <<effect, release, down, half, memo, latch, pending>>

\* A parameter is set: a mode change of Hold calls on_param_change.
SetParam(s) ==
  /\ s # setting /\ setting' = s
  /\ IF effect = "hold" THEN Begins
     ELSE UNCHANGED <<effect, release, down, half, memo, latch, pending, call, astray, calls>>
  /\ UNCHANGED sounding

Learn(k) ==
  /\ effect = "hold" /\ release # k /\ release' = k
  /\ UNCHANGED <<effect, setting, down, half, memo, latch, pending, sounding, call, astray, calls>>

\* engine.panic silences the destinations, then calls panic() of the plugins.
Panic == Begins /\ sounding' = {} /\ UNCHANGED setting

\* panic() goes over what is remembered and lets it end; on_param_change of Hold, too.
HoldPanic == effect = "hold" /\ sounding' = sounding \ {Note(k) : k \in Latched}
ChordPanic ==
  effect = "chord" /\ sounding' = sounding \ UNION {Notes(k, memo[k]) : k \in EffectKey}
ChannelPanic == effect = "channel" /\ UNCHANGED sounding
LatencyPanic == effect \in {"latency", "delay"} /\ Cancel /\ UNCHANGED sounding

CallSends ==
  /\ call = "off" /\ call' = "clear"
  /\ \/ (HoldPanic \/ ChordPanic \/ ChannelPanic) /\ UNCHANGED <<pending, astray>>
     \/ LatencyPanic
  /\ UNCHANGED <<effect, setting, release, down, half, memo, latch, calls>>

\* Then it is cleared.
CallClears ==
  /\ call = "clear" /\ call' = ""
  /\ memo' = [k \in EffectKey |-> 0] /\ latch' = Unlatched
  /\ UNCHANGED <<effect, setting, release, down, half, pending, sounding, astray, calls>>

EffectNext ==
  \/ \E k \in EffectKey : Press(k) \/ Release(k)
  \/ \E s \in (IF effect = "hold" THEN {1, 2} ELSE Setting) : SetParam(s)
  \/ \E k \in EffectKey \cup {0} : Learn(k)
  \/ Finish \/ Transport \/ Fires \/ TimePasses
  \/ Panic \/ CallSends \/ CallClears

EffectSpec == EffectInit /\ [][EffectNext]_effectVars
-----------------------------------------------------------------------------

EffectTypeOK ==
  /\ setting \in Setting /\ release \in EffectKey \cup {0} /\ down \subseteq EffectKey
  /\ half.key \in EffectKey \cup {0} /\ half.delay \in Setting \cup {0}
  /\ memo \in [EffectKey -> Setting \cup {0}]
  /\ latch \in [physical : SUBSET EffectKey, held : SUBSET EffectKey,
                toggled : SUBSET EffectKey, locked : BOOLEAN]
  /\ \A i \in DOMAIN pending : pending[i].on \in BOOLEAN
  /\ call \in {"", "off", "clear"} /\ calls \in 0..MaxCalls

\* What ends a note: the handler under way, the queue, the latch, or the key that is
\* still down, under the setting it was pressed with.
Owned(n) ==
  \/ n \in half.notes
  \/ \E e \in ToSet(pending) : ~e.on /\ e.note = n
  \/ effect = "hold" /\ n \in {Note(k) : k \in Latched}
  \/ effect \in {"chord", "channel"} /\ \E k \in down : n \in Notes(k, memo[k])
  \/ effect \in {"latency", "delay"} /\ n \in {Note(k) : k \in down}

\* Every sounding note has something that will end it, whatever the parameters did
\* since the key went down; and Hold locks its chord when the last key is up, although
\* mode and release note change under held keys.
EffectsEnd ==
  /\ sounding \ astray \subseteq {n \in sounding : Owned(n)}
  /\ (effect = "hold" /\ ~Toggles /\ down = {} /\ latch.held # {}) => latch.locked
=============================================================================
