------------------------------ MODULE Tracker ------------------------------
(***************************************************************************)
(* The Tracker (tracker_base.py): a bank of patterns of pages of rows, the  *)
(* grid that mirrors the selected one, a playhead that the transport, the   *)
(* Play button or a launch key drives off the clock, and the recording of   *)
(* what is played.                                                         *)
(*                                                                         *)
(* Three threads: the plugin's own (ticks, notes, external transport), the  *)
(* web server's (buttons, pattern strip) and the pre-roll timer.  A handler *)
(* is one step where it holds the lock and several where it does not.       *)
(***************************************************************************)
EXTENDS Naturals, Sequences, FiniteSets, FiniteSetsExt

CONSTANTS
  Rows,       \* MAX_ROWS_PER_PAGE
  Tracks,     \* TRACK_COUNT; every track listens on the channel that is played
  Bank,       \* the patterns of the saved configuration
  Taps        \* what the musician does, in all

TrackerAssumption == {Rows, Tracks, Taps} \subseteq Nat \ {0} /\ Len(Bank) > 0

VARIABLES
  bank, grid, selected,   \* patterns, pages, selected_pattern
  queued,                 \* queued_pattern, 0 for none
  cursor,                 \* current_page and cursor_row
  mode,                   \* trigger_mode
  playing, looping,       \* _playing, _loop_page
  launch, ending,         \* the pattern of the active launch or 0; _launch_oneshot_ending
  at, rec,                \* _play_page/_row and _record_page/_row
  ringing,                \* _sounding of each track
  spread, chord, cell,    \* offsets of the row and of the chord, the chord's row, _held_recording_keys
  due,                    \* threads that have decided to advance the playhead
  preroll,                \* _preroll_timer: "none", "play" or "page"
  switch,                 \* a change of pattern under way, on the web server's thread
  call,                   \* a launch under way, on the plugin's
  taps

sequence == <<bank, grid, selected, queued, cursor>>
transport == <<playing, looping, launch, ending>>
recorder == <<spread, chord, cell>>
trackerVars == <<sequence, mode, transport, at, rec, ringing, recorder, due, preroll, switch, call, taps>>

Hold == "---"
Off == "Off"
End == "End"
Note == "C-4"
Quiet == "none"
Mode == {"switch", "oneshot", "hold", "toggle"}
PatternIdx == DOMAIN Bank
Pos(p, r) == [page |-> p, row |-> r]
Top == Pos(1, 1)
Unheld == [on |-> FALSE, pos |-> Top, track |-> 0]
NoSwitch == [to |-> 0, grid |-> <<>>, how |-> "none", pos |-> Top]
NoCall == [to |-> 0, grid |-> <<>>, next |-> "none"]

\* on_start: the grid is a mirror of the selected pattern, and nothing plays.
TrackerInit ==
  /\ bank = Bank /\ selected = 1 /\ grid = Bank[1] /\ queued = 0 /\ cursor = Top /\ mode = "switch"
  /\ playing = FALSE /\ looping = FALSE /\ launch = 0 /\ ending = FALSE
  /\ at = Top /\ rec = Top /\ ringing = [t \in 1..Tracks |-> Quiet]
  /\ spread = [live |-> 0, chord |-> 0] /\ chord = Top /\ cell = Unheld
  /\ due = {} /\ preroll = "none" /\ switch = NoSwitch /\ call = NoCall /\ taps = Taps

Running == playing \/ launch # 0
Silence == ringing' = [t \in 1..Tracks |-> Quiet]
NoLaunch == launch' = 0 /\ ending' = FALSE
Forget == spread' = [live |-> 0, chord |-> 0] /\ cell' = Unheld /\ UNCHANGED chord
Tap == taps > 0 /\ taps' = taps - 1
\* The plugin's thread takes the next event when it has done with the last one.
PluginFree == "plugin" \notin due /\ call = NoCall

-----------------------------------------------------------------------------
(* _advance_step: under the lock.                                          *)

EndRow(pos) == \E t \in 1..Tracks : grid[pos.page][pos.row][t] = End
Shown == IF cursor.page <= Len(grid) THEN cursor.page ELSE 1

\* The k-th row tried on one tick: the playhead's own, then the first rows of
\* the pages after it, or of the page on the screen when that page loops.
Try(k) ==
  LET here == IF at.page <= Len(grid) THEN at ELSE Top
  IN IF k = 0 THEN here
     ELSE Pos(IF looping THEN Shown ELSE ((here.page + k - 1) % Len(grid)) + 1, 1)

Fired == {k \in 0..Len(grid) : ~EndRow(Try(k))}
Skipped == IF Fired = {} THEN Len(grid) + 1 ELSE Min(Fired)
WrappedByEnd == ~looping /\ \E k \in 1..Skipped : Try(k).page = 1
OneShot == launch # 0 /\ mode = "oneshot"

After(pos) ==
  IF pos.row < Rows THEN Pos(pos.page, pos.row + 1)
  ELSE IF looping THEN Pos(Shown, 1)
  ELSE Pos((pos.page % Len(grid)) + 1, 1)

\* _switch_pattern from inside the lock, when a wrap finds a queued pattern.
Consume(wrapped) ==
  IF wrapped /\ queued # 0
  THEN /\ selected' = queued /\ grid' = bank[queued] /\ queued' = 0 /\ cursor' = Top /\ UNCHANGED bank
  ELSE UNCHANGED sequence

\* _fire_voice_note for every track of the row.
Fire(row) ==
  ringing' = [t \in 1..Tracks |-> IF row[t] = Hold THEN ringing[t]
                                  ELSE IF row[t] = Off THEN Quiet ELSE row[t]]

LastRowRang == ending /\ NoLaunch /\ Silence /\ UNCHANGED <<sequence, at, rec, spread>>

\* Mutant: a wrap by an End marker is no boundary.
SilentPage_NoWrap ==
  /\ ~ending /\ ~(OneShot /\ WrappedByEnd) /\ Fired = {}
  /\ at' = Try(Skipped) /\ Consume(FALSE)
  /\ UNCHANGED <<rec, ringing, spread, launch, ending>>

\* Every row that was tried is an End row: the playhead lives on without a note.
SilentPage ==
  /\ ~ending /\ ~(OneShot /\ WrappedByEnd) /\ Fired = {}
  /\ at' = Try(Skipped) /\ Consume(WrappedByEnd)
  /\ UNCHANGED <<rec, ringing, spread, launch, ending>>

\* Mutant: the last row of a one-shot does not end it.
PlayRow_Forever ==
  /\ ~ending /\ ~(OneShot /\ WrappedByEnd) /\ Fired # {}
  /\ LET pos == Try(Skipped)
         wraps == ~looping /\ After(pos) = Top
     IN /\ Fire(grid[pos.page][pos.row]) /\ rec' = pos /\ at' = After(pos)
        /\ ending' = FALSE /\ Consume(WrappedByEnd \/ wraps)
  /\ spread' = [spread EXCEPT !.live = 0] /\ UNCHANGED launch

PlayRow ==
  /\ ~ending /\ ~(OneShot /\ WrappedByEnd) /\ Fired # {}
  /\ LET pos == Try(Skipped)
         wraps == ~looping /\ pos.row = Rows /\ After(pos).page = 1
     IN /\ Fire(grid[pos.page][pos.row]) /\ rec' = pos /\ at' = After(pos)
        /\ ending' = (OneShot /\ wraps) /\ Consume(WrappedByEnd \/ wraps)
  /\ spread' = [spread EXCEPT !.live = 0] /\ UNCHANGED launch

EndsByMarker ==
  /\ ~ending /\ OneShot /\ WrappedByEnd
  /\ NoLaunch /\ Silence /\ at' = Top /\ Consume(TRUE) /\ UNCHANGED <<rec, spread>>

AdvanceStep(thread) ==
  /\ thread \in due /\ due' = due \ {thread}
  /\ LastRowRang \/ EndsByMarker \/ SilentPage \/ PlayRow
  /\ UNCHANGED <<mode, playing, looping, chord, cell, preroll, switch, call, taps>>

\* on_tick looks at the flags before _advance_step takes the lock.
Tick ==
  /\ PluginFree /\ Running /\ due' = due \cup {"plugin"}
  /\ UNCHANGED <<sequence, mode, transport, at, rec, ringing, recorder, preroll, switch, call, taps>>

-----------------------------------------------------------------------------
(* Transport.                                                              *)

\* _begin_playback: its first row is fired after the lock has been released.
Begin(thread, page) ==
  /\ Silence /\ playing' = TRUE /\ looping' = page /\ NoLaunch
  /\ at' = IF page THEN Pos(cursor.page, 1) ELSE Top
  /\ due' = due \cup {thread} /\ preroll' = "none"
  /\ UNCHANGED <<sequence, mode, rec, recorder, switch, call>>

End_ ==
  /\ Silence /\ playing' = FALSE /\ looping' = FALSE /\ NoLaunch /\ Forget /\ preroll' = "none"
  /\ UNCHANGED <<sequence, mode, at, rec, due, switch, call>>

Resume ==
  /\ playing' = TRUE
  /\ UNCHANGED <<sequence, mode, looping, launch, ending, at, rec, ringing, recorder, due, preroll, switch, call>>

ExternalTransport == PluginFree /\ Tap /\ (Begin("plugin", FALSE) \/ End_ \/ Resume)

PressPlay(page) ==
  /\ Tap /\ preroll' = (IF page THEN "page" ELSE "play")
  /\ UNCHANGED <<sequence, mode, transport, at, rec, ringing, recorder, due, switch, call>>

PrerollEnds == preroll # "none" /\ "timer" \notin due /\ Begin("timer", preroll = "page") /\ UNCHANGED taps

PressStop == Tap /\ End_

-----------------------------------------------------------------------------
(* Launches and the pattern bank.                                          *)

\* _launch_start, in the plugin's thread: two regions under the lock, and _switch_pattern
\* between them, which takes it only for the positions.
Launch(i) ==
  /\ Silence /\ playing' = FALSE /\ looping' = FALSE /\ ending' = FALSE
  /\ call' = [to |-> i, grid |-> <<>>, next |-> "select"]
  /\ UNCHANGED <<sequence, launch, at, rec>>

LaunchSelects ==
  /\ call.next = "select" /\ selected' = call.to
  /\ call' = [call EXCEPT !.grid = bank[call.to], !.next = "show"]
  /\ UNCHANGED <<bank, grid, queued, cursor, mode, transport, at, rec, ringing, recorder, due, preroll, switch, taps>>

LaunchShows ==
  /\ call.next = "show" /\ grid' = call.grid
  /\ call' = [call EXCEPT !.grid = <<>>, !.next = "rewind"]
  /\ UNCHANGED <<bank, selected, queued, cursor, mode, transport, at, rec, ringing, recorder, due, preroll, switch, taps>>

LaunchRewinds ==
  /\ call.next = "rewind" /\ at' = Top /\ rec' = Top
  /\ call' = [call EXCEPT !.next = "start"]
  /\ UNCHANGED <<sequence, mode, transport, ringing, recorder, due, preroll, switch, taps>>

LaunchStarts ==
  /\ call.next = "start" /\ launch' = call.to /\ call' = NoCall
  /\ UNCHANGED <<sequence, mode, playing, looping, ending, at, rec, ringing, recorder, due, preroll, switch, taps>>

\* _launch_stop.
StopLaunch == NoLaunch /\ Silence /\ UNCHANGED <<sequence, playing, looping, at, rec, call>>

\* on_note_on on the control channel, in the modes that launch.
TriggerKey(i) ==
  /\ PluginFree /\ mode # "switch" /\ Tap
  /\ IF mode = "toggle" /\ launch # 0 /\ i = selected THEN StopLaunch ELSE Launch(i)
  /\ UNCHANGED <<mode, recorder, due, preroll, switch>>

\* on_note_off on the control channel.
ReleaseKey(i) ==
  /\ PluginFree /\ mode = "hold" /\ launch = i /\ i # 0
  /\ StopLaunch /\ UNCHANGED <<mode, recorder, due, preroll, switch, taps>>

\* _handle_pattern_command: a tap while playing queues the pattern or forgets the queue.
TapPlaying(i) ==
  /\ playing /\ Tap /\ queued' = IF i = selected THEN 0 ELSE i
  /\ UNCHANGED <<bank, grid, selected, cursor, mode, transport, at, rec, ringing, recorder, due, preroll, switch, call>>

\* A tap while stopped, or a shift-tap, switches without the lock: the selection first ...
BeginSwitch(i, how) ==
  /\ switch = NoSwitch /\ Tap /\ (how = "tap" => ~playing)
  /\ selected' = i
  /\ switch' = [to |-> i, grid |-> bank[i], how |-> IF playing THEN how ELSE "tap",
                pos |-> IF at.page <= Len(bank[i]) THEN at ELSE Pos(1, at.row)]
  /\ UNCHANGED <<bank, grid, queued, cursor, mode, transport, at, rec, ringing, recorder, due, preroll, call>>

\* ... then the grid and the positions.
EndSwitch ==
  /\ switch # NoSwitch /\ switch' = NoSwitch
  /\ grid' = switch.grid /\ queued' = 0
  /\ IF switch.how = "tap" THEN cursor' = Top /\ at' = Top /\ rec' = Top
     ELSE at' = switch.pos /\ UNCHANGED <<cursor, rec>>
  /\ UNCHANGED <<bank, selected, mode, transport, ringing, recorder, due, preroll, call, taps>>

\* _clone_pattern of the selected pattern, _clear_pattern.
Overwrite(i, clear) ==
  /\ switch = NoSwitch /\ Tap
  /\ clear \/ i # selected
  /\ bank' = [bank EXCEPT ![i] = IF clear THEN <<[r \in 1..Rows |-> [t \in 1..Tracks |-> Hold]]>> ELSE bank[selected]]
  /\ IF i = selected THEN grid' = bank'[i] /\ cursor' = Top ELSE UNCHANGED <<grid, cursor>>
  /\ UNCHANGED <<selected, queued, mode, transport, at, rec, ringing, recorder, due, preroll, switch, call>>

SetMode(m) ==
  /\ Tap /\ mode' = m /\ m # mode
  /\ UNCHANGED <<sequence, transport, at, rec, ringing, recorder, due, preroll, switch, call>>

\* PgUp and PgDn.
TurnPage ==
  /\ Tap /\ cursor' = [cursor EXCEPT !.page = (@ % Len(grid)) + 1] /\ cursor' # cursor
  /\ UNCHANGED <<bank, grid, selected, queued, mode, transport, at, rec, ringing, recorder, due, preroll, switch, call>>

-----------------------------------------------------------------------------
(* Recording: on_note_on and on_note_off of a key of the tracks' channel.  *)

\* _mirror_pages_to_selected_pattern.
Mirrored == bank' = [bank EXCEPT ![selected] = grid']

\* _record_voice_field_at.
Write(pos, track, value) ==
  IF pos.page \in DOMAIN grid /\ track # 0
  THEN grid' = [grid EXCEPT ![pos.page][pos.row][track] = value] /\ Mirrored
  ELSE UNCHANGED <<grid, bank>>

TrackAt(offset) == IF offset < Tracks THEN offset + 1 ELSE 0
NextOffset(offset) == IF offset < Tracks THEN offset + 1 ELSE offset

NextStep(pos) == IF pos.row < Rows THEN Pos(pos.page, pos.row + 1) ELSE Pos((pos.page % Len(grid)) + 1, 1)
Advanced == cursor' = NextStep(cursor)   \* _auto_advance_cursor

PlayKey ==
  /\ PluginFree /\ ~cell.on /\ Tap
  /\ IF playing
     THEN LET track == TrackAt(spread.live)
          IN /\ Write(rec, track, Note) /\ cell' = [on |-> TRUE, pos |-> rec, track |-> track]
             /\ spread' = [spread EXCEPT !.live = NextOffset(@)] /\ UNCHANGED <<chord, cursor>>
     ELSE /\ Write(cursor, 1, Note) /\ chord' = cursor
          /\ cell' = [on |-> TRUE, pos |-> Top, track |-> 0]
          /\ spread' = [spread EXCEPT !.chord = 1]
          /\ Advanced
  /\ UNCHANGED <<selected, queued, mode, transport, at, rec, ringing, due, preroll, switch, call>>

\* A further key of the same chord, while stopped.
PlayChord ==
  /\ PluginFree /\ cell.on /\ ~playing /\ spread.chord < Tracks /\ Tap
  /\ Write(chord, TrackAt(spread.chord), Note)
  /\ spread' = [spread EXCEPT !.chord = NextOffset(@)]
  /\ UNCHANGED <<selected, queued, cursor, mode, transport, at, rec, ringing, chord, cell, due, preroll, switch, call>>

\* _record_live_note_off: an Off where the playhead is, or on the next row when
\* the key is released in the step it was played in, if that cell is empty.
LiftKey ==
  /\ PluginFree /\ cell.on /\ cell' = Unheld
  /\ LET to == IF rec = cell.pos THEN NextStep(cell.pos) ELSE rec
     IN IF playing /\ cell.track # 0 /\ to.page \in DOMAIN grid /\ grid[to.page][to.row][cell.track] = Hold
        THEN Write(to, cell.track, Off) ELSE UNCHANGED <<grid, bank>>
  /\ UNCHANGED <<selected, queued, cursor, mode, transport, at, rec, ringing, spread, chord, due, preroll, switch, call, taps>>

-----------------------------------------------------------------------------

TrackerNext ==
  \/ Tick \/ (\E thread \in {"plugin", "timer"} : AdvanceStep(thread))
  \/ ExternalTransport \/ (\E page \in BOOLEAN : PressPlay(page)) \/ PrerollEnds \/ PressStop
  \/ \E i \in PatternIdx :
       \/ TriggerKey(i) \/ ReleaseKey(i) \/ TapPlaying(i)
       \/ \E how \in {"tap", "shift"} : BeginSwitch(i, how)
       \/ \E clear \in BOOLEAN : Overwrite(i, clear)
  \/ LaunchSelects \/ LaunchShows \/ LaunchRewinds \/ LaunchStarts
  \/ EndSwitch \/ (\E m \in Mode : SetMode(m)) \/ TurnPage
  \/ PlayKey \/ PlayChord \/ LiftKey

\* The clock goes on, and a thread that has something to do gets to do it.
TrackerProgress ==
  \/ Tick \/ EndSwitch \/ LaunchSelects \/ LaunchShows \/ LaunchRewinds \/ LaunchStarts
  \/ \E thread \in {"plugin", "timer"} : AdvanceStep(thread)

TrackerSpec == TrackerInit /\ [][TrackerNext]_trackerVars /\ WF_trackerVars(TrackerProgress)

-----------------------------------------------------------------------------

Cells == {Hold, Off, End, Note}
IsGrid(g) == Len(g) > 0 /\ \A p \in DOMAIN g : g[p] \in [1..Rows -> [1..Tracks -> Cells]]

TrackerTypeOK ==
  /\ DOMAIN bank = PatternIdx /\ (\A i \in PatternIdx : IsGrid(bank[i])) /\ IsGrid(grid) /\ selected \in PatternIdx
  /\ queued \in PatternIdx \cup {0} /\ launch \in PatternIdx \cup {0} /\ mode \in Mode
  /\ {playing, looping, ending} \subseteq BOOLEAN /\ \A t \in 1..Tracks : ringing[t] \in {Quiet, Note}
  /\ {at.row, rec.row, cursor.row} \subseteq 1..Rows /\ due \subseteq {"plugin", "timer"}

\* "One-shot: runs once to its end, then stops": a one-shot ends while the clock runs,
\* whatever rows are End markers and whatever is recorded or queued meanwhile.  Not so
\* under a page that loops: nothing but the pre-roll of Shift+Play that falls between the
\* two regions of _launch_start brings that about, and then it plays for ever.
\* A queued pattern does not wait for ever: while the sequence plays, its switch
\* comes, also when the playing pattern consists of End markers.
PlainOneShot == OneShot /\ ~looping
QueueWaits == playing /\ ~looping /\ queued # 0
LaunchesServed == (PlainOneShot ~> ~OneShot) /\ (QueueWaits ~> ~QueueWaits)
=============================================================================
