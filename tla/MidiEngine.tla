------------------------------ MODULE MidiEngine ------------------------------
(***************************************************************************)
(* The routing engine of the hub: class MidiEngine (midi_engine.py), the   *)
(* port bookkeeping of FilterEngine (midi_filter.py), the handlers of      *)
(* /api/connections and /api/mappings (api/connections.py), the snapshot   *)
(* that Save and the autosaver take (api/_ctx.py), and the plugin host's   *)
(* two routing callbacks.                                                  *)
(*                                                                         *)
(* Every handler runs on the one asyncio loop and does its work before its *)
(* first await, so a handler is one action.  Around it the world moves on  *)
(* its own: devices come and go, the kernel drops what touched a device    *)
(* that left, announcements and notes wait in the input FIFO of the hub's  *)
(* sequencer client, a rescan waits out its debounce, and plugin clients   *)
(* are opened and closed by worker threads.                                *)
(*                                                                         *)
(* A device has one port, so an edge is a pair of ALSA client numbers; the *)
(* configuration names the same edge by the stable ids of its two ends.    *)
(***************************************************************************)
EXTENDS Naturals, FiniteSets, Sequences

CONSTANTS
  Device,         \* stable ids of hardware devices
  Plugin,         \* stable ids of plugin instances
  Source, Sink,   \* the stable ids that produce, and that consume, MIDI
  Removable,      \* the devices that may be unplugged again
  DeviceClient,   \* ALSA client numbers the kernel gives to hardware
  PluginClient,   \* ALSA client numbers it gives to plugin instances
  NoClient,       \* "no such client": registry.client_for_stable_id's None
  Filter,         \* MidiFilter values
  PassAll,        \* the filter with is_passthrough
  Mutes,          \* the filters that stop note messages
  Mapping,        \* MidiMapping values
  Note,           \* (channel, note) keys
  Rewrite,        \* Rewrite[m][n]: the note mapping m turns n into, or n
  Off,            \* "no entry"
  DefaultRouting, \* config default_routing: "all" or "none"
  StaleClients,   \* TRUE: a browser may act on a matrix that is out of date
  MaxPorts,       \* ports one sequencer client may hold (about 254)
  MaxFifo         \* bound on the note events that wait in the FIFO

Sid    == Device \cup Plugin
Client == DeviceClient \cup PluginClient
Edge   == Client \X Client
Setting == [filter : Filter, maps : SUBSET Mapping]
Plain   == [filter |-> PassAll, maps |-> {}]

\* An entry of the configuration names its ends by stable id, or by the bare
\* client number where the registry knew none.
End   == Sid \cup Client
SavedEdge == [ends : End \X End, setting : Setting]

ASSUME SidAssumption ==
  /\ Device \cap Plugin = {} /\ DeviceClient \cap PluginClient = {}
  /\ Sid \cap Client = {}    /\ NoClient \notin Client /\ NoClient \notin Sid
  /\ IsFiniteSet(Client)
  /\ Source \subseteq Sid /\ Sink \subseteq Sid /\ Removable \subseteq Device

ASSUME DataAssumption ==
  /\ PassAll \in Filter \ Mutes /\ Mutes \subseteq Filter
  /\ Off \notin Setting
  /\ Rewrite \in [Mapping -> [Note -> Note]]
  /\ DefaultRouting \in {"all", "none"} /\ StaleClients \in BOOLEAN
  /\ MaxPorts \in Nat /\ MaxFifo \in Nat

VARIABLES
  client,       \* kernel: stable id -> the client number it has now
  subs,         \* kernel: direct subscriptions, source -> destination
  inlet,        \* kernel: filtered edges whose source feeds their read port
  outlet,       \* kernel: filtered edges whose write port feeds the destination
  monitored,    \* kernel: sources subscribed to the hub's monitor port
  announce,     \* clients with announcements still in the hub's FIFO
  stage,        \* how far each plugin instance's life has come
  leaving,      \* the client number a plugin's DELETE handler remembers
  reg,          \* _devices and _device_registry as of the last scan
  seen,         \* _stable_ids_at_last_scan_and_connect
  rescan,       \* _debounce_task is pending
  connections,  \* _connections
  filtered,     \* FilterEngine._filtered
  leaked,       \* sequencer ports that no filter owns any more
  disconnected, \* _disconnected: edges taken down by the user
  saved,        \* config.connections
  disabled,     \* config.disconnected
  mode,         \* config.mode
  saving,       \* an offline toggle waits for its asave
  active,       \* _active_notes
  down,         \* keys that are held on the sources
  sounding,     \* notes that sound on the destinations
  fifo          \* note events waiting in the hub's FIFO

kernel  == <<client, subs, inlet, outlet, monitored, announce>>
plugins == <<stage, leaving>>
view    == <<reg, seen, rescan>>
routing == <<connections, filtered, leaked, disconnected>>
config  == <<saved, disabled, mode, saving>>
notes   == <<active, down, sounding, fifo>>
vars    == <<kernel, plugins, view, routing, config, notes>>

-----------------------------------------------------------------------------
(* Edges, settings and names.                                              *)

NeedsUserspace(s) == s.filter # PassAll \/ s.maps # {}

Touches(e, c) == e[1] = c \/ e[2] = c
Without(E, c) == {e \in E : ~Touches(e, c)}
Live          == {client[s] : s \in Sid} \ {NoClient}
Plugged(e)    == e[1] \in Live /\ e[2] \in Live
Registered(r) == {s \in Sid : r[s] # NoClient}
Clients(r)    == {r[s] : s \in Registered(r)}

\* get_by_client: the stable id of a client, or the bare number without one.
NameOf(r, c)   == IF c \in Clients(r) THEN CHOOSE s \in Sid : r[s] = c ELSE c
NameEdge(r, e) == <<NameOf(r, e[1]), NameOf(r, e[2])>>

\* client_for_stable_id; a bare number counts while some device has it.
Locate(r, x) == IF x \in Sid THEN r[x]
                ELSE IF x \in Clients(r) THEN x ELSE NoClient
LocateEdge(r, k) == <<Locate(r, k[1]), Locate(r, k[2])>>

Entry(k, s)   == [ends |-> k, setting |-> s]
HasSids(x)    == x.ends \in Sid \X Sid
Keys(X)       == {x.ends : x \in X}
SettingIn(X, k) == (CHOOSE x \in X : x.ends = k).setting
Drop(X, k)    == {x \in X : x.ends # k}

\* PluginHost._instances, and what scan_devices would find right now.
Hosted == {p \in Plugin : stage[p] \in {"hosted", "running"}}
Scan   == [s \in Sid |-> IF s \in Plugin \ Hosted THEN NoClient ELSE client[s]]

\* Pairs of a producer and another consumer among the stable ids S.
Pairs(S) == {p \in (Source \cap S) \X (Sink \cap S) : p[1] # p[2]}

\* The cells of the matrix the UI draws from the device list r.
Cells(r) == {LocateEdge(r, p) : p \in Pairs(Registered(r))}

-----------------------------------------------------------------------------
(* Filters and their ports: a filter owns a read port and a write port.    *)

SettingOf(e)  == IF filtered[e] = Off THEN Plain ELSE filtered[e]
FilteredEdges == {e \in Edge : filtered[e] # Off}
PortsInUse(F) == 2 * Cardinality(F) + leaked

\* add_filter succeeds when both ports can be created and both ends answer.
CanFilter(e) == Plugged(e) /\ PortsInUse(FilteredEdges \ {e}) + 2 <= MaxPorts

\* The ports a failing add_filter has created by then; nothing deletes them.
Stranded(used) == IF used + 2 <= MaxPorts THEN 2
                  ELSE IF used + 1 <= MaxPorts THEN 1 ELSE 0

\* Mutant: the write port is never subscribed to the destination.
AddFilter_NoOutlet(e, s) ==
  /\ filtered' = [filtered EXCEPT ![e] = s] /\ inlet' = inlet \cup {e}
  /\ UNCHANGED <<outlet, leaked>>

AddFilter(e, s) ==
  /\ filtered' = [filtered EXCEPT ![e] = s]
  /\ inlet' = inlet \cup {e} /\ outlet' = outlet \cup {e}
  /\ UNCHANGED leaked

\* What an add_filter that raises leaves behind; the old filter is gone.
FailFilter(e) ==
  /\ filtered' = [filtered EXCEPT ![e] = Off]
  /\ inlet' = inlet \ {e} /\ outlet' = outlet \ {e}
  /\ leaked' = leaked + Stranded(PortsInUse(FilteredEdges \ {e}))

\* Mutant: the entry stays in _filtered.
RemoveFilter_KeepsEntry(e) ==
  /\ inlet' = inlet \ {e} /\ outlet' = outlet \ {e}
  /\ UNCHANGED <<filtered, leaked>>

RemoveFilter(e) ==
  /\ filtered' = [filtered EXCEPT ![e] = Off]
  /\ inlet' = inlet \ {e} /\ outlet' = outlet \ {e}
  /\ UNCHANGED leaked

\* What a filtered edge makes of a note: _apply_mappings after allows_event.
Emitted(s, n) ==
  LET hits == {Rewrite[m][n] : m \in s.maps} \ {n}
  IN  IF s.filter \in Mutes THEN {} ELSE IF hits = {} THEN {n} ELSE hits

NoEdges == [e \in Edge |-> Off]
NoNotes == [e \in Edge |-> {}]

\* Mutants of ReleaseEdges: the entry is not popped; no NoteOff is sent.
ReleaseEdges_KeepsEntry(E) ==
  sounding' = sounding \ UNION {{e[2]} \X active[e] : e \in E} /\ UNCHANGED active
ReleaseEdges_Silent(E) ==
  /\ active' = [e \in Edge |-> IF e \in E THEN {} ELSE active[e]]
  /\ UNCHANGED sounding

\* release_edge_notes for the edges E.
Released(E) == UNION {{e[2]} \X active[e] : e \in E}
ReleaseEdges(E) ==
  /\ sounding' = sounding \ Released(E)
  /\ active' = [e \in Edge |-> IF e \in E THEN {} ELSE active[e]]

-----------------------------------------------------------------------------
(* The hub has booted with nothing attached and a configuration that was   *)
(* never saved.                                                            *)

Init ==
  /\ client = [s \in Sid |-> NoClient] /\ reg = client
  /\ subs = {} /\ inlet = {} /\ outlet = {} /\ monitored = {} /\ announce = {}
  /\ stage = [p \in Plugin |-> "new"] /\ leaving = [p \in Plugin |-> NoClient]
  /\ seen = {} /\ rescan = FALSE
  /\ connections = {} /\ filtered = NoEdges /\ leaked = 0
  /\ disconnected = NoEdges
  /\ saved = {} /\ disabled = {}
  /\ mode = "all-to-all" /\ saving = FALSE
  /\ active = NoNotes /\ down = {} /\ sounding = {} /\ fifo = <<>>

-----------------------------------------------------------------------------
(* Hardware comes and goes.                                                *)

Arrive(s, c) ==
  /\ client' = [client EXCEPT ![s] = c]
  /\ announce' = announce \cup {c}
  /\ UNCHANGED <<subs, inlet, outlet, monitored>>

\* The kernel destroys every subscription of a client that goes away.
Depart(s) ==
  LET c == client[s]
  IN  /\ client' = [client EXCEPT ![s] = NoClient]
      /\ announce' = announce \cup {c}
      /\ subs' = Without(subs, c)
      /\ inlet' = {e \in inlet : e[1] # c}
      /\ outlet' = {e \in outlet : e[2] # c}
      /\ monitored' = monitored \ {c}
      /\ down' = {k \in down : k[1] # c}
      /\ sounding' = {k \in sounding : k[1] # c}
      /\ UNCHANGED <<active, fifo>>

Plug(d) ==
  /\ client[d] = NoClient
  /\ \E c \in DeviceClient \ Live : Arrive(d, c)
  /\ UNCHANGED <<plugins, view, routing, config, notes>>

Unplug(d) ==
  /\ client[d] # NoClient
  /\ Depart(d)
  /\ UNCHANGED <<plugins, view, routing, config>>

\* Mutant: an announcement of a client that is already listed is ignored.
HandleAnnouncements_OnlyNew ==
  /\ announce # {}
  /\ announce' = {}
  /\ rescan' = (rescan \/ announce \ Clients(reg) # {})
  /\ UNCHANGED <<client, subs, inlet, outlet, monitored, plugins, reg, seen,
                 routing, config, notes>>

\* _drain_alsa_events on announcements: clients the plugin host manages are
\* ignored, any other one (re)starts the debounce.
HandleAnnouncements ==
  /\ announce # {}
  /\ announce' = {}
  /\ rescan' = (rescan \/ announce \ {client[p] : p \in Hosted} # {})
  /\ UNCHANGED <<client, subs, inlet, outlet, monitored, plugins, reg, seen,
                 routing, config, notes>>

-----------------------------------------------------------------------------
(* The rescan: _scan_and_connect, disconnect_all and apply_saved_config.   *)

LiveState == connections # {} \/ disconnected # NoEdges

\* _snapshot_live_state: the live edges in the form of config.connections.
SnapshotEntries == {Entry(NameEdge(reg, e), SettingOf(e)) : e \in connections}

\* Mutant: both ends have to be new.
MergedEntries_BothNew(now) ==
  {x \in saved :
     /\ HasSids(x)
     /\ {x.ends[1], x.ends[2]} \subseteq Registered(now) \ seen
     /\ x.ends \notin Keys(SnapshotEntries) \cup Keys(disabled)}

\* Saved entries of a device that was not there at the previous rescan.
MergedEntries(now) ==
  {x \in saved :
     /\ HasSids(x)
     /\ {x.ends[1], x.ends[2]} \cap (Registered(now) \ seen) # {}
     /\ x.ends \notin Keys(SnapshotEntries) \cup Keys(disabled)}

\* Mutant: a rescan goes back to the saved configuration.
Entries_SavedOnly(now) == saved

\* The list apply_saved_config walks.
Entries(now) == IF LiveState THEN SnapshotEntries \cup MergedEntries(now)
                ELSE saved

\* Mutant: entries with an absent end are applied as well.
EdgesOf_Pending(now, X) == {LocateEdge(now, k) : k \in Keys(X)}

\* The edges it lands on now; entries with an absent end stay pending.
EdgesOf(now, X) == {LocateEdge(now, k) : k \in Keys(X)} \cap Edge
SettingsAt(now, X, e) == {x.setting : x \in {y \in X : LocateEdge(now, y.ends) = e}}
RoutedEdges(now, X) ==
  {e \in EdgesOf(now, X) : \E s \in SettingsAt(now, X, e) : NeedsUserspace(s)}

\* A plain entry walked after a filtered one for the same edge adds the kernel
\* path next to the filter; the other order leaves the filter alone.
Doubled(now, X) ==
  {e \in RoutedEdges(now, X) : \E s \in SettingsAt(now, X, e) : ~NeedsUserspace(s)}

\* default_routing = "all": hardware pairs no entry and no disabled cell names.
DefaultEdges(now, X) ==
  IF DefaultRouting # "all" THEN {}
  ELSE {LocateEdge(now, p) :
          p \in Pairs(Device \cap Registered(now)) \ Keys(disabled \cup X)}

\* Filters for the edges in E, each with the setting of the entry walked last.
InstallFilters(now, X, E) ==
  \E pick \in [E -> {x.setting : x \in {y \in X : NeedsUserspace(y.setting)}}] :
    /\ \A e \in E : pick[e] \in SettingsAt(now, X, e)
    /\ filtered' = [e \in Edge |-> IF e \in E THEN pick[e] ELSE Off]

\* Mutant: a client the last scan knew is taken to be subscribed still.
Monitor_OnlyNew(r) ==
  monitored \cup ((Live \cap {r[s] : s \in Source}) \ Clients(reg))

\* _update_monitor_subscriptions over the device list r.
Monitor(r) == monitored \cup (Live \cap {r[s] : s \in Source})

\* Cells disabled in the configuration come back as disconnected edges.
RestoreDisabled(now) ==
  disconnected' = [e \in Edge |->
    LET here == {x \in disabled : LocateEdge(now, x.ends) = e}
    IN  IF here = {} THEN disconnected[e] ELSE (CHOOSE x \in here : TRUE).setting]

\* Mutant: the device list keeps what an earlier scan found.
StartRescan_Stale(now) ==
  /\ rescan /\ rescan' = FALSE
  /\ reg' = reg /\ seen' = Registered(now)

StartRescan(now) ==
  /\ rescan /\ rescan' = FALSE
  /\ reg' = now /\ seen' = Registered(now)

\* disconnect_all and a walk that gets through its list.
RescanRestore ==
  LET now == Scan
      X == Entries(now)
      live == EdgesOf(now, X)
      routed == RoutedEdges(now, X)
      more == DefaultEdges(now, X) \ live
  IN  /\ StartRescan(now)
      /\ LiveState \/ mode = "custom"
      /\ PortsInUse(routed) <= MaxPorts
      /\ connections' = live \cup more
      /\ InstallFilters(now, X, routed) /\ inlet' = routed /\ outlet' = routed
      /\ \E both \in SUBSET Doubled(now, X) :
           subs' = (subs \ connections) \cup (live \ routed) \cup both \cup more
      /\ RestoreDisabled(now)
      /\ ReleaseEdges(Edge)
      /\ monitored' = Monitor(now)
      /\ UNCHANGED <<client, announce, plugins, leaked, config, down, fifo>>

\* With nothing live and no custom routing, default_routing decides alone.
RescanDefault ==
  LET now == Scan
      all == IF DefaultRouting = "all" THEN Cells(now) ELSE {}
  IN  /\ StartRescan(now)
      /\ ~LiveState /\ mode # "custom"
      /\ connections' = all /\ subs' = (subs \ connections) \cup all
      /\ filtered' = NoEdges /\ inlet' = {} /\ outlet' = {}
      /\ ReleaseEdges(Edge)
      /\ monitored' = Monitor(now)
      /\ UNCHANGED <<client, announce, plugins, leaked, disconnected, config,
                     down, fifo>>

\* The walk stops at `bad`, whose add_filter raises, and the exception leaves
\* _scan_and_connect: only the edges `done` before it are back.  Snapshot
\* entries come before merged ones and are otherwise in no particular order.
WalkStopsAt(now, bad, done) ==
  LET X == Entries(now)
      first == EdgesOf(now, SnapshotEntries)
  IN  /\ NeedsUserspace(bad.setting)
      /\ LocateEdge(now, bad.ends) \in Edge \ done
      /\ LiveState => IF bad \in SnapshotEntries THEN done \subseteq first
                      ELSE first \subseteq done
      /\ StartRescan(now)
      /\ LiveState \/ mode = "custom"
      /\ connections' = done
      /\ active' = NoNotes
      /\ UNCHANGED <<plugins, disconnected, config, fifo>>

\* A device leaves between the scan and the add_filter of one of its edges.
RescanLosesDevice(d) ==
  LET now == Scan
      X == Entries(now)
      c == client[d]
  IN  /\ c # NoClient
      /\ \E done \in SUBSET EdgesOf(now, X), bad \in X :
           LET routed == RoutedEdges(now, X) \cap done
           IN  /\ WalkStopsAt(now, bad, done)
               /\ Touches(LocateEdge(now, bad.ends), c)
               /\ PortsInUse(routed) + 2 <= MaxPorts
               /\ InstallFilters(now, X, routed)
               /\ inlet' = {e \in routed : e[1] # c}
               /\ outlet' = {e \in routed : e[2] # c}
               /\ subs' = Without((subs \ connections) \cup (done \ routed), c)
      /\ leaked' = leaked + 2
      /\ client' = [client EXCEPT ![d] = NoClient]
      /\ announce' = announce \cup {c}
      /\ monitored' = monitored \ {c}
      /\ down' = {k \in down : k[1] # c}
      /\ sounding' = {k \in sounding \ Released(Edge) : k[1] # c}

\* The ports run out before every filter is back.
RescanOutOfPorts ==
  LET now == Scan
      X == Entries(now)
  IN  /\ \E done \in SUBSET EdgesOf(now, X), bad \in X :
           LET routed == RoutedEdges(now, X) \cap done
           IN  /\ WalkStopsAt(now, bad, done)
               /\ PortsInUse(routed) <= MaxPorts
               /\ PortsInUse(routed) + 2 > MaxPorts
               /\ InstallFilters(now, X, routed) /\ inlet' = routed /\ outlet' = routed
               /\ subs' = (subs \ connections) \cup (done \ routed)
               /\ leaked' = leaked + Stranded(PortsInUse(routed))
      /\ sounding' = sounding \ Released(Edge)
      /\ UNCHANGED <<client, monitored, announce, down>>

-----------------------------------------------------------------------------
(* The handlers of /api/connections and /api/mappings.  A browser acts on  *)
(* the cells it last drew; with StaleClients its picture may be old.       *)

Edit == mode' = "custom"

\* POST of a plain cell: settings of an earlier DELETE come back with it.
Create(e) ==
  LET s == IF disconnected[e] = Off THEN Plain ELSE disconnected[e]
  IN  /\ StaleClients \/ e \notin connections
      /\ disconnected' = [disconnected EXCEPT ![e] = Off]
      /\ \/ /\ ~NeedsUserspace(s) /\ Plugged(e)
            /\ subs' = subs \cup {e}
            /\ connections' = connections \cup {e}
            /\ Edit /\ UNCHANGED <<filtered, inlet, outlet, leaked>>
         \/ /\ NeedsUserspace(s) /\ CanFilter(e)
            /\ AddFilter(e, s)
            /\ connections' = connections \cup {e}
            /\ Edit /\ UNCHANGED subs
         \/ /\ NeedsUserspace(s) /\ ~CanFilter(e)
            /\ FailFilter(e)
            /\ UNCHANGED <<connections, subs, mode>>
         \/ /\ ~NeedsUserspace(s) /\ ~Plugged(e)
            /\ UNCHANGED <<connections, subs, mode, filtered, inlet, outlet, leaked>>
      /\ UNCHANGED <<client, monitored, announce, plugins, view, saved, disabled,
                     saving, notes>>

Delete(e) ==
  /\ StaleClients \/ e \in connections
  /\ disconnected' = [disconnected EXCEPT ![e] = SettingOf(e)]
  /\ RemoveFilter(e)
  /\ ReleaseEdges({e})
  /\ subs' = subs \ {e}
  /\ connections' = connections \ {e}
  /\ Edit
  /\ UNCHANGED <<client, monitored, announce, plugins, view, saved, disabled,
                 saving, down, fifo>>

\* disconnect_all, as DELETE without an id and connect-all call it.
Dismantle ==
  /\ ReleaseEdges(Edge)
  /\ filtered' = NoEdges /\ inlet' = {} /\ outlet' = {}

DeleteAll ==
  /\ Dismantle
  /\ subs' = subs \ connections /\ connections' = {}
  /\ Edit
  /\ UNCHANGED <<client, monitored, announce, plugins, view, leaked, disconnected,
                 saved, disabled, saving, down, fifo>>

ConnectAll ==
  /\ Dismantle
  /\ reg' = Scan
  /\ connections' = Cells(Scan)
  /\ subs' = (subs \ connections) \cup Cells(Scan)
  /\ disconnected' = NoEdges
  /\ mode' = "all-to-all"
  /\ UNCHANGED <<client, monitored, announce, plugins, seen, rescan, leaked, saved,
                 disabled, saving, down, fifo>>

\* PATCH of a filter: an edge moves between the kernel and the filter engine.
Patch(e, f) ==
  LET s == [SettingOf(e) EXCEPT !.filter = f]
      had == filtered[e] # Off
  IN  /\ e \in connections
      /\ \/ /\ had /\ NeedsUserspace(s)
            /\ filtered' = [filtered EXCEPT ![e] = s]
            /\ Edit /\ UNCHANGED <<subs, inlet, outlet, leaked>>
         \/ /\ had /\ ~NeedsUserspace(s)
            /\ RemoveFilter(e)
            /\ IF Plugged(e) THEN Edit /\ subs' = subs \cup {e}
                             ELSE UNCHANGED <<subs, mode>>
         \/ /\ ~had /\ f # PassAll /\ CanFilter(e)
            /\ AddFilter(e, s)
            /\ subs' = subs \ {e}
            /\ Edit
         \/ /\ ~had /\ f # PassAll /\ ~CanFilter(e)
            /\ FailFilter(e)
            /\ subs' = IF Plugged(e) THEN subs \cup {e} ELSE subs \ {e}
            /\ UNCHANGED mode
         \/ /\ ~had /\ f = PassAll
            /\ Edit /\ UNCHANGED <<subs, filtered, inlet, outlet, leaked>>
      /\ UNCHANGED <<client, monitored, announce, plugins, view, connections,
                     disconnected, saved, disabled, saving, notes>>

\* POST of a mapping; nothing restores the edge when add_filter raises.
AddMapping(e, m) ==
  LET s == SettingOf(e)
  IN  /\ e \in connections /\ m \notin s.maps
      /\ \/ /\ filtered[e] # Off
            /\ filtered' = [filtered EXCEPT ![e] = [s EXCEPT !.maps = @ \cup {m}]]
            /\ Edit /\ UNCHANGED <<subs, inlet, outlet, leaked>>
         \/ /\ filtered[e] = Off /\ CanFilter(e)
            /\ AddFilter(e, [Plain EXCEPT !.maps = {m}])
            /\ subs' = subs \ {e}
            /\ Edit
         \/ /\ filtered[e] = Off /\ ~CanFilter(e)
            /\ FailFilter(e)
            /\ subs' = subs \ {e}
            /\ UNCHANGED mode
      /\ UNCHANGED <<client, monitored, announce, plugins, view, connections,
                     disconnected, saved, disabled, saving, notes>>

RemoveMapping(e, m) ==
  LET s == [SettingOf(e) EXCEPT !.maps = @ \ {m}]
  IN  /\ m \in SettingOf(e).maps
      /\ \/ /\ NeedsUserspace(s)
            /\ filtered' = [filtered EXCEPT ![e] = s]
            /\ UNCHANGED <<subs, inlet, outlet, leaked>>
         \/ /\ ~NeedsUserspace(s)
            /\ RemoveFilter(e)
            /\ subs' = IF Plugged(e) THEN subs \cup {e} ELSE subs
      /\ Edit
      /\ UNCHANGED <<client, monitored, announce, plugins, view, connections,
                     disconnected, saved, disabled, saving, notes>>

\* Cells of a device that is away are edited in the configuration itself; the
\* handler sets the mode only when its asave has returned.
Offline(k) == reg[k[1]] = NoClient \/ reg[k[2]] = NoClient

OfflineCreate(k) ==
  /\ Offline(k)
  /\ StaleClients \/ k \notin Keys(saved)
  /\ \/ /\ k \notin Keys(saved)
        /\ saved' = saved \cup {Entry(k, Plain)} /\ saving' = TRUE
        /\ UNCHANGED mode
     \/ /\ k \in Keys(saved)
        /\ Edit /\ UNCHANGED <<saved, saving>>
  /\ UNCHANGED <<kernel, plugins, view, routing, disabled, notes>>

OfflineDelete(k) ==
  LET s == IF k \in Keys(saved) THEN SettingIn(saved, k) ELSE Plain
  IN  /\ Offline(k)
      /\ StaleClients \/ k \in Keys(saved)
      /\ saved' = Drop(saved, k)
      /\ disabled' = IF k \in Keys(disabled) THEN disabled
                     ELSE disabled \cup {Entry(k, s)}
      /\ saving' = TRUE
      /\ UNCHANGED <<kernel, plugins, view, routing, mode, notes>>

OfflineSaved ==
  /\ saving /\ saving' = FALSE
  /\ Edit
  /\ UNCHANGED <<kernel, plugins, view, routing, saved, disabled, notes>>

\* ApiContext.snapshot, for Save, the autosaver and the shutdown flush.
Snapshot ==
  /\ saved' = SnapshotEntries
  /\ disabled' = {x \in {Entry(NameEdge(reg, e), disconnected[e]) :
                           e \in {d \in Edge : disconnected[d] # Off}} : HasSids(x)}
  /\ UNCHANGED <<kernel, plugins, view, routing, mode, saving, notes>>

-----------------------------------------------------------------------------
(* Plugin instances: POST and DELETE of /api/plugins/instances.  The host  *)
(* works on an executor thread; the engine callback runs back on the loop. *)

\* _start_instance opens the ALSA client.
PluginOpen(p) ==
  /\ stage[p] = "new" /\ stage' = [stage EXCEPT ![p] = "opened"]
  /\ \E c \in PluginClient \ (Live \cup {leaving[q] : q \in Plugin}) : Arrive(p, c)
  /\ UNCHANGED <<leaving, view, routing, config, notes>>

\* create_instance enters it in _instances.
PluginHosted(p) ==
  /\ stage[p] = "opened" /\ stage' = [stage EXCEPT ![p] = "hosted"]
  /\ UNCHANGED <<kernel, leaving, view, routing, config, notes>>

\* handle_plugin_added: _cancel_pending_rescan, then this client only.
PluginAdded(p) ==
  /\ stage[p] = "hosted" /\ stage' = [stage EXCEPT ![p] = "running"]
  /\ rescan' = FALSE
  /\ reg' = [reg EXCEPT ![p] = client[p]]
  /\ monitored' = Monitor(reg')
  /\ UNCHANGED <<client, subs, inlet, outlet, announce, leaving, seen, routing,
                 config, notes>>

\* stop_instance takes it out of _instances, joins its thread, closes its client.
PluginStop(p) ==
  /\ stage[p] = "running" /\ stage' = [stage EXCEPT ![p] = "stopping"]
  /\ leaving' = [leaving EXCEPT ![p] = client[p]]
  /\ UNCHANGED <<kernel, view, routing, config, notes>>

PluginClose(p) ==
  /\ stage[p] = "stopping" /\ stage' = [stage EXCEPT ![p] = "closed"]
  /\ Depart(p)
  /\ UNCHANGED <<leaving, view, routing, config>>

\* handle_plugin_removed prunes by client number; the ports of the filters it
\* drops stay behind.
PluginRemoved(p) ==
  LET c == leaving[p]
      gone == {e \in Edge : Touches(e, c)}
  IN  /\ stage[p] = "closed" /\ stage' = [stage EXCEPT ![p] = "gone"]
      /\ leaving' = [leaving EXCEPT ![p] = NoClient]
      /\ rescan' = FALSE
      /\ reg' = [s \in Sid |-> IF reg[s] = c THEN NoClient ELSE reg[s]]
      /\ sounding' = sounding \ Released({e \in gone : e[2] # c})
      /\ active' = [e \in Edge |-> IF e \in gone THEN {} ELSE active[e]]
      /\ connections' = connections \ gone
      /\ filtered' = [e \in Edge |-> IF e \in gone THEN Off ELSE filtered[e]]
      /\ inlet' = inlet \ gone /\ outlet' = outlet \ gone
      /\ leaked' = leaked + 2 * Cardinality(FilteredEdges \cap gone)
      /\ UNCHANGED <<client, subs, monitored, announce, seen, disconnected, config,
                     down, fifo>>

\* handle_plugin_added without a client: an instance that could not open one.
PluginRefresh ==
  /\ Plugin # {}
  /\ rescan' = FALSE
  /\ reg' = Scan
  /\ monitored' = Monitor(Scan)
  /\ UNCHANGED <<client, subs, inlet, outlet, announce, plugins, seen, routing,
                 config, notes>>

-----------------------------------------------------------------------------
(* Notes.  The kernel forwards along direct subscriptions at once; the     *)
(* monitor copy and the filters' copies wait in the hub's FIFO.            *)

Reached(c) == {e[2] : e \in {x \in subs : x[1] = c}}

Queue(c, n, on) ==
  /\ Len(fifo) < MaxFifo
  /\ fifo' = Append(fifo, [client |-> c, note |-> n, on |-> on,
                           heard |-> c \in monitored,
                           reads |-> {e \in inlet : e[1] = c}])

KeyDown(s, n) ==
  LET c == client[s]
  IN  /\ c # NoClient /\ <<c, n>> \notin down
      /\ down' = down \cup {<<c, n>>}
      /\ sounding' = sounding \cup (Reached(c) \X {n})
      /\ Queue(c, n, TRUE)
      /\ UNCHANGED <<kernel, plugins, view, routing, config, active>>

KeyUp(s, n) ==
  LET c == client[s]
  IN  /\ c # NoClient /\ <<c, n>> \in down
      /\ down' = down \ {<<c, n>>}
      /\ sounding' = sounding \ (Reached(c) \X {n})
      /\ Queue(c, n, FALSE)
      /\ UNCHANGED <<kernel, plugins, view, routing, config, active>>

\* _track_note_event on the monitor copy, process_event on the filters' copies.
Drain ==
  LET ev == Head(fifo)
      held(e) == IF ev.on THEN active[e] \cup {ev.note} ELSE active[e] \ {ev.note}
      sent == UNION {{e[2]} \X Emitted(filtered[e], ev.note) :
                       e \in ev.reads \cap FilteredEdges \cap outlet}
  IN  /\ fifo # <<>> /\ fifo' = Tail(fifo)
      /\ active' = [e \in Edge |->
           IF ev.heard /\ e \in connections /\ e[1] = ev.client THEN held(e)
           ELSE active[e]]
      /\ sounding' = IF ev.on THEN sounding \cup sent ELSE sounding \ sent
      /\ UNCHANGED <<kernel, plugins, view, routing, config, down>>

\* panic: NoteOff for what is tracked, All Notes Off on every destination.
Panic ==
  /\ sounding' = (sounding \ Released(Edge)) \ ({e[2] : e \in connections} \X Note)
  /\ active' = NoNotes
  /\ UNCHANGED <<kernel, plugins, view, routing, config, down, fifo>>

-----------------------------------------------------------------------------

Hotplug ==
  \/ \E d \in Device : Plug(d)
  \/ \E d \in Removable : Unplug(d) \/ RescanLosesDevice(d)

Rescan == RescanRestore \/ RescanDefault \/ RescanOutOfPorts

EditRouting ==
  \/ \E e \in Cells(reg) :
       \/ Create(e) \/ Delete(e)
       \/ \E f \in Filter : Patch(e, f)
       \/ \E m \in Mapping : AddMapping(e, m) \/ RemoveMapping(e, m)
  \/ DeleteAll \/ ConnectAll
  \/ \E k \in Pairs(Sid) : OfflineCreate(k) \/ OfflineDelete(k)
  \/ OfflineSaved \/ Snapshot

PluginLife ==
  \/ \E p \in Plugin : \/ PluginOpen(p) \/ PluginHosted(p) \/ PluginAdded(p)
                      \/ PluginStop(p) \/ PluginClose(p) \/ PluginRemoved(p)
  \/ PluginRefresh

Play ==
  \/ \E s \in Source, n \in Note : KeyDown(s, n) \/ KeyUp(s, n)
  \/ Drain \/ Panic

Next == Hotplug \/ HandleAnnouncements \/ Rescan \/ EditRouting \/ PluginLife \/ Play

Spec == Init /\ [][Next]_vars

\* The loop gets around to what is queued and to a debounce that has run out.
Fairness == WF_vars(HandleAnnouncements) /\ WF_vars(Rescan) /\ WF_vars(Drain)

FairSpec == Spec /\ Fairness

-----------------------------------------------------------------------------
(* Properties.                                                             *)

\* Every variable holds a value of the shape the code gives it.
TypeOK ==
  /\ client \in [Sid -> Client \cup {NoClient}] /\ reg \in [Sid -> Client \cup {NoClient}]
  /\ subs \subseteq Edge /\ inlet \subseteq Edge /\ outlet \subseteq Edge
  /\ monitored \subseteq Client /\ announce \subseteq Client
  /\ stage \in [Plugin -> {"new", "opened", "hosted", "running", "stopping", "closed",
                         "gone"}]
  /\ leaving \in [Plugin -> PluginClient \cup {NoClient}]
  /\ seen \subseteq Sid /\ rescan \in BOOLEAN
  /\ connections \subseteq Edge
  /\ filtered \in [Edge -> Setting \cup {Off}] /\ leaked \in Nat
  /\ disconnected \in [Edge -> Setting \cup {Off}]
  /\ saved \subseteq SavedEdge /\ disabled \subseteq SavedEdge
  /\ mode \in {"all-to-all", "custom"} /\ saving \in BOOLEAN
  /\ active \in [Edge -> SUBSET Note]
  /\ down \subseteq Client \X Note /\ sounding \subseteq Client \X Note
  /\ fifo \in Seq([client : Client, note : Note, on : BOOLEAN, heard : BOOLEAN,
                  reads : SUBSET Edge])

\* No MIDI flows where the matrix shows nothing: every kernel subscription and
\* every filter belongs to an edge in _connections.
NoHiddenPath == subs \cup FilteredEdges \subseteq connections

\* Notes are tracked on edges that exist, so a later teardown can release them:
\* whatever takes an edge out of _connections has settled its notes before.
HeldNotesOnLiveEdges == \A e \in Edge : active[e] # {} => e \in connections

\* An edge is carried by the kernel or by the filter engine, never by both:
\* otherwise the destination gets every message twice.
OnePath == subs \cap FilteredEdges = {}

\* Between bursts of hotplug the matrix is the truth: an edge that is drawn
\* connected has a working path if both of its ends are there.
Settled == announce = {} /\ ~rescan
NoDeadEdge ==
  Settled => \A e \in connections :
    Plugged(e) => e \in subs \/ (e \in FilteredEdges /\ e \in inlet \cap outlet)

\* Between bursts of hotplug every listed source is heard by the monitor port:
\* without its copy neither held notes nor the clock of that source are seen.
MonitorHearsAll ==
  Settled => {client[s] : s \in {t \in Source : client[t] = reg[t]}}
               \subseteq monitored \cup {NoClient}

\* An edge leaves _connections only with its tracked notes silenced.
TeardownSilences ==
  [][\A e \in connections \ connections' :
       (e[2] \in Live' => \A n \in active[e] : <<e[2], n>> \notin sounding')]_vars

\* A rescan gives back every edge between devices that are still there, under
\* their new client numbers and with the same filter and mappings - as long as
\* the registry can name both ends of every live edge when it begins.
RescanKeepsRouting ==
  [][RescanRestore /\ (\A x \in SnapshotEntries : HasSids(x)) =>
       \A x \in SnapshotEntries :
         LET there == LocateEdge(reg', x.ends)
         IN  there \in Edge =>
               /\ there \in connections'
               /\ filtered'[there] = IF NeedsUserspace(x.setting) THEN x.setting ELSE Off]_vars

\* A device that comes back gets the edges the configuration saved for it,
\* unless their cells are disabled there.
SavedRoutesReturn ==
  [][RescanRestore =>
       \A k \in Keys(saved) \ Keys(disabled) :
         LET there == LocateEdge(reg', k)
         IN  /\ k \in Sid \X Sid
             /\ {k[1], k[2]} \cap (seen' \ seen) # {} /\ there \in Edge
             => there \in connections']_vars

\* A device that stays plugged in gets into the device list.
HotplugSeen ==
  \A d \in Device : client[d] # reg[d] ~> client[d] \in {NoClient, reg[d]}

\* A saved cell of a device that is away goes off only by a tap on that cell.
AbsentCellsKept ==
  [][\A k \in Keys(saved) :
       Offline(k) /\ k \notin Keys(saved') => k \in Keys(disabled')]_vars

\* With nothing left in the FIFO, a note sounds only while a source that is
\* connected to its destination holds the key.
NoStuckNotes ==
  fifo = <<>> /\ Settled =>
    \A k \in sounding : \E e \in connections : e[2] = k[1] /\ <<e[1], k[2]>> \in down

=============================================================================
