--------------------------- MODULE MidiEngineProofs ---------------------------
(* What holds of the routing engine whatever the devices, the plugins, the *)
(* filters, the mappings, the notes and the bounds are.                    *)
EXTENDS MidiEngine, FiniteSetTheorems, TLAPS

-----------------------------------------------------------------------------
(* The inductive invariant.  handle_plugin_removed prunes by client number *)
(* and trusts that nothing else carries the number; that rests on how the  *)
(* kernel gives numbers out, which the first two parts say.                *)

\* No two clients share a number, and plugins' numbers are of their own range.
ClientsApart ==
  /\ \A s, t \in Sid : client[s] = client[t] /\ client[s] # NoClient => s = t
  /\ \A d \in Device : client[d] \in DeviceClient \cup {NoClient}
  /\ \A p \in Plugin : client[p] \in PluginClient \cup {NoClient}

\* An instance has a client from its start to its stop.  The number that a
\* DELETE handler remembers is its plugin's, and nobody's after the close.
LeavingTruth ==
  \A p \in Plugin :
    /\ stage[p] = "new" => client[p] = NoClient
    /\ stage[p] \in {"opened", "hosted", "running", "stopping"} => client[p] # NoClient
    /\ stage[p] = "stopping" => leaving[p] = client[p]
    /\ stage[p] = "closed" => leaving[p] \notin Live

\* The kernel holds no subscription of a client that is gone.
SubsPlugged == \A e \in subs : Plugged(e)

IInv == /\ TypeOK /\ ClientsApart /\ LeavingTruth /\ SubsPlugged
        /\ NoHiddenPath /\ HeldNotesOnLiveEdges

-----------------------------------------------------------------------------
(* Settings, names and edges.                                              *)

\* The setting of any edge is a setting, an unfiltered edge having the plain one.
LEMMA SettingType ==
  ASSUME TypeOK
  PROVE  /\ Plain \in Setting
         /\ \A e \in Edge : SettingOf(e) \in Setting
<1>1. Plain \in Setting
  BY DataAssumption DEF Plain, Setting
<1>2. ASSUME NEW e \in Edge PROVE SettingOf(e) \in Setting
  BY <1>1, <1>2 DEF TypeOK, SettingOf
<1>. QED BY <1>1, <1>2

\* The name of a client is a stable id or the client's own number.
LEMMA NameType ==
  ASSUME NEW r \in [Sid -> Client \cup {NoClient}], NEW e \in Edge
  PROVE  NameEdge(r, e) \in End \X End
<1>1. ASSUME NEW c \in Client PROVE NameOf(r, c) \in End
  <2>1. CASE c \in Clients(r)
    <3>1. \E s \in Sid : r[s] = c
      BY <2>1 DEF Clients, Registered
    <3>2. (CHOOSE s \in Sid : r[s] = c) \in Sid
      BY <3>1
    <3>. QED BY <2>1, <3>2 DEF NameOf, End
  <2>2. CASE c \notin Clients(r)
    BY <1>1, <2>2 DEF NameOf, End
  <2>. QED BY <2>1, <2>2
<1>. QED BY <1>1 DEF NameEdge, Edge

\* What a scan finds is a device list, and it lists only what is attached.
LEMMA ScanType ==
  ASSUME TypeOK
  PROVE  /\ Scan \in [Sid -> Client \cup {NoClient}]
         /\ \A s \in Sid : Scan[s] \in {client[s], NoClient}
  BY DEF TypeOK, Scan

\* An entry that lands on an edge lands on one whose two ends are listed.
LEMMA LocatedListed ==
  ASSUME NEW r \in [Sid -> Client \cup {NoClient}], NEW k, LocateEdge(r, k) \in Edge
  PROVE  LocateEdge(r, k)[1] \in Clients(r) /\ LocateEdge(r, k)[2] \in Clients(r)
<1>1. ASSUME NEW x, Locate(r, x) \in Client PROVE Locate(r, x) \in Clients(r)
  BY <1>1, SidAssumption DEF Locate, Clients, Registered
<1>. QED BY <1>1 DEF LocateEdge, Edge

\* The cells of a matrix are edges between devices it lists.
LEMMA CellsListed ==
  ASSUME NEW r \in [Sid -> Client \cup {NoClient}], NEW p \in Pairs(Registered(r))
  PROVE  LocateEdge(r, p) \in Edge
<1>1. p[1] \in Sid /\ p[2] \in Sid /\ r[p[1]] # NoClient /\ r[p[2]] # NoClient
  BY SidAssumption DEF Pairs, Registered
<1>. QED BY <1>1 DEF LocateEdge, Locate, Edge

\* The cells of a rescan are edges.
LEMMA CellsType ==
  ASSUME NEW r \in [Sid -> Client \cup {NoClient}]
  PROVE  Cells(r) \subseteq Edge
  BY CellsListed DEF Cells

\* What the default routing adds are such cells.
LEMMA DefaultType ==
  ASSUME NEW r \in [Sid -> Client \cup {NoClient}], NEW X
  PROVE  DefaultEdges(r, X) \subseteq Edge
<1>1. Pairs(Device \cap Registered(r)) \subseteq Pairs(Registered(r))
  BY DEF Pairs
<1>. QED BY <1>1, CellsListed DEF DefaultEdges

\* A rescan walks entries of the configuration's form.
LEMMA EntriesType ==
  ASSUME TypeOK, NEW r
  PROVE  SnapshotEntries \subseteq SavedEdge /\ Entries(r) \subseteq SavedEdge
<1>1. ASSUME NEW e \in connections
      PROVE  Entry(NameEdge(reg, e), SettingOf(e)) \in SavedEdge
  <2>1. e \in Edge /\ reg \in [Sid -> Client \cup {NoClient}]
    BY <1>1 DEF TypeOK
  <2>2. NameEdge(reg, e) \in End \X End
    BY <2>1, NameType
  <2>3. SettingOf(e) \in Setting
    BY <2>1, SettingType
  <2>. QED BY <2>2, <2>3 DEF Entry, SavedEdge
<1>2. SnapshotEntries \subseteq SavedEdge
  BY <1>1 DEF SnapshotEntries
<1>3. MergedEntries(r) \subseteq SavedEdge /\ saved \subseteq SavedEdge
  BY DEF TypeOK, MergedEntries
<1>. QED BY <1>2, <1>3 DEF Entries

\* The filters a walk installs are settings of its entries, on the edges it routes.
LEMMA InstallType ==
  ASSUME TypeOK, NEW r, NEW E, E \subseteq Edge, InstallFilters(r, Entries(r), E)
  PROVE  /\ filtered' \in [Edge -> Setting \cup {Off}]
         /\ \A e \in Edge : filtered'[e] # Off => e \in E
<1>1. {x.setting : x \in {y \in Entries(r) : NeedsUserspace(y.setting)}} \subseteq Setting
  BY EntriesType DEF SavedEdge
<1>. QED BY <1>1 DEF InstallFilters

\* The edges with a filter are finitely many, so their ports can be counted.
LEMMA EdgesFinite ==
  ASSUME NEW S, S \subseteq Edge
  PROVE  IsFiniteSet(S) /\ Cardinality(S) \in Nat
<1>1. IsFiniteSet(Edge)
  BY SidAssumption, FS_Product DEF Edge
<1>. QED BY <1>1, FS_Subset, FS_CardinalityType

-----------------------------------------------------------------------------
(* Types: one lemma per group of actions.                                  *)

\* Hardware and its announcements.
LEMMA HotplugType ==
  ASSUME TypeOK
  PROVE  /\ \A d \in Device : Plug(d) \/ Unplug(d) => TypeOK'
         /\ HandleAnnouncements => TypeOK'
<1>. USE SidAssumption DEF TypeOK, kernel, plugins, view, routing, config, notes
<1>1. ASSUME NEW d \in Device, Plug(d) PROVE TypeOK'
  BY <1>1 DEF Plug, Arrive, Client, Sid
<1>2. ASSUME NEW d \in Device, Unplug(d) PROVE TypeOK'
  BY <1>2 DEF Unplug, Depart, Without, Sid
<1>3. ASSUME HandleAnnouncements PROVE TypeOK'
  BY <1>3 DEF HandleAnnouncements
<1>. QED BY <1>1, <1>2, <1>3

\* Ports of a single filter: add_filter and remove_filter.
LEMMA FilterType ==
  ASSUME TypeOK, NEW e \in Edge, NEW s \in Setting,
         \/ AddFilter(e, s) \/ FailFilter(e) \/ RemoveFilter(e)
  PROVE  /\ filtered' \in [Edge -> Setting \cup {Off}]
         /\ inlet' \subseteq Edge /\ outlet' \subseteq Edge /\ leaked' \in Nat
  BY DEF TypeOK, AddFilter, FailFilter, RemoveFilter, Stranded

\* Notes released, monitor subscriptions renewed.
LEMMA ReleaseType ==
  ASSUME TypeOK, NEW E, ReleaseEdges(E)
  PROVE  active' \in [Edge -> SUBSET Note] /\ sounding' \subseteq Client \X Note
  BY DEF TypeOK, ReleaseEdges

\* What the engine subscribes to are clients.
LEMMA MonitorType ==
  ASSUME TypeOK, NEW r
  PROVE  Monitor(r) \subseteq Client
  BY DEF TypeOK, Monitor, Live

\* What every rescan whose walk ends early leaves in the hub's own variables.
LEMMA WalkType ==
  ASSUME TypeOK, NEW bad, NEW done \in SUBSET EdgesOf(Scan, Entries(Scan)),
         WalkStopsAt(Scan, bad, done)
  PROVE  /\ reg' \in [Sid -> Client \cup {NoClient}] /\ seen' \subseteq Sid
         /\ rescan' \in BOOLEAN /\ connections' \subseteq Edge
         /\ active' \in [Edge -> SUBSET Note]
         /\ UNCHANGED <<plugins, disconnected, config, fifo>>
<1>1. Scan \in [Sid -> Client \cup {NoClient}] /\ Registered(Scan) \subseteq Sid
  BY ScanType DEF Registered
<1>2. done \subseteq Edge
  BY DEF EdgesOf
<1>. QED BY <1>1, <1>2 DEF WalkStopsAt, StartRescan, NoNotes

\* The rescans.
LEMMA RescanType ==
  ASSUME TypeOK
  PROVE  /\ Rescan => TypeOK'
         /\ \A d \in Device : RescanLosesDevice(d) => TypeOK'
<1>. DEFINE now == Scan
            X == Entries(Scan)
<1>. HIDE DEF now, X
<1>1. now \in [Sid -> Client \cup {NoClient}] /\ Registered(now) \subseteq Sid
  BY ScanType DEF now, Registered
<1>2. EdgesOf(now, X) \subseteq Edge /\ RoutedEdges(now, X) \subseteq EdgesOf(now, X)
  BY DEF EdgesOf, RoutedEdges
<1>3. ASSUME RescanRestore PROVE TypeOK'
  <2>1. /\ reg' = now /\ seen' = Registered(now) /\ rescan' = FALSE
        /\ connections' = EdgesOf(now, X) \cup (DefaultEdges(now, X) \ EdgesOf(now, X))
        /\ InstallFilters(now, X, RoutedEdges(now, X))
        /\ inlet' = RoutedEdges(now, X) /\ outlet' = RoutedEdges(now, X)
        /\ subs' \subseteq subs \cup EdgesOf(now, X) \cup DefaultEdges(now, X)
        /\ RestoreDisabled(now) /\ ReleaseEdges(Edge) /\ monitored' = Monitor(now)
        /\ UNCHANGED <<client, announce, plugins, leaked, config, down, fifo>>
    BY <1>2, <1>3 DEF RescanRestore, StartRescan, now, X, Doubled
  <2>2. DefaultEdges(now, X) \subseteq Edge
    BY <1>1, DefaultType
  <2>3. filtered' \in [Edge -> Setting \cup {Off}]
    BY <1>2, <2>1, InstallType DEF now, X
  <2>4. disconnected' \in [Edge -> Setting \cup {Off}]
    <3>1. ASSUME NEW e \in Edge, NEW x \in disabled PROVE x.setting \in Setting
      BY <3>1 DEF TypeOK, SavedEdge
    <3>2. ASSUME NEW e \in Edge PROVE disconnected'[e] \in Setting \cup {Off}
      <4>. DEFINE here == {x \in disabled : LocateEdge(now, x.ends) = e}
      <4>1. disconnected'[e] = IF here = {} THEN disconnected[e]
                               ELSE (CHOOSE x \in here : TRUE).setting
        BY <2>1, <3>2 DEF RestoreDisabled
      <4>2. here # {} => (CHOOSE x \in here : TRUE) \in disabled
        OBVIOUS
      <4>. QED BY <3>1, <3>2, <4>1, <4>2 DEF TypeOK
    <3>. QED BY <2>1, <3>2 DEF RestoreDisabled
  <2>5. active' \in [Edge -> SUBSET Note] /\ sounding' \subseteq Client \X Note
    BY <2>1, ReleaseType
  <2>6. monitored' \subseteq Client
    BY <2>1, MonitorType
  <2>. QED BY <1>1, <1>2, <2>1, <2>2, <2>3, <2>4, <2>5, <2>6
           DEF TypeOK, plugins, config
<1>4. ASSUME RescanDefault PROVE TypeOK'
  <2>1. Cells(now) \subseteq Edge
    BY <1>1, CellsType
  <2>2. active' \in [Edge -> SUBSET Note] /\ sounding' \subseteq Client \X Note
    BY <1>4, ReleaseType DEF RescanDefault
  <2>3. Monitor(now) \subseteq Client
    BY MonitorType
  <2>. QED BY <1>1, <1>4, <2>1, <2>2, <2>3
           DEF RescanDefault, StartRescan, TypeOK, now, plugins, config, NoEdges
<1>5. ASSUME NEW d \in Device, RescanLosesDevice(d) PROVE TypeOK'
  <2>1. PICK done \in SUBSET EdgesOf(now, X), bad \in X :
          LET routed == RoutedEdges(now, X) \cap done
          IN  /\ WalkStopsAt(now, bad, done)
              /\ InstallFilters(now, X, routed)
              /\ inlet' \subseteq routed /\ outlet' \subseteq routed
              /\ subs' \subseteq subs \cup done
    BY <1>5 DEF RescanLosesDevice, Without, now, X
  <2>2. /\ reg' \in [Sid -> Client \cup {NoClient}] /\ seen' \subseteq Sid
        /\ rescan' \in BOOLEAN /\ connections' \subseteq Edge
        /\ active' \in [Edge -> SUBSET Note]
        /\ UNCHANGED <<plugins, disconnected, config, fifo>>
    BY <2>1, WalkType DEF now, X
  <2>3. filtered' \in [Edge -> Setting \cup {Off}]
    <3>1. RoutedEdges(now, X) \cap done \subseteq Edge
      BY <1>2
    <3>. QED BY <2>1, <3>1, InstallType DEF now, X
  <2>4. /\ client' \in [Sid -> Client \cup {NoClient}] /\ announce' \subseteq Client
        /\ leaked' \in Nat /\ monitored' \subseteq Client
        /\ down' \subseteq Client \X Note /\ sounding' \subseteq Client \X Note
    BY <1>5 DEF RescanLosesDevice, TypeOK, Sid
  <2>. QED BY <1>2, <2>1, <2>2, <2>3, <2>4 DEF TypeOK, plugins, config
<1>6. ASSUME RescanOutOfPorts PROVE TypeOK'
  <2>1. PICK done \in SUBSET EdgesOf(now, X), bad \in X :
          LET routed == RoutedEdges(now, X) \cap done
          IN  /\ WalkStopsAt(now, bad, done)
              /\ InstallFilters(now, X, routed)
              /\ inlet' \subseteq routed /\ outlet' \subseteq routed
              /\ subs' \subseteq subs \cup done
              /\ leaked' = leaked + Stranded(PortsInUse(routed))
    BY <1>6 DEF RescanOutOfPorts, now, X
  <2>2. /\ reg' \in [Sid -> Client \cup {NoClient}] /\ seen' \subseteq Sid
        /\ rescan' \in BOOLEAN /\ connections' \subseteq Edge
        /\ active' \in [Edge -> SUBSET Note]
        /\ UNCHANGED <<plugins, disconnected, config, fifo>>
    BY <2>1, WalkType DEF now, X
  <2>3. filtered' \in [Edge -> Setting \cup {Off}]
    <3>1. RoutedEdges(now, X) \cap done \subseteq Edge
      BY <1>2
    <3>. QED BY <2>1, <3>1, InstallType DEF now, X
  <2>4. leaked' \in Nat
    BY <2>1 DEF Stranded, TypeOK
  <2>. QED BY <1>2, <1>6, <2>1, <2>2, <2>3, <2>4
           DEF RescanOutOfPorts, TypeOK, plugins, config
<1>. QED BY <1>3, <1>4, <1>5, <1>6 DEF Rescan

\* The handlers that edit one edge.
LEMMA EdgeEditType ==
  ASSUME TypeOK, NEW e \in Edge
  PROVE  /\ Create(e) => TypeOK'
         /\ Delete(e) => TypeOK'
         /\ \A f \in Filter : Patch(e, f) => TypeOK'
         /\ \A m \in Mapping : AddMapping(e, m) \/ RemoveMapping(e, m) => TypeOK'
<1>1. Plain \in Setting /\ SettingOf(e) \in Setting
  BY SettingType
<1>2. ASSUME Create(e) PROVE TypeOK'
  <2>. DEFINE s == IF disconnected[e] = Off THEN Plain ELSE disconnected[e]
  <2>1. s \in Setting
    BY <1>1 DEF TypeOK
  <2>2. /\ filtered' \in [Edge -> Setting \cup {Off}]
        /\ inlet' \subseteq Edge /\ outlet' \subseteq Edge /\ leaked' \in Nat
    <3>. HIDE DEF s
    <3>1. CASE AddFilter(e, s) \/ FailFilter(e)
      BY <2>1, <3>1, FilterType
    <3>2. CASE UNCHANGED <<filtered, inlet, outlet, leaked>>
      BY <3>2 DEF TypeOK
    <3>3. AddFilter(e, s) \/ FailFilter(e) \/ UNCHANGED <<filtered, inlet, outlet, leaked>>
      BY <1>2 DEF Create, s
    <3>. QED BY <3>1, <3>2, <3>3
  <2>. QED BY <1>2, <2>2 DEF Create, Edit, TypeOK, plugins, view, notes
<1>3. ASSUME Delete(e) PROVE TypeOK'
  <2>1. /\ filtered' \in [Edge -> Setting \cup {Off}]
        /\ inlet' \subseteq Edge /\ outlet' \subseteq Edge /\ leaked' \in Nat
    BY <1>1, <1>3, FilterType DEF Delete
  <2>2. active' \in [Edge -> SUBSET Note] /\ sounding' \subseteq Client \X Note
    BY <1>3, ReleaseType DEF Delete
  <2>. QED BY <1>1, <1>3, <2>1, <2>2 DEF Delete, Edit, TypeOK, plugins, view
<1>4. ASSUME NEW f \in Filter, Patch(e, f) PROVE TypeOK'
  <2>. DEFINE s == [SettingOf(e) EXCEPT !.filter = f]
  <2>1. s \in Setting
    BY <1>1 DEF Setting
  <2>2. /\ filtered' \in [Edge -> Setting \cup {Off}]
        /\ inlet' \subseteq Edge /\ outlet' \subseteq Edge /\ leaked' \in Nat
    <3>. HIDE DEF s
    <3>1. CASE AddFilter(e, s) \/ FailFilter(e) \/ RemoveFilter(e)
      BY <2>1, <3>1, FilterType
    <3>2. CASE /\ filtered' = filtered \/ filtered' = [filtered EXCEPT ![e] = s]
               /\ UNCHANGED <<inlet, outlet, leaked>>
      BY <2>1, <3>2 DEF TypeOK
    <3>3. \/ AddFilter(e, s) \/ FailFilter(e) \/ RemoveFilter(e)
          \/ /\ filtered' = filtered \/ filtered' = [filtered EXCEPT ![e] = s]
             /\ UNCHANGED <<inlet, outlet, leaked>>
      BY <1>4 DEF Patch, s
    <3>. QED BY <3>1, <3>2, <3>3
  <2>3. subs' \subseteq subs \cup {e} /\ mode' \in {"all-to-all", "custom"}
    BY <1>4 DEF Patch, Edit, TypeOK
  <2>. QED BY <1>4, <2>2, <2>3 DEF Patch, TypeOK, plugins, view, notes
<1>5. ASSUME NEW m \in Mapping, AddMapping(e, m) PROVE TypeOK'
  <2>. DEFINE s == [SettingOf(e) EXCEPT !.maps = @ \cup {m}]
              t == [Plain EXCEPT !.maps = {m}]
  <2>1. s \in Setting /\ t \in Setting
    BY <1>1, <1>5 DEF Setting
  <2>2. /\ filtered' \in [Edge -> Setting \cup {Off}]
        /\ inlet' \subseteq Edge /\ outlet' \subseteq Edge /\ leaked' \in Nat
    <3>. HIDE DEF s, t
    <3>1. CASE AddFilter(e, t) \/ FailFilter(e)
      BY <2>1, <3>1, FilterType
    <3>2. CASE /\ filtered' = [filtered EXCEPT ![e] = s]
               /\ UNCHANGED <<inlet, outlet, leaked>>
      BY <2>1, <3>2 DEF TypeOK
    <3>3. \/ AddFilter(e, t) \/ FailFilter(e)
          \/ /\ filtered' = [filtered EXCEPT ![e] = s]
             /\ UNCHANGED <<inlet, outlet, leaked>>
      BY <1>5 DEF AddMapping, s, t
    <3>. QED BY <3>1, <3>2, <3>3
  <2>3. subs' \subseteq subs /\ mode' \in {"all-to-all", "custom"}
    BY <1>5 DEF AddMapping, Edit, TypeOK
  <2>. QED BY <1>5, <2>2, <2>3 DEF AddMapping, TypeOK, plugins, view, notes
<1>6. ASSUME NEW m \in Mapping, RemoveMapping(e, m) PROVE TypeOK'
  <2>. DEFINE s == [SettingOf(e) EXCEPT !.maps = @ \ {m}]
  <2>1. s \in Setting
    BY <1>1 DEF Setting
  <2>2. /\ filtered' \in [Edge -> Setting \cup {Off}]
        /\ inlet' \subseteq Edge /\ outlet' \subseteq Edge /\ leaked' \in Nat
    <3>. HIDE DEF s
    <3>1. CASE RemoveFilter(e)
      BY <1>1, <3>1, FilterType
    <3>2. CASE /\ filtered' = [filtered EXCEPT ![e] = s]
               /\ UNCHANGED <<inlet, outlet, leaked>>
      BY <2>1, <3>2 DEF TypeOK
    <3>3. \/ RemoveFilter(e)
          \/ /\ filtered' = [filtered EXCEPT ![e] = s]
             /\ UNCHANGED <<inlet, outlet, leaked>>
      BY <1>6 DEF RemoveMapping, s
    <3>. QED BY <3>1, <3>2, <3>3
  <2>3. subs' \subseteq subs \cup {e} /\ mode' \in {"all-to-all", "custom"}
    BY <1>6 DEF RemoveMapping, Edit, TypeOK
  <2>. QED BY <1>6, <2>2, <2>3 DEF RemoveMapping, TypeOK, plugins, view, notes
<1>. QED BY <1>2, <1>3, <1>4, <1>5, <1>6

\* The handlers that edit the whole matrix, or the configuration.
LEMMA MatrixEditType ==
  ASSUME TypeOK
  PROVE  /\ DeleteAll \/ ConnectAll \/ OfflineSaved \/ Snapshot => TypeOK'
         /\ \A k \in Pairs(Sid) : OfflineCreate(k) \/ OfflineDelete(k) => TypeOK'
<1>1. Plain \in Setting
  BY SettingType
<1>2. ASSUME DeleteAll PROVE TypeOK'
  <2>1. active' \in [Edge -> SUBSET Note] /\ sounding' \subseteq Client \X Note
    BY <1>2, ReleaseType DEF DeleteAll, Dismantle
  <2>. QED BY <1>2, <2>1 DEF DeleteAll, Dismantle, Edit, NoEdges, TypeOK, plugins, view
<1>3. ASSUME ConnectAll PROVE TypeOK'
  <2>1. active' \in [Edge -> SUBSET Note] /\ sounding' \subseteq Client \X Note
    BY <1>3, ReleaseType DEF ConnectAll, Dismantle
  <2>2. Scan \in [Sid -> Client \cup {NoClient}] /\ Cells(Scan) \subseteq Edge
    BY ScanType, CellsType
  <2>. QED BY <1>3, <2>1, <2>2 DEF ConnectAll, Dismantle, NoEdges, TypeOK, plugins
<1>4. ASSUME OfflineSaved PROVE TypeOK'
  BY <1>4 DEF OfflineSaved, Edit, TypeOK, kernel, plugins, view, routing, notes
<1>5. ASSUME Snapshot PROVE TypeOK'
  <2>1. ASSUME NEW d \in Edge, disconnected[d] # Off
        PROVE  Entry(NameEdge(reg, d), disconnected[d]) \in SavedEdge
    <3>1. NameEdge(reg, d) \in End \X End
      BY NameType DEF TypeOK
    <3>2. disconnected[d] \in Setting
      BY <2>1 DEF TypeOK
    <3>. QED BY <3>1, <3>2 DEF Entry, SavedEdge
  <2>2. disabled' \subseteq SavedEdge
    BY <1>5, <2>1 DEF Snapshot
  <2>3. saved' \subseteq SavedEdge
    BY <1>5, EntriesType DEF Snapshot
  <2>. QED BY <1>5, <2>2, <2>3 DEF Snapshot, TypeOK, kernel, plugins, view, routing, notes
<1>6. ASSUME NEW k \in Pairs(Sid) PROVE k \in End \X End
  BY <1>6, SidAssumption DEF Pairs, End
<1>7. ASSUME NEW k \in Pairs(Sid), OfflineCreate(k) PROVE TypeOK'
  <2>1. Entry(k, Plain) \in SavedEdge
    BY <1>1, <1>6 DEF Entry, SavedEdge
  <2>. QED BY <1>7, <2>1 DEF OfflineCreate, Edit, TypeOK, kernel, plugins, view, routing, notes
<1>8. ASSUME NEW k \in Pairs(Sid), OfflineDelete(k) PROVE TypeOK'
  <2>. DEFINE s == IF k \in Keys(saved) THEN SettingIn(saved, k) ELSE Plain
  <2>1. k \in Keys(saved) => SettingIn(saved, k) \in Setting
    <3>1. ASSUME k \in Keys(saved) PROVE (CHOOSE x \in saved : x.ends = k) \in saved
      BY <3>1 DEF Keys
    <3>2. \A x \in saved : x.setting \in Setting
      BY DEF TypeOK, SavedEdge
    <3>. QED BY <3>1, <3>2 DEF SettingIn
  <2>2. Entry(k, s) \in SavedEdge
    BY <1>1, <1>6, <2>1 DEF Entry, SavedEdge
  <2>3. saved' \subseteq saved /\ disabled' \subseteq disabled \cup {Entry(k, s)}
    BY <1>8 DEF OfflineDelete, Drop
  <2>. QED BY <1>8, <2>2, <2>3 DEF OfflineDelete, TypeOK, kernel, plugins, view, routing, notes
<1>. QED BY <1>2, <1>3, <1>4, <1>5, <1>7, <1>8

\* The life of plugin instances.
LEMMA PluginType ==
  ASSUME TypeOK, ClientsApart, LeavingTruth
  PROVE  PluginLife => TypeOK'
<1>. USE DEF kernel, plugins, view, routing, config, notes
<1>1. ASSUME NEW p \in Plugin, PluginOpen(p) PROVE TypeOK'
  BY <1>1 DEF PluginOpen, Arrive, TypeOK, Sid, Client
<1>2. ASSUME NEW p \in Plugin, PluginHosted(p) PROVE TypeOK'
  BY <1>2 DEF PluginHosted, TypeOK
<1>3. ASSUME NEW p \in Plugin, PluginAdded(p) PROVE TypeOK'
  <2>1. monitored' \subseteq Client
    BY <1>3, MonitorType DEF PluginAdded
  <2>2. reg' \in [Sid -> Client \cup {NoClient}]
    BY <1>3 DEF PluginAdded, TypeOK, Sid
  <2>. QED BY <1>3, <2>1, <2>2 DEF PluginAdded, TypeOK
<1>4. ASSUME NEW p \in Plugin, PluginStop(p) PROVE TypeOK'
  BY <1>4 DEF PluginStop, TypeOK, ClientsApart
<1>5. ASSUME NEW p \in Plugin, PluginClose(p) PROVE TypeOK'
  <2>1. client[p] \in Client
    BY <1>5 DEF PluginClose, ClientsApart, LeavingTruth, Client
  <2>. QED BY <1>5, <2>1 DEF PluginClose, Depart, Without, TypeOK, Sid
<1>6. ASSUME NEW p \in Plugin, PluginRemoved(p) PROVE TypeOK'
  <2>. DEFINE gone == {e \in Edge : Touches(e, leaving[p])}
  <2>1. Cardinality(FilteredEdges \cap gone) \in Nat
    BY EdgesFinite DEF FilteredEdges
  <2>2. leaked' \in Nat
    BY <1>6, <2>1 DEF PluginRemoved, TypeOK
  <2>. QED BY <1>6, <2>2 DEF PluginRemoved, TypeOK
<1>7. ASSUME PluginRefresh PROVE TypeOK'
  <2>1. monitored' \subseteq Client /\ reg' \in [Sid -> Client \cup {NoClient}]
    BY <1>7, ScanType, MonitorType DEF PluginRefresh
  <2>. QED BY <1>7, <2>1 DEF PluginRefresh, TypeOK
<1>. QED BY <1>1, <1>2, <1>3, <1>4, <1>5, <1>6, <1>7 DEF PluginLife

\* Notes.
LEMMA NoteType ==
  ASSUME TypeOK
  PROVE  Play => TypeOK'
<1>. USE DEF kernel, plugins, view, routing, config, notes
<1>. DEFINE Event == [client : Client, note : Note, on : BOOLEAN, heard : BOOLEAN,
                      reads : SUBSET Edge]
<1>1. ASSUME NEW c \in Client, NEW n \in Note, NEW on \in BOOLEAN, Queue(c, n, on)
      PROVE  fifo' \in Seq(Event)
  BY <1>1 DEF Queue, TypeOK
<1>2. \A c : Reached(c) \subseteq Client
  BY DEF Reached, TypeOK, Edge
<1>3. ASSUME NEW s \in Source, NEW n \in Note, KeyDown(s, n) \/ KeyUp(s, n) PROVE TypeOK'
  <2>1. client[s] \in Client
    BY <1>3, SidAssumption DEF KeyDown, KeyUp, TypeOK
  <2>2. fifo' \in Seq(Event)
    BY <1>1, <1>3, <2>1 DEF KeyDown, KeyUp
  <2>3. down' \subseteq Client \X Note /\ sounding' \subseteq Client \X Note
    <3>1. /\ down' \subseteq down \cup {<<client[s], n>>}
          /\ sounding' \subseteq sounding \cup (Reached(client[s]) \X {n})
      BY <1>3 DEF KeyDown, KeyUp
    <3>2. Reached(client[s]) \X {n} \subseteq Client \X Note
      BY <1>2
    <3>. QED BY <2>1, <3>1, <3>2 DEF TypeOK
  <2>. QED BY <1>3, <2>2, <2>3 DEF KeyDown, KeyUp, TypeOK
<1>4. ASSUME Drain PROVE TypeOK'
  <2>. DEFINE ev == Head(fifo)
  <2>1. ev \in Event /\ fifo' \in Seq(Event)
    <3>1. fifo \in Seq(Event) /\ fifo # <<>> /\ fifo' = Tail(fifo)
      BY <1>4 DEF Drain, TypeOK
    <3>. HIDE DEF Event
    <3>. QED BY <3>1
  <2>2. active' \in [Edge -> SUBSET Note]
    BY <1>4, <2>1 DEF Drain, TypeOK
  <2>3. ASSUME NEW e \in FilteredEdges PROVE Emitted(filtered[e], ev.note) \subseteq Note
    <3>1. filtered[e] \in Setting
      BY <2>3 DEF FilteredEdges, TypeOK
    <3>2. \A m \in filtered[e].maps : Rewrite[m][ev.note] \in Note
      BY <2>1, <3>1, DataAssumption DEF Setting
    <3>. QED BY <2>1, <3>2 DEF Emitted
  <2>4. UNION {{e[2]} \X Emitted(filtered[e], ev.note) :
                 e \in ev.reads \cap FilteredEdges \cap outlet} \subseteq Client \X Note
    BY <2>3 DEF FilteredEdges, Edge
  <2>5. sounding' \subseteq Client \X Note
    BY <1>4, <2>4 DEF Drain, TypeOK
  <2>. QED BY <1>4, <2>1, <2>2, <2>5 DEF Drain, TypeOK
<1>5. ASSUME Panic PROVE TypeOK'
  BY <1>5 DEF Panic, NoNotes, TypeOK
<1>. QED BY <1>3, <1>4, <1>5 DEF Play

\* Every step keeps the types.
LEMMA StepType ==
  ASSUME TypeOK, ClientsApart, LeavingTruth, [Next]_vars
  PROVE  TypeOK'
<1>1. CASE Hotplug
  BY <1>1, SidAssumption, HotplugType, RescanType DEF Hotplug
<1>2. CASE HandleAnnouncements
  BY <1>2, HotplugType
<1>3. CASE Rescan
  BY <1>3, RescanType
<1>4. CASE EditRouting
  <2>1. Cells(reg) \subseteq Edge
    BY CellsType DEF TypeOK
  <2>. QED BY <1>4, <2>1, EdgeEditType, MatrixEditType DEF EditRouting
<1>5. CASE PluginLife
  BY <1>5, PluginType
<1>6. CASE Play
  BY <1>6, NoteType
<1>7. CASE UNCHANGED vars
  BY <1>7 DEF vars, kernel, plugins, view, routing, config, notes, TypeOK
<1>. QED BY <1>1, <1>2, <1>3, <1>4, <1>5, <1>6, <1>7 DEF Next

-----------------------------------------------------------------------------
(* Client numbers.                                                         *)

\* Every step that does not attach, detach or manage a client leaves them alone.
LEMMA OtherSteps ==
  ASSUME Next
  PROVE  \/ \E d \in Device : Plug(d) \/ Unplug(d) \/ RescanLosesDevice(d)
         \/ \E p \in Plugin : \/ PluginOpen(p) \/ PluginHosted(p) \/ PluginAdded(p)
                             \/ PluginStop(p) \/ PluginClose(p) \/ PluginRemoved(p)
         \/ UNCHANGED <<client, stage, leaving>>
<1>. USE DEF kernel, plugins
<1>1. CASE Hotplug
  BY <1>1, SidAssumption DEF Hotplug
<1>2. CASE HandleAnnouncements
  BY <1>2 DEF HandleAnnouncements
<1>3. CASE Rescan
  <2>1. CASE RescanRestore \/ RescanDefault
    BY <2>1 DEF RescanRestore, RescanDefault
  <2>2. CASE RescanOutOfPorts
    BY <2>2 DEF RescanOutOfPorts, WalkStopsAt
  <2>. QED BY <1>3, <2>1, <2>2 DEF Rescan
<1>4. CASE EditRouting
  <2>1. ASSUME NEW e \in Cells(reg), Create(e) \/ Delete(e)
        PROVE  UNCHANGED <<client, stage, leaving>>
    BY <2>1 DEF Create, Delete
  <2>2. ASSUME NEW e \in Cells(reg), NEW f \in Filter, Patch(e, f)
        PROVE  UNCHANGED <<client, stage, leaving>>
    BY <2>2 DEF Patch
  <2>3. ASSUME NEW e \in Cells(reg), NEW m \in Mapping, AddMapping(e, m) \/ RemoveMapping(e, m)
        PROVE  UNCHANGED <<client, stage, leaving>>
    BY <2>3 DEF AddMapping, RemoveMapping
  <2>4. CASE DeleteAll \/ ConnectAll \/ OfflineSaved \/ Snapshot
    BY <2>4 DEF DeleteAll, ConnectAll, OfflineSaved, Snapshot
  <2>5. ASSUME NEW k \in Pairs(Sid), OfflineCreate(k) \/ OfflineDelete(k)
        PROVE  UNCHANGED <<client, stage, leaving>>
    BY <2>5 DEF OfflineCreate, OfflineDelete
  <2>. QED BY <1>4, <2>1, <2>2, <2>3, <2>4, <2>5 DEF EditRouting
<1>5. CASE PluginLife
  BY <1>5 DEF PluginLife, PluginRefresh
<1>6. CASE Play
  BY <1>6 DEF Play, KeyDown, KeyUp, Drain, Panic
<1>. QED BY <1>1, <1>2, <1>3, <1>4, <1>5, <1>6 DEF Next

\* Client numbers stay distinct and known through every step.
LEMMA StepClients ==
  ASSUME TypeOK, ClientsApart, LeavingTruth, [Next]_vars
  PROVE  ClientsApart' /\ LeavingTruth'
<1>. USE SidAssumption DEF Sid, Client
<1>1. CASE UNCHANGED <<client, stage, leaving>>
  BY <1>1 DEF ClientsApart, LeavingTruth, Live
<1>2. ASSUME NEW d \in Device, Plug(d) PROVE ClientsApart' /\ LeavingTruth'
  <2>1. PICK c \in DeviceClient \ Live : client' = [client EXCEPT ![d] = c]
    BY <1>2 DEF Plug, Arrive
  <2>2. UNCHANGED <<stage, leaving>> /\ Live' \subseteq Live \cup {c}
    BY <1>2, <2>1 DEF Plug, plugins, Live, TypeOK
  <2>3. ClientsApart'
    BY <2>1 DEF ClientsApart, TypeOK, Live
  <2>4. \A p \in Plugin : leaving[p] # c /\ client'[p] = client[p]
    BY <2>1 DEF TypeOK
  <2>. QED BY <2>2, <2>3, <2>4 DEF LeavingTruth
<1>3. ASSUME NEW d \in Device, Unplug(d) \/ RescanLosesDevice(d)
      PROVE  ClientsApart' /\ LeavingTruth'
  <2>1. client' = [client EXCEPT ![d] = NoClient] /\ UNCHANGED <<stage, leaving>>
    BY <1>3 DEF Unplug, Depart, RescanLosesDevice, WalkStopsAt, plugins
  <2>2. ClientsApart' /\ Live' \subseteq Live
    BY <2>1 DEF ClientsApart, TypeOK, Live
  <2>. QED BY <2>1, <2>2 DEF LeavingTruth, TypeOK
<1>4. ASSUME NEW p \in Plugin, PluginOpen(p) PROVE ClientsApart' /\ LeavingTruth'
  <2>1. PICK c \in PluginClient \ (Live \cup {leaving[q] : q \in Plugin}) :
          client' = [client EXCEPT ![p] = c]
    BY <1>4 DEF PluginOpen, Arrive
  <2>2. /\ stage[p] = "new" /\ stage' = [stage EXCEPT ![p] = "opened"]
        /\ UNCHANGED leaving /\ Live' \subseteq Live \cup {c}
    BY <1>4, <2>1 DEF PluginOpen, Live, TypeOK
  <2>3. ClientsApart'
    BY <2>1 DEF ClientsApart, TypeOK, Live
  <2>. QED BY <2>1, <2>2, <2>3 DEF LeavingTruth, TypeOK
<1>5. ASSUME NEW p \in Plugin, PluginHosted(p) \/ PluginAdded(p) \/ PluginStop(p)
      PROVE  ClientsApart' /\ LeavingTruth'
  <2>1. UNCHANGED client /\ Live' = Live
    BY <1>5 DEF PluginHosted, PluginAdded, PluginStop, kernel, Live
  <2>2. \/ stage' = [stage EXCEPT ![p] = "hosted"] /\ stage[p] = "opened" /\ leaving' = leaving
        \/ stage' = [stage EXCEPT ![p] = "running"] /\ stage[p] = "hosted" /\ leaving' = leaving
        \/ /\ stage' = [stage EXCEPT ![p] = "stopping"] /\ stage[p] = "running"
           /\ leaving' = [leaving EXCEPT ![p] = client[p]]
    BY <1>5 DEF PluginHosted, PluginAdded, PluginStop
  <2>. QED BY <2>1, <2>2 DEF ClientsApart, LeavingTruth, TypeOK
<1>6. ASSUME NEW p \in Plugin, PluginClose(p) PROVE ClientsApart' /\ LeavingTruth'
  <2>1. /\ stage[p] = "stopping" /\ stage' = [stage EXCEPT ![p] = "closed"]
        /\ UNCHANGED leaving /\ client' = [client EXCEPT ![p] = NoClient]
    BY <1>6 DEF PluginClose, Depart
  <2>2. client[p] # NoClient /\ leaving[p] = client[p]
    BY <2>1 DEF LeavingTruth
  <2>3. ClientsApart' /\ Live' \subseteq Live \ {client[p]}
    BY <2>1, <2>2 DEF ClientsApart, TypeOK, Live
  <2>. QED BY <2>1, <2>2, <2>3 DEF LeavingTruth, TypeOK
<1>7. ASSUME NEW p \in Plugin, PluginRemoved(p) PROVE ClientsApart' /\ LeavingTruth'
  <2>1. /\ stage' = [stage EXCEPT ![p] = "gone"]
        /\ leaving' = [leaving EXCEPT ![p] = NoClient] /\ UNCHANGED client
    BY <1>7 DEF PluginRemoved
  <2>2. Live' = Live
    BY <2>1 DEF Live
  <2>. QED BY <2>1, <2>2 DEF ClientsApart, LeavingTruth, TypeOK
<1>8. CASE UNCHANGED vars
  BY <1>1, <1>8 DEF vars, kernel, plugins
<1>. QED BY <1>1, <1>2, <1>3, <1>4, <1>5, <1>6, <1>7, <1>8, OtherSteps

-----------------------------------------------------------------------------
(* Paths: what flows, and what is tracked, belongs to live edges.          *)

Paths == SubsPlugged /\ NoHiddenPath /\ HeldNotesOnLiveEdges

\* What TeardownSilences says of one step.
SilentStep ==
  \A e \in connections \ connections' :
    e[2] \in Live' => \A n \in active[e] : <<e[2], n>> \notin sounding'

\* The edges that a scan's device list gives rise to connect attached clients.
LEMMA ScanPlugged ==
  ASSUME TypeOK, NEW X
  PROVE  /\ \A e \in EdgesOf(Scan, X) : Plugged(e)
         /\ \A e \in DefaultEdges(Scan, X) : Plugged(e)
         /\ \A e \in Cells(Scan) : Plugged(e)
<1>1. Clients(Scan) \subseteq Live
  BY ScanType DEF Clients, Registered, Live
<1>2. ASSUME NEW k, LocateEdge(Scan, k) \in Edge PROVE Plugged(LocateEdge(Scan, k))
  BY <1>1, <1>2, ScanType, LocatedListed DEF Plugged
<1>3. Pairs(Device \cap Registered(Scan)) \subseteq Pairs(Registered(Scan))
  BY DEF Pairs
<1>. QED BY <1>2, <1>3, ScanType, CellsListed DEF EdgesOf, DefaultEdges, Cells

\* An edge away from the client that leaves stays plugged.
LEMMA StaysPlugged ==
  ASSUME TypeOK, NEW s \in Sid, client' = [client EXCEPT ![s] = NoClient],
         NEW e \in Edge, Plugged(e), ~Touches(e, client[s])
  PROVE  Plugged(e)'
  BY DEF TypeOK, Plugged, Live, Touches

\* Steps that leave the paths and the tracked notes alone.
LEMMA QuietStep ==
  ASSUME Paths, UNCHANGED <<client, subs, connections, filtered, active>>
  PROVE  Paths' /\ SilentStep
  BY DEF Paths, SubsPlugged, NoHiddenPath, HeldNotesOnLiveEdges, SilentStep,
         Plugged, Live, FilteredEdges

\* Clients that come and go.
LEMMA HotplugPaths ==
  ASSUME TypeOK, Paths
  PROVE  /\ \A d \in Device : Plug(d) \/ Unplug(d) => Paths' /\ SilentStep
         /\ \A p \in Plugin : PluginOpen(p) /\ LeavingTruth => Paths' /\ SilentStep
         /\ \A p \in Plugin : PluginClose(p) => Paths' /\ SilentStep
<1>. USE DEF routing, notes, Paths
<1>1. ASSUME NEW s \in Sid, NEW c \in Client, client[s] = NoClient, Arrive(s, c),
             UNCHANGED <<routing, notes>>
      PROVE  Paths' /\ SilentStep
  <2>1. Live \subseteq Live'
    BY <1>1, SidAssumption DEF Arrive, Live, TypeOK
  <2>. QED BY <1>1, <2>1 DEF Arrive, SubsPlugged, NoHiddenPath,
              HeldNotesOnLiveEdges, SilentStep, Plugged, FilteredEdges
<1>2. ASSUME NEW s \in Sid, Depart(s), UNCHANGED routing
      PROVE  Paths' /\ SilentStep
  <2>1. subs' = Without(subs, client[s]) /\ client' = [client EXCEPT ![s] = NoClient]
        /\ active' = active
    BY <1>2 DEF Depart
  <2>2. SubsPlugged'
    BY <2>1, StaysPlugged DEF SubsPlugged, Without, TypeOK
  <2>. QED BY <1>2, <2>1, <2>2 DEF Without, NoHiddenPath, HeldNotesOnLiveEdges,
              SilentStep, FilteredEdges
<1>3. ASSUME NEW d \in Device, Plug(d) PROVE Paths' /\ SilentStep
  BY <1>1, <1>3 DEF Plug, Sid, Client
<1>4. ASSUME NEW d \in Device, Unplug(d) PROVE Paths' /\ SilentStep
  BY <1>2, <1>4 DEF Unplug, Sid
<1>5. ASSUME NEW p \in Plugin, PluginOpen(p), LeavingTruth PROVE Paths' /\ SilentStep
  BY <1>1, <1>5 DEF PluginOpen, LeavingTruth, Sid, Client
<1>6. ASSUME NEW p \in Plugin, PluginClose(p) PROVE Paths' /\ SilentStep
  BY <1>2, <1>6 DEF PluginClose, Sid
<1>. QED BY <1>3, <1>4, <1>5, <1>6

\* A rescan: the walk's edges are live, and its filters are on them.
LEMMA RescanPaths ==
  ASSUME TypeOK, Paths
  PROVE  /\ Rescan => Paths' /\ SilentStep
         /\ \A d \in Device : RescanLosesDevice(d) => Paths' /\ SilentStep
<1>. DEFINE X == Entries(Scan)
<1>1. /\ subs \ connections = {}
      /\ EdgesOf(Scan, X) \subseteq Edge
      /\ RoutedEdges(Scan, X) \subseteq EdgesOf(Scan, X)
      /\ Doubled(Scan, X) \subseteq RoutedEdges(Scan, X)
      /\ connections \subseteq Edge
  BY DEF Paths, NoHiddenPath, EdgesOf, RoutedEdges, Doubled, TypeOK
<1>2. /\ \A e \in EdgesOf(Scan, X) : Plugged(e)
      /\ \A e \in DefaultEdges(Scan, X) : Plugged(e)
      /\ \A e \in Cells(Scan) : Plugged(e)
  BY ScanPlugged
<1>3. ASSUME ReleaseEdges(Edge) \/ (active' = NoNotes /\ sounding' \subseteq sounding \ Released(Edge))
      PROVE  HeldNotesOnLiveEdges' /\ SilentStep
  <2>1. active' = NoNotes /\ sounding' \subseteq sounding \ Released(Edge)
    BY <1>3 DEF ReleaseEdges, NoNotes
  <2>2. ASSUME NEW e \in connections, NEW n \in active[e] PROVE <<e[2], n>> \in Released(Edge)
    BY <1>1, <2>2 DEF Released
  <2>. QED BY <2>1, <2>2 DEF HeldNotesOnLiveEdges, SilentStep, NoNotes
<1>4. ASSUME NEW E, E \subseteq Edge, InstallFilters(Scan, X, E)
      PROVE  FilteredEdges' \subseteq E
  BY <1>4, InstallType DEF FilteredEdges
<1>. HIDE DEF X
<1>5. ASSUME RescanRestore PROVE Paths' /\ SilentStep
  <2>1. /\ connections' = EdgesOf(Scan, X) \cup (DefaultEdges(Scan, X) \ EdgesOf(Scan, X))
        /\ InstallFilters(Scan, X, RoutedEdges(Scan, X))
        /\ subs' \subseteq EdgesOf(Scan, X) \cup (DefaultEdges(Scan, X) \ EdgesOf(Scan, X))
        /\ ReleaseEdges(Edge) /\ UNCHANGED client
    BY <1>1, <1>5 DEF RescanRestore, X
  <2>2. SubsPlugged'
    BY <1>2, <2>1 DEF SubsPlugged, Plugged, Live
  <2>3. NoHiddenPath'
    BY <1>1, <1>4, <2>1 DEF NoHiddenPath
  <2>. QED BY <1>3, <2>1, <2>2, <2>3 DEF Paths
<1>6. ASSUME RescanDefault PROVE Paths' /\ SilentStep
  <2>1. /\ connections' \subseteq Cells(Scan) /\ subs' = connections'
        /\ filtered' = NoEdges /\ ReleaseEdges(Edge) /\ UNCHANGED client
    BY <1>1, <1>6 DEF RescanDefault
  <2>2. SubsPlugged' /\ NoHiddenPath'
    BY <1>2, <2>1 DEF SubsPlugged, Plugged, Live, NoHiddenPath, FilteredEdges, NoEdges
  <2>. QED BY <1>3, <2>1, <2>2 DEF Paths
<1>7. ASSUME NEW d \in Device, RescanLosesDevice(d) PROVE Paths' /\ SilentStep
  <2>1. PICK done \in SUBSET EdgesOf(Scan, X), bad \in X :
          LET routed == RoutedEdges(Scan, X) \cap done
          IN  /\ WalkStopsAt(Scan, bad, done)
              /\ InstallFilters(Scan, X, routed)
              /\ subs' = Without((subs \ connections) \cup (done \ routed), client[d])
    BY <1>7 DEF RescanLosesDevice, X
  <2>2. /\ client' = [client EXCEPT ![d] = NoClient] /\ connections' = done
        /\ active' = NoNotes /\ sounding' \subseteq sounding \ Released(Edge)
        /\ subs' \subseteq Without(done, client[d])
    BY <1>1, <1>7, <2>1 DEF RescanLosesDevice, WalkStopsAt, Without
  <2>3. SubsPlugged'
    BY <1>1, <1>2, <2>2, StaysPlugged DEF SubsPlugged, Without, Sid
  <2>4. NoHiddenPath'
    <3>1. RoutedEdges(Scan, X) \cap done \subseteq Edge
      BY <1>1
    <3>. QED BY <1>4, <2>1, <2>2, <3>1 DEF NoHiddenPath, Without
  <2>. QED BY <1>3, <2>2, <2>3, <2>4 DEF Paths
<1>8. ASSUME RescanOutOfPorts PROVE Paths' /\ SilentStep
  <2>1. PICK done \in SUBSET EdgesOf(Scan, X), bad \in X :
          LET routed == RoutedEdges(Scan, X) \cap done
          IN  /\ WalkStopsAt(Scan, bad, done)
              /\ InstallFilters(Scan, X, routed)
              /\ subs' = (subs \ connections) \cup (done \ routed)
    BY <1>8 DEF RescanOutOfPorts, X
  <2>2. /\ connections' = done /\ active' = NoNotes
        /\ sounding' \subseteq sounding \ Released(Edge)
        /\ subs' \subseteq done /\ UNCHANGED client
    BY <1>1, <1>8, <2>1 DEF RescanOutOfPorts, WalkStopsAt
  <2>3. SubsPlugged'
    BY <1>2, <2>2 DEF SubsPlugged, Plugged, Live
  <2>4. NoHiddenPath'
    <3>1. RoutedEdges(Scan, X) \cap done \subseteq Edge
      BY <1>1
    <3>. QED BY <1>4, <2>1, <2>2, <3>1 DEF NoHiddenPath
  <2>. QED BY <1>3, <2>2, <2>3, <2>4 DEF Paths
<1>. QED BY <1>5, <1>6, <1>7, <1>8 DEF Rescan

\* Edits of one cell: only DELETE takes the edge out, and it silences it first.
LEMMA EditPaths ==
  ASSUME TypeOK, Paths, EditRouting
  PROVE  Paths' /\ SilentStep
<1>. USE DEF Paths, NoHiddenPath, HeldNotesOnLiveEdges, SilentStep, SubsPlugged
<1>1. ASSUME NEW e \in Edge, Create(e) PROVE Paths' /\ SilentStep
  <2>1. /\ connections \subseteq connections' /\ UNCHANGED <<client, active>>
        /\ subs' \subseteq subs \cup {e} /\ (e \in subs' \ subs => Plugged(e) /\ e \in connections')
    BY <1>1 DEF Create, notes
  <2>2. FilteredEdges' \subseteq FilteredEdges \cup {e}
        /\ (e \in FilteredEdges' \ FilteredEdges => e \in connections')
    BY <1>1 DEF Create, AddFilter, FailFilter, FilteredEdges, TypeOK
  <2>. QED BY <2>1, <2>2 DEF Plugged, Live
<1>2. ASSUME NEW e \in Edge, Delete(e) PROVE Paths' /\ SilentStep
  <2>1. /\ connections' = connections \ {e} /\ UNCHANGED client /\ subs' = subs \ {e}
        /\ ReleaseEdges({e})
    BY <1>2 DEF Delete
  <2>2. FilteredEdges' = FilteredEdges \ {e}
    BY <1>2 DEF Delete, RemoveFilter, FilteredEdges, TypeOK
  <2>3. active'[e] = {} /\ \A d \in Edge \ {e} : active'[d] = active[d]
    BY <2>1 DEF ReleaseEdges
  <2>4. \A n \in active[e] : <<e[2], n>> \notin sounding'
    BY <2>1 DEF ReleaseEdges, Released
  <2>. QED BY <2>1, <2>2, <2>3, <2>4 DEF Plugged, Live
<1>3. ASSUME NEW e \in Edge,
             \/ \E f \in Filter : Patch(e, f)
             \/ \E m \in Mapping : AddMapping(e, m) \/ RemoveMapping(e, m)
      PROVE  Paths' /\ SilentStep
  <2>1. SettingOf(e).maps # {} => e \in connections
    BY DEF SettingOf, Plain, FilteredEdges
  <2>2. e \in connections \/ SettingOf(e).maps # {}
    BY <1>3 DEF Patch, AddMapping, RemoveMapping
  <2>3. /\ UNCHANGED <<client, connections, active>> /\ subs' \subseteq subs \cup {e}
        /\ (e \in subs' \ subs => Plugged(e))
    BY <1>3 DEF Patch, AddMapping, RemoveMapping, notes
  <2>4. FilteredEdges' \subseteq FilteredEdges \cup {e}
    <3>1. \A d \in Edge \ {e} : filtered'[d] = filtered[d]
      BY <1>3 DEF Patch, AddMapping, RemoveMapping, AddFilter, FailFilter, RemoveFilter, TypeOK
    <3>. QED BY <3>1 DEF FilteredEdges
  <2>. QED BY <2>1, <2>2, <2>3, <2>4 DEF Plugged, Live
<1>4. ASSUME DeleteAll \/ ConnectAll PROVE Paths' /\ SilentStep
  <2>1. /\ ReleaseEdges(Edge) /\ filtered' = NoEdges /\ UNCHANGED client
        /\ subs' \subseteq connections' /\ connections' \subseteq {} \cup Cells(Scan)
    BY <1>4 DEF DeleteAll, ConnectAll, Dismantle
  <2>2. \A e \in Cells(Scan) : Plugged(e)
    BY ScanPlugged, <1>4
  <2>3. \A e \in connections : \A n \in active[e] : <<e[2], n>> \notin sounding'
    BY <2>1 DEF ReleaseEdges, Released, TypeOK
  <2>4. \A e \in Edge : active'[e] = {}
    BY <2>1 DEF ReleaseEdges
  <2>. QED BY <2>1, <2>2, <2>3, <2>4 DEF Plugged, Live, FilteredEdges, NoEdges
<1>5. ASSUME \/ OfflineSaved \/ Snapshot
             \/ \E k \in Pairs(Sid) : OfflineCreate(k) \/ OfflineDelete(k)
      PROVE  Paths' /\ SilentStep
  <2>1. UNCHANGED <<client, subs, connections, filtered, active>>
    BY <1>5 DEF OfflineSaved, Snapshot, OfflineCreate, OfflineDelete, kernel, routing, notes
  <2>. QED BY <2>1, QuietStep
<1>6. Cells(reg) \subseteq Edge
  BY CellsType DEF TypeOK
<1>. QED BY <1>1, <1>2, <1>3, <1>4, <1>5, <1>6 DEF EditRouting

\* Pruning after a plugin's end, and its other callbacks.
LEMMA PluginPaths ==
  ASSUME TypeOK, LeavingTruth, Paths, PluginLife
  PROVE  Paths' /\ SilentStep
<1>1. ASSUME NEW p \in Plugin, PluginHosted(p) \/ PluginAdded(p) \/ PluginStop(p)
      PROVE  Paths' /\ SilentStep
  <2>1. UNCHANGED <<client, subs, connections, filtered, active>>
    BY <1>1 DEF PluginHosted, PluginAdded, PluginStop, kernel, routing, notes
  <2>. QED BY <2>1, QuietStep
<1>2. ASSUME PluginRefresh PROVE Paths' /\ SilentStep
  <2>1. UNCHANGED <<client, subs, connections, filtered, active>>
    BY <1>2 DEF PluginRefresh, routing, notes
  <2>. QED BY <2>1, QuietStep
<1>3. ASSUME NEW p \in Plugin, PluginRemoved(p) PROVE Paths' /\ SilentStep
  <2>. DEFINE gone == {e \in Edge : Touches(e, leaving[p])}
  <2>1. /\ connections' = connections \ gone /\ UNCHANGED <<client, subs>>
        /\ filtered' = [e \in Edge |-> IF e \in gone THEN Off ELSE filtered[e]]
        /\ active' = [e \in Edge |-> IF e \in gone THEN {} ELSE active[e]]
        /\ sounding' = sounding \ Released({e \in gone : e[2] # leaving[p]})
    BY <1>3 DEF PluginRemoved
  <2>2. leaving[p] \notin Live
    BY <1>3 DEF PluginRemoved, LeavingTruth
  <2>3. subs \cap gone = {}
    BY <2>2 DEF Paths, SubsPlugged, Plugged, Touches
  <2>4. SubsPlugged' /\ NoHiddenPath' /\ HeldNotesOnLiveEdges'
    BY <2>1, <2>3 DEF Paths, SubsPlugged, NoHiddenPath, HeldNotesOnLiveEdges,
                      FilteredEdges, Plugged, Live
  <2>5. ASSUME NEW e \in connections \ connections', e[2] \in Live', NEW n \in active[e]
        PROVE  <<e[2], n>> \notin sounding'
    <3>1. e \in gone /\ e[2] # leaving[p]
      BY <2>1, <2>2, <2>5 DEF Live
    <3>. QED BY <2>1, <2>5, <3>1 DEF Released
  <2>. QED BY <2>4, <2>5 DEF Paths, SilentStep
<1>. QED BY <1>1, <1>2, <1>3, HotplugPaths DEF PluginLife

\* Notes are tracked on edges that are listed, and none is taken off the list.
LEMMA PlayPaths ==
  ASSUME TypeOK, Paths, Play
  PROVE  Paths' /\ SilentStep
<1>1. /\ UNCHANGED <<client, subs, connections, filtered>>
      /\ \A e \in Edge : active'[e] # {} => active[e] # {} \/ e \in connections
  BY DEF Play, KeyDown, KeyUp, Drain, Panic, NoNotes, kernel, routing
<1>. QED BY <1>1 DEF Paths, SubsPlugged, NoHiddenPath, HeldNotesOnLiveEdges,
            SilentStep, FilteredEdges, Plugged, Live

\* Paths and tracked notes stay on live edges through every step.
LEMMA StepPaths ==
  ASSUME TypeOK, LeavingTruth, Paths, [Next]_vars
  PROVE  Paths' /\ SilentStep
<1>1. CASE Hotplug
  BY <1>1, SidAssumption, HotplugPaths, RescanPaths DEF Hotplug
<1>2. CASE HandleAnnouncements \/ UNCHANGED vars
  BY <1>2, QuietStep DEF HandleAnnouncements, vars, kernel, routing, notes
<1>3. CASE Rescan
  BY <1>3, RescanPaths
<1>4. CASE EditRouting
  BY <1>4, EditPaths
<1>5. CASE PluginLife
  BY <1>5, PluginPaths
<1>6. CASE Play
  BY <1>6, PlayPaths
<1>. QED BY <1>1, <1>2, <1>3, <1>4, <1>5, <1>6 DEF Next

-----------------------------------------------------------------------------
(* The theorems.                                                           *)

\* The hub boots in a state of the invariant.
LEMMA InitInvariant ==
  ASSUME Init
  PROVE  IInv
<1>1. TypeOK
  <2>1. /\ client \in [Sid -> Client \cup {NoClient}] /\ reg \in [Sid -> Client \cup {NoClient}]
        /\ leaving \in [Plugin -> PluginClient \cup {NoClient}]
        /\ filtered \in [Edge -> Setting \cup {Off}]
        /\ disconnected \in [Edge -> Setting \cup {Off}]
        /\ active \in [Edge -> SUBSET Note]
    BY DEF Init, NoEdges, NoNotes
  <2>2. stage \in [Plugin -> {"new", "opened", "hosted", "running", "stopping",
                              "closed", "gone"}]
    BY DEF Init
  <2>3. fifo \in Seq([client : Client, note : Note, on : BOOLEAN, heard : BOOLEAN,
                      reads : SUBSET Edge])
    BY DEF Init
  <2>4. /\ subs = {} /\ inlet = {} /\ outlet = {} /\ monitored = {} /\ announce = {}
        /\ seen = {} /\ rescan = FALSE /\ connections = {} /\ leaked = 0
        /\ saved = {} /\ disabled = {} /\ mode = "all-to-all" /\ saving = FALSE
        /\ down = {} /\ sounding = {}
    BY DEF Init
  <2>. QED BY <2>1, <2>2, <2>3, <2>4 DEF TypeOK
<1>2. ClientsApart /\ LeavingTruth /\ SubsPlugged
  BY DEF Init, ClientsApart, LeavingTruth, SubsPlugged, Sid
<1>3. NoHiddenPath /\ HeldNotesOnLiveEdges
  BY DEF Init, NoHiddenPath, HeldNotesOnLiveEdges, FilteredEdges, NoEdges, NoNotes
<1>. QED BY <1>1, <1>2, <1>3 DEF IInv

\* Every handler, callback and kernel event keeps the invariant.
LEMMA StepInvariant ==
  ASSUME IInv, [Next]_vars
  PROVE  IInv' /\ SilentStep
<1>1. TypeOK'
  BY StepType DEF IInv
<1>2. ClientsApart' /\ LeavingTruth'
  BY StepClients DEF IInv
<1>3. Paths' /\ SilentStep
  BY StepPaths DEF IInv, Paths
<1>. QED BY <1>1, <1>2, <1>3 DEF IInv, Paths

\* In every execution, whatever is plugged, edited and played, the engine is
\* in a state of the inductive invariant.
THEOREM Invariant == Spec => []IInv
<1>1. Init => IInv
  BY InitInvariant
<1>2. IInv /\ [Next]_vars => IInv'
  BY StepInvariant
<1>. QED BY <1>1, <1>2, PTL DEF Spec

\* Every variable always has a value of the shape the code gives it.
THEOREM TypeCorrect == Spec => []TypeOK
<1>1. IInv => TypeOK
  BY DEF IInv
<1>. QED BY <1>1, Invariant, PTL

\* No subscription and no filter is ever left on an edge that the matrix does
\* not show, whichever handler, rescan or plugin callback took the edge away.
THEOREM HiddenPaths == Spec => []NoHiddenPath
<1>1. IInv => NoHiddenPath
  BY DEF IInv
<1>. QED BY <1>1, Invariant, PTL

\* A note is never tracked on an edge that is gone, so every teardown finds
\* what it has to release.
THEOREM HeldNotes == Spec => []HeldNotesOnLiveEdges
<1>1. IInv => HeldNotesOnLiveEdges
  BY DEF IInv
<1>. QED BY <1>1, Invariant, PTL

\* Whatever takes an edge out of the matrix, the notes tracked on it no longer
\* sound on a destination that is still there.
THEOREM Silenced == Spec => TeardownSilences
<1>1. IInv /\ [Next]_vars => [SilentStep]_vars
  BY StepInvariant
<1>. QED BY <1>1, Invariant, PTL DEF Spec, TeardownSilences, SilentStep

=============================================================================
