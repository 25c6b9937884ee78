----------------------------- MODULE RoutingProofs -----------------------------
(* More of the routing engine: what a rescan gives back, in every          *)
(* instance; and, for the hub without plugin instances, that an edge has   *)
(* one path, that a drawn edge has a working one, that every source is     *)
(* monitored, and that no port is lost.                                    *)
EXTENDS MidiEngineProofs

-----------------------------------------------------------------------------
(* Names.  The registry calls a client by a stable id and finds it again.  *)

\* A stable id names one client, and a name that is a stable id was registered.
LEMMA NameBack ==
  ASSUME NEW r \in [Sid -> Client \cup {NoClient}], NEW c \in Client, NameOf(r, c) \in Sid
  PROVE  r[NameOf(r, c)] = c
<1>1. c \in Clients(r)
  BY SidAssumption DEF NameOf
<1>2. \E s \in Sid : r[s] = c
  BY <1>1 DEF Clients, Registered
<1>. QED BY <1>1, <1>2 DEF NameOf

\* Two edges whose names are the same stable ids are the same edge.
LEMMA NamesDiffer ==
  ASSUME NEW r \in [Sid -> Client \cup {NoClient}], NEW e \in Edge, NEW f \in Edge,
         NameEdge(r, e) = NameEdge(r, f), NameEdge(r, e) \in Sid \X Sid
  PROVE  e = f
<1>1. /\ NameOf(r, e[1]) = NameOf(r, f[1]) /\ NameOf(r, e[1]) \in Sid
      /\ NameOf(r, e[2]) = NameOf(r, f[2]) /\ NameOf(r, e[2]) \in Sid
  BY DEF NameEdge
<1>2. e[1] \in Client /\ e[2] \in Client /\ f[1] \in Client /\ f[2] \in Client
  BY DEF Edge
<1>3. e[1] = f[1] /\ e[2] = f[2]
  BY <1>1, <1>2, NameBack
<1>. QED BY <1>3 DEF Edge

\* The live edges have one entry each in a snapshot, if stable ids name them all.
LEMMA SnapshotKeyed ==
  ASSUME TypeOK, NEW x \in SnapshotEntries, NEW y \in SnapshotEntries,
         HasSids(x), x.ends = y.ends
  PROVE  x = y
<1>1. PICK e \in connections : x = Entry(NameEdge(reg, e), SettingOf(e))
  BY DEF SnapshotEntries
<1>2. PICK f \in connections : y = Entry(NameEdge(reg, f), SettingOf(f))
  BY DEF SnapshotEntries
<1>3. NameEdge(reg, e) = NameEdge(reg, f) /\ NameEdge(reg, e) \in Sid \X Sid
  BY <1>1, <1>2 DEF Entry, HasSids
<1>4. e = f
  BY <1>3, NamesDiffer DEF TypeOK
<1>. QED BY <1>1, <1>2, <1>4

\* A scan finds each client under one stable id, so two names do not meet.
LEMMA ScanApart ==
  ASSUME TypeOK, ClientsApart, NEW k \in Sid \X Sid, NEW l \in Sid \X Sid,
         LocateEdge(Scan, k) = LocateEdge(Scan, l), LocateEdge(Scan, k) \in Edge
  PROVE  k = l
<1>1. ASSUME NEW s \in Sid, NEW t \in Sid, Locate(Scan, s) = Locate(Scan, t),
             Locate(Scan, s) \in Client
      PROVE  s = t
  <2>1. Scan[s] = Scan[t] /\ Scan[s] # NoClient
    BY <1>1, SidAssumption DEF Locate
  <2>2. client[s] = client[t] /\ client[s] # NoClient
    BY <2>1, ScanType
  <2>. QED BY <2>2 DEF ClientsApart
<1>2. /\ Locate(Scan, k[1]) = Locate(Scan, l[1]) /\ Locate(Scan, k[1]) \in Client
      /\ Locate(Scan, k[2]) = Locate(Scan, l[2]) /\ Locate(Scan, k[2]) \in Client
  BY DEF LocateEdge, Edge
<1>3. k[1] = l[1] /\ k[2] = l[2]
  BY <1>1, <1>2
<1>. QED BY <1>3

-----------------------------------------------------------------------------
(* What a rescan gives back.                                               *)

\* One step of RescanKeepsRouting.
RestoreStep ==
  RescanRestore /\ (\A x \in SnapshotEntries : HasSids(x)) =>
    \A x \in SnapshotEntries :
      LET there == LocateEdge(reg', x.ends)
      IN  there \in Edge =>
            /\ there \in connections'
            /\ filtered'[there] = IF NeedsUserspace(x.setting) THEN x.setting ELSE Off

\* The only entry that a walk finds for an edge of the snapshot is the
\* snapshot's own: merged entries have other names, and names do not meet.
LEMMA OneEntry ==
  ASSUME TypeOK, ClientsApart, LiveState, NEW x \in SnapshotEntries,
         \A y \in SnapshotEntries : HasSids(y), LocateEdge(Scan, x.ends) \in Edge
  PROVE  SettingsAt(Scan, Entries(Scan), LocateEdge(Scan, x.ends)) = {x.setting}
<1>. DEFINE there == LocateEdge(Scan, x.ends)
<1>1. Entries(Scan) = SnapshotEntries \cup MergedEntries(Scan)
  BY DEF Entries
<1>2. ASSUME NEW y \in Entries(Scan), LocateEdge(Scan, y.ends) = there
      PROVE  y = x
  <2>1. HasSids(y) /\ HasSids(x)
    BY <1>1 DEF MergedEntries
  <2>2. y.ends = x.ends
    BY <1>2, <2>1, ScanApart DEF HasSids
  <2>3. y \in SnapshotEntries
    BY <1>1, <2>2 DEF MergedEntries, Keys
  <2>. QED BY <2>1, <2>2, <2>3, SnapshotKeyed
<1>3. x \in Entries(Scan)
  BY <1>1
<1>. QED BY <1>2, <1>3 DEF SettingsAt

\* What the snapshot holds of an edge that is found again comes back.
LEMMA RestoreKeeps ==
  ASSUME TypeOK, ClientsApart
  PROVE  RestoreStep
<1>. DEFINE X == Entries(Scan)
<1>1. SUFFICES ASSUME RescanRestore, \A y \in SnapshotEntries : HasSids(y),
                      NEW x \in SnapshotEntries, LocateEdge(reg', x.ends) \in Edge
               PROVE  /\ LocateEdge(reg', x.ends) \in connections'
                      /\ filtered'[LocateEdge(reg', x.ends)] =
                           IF NeedsUserspace(x.setting) THEN x.setting ELSE Off
  BY DEF RestoreStep
<1>. DEFINE there == LocateEdge(Scan, x.ends)
<1>2. reg' = Scan /\ there \in Edge /\ LiveState
  BY <1>1 DEF RescanRestore, StartRescan, SnapshotEntries, LiveState
<1>3. SettingsAt(Scan, X, there) = {x.setting}
  BY <1>1, <1>2, OneEntry
<1>4. there \in EdgesOf(Scan, X)
  BY <1>2 DEF EdgesOf, Entries, Keys
<1>5. /\ connections' = EdgesOf(Scan, X) \cup (DefaultEdges(Scan, X) \ EdgesOf(Scan, X))
      /\ InstallFilters(Scan, X, RoutedEdges(Scan, X))
  BY <1>1 DEF RescanRestore
<1>6. there \in RoutedEdges(Scan, X) <=> NeedsUserspace(x.setting)
  BY <1>3, <1>4 DEF RoutedEdges
<1>. HIDE DEF X
<1>7. filtered'[there] = IF NeedsUserspace(x.setting) THEN x.setting ELSE Off
  <2>1. CASE there \in RoutedEdges(Scan, X)
    <3>1. filtered'[there] \in SettingsAt(Scan, X, there)
      BY <1>2, <1>5, <2>1 DEF InstallFilters
    <3>. QED BY <1>3, <1>6, <2>1, <3>1
  <2>2. CASE there \notin RoutedEdges(Scan, X)
    BY <1>2, <1>5, <1>6, <2>2 DEF InstallFilters
  <2>. QED BY <2>1, <2>2
<1>. QED BY <1>2, <1>4, <1>5, <1>7

\* A rescan keeps every edge between devices that are still there, with its
\* filter and its mappings, under whatever client numbers they have by then.
THEOREM RoutingKept == Spec => RescanKeepsRouting
<1>1. IInv /\ [Next]_vars => [RestoreStep]_vars
  BY RestoreKeeps DEF IInv
<1>. QED BY <1>1, Invariant, PTL DEF Spec, RescanKeepsRouting, RestoreStep

-----------------------------------------------------------------------------
(* One path per edge, for a hub without plugin instances whose browsers    *)
(* act on the matrix as it is.  A rescan could add the kernel path next to *)
(* a filter only where two entries land on one edge; the first two parts   *)
(* of the invariant say why none do.  With plugins the second part fails:  *)
(* PluginRefresh renews the device list and keeps the edges.               *)

\* The configuration has one entry per edge and names its ends by stable ids.
SavedKeyed ==
  /\ \A x \in saved : HasSids(x)
  /\ \A x, y \in saved : x.ends = y.ends => x = y

\* The registry knows both ends of every live edge.
ListedEdge(e) == e[1] \in Clients(reg) /\ e[2] \in Clients(reg)
EdgesListed   == \A e \in connections : ListedEdge(e)

PathInv == SavedKeyed /\ EdgesListed /\ OnePath

\* A snapshot then names its edges by stable ids.
LEMMA SnapshotSids ==
  ASSUME TypeOK, EdgesListed
  PROVE  \A x \in SnapshotEntries : HasSids(x)
<1>1. SUFFICES ASSUME NEW e \in connections
               PROVE  NameEdge(reg, e) \in Sid \X Sid
  BY DEF SnapshotEntries, Entry, HasSids
<1>2. ASSUME NEW c \in Clients(reg) PROVE NameOf(reg, c) \in Sid
  <2>1. \E s \in Sid : reg[s] = c
    BY <1>2 DEF Clients, Registered
  <2>. QED BY <1>2, <2>1 DEF NameOf
<1>. QED BY <1>1, <1>2 DEF EdgesListed, ListedEdge, NameEdge

\* So a walk has one entry per name, and no edge gets two of them.
LEMMA NoDoubles ==
  ASSUME TypeOK, ClientsApart, SavedKeyed, EdgesListed
  PROVE  Doubled(Scan, Entries(Scan)) = {}
<1>1. ASSUME NEW x \in Entries(Scan), NEW y \in Entries(Scan), x.ends = y.ends
      PROVE  x = y
  <2>1. CASE ~LiveState
    BY <1>1, <2>1 DEF Entries, SavedKeyed
  <2>2. CASE LiveState
    <3>1. Entries(Scan) = SnapshotEntries \cup MergedEntries(Scan)
      BY <2>2 DEF Entries
    <3>2. CASE x \in SnapshotEntries
      <4>1. y \in SnapshotEntries
        BY <1>1, <3>1, <3>2 DEF MergedEntries, Keys
      <4>. QED BY <1>1, <3>2, <4>1, SnapshotSids, SnapshotKeyed
    <3>3. CASE x \notin SnapshotEntries
      <4>1. x \in saved /\ x.ends \notin Keys(SnapshotEntries)
        BY <3>1, <3>3 DEF MergedEntries
      <4>2. y \in saved
        BY <1>1, <3>1, <4>1 DEF MergedEntries, Keys
      <4>. QED BY <1>1, <4>1, <4>2 DEF SavedKeyed
    <3>. QED BY <3>2, <3>3
  <2>. QED BY <2>1, <2>2
<1>2. ASSUME NEW x \in Entries(Scan) PROVE x.ends \in Sid \X Sid
  BY <1>2, SnapshotSids DEF Entries, MergedEntries, HasSids, SavedKeyed
<1>3. ASSUME NEW e \in Edge, NEW x \in Entries(Scan), NEW y \in Entries(Scan),
             LocateEdge(Scan, x.ends) = e, LocateEdge(Scan, y.ends) = e
      PROVE  x = y
  BY <1>1, <1>2, <1>3, ScanApart
<1>4. SUFFICES ASSUME NEW e \in Doubled(Scan, Entries(Scan)) PROVE FALSE
  OBVIOUS
<1>5. PICK s \in SettingsAt(Scan, Entries(Scan), e) : NeedsUserspace(s)
  BY <1>4 DEF Doubled, RoutedEdges
<1>6. PICK t \in SettingsAt(Scan, Entries(Scan), e) : ~NeedsUserspace(t)
  BY <1>4 DEF Doubled
<1>7. e \in Edge
  BY <1>4 DEF Doubled, RoutedEdges, EdgesOf
<1>8. s = t
  BY <1>3, <1>7 DEF SettingsAt
<1>. QED BY <1>5, <1>6, <1>8

\* Whatever a rescan lands on, its device list has both ends of.
LEMMA ScanListed ==
  ASSUME TypeOK, NEW X, reg' = Scan
  PROVE  /\ \A e \in EdgesOf(Scan, X) : ListedEdge(e)'
         /\ \A e \in DefaultEdges(Scan, X) : ListedEdge(e)'
         /\ \A e \in Cells(Scan) : ListedEdge(e)'
<1>1. Pairs(Device \cap Registered(Scan)) \subseteq Pairs(Registered(Scan))
  BY DEF Pairs
<1>. QED BY <1>1, ScanType, LocatedListed, CellsListed
         DEF EdgesOf, DefaultEdges, Cells, ListedEdge

\* The rescans.
LEMMA RescanOnePath ==
  ASSUME TypeOK, ClientsApart, NoHiddenPath, PathInv,
         Rescan \/ \E d \in Device : RescanLosesDevice(d)
  PROVE  PathInv'
<1>. DEFINE X == Entries(Scan)
<1>1. /\ subs \ connections = {}
      /\ EdgesOf(Scan, X) \subseteq Edge
      /\ RoutedEdges(Scan, X) \subseteq EdgesOf(Scan, X)
      /\ Doubled(Scan, X) = {}
  BY NoDoubles DEF NoHiddenPath, EdgesOf, RoutedEdges, PathInv
<1>2. ASSUME NEW E, E \subseteq Edge, InstallFilters(Scan, X, E)
      PROVE  FilteredEdges' \subseteq E
  BY <1>2, InstallType DEF FilteredEdges
<1>3. saved' = saved /\ reg' = Scan
  BY DEF Rescan, RescanRestore, RescanDefault, RescanOutOfPorts, RescanLosesDevice,
         WalkStopsAt, StartRescan, config
<1>4. SavedKeyed'
  BY <1>3 DEF SavedKeyed, PathInv, HasSids
<1>5. /\ \A e \in EdgesOf(Scan, X) : ListedEdge(e)'
      /\ \A e \in DefaultEdges(Scan, X) : ListedEdge(e)'
      /\ \A e \in Cells(Scan) : ListedEdge(e)'
  BY <1>3, ScanListed
<1>. HIDE DEF X
<1>6. ASSUME RescanRestore PROVE EdgesListed' /\ OnePath'
  <2>1. /\ connections' = EdgesOf(Scan, X) \cup (DefaultEdges(Scan, X) \ EdgesOf(Scan, X))
        /\ InstallFilters(Scan, X, RoutedEdges(Scan, X))
        /\ subs' = (EdgesOf(Scan, X) \ RoutedEdges(Scan, X))
                     \cup (DefaultEdges(Scan, X) \ EdgesOf(Scan, X))
    BY <1>1, <1>6 DEF RescanRestore, X
  <2>2. FilteredEdges' \subseteq RoutedEdges(Scan, X)
    BY <1>1, <1>2, <2>1
  <2>. QED BY <1>1, <1>5, <2>1, <2>2 DEF EdgesListed, OnePath
<1>7. ASSUME RescanDefault PROVE EdgesListed' /\ OnePath'
  <2>1. connections' \subseteq Cells(Scan) /\ filtered' = NoEdges
    BY <1>7 DEF RescanDefault
  <2>2. FilteredEdges' = {}
    BY <2>1 DEF FilteredEdges, NoEdges
  <2>. QED BY <1>5, <2>1, <2>2 DEF EdgesListed, OnePath
<1>8. ASSUME RescanOutOfPorts \/ \E d \in Device : RescanLosesDevice(d)
      PROVE  EdgesListed' /\ OnePath'
  <2>1. PICK done \in SUBSET EdgesOf(Scan, X) :
          LET routed == RoutedEdges(Scan, X) \cap done
          IN  /\ connections' = done
              /\ InstallFilters(Scan, X, routed)
              /\ subs' \subseteq (subs \ connections) \cup (done \ routed)
    BY <1>8 DEF RescanOutOfPorts, RescanLosesDevice, WalkStopsAt, Without, X
  <2>2. RoutedEdges(Scan, X) \cap done \subseteq Edge
    BY <1>1
  <2>3. FilteredEdges' \subseteq RoutedEdges(Scan, X) \cap done
    BY <1>2, <2>1, <2>2
  <2>. QED BY <1>1, <1>5, <2>1, <2>3 DEF EdgesListed, OnePath
<1>. QED BY <1>4, <1>6, <1>7, <1>8 DEF PathInv, Rescan

\* The edits of one cell.
LEMMA EditOnePath ==
  ASSUME TypeOK, NoHiddenPath, PathInv, StaleClients = FALSE, NEW e \in Cells(reg),
         \/ Create(e) \/ Delete(e)
         \/ \E f \in Filter : Patch(e, f)
         \/ \E m \in Mapping : AddMapping(e, m) \/ RemoveMapping(e, m)
  PROVE  PathInv'
<1>1. e \in Edge /\ ListedEdge(e)
  <2>1. PICK p \in Pairs(Registered(reg)) : e = LocateEdge(reg, p)
    BY DEF Cells
  <2>2. e \in Edge
    BY <2>1, CellsListed DEF TypeOK
  <2>. QED BY <2>1, <2>2, LocatedListed DEF TypeOK, ListedEdge
<1>2. UNCHANGED <<saved, reg>> /\ connections' \subseteq connections \cup {e}
  BY DEF Create, Delete, Patch, AddMapping, RemoveMapping, view
<1>3. SavedKeyed' /\ EdgesListed'
  BY <1>1, <1>2 DEF SavedKeyed, EdgesListed, ListedEdge, PathInv, HasSids
<1>4. \A d \in Edge \ {e} : filtered'[d] = filtered[d]
  BY DEF Create, Delete, Patch, AddMapping, RemoveMapping, AddFilter, FailFilter,
         RemoveFilter, TypeOK
<1>5. subs' \subseteq subs \cup {e} /\ FilteredEdges' \subseteq FilteredEdges \cup {e}
  BY <1>4 DEF Create, Delete, Patch, AddMapping, RemoveMapping, FilteredEdges
<1>6. e \notin subs' \/ e \notin FilteredEdges'
  <2>1. CASE Create(e)
    BY <2>1, <1>1 DEF Create, AddFilter, FailFilter, NoHiddenPath, FilteredEdges, TypeOK
  <2>2. CASE Delete(e)
    BY <2>2 DEF Delete
  <2>3. ASSUME NEW f \in Filter, Patch(e, f) PROVE e \notin subs' \/ e \notin FilteredEdges'
    BY <2>3, <1>1 DEF Patch, AddFilter, FailFilter, RemoveFilter, PathInv, OnePath,
       FilteredEdges, TypeOK
  <2>4. ASSUME NEW m \in Mapping, AddMapping(e, m) \/ RemoveMapping(e, m)
        PROVE  e \notin subs' \/ e \notin FilteredEdges'
    BY <2>4, <1>1 DEF AddMapping, RemoveMapping, AddFilter, FailFilter, RemoveFilter,
       PathInv, OnePath, FilteredEdges, TypeOK, SettingOf, Plain
  <2>. QED BY <2>1, <2>2, <2>3, <2>4
<1>. QED BY <1>3, <1>5, <1>6 DEF PathInv, OnePath

\* The edits of the whole matrix, and of the configuration.
LEMMA MatrixOnePath ==
  ASSUME TypeOK, PathInv, Plugin = {},
         \/ DeleteAll \/ ConnectAll \/ OfflineSaved \/ Snapshot
         \/ \E k \in Pairs(Sid) : OfflineCreate(k) \/ OfflineDelete(k)
  PROVE  PathInv'
<1>. USE DEF PathInv, SavedKeyed, EdgesListed, OnePath
<1>1. ASSUME DeleteAll \/ ConnectAll PROVE PathInv'
  <2>1. /\ saved' = saved /\ FilteredEdges' = {}
        /\ \/ connections' = {}
           \/ connections' = Cells(Scan) /\ reg' = Scan
    BY <1>1 DEF DeleteAll, ConnectAll, Dismantle, NoEdges, FilteredEdges
  <2>2. EdgesListed'
    BY <2>1, ScanListed
  <2>. QED BY <2>1, <2>2 DEF HasSids
<1>2. ASSUME UNCHANGED <<reg, connections, subs, filtered>> PROVE EdgesListed' /\ OnePath'
  BY <1>2 DEF ListedEdge, FilteredEdges
<1>3. ASSUME OfflineSaved \/ Snapshot PROVE PathInv'
  <2>1. saved' \in {saved, SnapshotEntries} /\ UNCHANGED <<reg, connections, subs, filtered>>
    BY <1>3 DEF OfflineSaved, Snapshot, kernel, view, routing
  <2>2. \A x \in SnapshotEntries : HasSids(x)
    BY SnapshotSids
  <2>3. SavedKeyed'
    BY <2>1, <2>2, SnapshotKeyed DEF HasSids
  <2>. QED BY <1>2, <2>1, <2>3
<1>4. ASSUME NEW k \in Pairs(Sid), OfflineCreate(k) \/ OfflineDelete(k) PROVE PathInv'
  <2>1. k \in Sid \X Sid
    BY SidAssumption DEF Pairs
  <2>2. /\ \/ saved' \subseteq saved
           \/ k \notin Keys(saved) /\ saved' = saved \cup {Entry(k, Plain)}
        /\ UNCHANGED <<reg, connections, subs, filtered>>
    BY <1>4 DEF OfflineCreate, OfflineDelete, Drop, kernel, view, routing
  <2>3. SavedKeyed'
    BY <2>1, <2>2 DEF HasSids, Entry, Keys
  <2>. QED BY <1>2, <2>2, <2>3
<1>. QED BY <1>1, <1>3, <1>4

\* No step gives an edge a second path.
LEMMA StepOnePath ==
  ASSUME TypeOK, ClientsApart, NoHiddenPath, PathInv, [Next]_vars,
         Plugin = {}, StaleClients = FALSE
  PROVE  PathInv'
<1>1. ASSUME UNCHANGED <<saved, reg, connections>>, subs' \subseteq subs,
             UNCHANGED filtered
      PROVE  PathInv'
  BY <1>1 DEF PathInv, SavedKeyed, EdgesListed, OnePath, ListedEdge, FilteredEdges, HasSids
<1>2. ASSUME NEW d \in Device, Plug(d) \/ Unplug(d) PROVE PathInv'
  BY <1>1, <1>2 DEF Plug, Unplug, Arrive, Depart, Without, view, routing, config
<1>3. CASE HandleAnnouncements
  BY <1>1, <1>3 DEF HandleAnnouncements, routing, config
<1>4. CASE Play
  BY <1>1, <1>4 DEF Play, KeyDown, KeyUp, Drain, Panic, kernel, view, routing, config
<1>5. CASE UNCHANGED vars
  BY <1>1, <1>5 DEF vars, kernel, view, routing, config
<1>6. ~PluginLife
  BY DEF PluginLife, PluginRefresh
<1>. QED BY <1>2, <1>3, <1>4, <1>5, <1>6, SidAssumption, RescanOnePath, EditOnePath,
            MatrixOnePath
         DEF Next, Hotplug, EditRouting

\* No edge is carried by the kernel and by a filter at once, whatever is
\* unplugged, rescanned, edited and saved, and however long.
THEOREM SinglePath ==
  ASSUME Plugin = {}, StaleClients = FALSE
  PROVE  Spec => []OnePath
<1>1. Init => PathInv
  BY DEF Init, PathInv, SavedKeyed, EdgesListed, OnePath
<1>2. IInv /\ PathInv /\ [Next]_vars => PathInv'
  BY StepOnePath DEF IInv
<1>3. PathInv => OnePath
  BY DEF PathInv
<1>. QED BY <1>1, <1>2, <1>3, Invariant, PTL DEF Spec

-----------------------------------------------------------------------------
(* Working paths and monitored sources, for a hub without plugin instances *)
(* that has two ports to spare: PluginRemoved cancels a rescan that was    *)
(* due, and without ports a mapping takes its edge down (AddMapping) and a *)
(* walk stops before the sources are subscribed (RescanOutOfPorts).        *)

\* One more filter finds its two ports.
EnoughPorts == PortsInUse(FilteredEdges) + 2 <= MaxPorts

\* Then add_filter fails only where an end is missing.
LEMMA PortsFit ==
  ASSUME TypeOK, EnoughPorts, NEW e \in Edge, Plugged(e)
  PROVE  CanFilter(e)
<1>1. FilteredEdges \subseteq Edge /\ FilteredEdges \ {e} \subseteq FilteredEdges
  BY DEF FilteredEdges
<1>2. /\ Cardinality(FilteredEdges \ {e}) \in Nat /\ Cardinality(FilteredEdges) \in Nat
      /\ Cardinality(FilteredEdges \ {e}) <= Cardinality(FilteredEdges)
  BY <1>1, EdgesFinite, FS_Subset
<1>3. leaked \in Nat /\ MaxPorts \in Nat
  BY DataAssumption DEF TypeOK
<1>. QED BY <1>2, <1>3 DEF EnoughPorts, PortsInUse, CanFilter

\* What NoDeadEdge asks of an edge.
Carried(e) == e \in subs \/ (e \in FilteredEdges /\ e \in inlet \cap outlet)

\* The filters of a walk are on all the edges it routes.
LEMMA WalkCarries ==
  ASSUME TypeOK, NEW E, E \subseteq Edge, InstallFilters(Scan, Entries(Scan), E),
         inlet' = E, outlet' = E
  PROVE  FilteredEdges' = E /\ \A e \in E : Carried(e)'
<1>1. {x.setting : x \in {y \in Entries(Scan) : NeedsUserspace(y.setting)}} \subseteq Setting
  BY EntriesType DEF SavedEdge
<1>2. \A e \in Edge : filtered'[e] # Off <=> e \in E
  BY <1>1, DataAssumption DEF InstallFilters
<1>3. FilteredEdges' = E
  BY <1>2 DEF FilteredEdges
<1>. QED BY <1>3 DEF Carried

\* A rescan that gets to its end carries every edge it lists, and so does one
\* that runs out of ports; one that loses a device announces it.
LEMMA RescanCarries ==
  ASSUME TypeOK
  PROVE  /\ Rescan => \A e \in connections' : Carried(e)'
         /\ \A d \in Device : RescanLosesDevice(d) => announce' # {}
<1>. DEFINE X == Entries(Scan)
<1>1. RoutedEdges(Scan, X) \subseteq EdgesOf(Scan, X) /\ EdgesOf(Scan, X) \subseteq Edge
  BY DEF RoutedEdges, EdgesOf
<1>. HIDE DEF X
<1>2. ASSUME RescanRestore, NEW e \in connections' PROVE Carried(e)'
  <2>1. /\ InstallFilters(Scan, X, RoutedEdges(Scan, X))
        /\ inlet' = RoutedEdges(Scan, X) /\ outlet' = RoutedEdges(Scan, X)
        /\ e \in subs' \/ e \in RoutedEdges(Scan, X)
    BY <1>2 DEF RescanRestore, X
  <2>2. \A d \in RoutedEdges(Scan, X) : Carried(d)'
    BY <1>1, <2>1, WalkCarries DEF X
  <2>. QED BY <2>1, <2>2 DEF Carried
<1>3. ASSUME RescanDefault, NEW e \in connections' PROVE Carried(e)'
  BY <1>3 DEF RescanDefault, Carried
<1>4. ASSUME RescanOutOfPorts, NEW e \in connections' PROVE Carried(e)'
  <2>1. PICK done \in SUBSET EdgesOf(Scan, X) :
          LET routed == RoutedEdges(Scan, X) \cap done
          IN  /\ connections' = done /\ InstallFilters(Scan, X, routed)
              /\ inlet' = routed /\ outlet' = routed
              /\ done \ routed \subseteq subs'
    BY <1>4 DEF RescanOutOfPorts, WalkStopsAt, X
  <2>2. RoutedEdges(Scan, X) \cap done \subseteq Edge
    BY <1>1
  <2>3. \A d \in RoutedEdges(Scan, X) \cap done : Carried(d)'
    BY <2>1, <2>2, WalkCarries DEF X
  <2>. QED BY <2>1, <2>3 DEF Carried
<1>5. ASSUME NEW d \in Device, RescanLosesDevice(d) PROVE announce' # {}
  BY <1>5 DEF RescanLosesDevice
<1>. QED BY <1>2, <1>3, <1>4, <1>5 DEF Rescan

\* An edit of one cell leaves the other edges as they are, and this one carried.
LEMMA EditCarries ==
  ASSUME TypeOK, EnoughPorts, NEW e \in Edge,
         \/ Create(e) \/ Delete(e)
         \/ \E f \in Filter : Patch(e, f)
         \/ \E m \in Mapping : AddMapping(e, m) \/ RemoveMapping(e, m),
         NEW d \in connections', Plugged(d), d \in connections => Carried(d)
  PROVE  Carried(d)'
<1>. USE DEF Carried, FilteredEdges, AddFilter, FailFilter, RemoveFilter
<1>1. d \in Edge
  BY DEF Create, Delete, Patch, AddMapping, RemoveMapping, TypeOK
<1>2. CanFilter(d)
  BY <1>1, PortsFit
<1>3. CASE d # e
  <2>1. d \in connections
    BY <1>3 DEF Create, Delete, Patch, AddMapping, RemoveMapping
  <2>2. filtered'[d] = filtered[d] /\ (d \in subs' <=> d \in subs)
    BY <1>1, <1>3 DEF Create, Delete, Patch, AddMapping, RemoveMapping, TypeOK
  <2>3. (d \in inlet' <=> d \in inlet) /\ (d \in outlet' <=> d \in outlet)
    BY <1>1, <1>3 DEF Create, Delete, Patch, AddMapping, RemoveMapping
  <2>. QED BY <1>1, <2>1, <2>2, <2>3
<1>4. CASE d = e
  <2>1. ASSUME NEW s \in Setting, AddFilter(e, s) PROVE Carried(d)'
    BY <1>1, <1>4, <2>1, DataAssumption DEF TypeOK
  <2>2. SettingOf(e) \in Setting /\ Plain \in Setting
    BY SettingType
  <2>3. CASE Create(e)
    <3>. DEFINE s == IF disconnected[e] = Off THEN Plain ELSE disconnected[e]
    <3>1. s \in Setting
      BY <2>2 DEF TypeOK
    <3>2. d \in subs' \/ AddFilter(e, s)
      BY <1>2, <1>4, <2>3 DEF Create
    <3>. QED BY <2>1, <3>1, <3>2
  <2>4. CASE Delete(e)
    BY <1>4, <2>4 DEF Delete
  <2>5. ASSUME NEW f \in Filter, Patch(e, f) PROVE Carried(d)'
    <3>. DEFINE s == [SettingOf(e) EXCEPT !.filter = f]
    <3>1. s \in Setting
      BY <2>2 DEF Setting
    <3>2. e \in connections
      BY <2>5 DEF Patch
    <3>3. \/ AddFilter(e, s) \/ d \in subs'
          \/ UNCHANGED <<subs, filtered, inlet, outlet>>
          \/ /\ filtered[e] # Off /\ filtered' = [filtered EXCEPT ![e] = s]
             /\ UNCHANGED <<subs, inlet, outlet>>
      BY <1>2, <1>4, <2>5 DEF Patch
    <3>. QED BY <1>1, <1>4, <2>1, <3>1, <3>2, <3>3, DataAssumption DEF TypeOK
  <2>6. ASSUME NEW m \in Mapping, AddMapping(e, m) \/ RemoveMapping(e, m)
        PROVE  Carried(d)'
    <3>. DEFINE s == [SettingOf(e) EXCEPT !.maps = @ \cup {m}]
                t == [SettingOf(e) EXCEPT !.maps = @ \ {m}]
                u == [Plain EXCEPT !.maps = {m}]
    <3>1. s \in Setting /\ t \in Setting /\ u \in Setting
      BY <2>2, <2>6 DEF Setting
    <3>2. e \in connections
      BY <1>4, <2>6 DEF AddMapping, RemoveMapping
    <3>3. \/ AddFilter(e, u) \/ d \in subs'
          \/ /\ \E v \in {s, t} : filtered' = [filtered EXCEPT ![e] = v]
             /\ UNCHANGED <<subs, inlet, outlet>>
      BY <1>2, <1>4, <2>6 DEF AddMapping, RemoveMapping
    <3>. QED BY <1>1, <1>4, <2>1, <3>1, <3>2, <3>3, DataAssumption DEF TypeOK
  <2>. QED BY <2>3, <2>4, <2>5, <2>6
<1>. QED BY <1>3, <1>4

\* No step leaves a listed edge without its path.
LEMMA StepCarries ==
  ASSUME TypeOK, NoDeadEdge, EnoughPorts, [Next]_vars, Plugin = {}
  PROVE  NoDeadEdge'
<1>. USE DEF NoDeadEdge, Settled
<1>1. ASSUME announce' # {} \/ rescan' PROVE NoDeadEdge'
  BY <1>1
<1>2. ASSUME UNCHANGED <<client, announce, rescan>>,
             \A d \in connections' :
               Plugged(d) /\ (d \in connections => Carried(d)) => Carried(d)'
      PROVE  NoDeadEdge'
  BY <1>2 DEF Plugged, Live, Carried
<1>3. ASSUME UNCHANGED <<client, announce, rescan, connections, subs, filtered, inlet, outlet>>
      PROVE  NoDeadEdge'
  BY <1>2, <1>3 DEF Carried, FilteredEdges
<1>4. CASE Hotplug
  BY <1>1, <1>4, SidAssumption, RescanCarries DEF Hotplug, Plug, Unplug, Arrive, Depart
<1>5. CASE HandleAnnouncements
  BY <1>1, <1>5 DEF HandleAnnouncements, Hosted
<1>6. CASE Rescan
  BY <1>6, RescanCarries DEF Carried
<1>7. CASE EditRouting
  <2>1. ASSUME NEW e \in Cells(reg),
               \/ Create(e) \/ Delete(e)
               \/ \E f \in Filter : Patch(e, f)
               \/ \E m \in Mapping : AddMapping(e, m) \/ RemoveMapping(e, m)
        PROVE  NoDeadEdge'
    <3>1. UNCHANGED <<client, announce, rescan>>
      BY <2>1 DEF Create, Delete, Patch, AddMapping, RemoveMapping, view
    <3>2. e \in Edge
      BY CellsType DEF TypeOK
    <3>. QED BY <1>2, <2>1, <3>1, <3>2, EditCarries
  <2>2. CASE DeleteAll \/ ConnectAll
    BY <1>2, <2>2 DEF DeleteAll, ConnectAll, view, Carried
  <2>3. CASE \/ OfflineSaved \/ Snapshot
             \/ \E k \in Pairs(Sid) : OfflineCreate(k) \/ OfflineDelete(k)
    BY <1>3, <2>3 DEF OfflineSaved, Snapshot, OfflineCreate, OfflineDelete, kernel, view, routing
  <2>. QED BY <1>7, <2>1, <2>2, <2>3 DEF EditRouting
<1>8. ~PluginLife
  BY DEF PluginLife, PluginRefresh
<1>9. CASE Play
  BY <1>3, <1>9 DEF Play, KeyDown, KeyUp, Drain, Panic, kernel, view, routing
<1>10. CASE UNCHANGED vars
  BY <1>3, <1>10 DEF vars, kernel, view, routing
<1>. QED BY <1>4, <1>5, <1>6, <1>7, <1>8, <1>9, <1>10 DEF Next

\* Between bursts of hotplug every edge that is drawn connected works, whatever
\* failed on the way: failed filters, devices that left in the middle of a walk.
THEOREM LiveEdges ==
  ASSUME Plugin = {}
  PROVE  Spec /\ []EnoughPorts => []NoDeadEdge
<1>1. Init => NoDeadEdge
  BY DEF Init, NoDeadEdge
<1>2. IInv /\ NoDeadEdge /\ EnoughPorts /\ [Next]_vars => NoDeadEdge'
  BY StepCarries DEF IInv
<1>. QED BY <1>1, <1>2, Invariant, PTL DEF Spec

\* Every source that is attached is monitored, or a rescan is on its way to it.
AllMonitored ==
  Settled => \A s \in Source : client[s] \in monitored \cup {NoClient}

\* No step leaves a source unheard.
LEMMA StepMonitors ==
  ASSUME TypeOK, AllMonitored, EnoughPorts', [Next]_vars, Plugin = {}
  PROVE  AllMonitored'
<1>. USE DEF AllMonitored, Settled
<1>1. ASSUME announce' # {} \/ rescan' PROVE AllMonitored'
  BY <1>1
<1>2. ASSUME UNCHANGED <<client, announce, rescan, monitored>> PROVE AllMonitored'
  BY <1>2
<1>3. CASE Hotplug
  BY <1>1, <1>3, SidAssumption, RescanCarries DEF Hotplug, Plug, Unplug, Arrive, Depart
<1>4. CASE HandleAnnouncements
  BY <1>1, <1>4 DEF HandleAnnouncements, Hosted
<1>5. CASE RescanRestore \/ RescanDefault
  <2>1. monitored' = Monitor(Scan) /\ client' = client
    BY <1>5 DEF RescanRestore, RescanDefault
  <2>2. ASSUME NEW s \in Source, client[s] # NoClient PROVE client[s] \in Monitor(Scan)
    BY <2>2, SidAssumption DEF Monitor, Scan, Live
  <2>. QED BY <2>1, <2>2
<1>6. ~RescanOutOfPorts
  <2>1. SUFFICES ASSUME RescanOutOfPorts PROVE FALSE
    OBVIOUS
  <2>2. PICK E \in SUBSET Edge :
          /\ InstallFilters(Scan, Entries(Scan), E) /\ inlet' = E /\ outlet' = E
          /\ PortsInUse(E) + 2 > MaxPorts
          /\ leaked' = leaked + Stranded(PortsInUse(E))
    BY <2>1 DEF RescanOutOfPorts, RoutedEdges, EdgesOf
  <2>3. FilteredEdges' = E
    BY <2>2, WalkCarries
  <2>4. Cardinality(E) \in Nat /\ leaked \in Nat /\ MaxPorts \in Nat
    BY EdgesFinite, DataAssumption DEF TypeOK
  <2>5. leaked' >= leaked /\ leaked' \in Nat
    BY <2>2, <2>4 DEF Stranded
  <2>6. 2 * Cardinality(E) + leaked' + 2 <= MaxPorts
    BY <2>3 DEF EnoughPorts, PortsInUse
  <2>. QED BY <2>2, <2>4, <2>5, <2>6 DEF PortsInUse
<1>7. CASE EditRouting
  <2>1. ASSUME NEW e \in Cells(reg),
               \/ Create(e) \/ Delete(e)
               \/ \E f \in Filter : Patch(e, f)
               \/ \E m \in Mapping : AddMapping(e, m) \/ RemoveMapping(e, m)
        PROVE  AllMonitored'
    BY <1>2, <2>1 DEF Create, Delete, Patch, AddMapping, RemoveMapping, view
  <2>2. CASE DeleteAll \/ ConnectAll
    BY <1>2, <2>2 DEF DeleteAll, ConnectAll, view
  <2>3. CASE \/ OfflineSaved \/ Snapshot
             \/ \E k \in Pairs(Sid) : OfflineCreate(k) \/ OfflineDelete(k)
    BY <1>2, <2>3 DEF OfflineSaved, Snapshot, OfflineCreate, OfflineDelete, kernel, view
  <2>. QED BY <1>7, <2>1, <2>2, <2>3 DEF EditRouting
<1>8. ~PluginLife
  BY DEF PluginLife, PluginRefresh
<1>9. CASE Play
  BY <1>2, <1>9 DEF Play, KeyDown, KeyUp, Drain, Panic, kernel, view
<1>10. CASE UNCHANGED vars
  BY <1>2, <1>10 DEF vars, kernel, view
<1>. QED BY <1>3, <1>4, <1>5, <1>6, <1>7, <1>8, <1>9, <1>10 DEF Next, Rescan

\* Between bursts of hotplug the monitor port hears every source that is listed.
THEOREM SourcesHeard ==
  ASSUME Plugin = {}
  PROVE  Spec /\ []EnoughPorts => []MonitorHearsAll
<1>1. Init => AllMonitored
  BY SidAssumption DEF Init, AllMonitored
<1>2. IInv /\ AllMonitored /\ EnoughPorts' /\ [Next]_vars => AllMonitored'
  BY StepMonitors DEF IInv
<1>3. AllMonitored => MonitorHearsAll
  BY DEF AllMonitored, MonitorHearsAll
<1>. QED BY <1>1, <1>2, <1>3, Invariant, PTL DEF Spec

=============================================================================
