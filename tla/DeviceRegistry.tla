--------------------------- MODULE DeviceRegistry ---------------------------
(***************************************************************************)
(* Which saved identity each USB device is given: DeviceRegistry           *)
(* (device_id.py), fed by MidiEngine.scan_devices with the identities the  *)
(* configuration names, and the operations of the configuration that reach *)
(* it (config_routes.py, _ctx.py, api/devices.py).                         *)
(*                                                                         *)
(* The devices of the model are of one VID:PID, the case in which they can *)
(* be mistaken for one another.  A device with a usable serial is known by *)
(* it; the others are known by their port.                                 *)
(***************************************************************************)
EXTENDS Naturals, Functions

CONSTANTS Device,     \* USB devices of one model
          WithSerial, \* those with a usable serial
          UsbPort,    \* where they can be plugged in
          Document    \* the configurations there are to boot, load, restore or import

Identity == {[serial |-> d] : d \in WithSerial} \cup {[port |-> p] : p \in UsbPort}

RegistryAssumption ==
    /\ WithSerial \subseteq Device
    /\ Document \subseteq [routes : SUBSET Identity, names : SUBSET Identity]

VARIABLES plugged,    \* plugged[d]: the ports d is in, {} or one
          registered, \* registered[d]: {} or the stable_id of the last scan
          alias,      \* _alias_by_canonical: canonical -> saved identity
          present,    \* _present_canonicals: those of the last scan
          routes,     \* identities in config.connections
          names,      \* identities in config device_names, or in its disabled cells
          custom,     \* _custom_names of the registry
          wired,      \* the devices with live connections
          settled     \* since the last scan nothing was plugged or loaded, and the
                      \* configuration has come to name no device it did not know,
                      \* nor dropped one

registryVars == <<plugged, registered, alias, present, routes, names, custom,
                  wired, settled>>

Online == {d \in Device : plugged[d] # {}}
Legacy(d) == [port |-> CHOOSE p \in UsbPort : p \in plugged[d]]
Canonical(d) == IF d \in WithSerial THEN [serial |-> d] ELSE Legacy(d)

\* _referenced_stable_ids.
Referenced == routes \cup names
----------------------------------------------------------------------------
(* _resolve_usb_identities *)

\* Pass 1: the device's own identity, or its port, is in the configuration.
Exact == {d \in Online : Canonical(d) \in Referenced}
ByPort == {d \in Online \ Exact : d \in WithSerial /\ Legacy(d) \in Referenced}
Claimed == {Canonical(d) : d \in Exact} \cup {Legacy(d) : d \in ByPort}

\* An alias holds although another device turns up with its identity.
Kept_NotDisproved ==
    LET ofPort == {Canonical(d) : d \in ByPort}
    IN  [c \in {e \in DOMAIN alias : alias[e] \in Referenced} \cup ofPort |->
           IF c \in ofPort THEN Legacy(CHOOSE d \in ByPort : Canonical(d) = c)
                           ELSE alias[c]]

\* The aliases whose device is here and whose identity is still referenced,
\* those of pass 1 first, the ones another device has disproved removed.
Kept ==
    LET here == {Canonical(d) : d \in Online}
        old  == {c \in DOMAIN alias \cap here : alias[c] \in Referenced \ Claimed}
        ofExact == {Canonical(d) : d \in Exact}
        ofPort  == {Canonical(d) : d \in ByPort}
    IN  [c \in (old \ ofExact) \cup ofPort |->
           IF c \in ofPort THEN Legacy(CHOOSE d \in ByPort : Canonical(d) = c)
                           ELSE alias[c]]

\* Aliases last for one scan only.
Evident_Forgets(d) == IF d \in ByPort THEN Legacy(d) ELSE Canonical(d)

\* Pass 2: the rest go by their alias, or by their own identity.
Evident(d) == IF Canonical(d) \in DOMAIN Kept THEN Kept[Canonical(d)]
                                              ELSE Canonical(d)

\* Pass 3: one identity missing, one newcomer without any: they are the same.
Missing == Referenced \ {Evident(d) : d \in Online}
Newcomers == {d \in Online : /\ Evident(d) = Canonical(d)
                             /\ {Canonical(d), Legacy(d)} \cap Referenced = {}
                             /\ Canonical(d) \notin DOMAIN Kept
                             /\ Canonical(d) \notin present}
Single(S) == \E x \in S : S = {x}
Recognised == IF Single(Missing) /\ Single(Newcomers) THEN Newcomers ELSE {}

IdentityOf(d) == IF d \in Recognised THEN CHOOSE id \in Missing : TRUE
                                     ELSE Evident(d)

\* scan_devices.
Scans ==
    /\ registered' = [d \in Device |-> IF d \in Online THEN {IdentityOf(d)} ELSE {}]
    /\ alias' = [c \in DOMAIN Kept \cup {Canonical(d) : d \in Recognised} |->
                   IF c \in DOMAIN Kept THEN Kept[c]
                   ELSE CHOOSE id \in Missing : TRUE]
    /\ present' = {Canonical(d) : d \in Online}
    /\ settled' = TRUE

\* At boot all that device_names names is a custom name.
RegistryInit == /\ plugged \in {f \in [Device -> SUBSET UsbPort] :
                                  /\ \A d \in Device : \A p, q \in f[d] : p = q
                                  /\ \A d, e \in Device : d = e \/ f[d] \cap f[e] = {}}
                /\ registered = [d \in Device |-> {}]
                /\ alias = [c \in {} |-> {}]
                /\ present = {}
                /\ \E doc \in Document : routes = doc.routes /\ names = doc.names
                /\ custom = names /\ wired = {} /\ settled = FALSE
----------------------------------------------------------------------------
(* Hot-plugging, seen at the next scan *)

Plug(d) == /\ plugged[d] = {}
           /\ \E p \in UsbPort \ UNION {plugged[e] : e \in Device} :
                 plugged' = [plugged EXCEPT ![d] = {p}]
           /\ settled' = FALSE
           /\ UNCHANGED <<registered, alias, present, routes, names, custom, wired>>

Unplug(d) == /\ plugged[d] # {}
             /\ plugged' = [plugged EXCEPT ![d] = {}]
             /\ wired' = wired \ {d}
             /\ settled' = FALSE
             /\ UNCHANGED <<registered, alias, present, routes, names, custom>>

\* A list of the devices is asked for: the registry scans, the edges stay.
Refresh == Scans /\ UNCHANGED <<plugged, routes, names, custom, wired>>

\* The debounced rescan: the live edges are put down by the identities of before the
\* scan and looked up after it.  Edges of a device that was away come back, from the
\* configuration or from before it left (which of them is the engine's).
Rescan ==
    LET live == UNION {registered[d] : d \in wired}
        away == IF settled THEN {} ELSE UNION {registered[d] : d \in Device}
        Found(ids) == {d \in Online : IdentityOf(d) \in ids}
    IN  /\ Scans
        /\ \E back \in SUBSET Found((routes \cup away) \ live) : wired' = Found(live) \cup back
        /\ UNCHANGED <<plugged, routes, names, custom>>

(* The configuration *)

\* A device the registry knows: it is here, or was at the last scan.
Known(d) == registered[d] # {}

\* A device that has no connection is given one.
Connect(d) == /\ Known(d) /\ d \in Online \ wired
              /\ wired' = wired \cup {d}
              /\ UNCHANGED <<plugged, registered, alias, present, routes, names,
                             custom, settled>>

\* Its last connection is removed.
Disconnect(d) == /\ d \in wired
                 /\ wired' = wired \ {d}
                 /\ UNCHANGED <<plugged, registered, alias, present, routes,
                                names, custom, settled>>

\* _snapshot_impl: what is live, by the identities of the registry, and every custom
\* name, whether its device is here or not.
Snapshot(ids, customs) ==
    /\ routes' = UNION {ids[d] : d \in wired}
    /\ names' = customs \cup UNION {ids[d] : d \in Device}

Autosave == /\ Snapshot(registered, custom)
            /\ settled' = (settled /\ custom \subseteq Referenced)
            /\ UNCHANGED <<plugged, registered, alias, present, custom, wired>>

\* commit_aliases: every aliased device takes its own identity, and its custom name.
Committed == LET own(d) == {c \in DOMAIN alias : alias[c] \in registered[d]}
             IN  [d \in Device |-> IF own(d) # {} THEN own(d) ELSE registered[d]]
CommittedNames == LET moved == {c \in DOMAIN alias : alias[c] \in custom}
                  IN  (custom \ {alias[c] : c \in moved}) \cup moved

Save == /\ registered' = Committed /\ custom' = CommittedNames
        /\ alias' = [c \in {} |-> {}]
        /\ Snapshot(Committed, CommittedNames)
        /\ UNCHANGED <<plugged, present, wired, settled>>

\* A device is given a name: device_names holds the custom names from now on, and only
\* what the disabled cells name is kept beside them.
Rename(d) == /\ Known(d)
             /\ custom' = custom \cup registered[d]
             /\ UNCHANGED <<plugged, registered, alias, present, routes, wired>>
             /\ \E cells \in SUBSET (names \ custom') : names' = custom' \cup cells
             /\ settled' = (settled /\ custom \subseteq Referenced /\ Referenced \subseteq Referenced')

\* Load, restore and import: a document of any age, and every device counts as newly
\* appeared; the scan follows in the same handler (Rescan, before anything is settled),
\* then a forced Autosave.  Only import replaces the custom names, by what names the
\* document has.
Load(doc, import) ==
        /\ routes' = doc.routes /\ names' = doc.names
        /\ custom' = IF import /\ doc.names # {} THEN doc.names ELSE custom
        /\ present' = {} /\ wired' = {} /\ settled' = FALSE
        /\ UNCHANGED <<plugged, registered, alias>>

\* DELETE of a saved device that is offline; its custom name stays in the registry.
Forget(id) == /\ id \in Referenced \ UNION {registered[d] : d \in Device}
              /\ routes' = routes \ {id} /\ names' = names \ {id}
              /\ settled' = FALSE
              /\ UNCHANGED <<plugged, registered, alias, present, custom, wired>>

RegistryNext == \/ \E d \in Device : \/ Plug(d) \/ Unplug(d) \/ Rename(d)
                                    \/ Connect(d) \/ Disconnect(d)
                \/ \E id \in Identity : Forget(id)
                \/ \E doc \in Document, import \in BOOLEAN : Load(doc, import)
                \/ Refresh \/ Rescan \/ Autosave \/ Save

RegistrySpec == RegistryInit /\ [][RegistryNext]_registryVars
----------------------------------------------------------------------------
RegistryTypeOK ==
    /\ plugged \in [Device -> SUBSET UsbPort]
    /\ registered \in [Device -> SUBSET Identity]
    /\ DOMAIN alias \cup present \cup routes \cup names \cup custom \subseteq Identity
    /\ IsInjective(alias)
    /\ \A d, e \in Device : d # e => registered[d] \cap registered[e] = {}
    /\ wired \subseteq Device /\ settled \in BOOLEAN

(* A device keeps its identity and its edges while it stays: while nothing *)
(* is plugged or loaded, and the configuration names the devices it named  *)
(* at the last scan and those that are here, a rescan (the engine rescans  *)
(* at the events of any client), an autosave, a rename or a Save that      *)
(* moves re-recognised devices to their own identities leaves every device *)
(* known to the configuration and every device of the saved routes found   *)
(* by them, and no rescan takes a live edge away.                          *)
IdentityStep ==
    settled /\ settled' =>
        /\ \A d \in Online :
              /\ (registered[d] \subseteq Referenced) => (registered'[d] \subseteq Referenced')
              /\ (d \in wired \cap wired' /\ registered[d] \subseteq routes)
                   => (registered'[d] \subseteq routes')
        /\ Rescan => wired \subseteq wired'
KeepsIdentity == [][IdentityStep]_registryVars
=============================================================================
