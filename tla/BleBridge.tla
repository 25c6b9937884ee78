----------------------------- MODULE BleBridge -----------------------------
(***************************************************************************)
(* The bridge between one BLE-MIDI peripheral and the ALSA sequencer:      *)
(* BleMidiBridge and _BleDevice (ble_midi_bridge.py), and the requests of  *)
(* the user and of the boot that reach them (BluetoothMidi, bluetooth.py). *)
(*                                                                         *)
(* Every handler runs on the one asyncio loop and gives it away at each    *)
(* await of D-Bus, so two requests for one address interleave there: a     *)
(* step below is what runs between two awaits.  An element of Dev stands   *)
(* for a _BleDevice object.  BlueZ (the link, the GATT tree, its answers)  *)
(* is nondeterministic: it may refuse, time out, and drop the link at any  *)
(* moment.                                                                 *)
(***************************************************************************)
EXTENDS Naturals, FiniteSets

CONSTANTS Dev,       \* the _BleDevice objects that may exist at once
          MaxDropped \* teardown tasks that may be waiting at once

BridgeAssumption == IsFiniteSet(Dev) /\ Dev # {} /\ MaxDropped \in Nat

VARIABLES link,     \* BlueZ: Connected
          gatt,     \* BlueZ: ServicesResolved
          bridge,   \* _bridges.get(address): {} or {the registered object}
          device,   \* device[d]: where the object d is
          client,   \* the objects whose ALSA client is open (_alsa)
          reader,   \* the objects whose _alsa_read_loop runs (_running)
          watching, \* the objects whose Connected watcher is subscribed
          dropped   \* _on_dev_dropped tasks the loop has not run yet

bridgeVars == <<link, gatt, bridge, device, client, reader, watching, dropped>>

Phase == {"unused", "agent", "check", "dial", "services", "find", "pair",
          "notify", "notified", "open", "stopping", "silencing"}

BridgeInit == /\ link \in BOOLEAN
              /\ gatt = FALSE
              /\ bridge = {}
              /\ device = [d \in Dev |-> "unused"]
              /\ client = {} /\ reader = {} /\ watching = {}
              /\ dropped = 0

To(d, phase) == device' = [device EXCEPT ![d] = phase]

\* A connect() that gives up: nothing it has made so far is registered.
Fails(d) == To(d, "unused") /\ UNCHANGED <<link, gatt>>

Ours == <<bridge, client, reader, watching, dropped>>
----------------------------------------------------------------------------
(* start_bridge: asked for by connect, by pair and by the restore at boot *)

\* Only a registered bridge is answered for; one that is still being started
\* is not seen, and a second object is made.
StartBridge(d) == /\ device[d] = "unused" /\ bridge = {}
                  /\ To(d, "agent")
                  /\ UNCHANGED <<link, gatt, Ours>>

\* _ensure_agent, whose failure is only logged.
EnsureAgent(d) == /\ device[d] = "agent"
                  /\ To(d, "check") \/ To(d, "unused")
                  /\ UNCHANGED <<link, gatt, Ours>>

\* The link is torn down for every object that watches it: each of them
\* schedules a teardown of whatever is registered when the task runs.
Tears == /\ link' = FALSE /\ gatt' = FALSE
         /\ dropped' = dropped + Cardinality(watching)
         /\ dropped' <= MaxDropped

\* Connected without services is bounced; a failed Disconnect is ignored.
CheckLink(d) ==
    /\ device[d] = "check"
    /\ \/ /\ link /\ ~gatt
          /\ Tears \/ UNCHANGED <<link, gatt, dropped>>
          /\ To(d, "dial")
       \/ /\ ~(link /\ ~gatt)
          /\ To(d, "dial")
          /\ UNCHANGED <<link, gatt, dropped>>
    /\ UNCHANGED <<bridge, client, reader, watching>>

Dial(d) == /\ device[d] = "dial"
           /\ \/ To(d, "services") /\ link' = TRUE /\ UNCHANGED gatt
              \/ ~link /\ Fails(d)
           /\ UNCHANGED Ours

\* Waits for ServicesResolved, for the loss of the link or for a minute.
AwaitServices(d) ==
    /\ device[d] = "services"
    /\ \/ gatt /\ To(d, "find") /\ UNCHANGED <<link, gatt>>
       \/ ~gatt /\ Fails(d)
    /\ UNCHANGED Ours

FindCharacteristic(d) ==
    /\ device[d] = "find"
    /\ \/ gatt /\ To(d, "pair") /\ UNCHANGED <<link, gatt>>
       \/ Fails(d)
    /\ UNCHANGED Ours

\* A refused or timed-out Pair is only logged.
Bond(d) == /\ device[d] = "pair"
           /\ To(d, "notify")
           /\ UNCHANGED <<link, gatt, Ours>>

StartNotify(d) == /\ device[d] = "notify"
                  /\ \/ link /\ To(d, "notified") /\ UNCHANGED <<link, gatt>>
                     \/ Fails(d)
                  /\ UNCHANGED Ours

\* The rest of connect() and of start_bridge has no await.
Opens(d) == /\ device[d] = "notified"
            /\ To(d, "open")
            /\ bridge' = {d}
            /\ client' = client \cup {d}
            /\ reader' = reader \cup {d}
            /\ watching' = watching \cup {d}
            /\ UNCHANGED <<link, gatt, dropped>>
----------------------------------------------------------------------------
(* stop_bridge: asked for by disconnect, by forget and by the watcher *)

Quits(d) == /\ To(d, "stopping")
            /\ reader' = reader \ {d}

\* The object stays in the dict until it is closed.
Stops_StillListed == \/ \E d \in bridge : Quits(d) /\ UNCHANGED bridge
                     \/ bridge = {} /\ UNCHANGED <<bridge, device, reader>>

Stops == \/ \E d \in bridge : Quits(d) /\ bridge' = {}
         \/ bridge = {} /\ UNCHANGED <<bridge, device, reader>>

\* disconnect and forget: the bridge first, then bluetoothctl (LinkDrops).
Disconnect == /\ bridge # {}
              /\ Stops
              /\ UNCHANGED <<link, gatt, client, watching, dropped>>

\* _on_dev_dropped stops by address, whichever object asked for it.
OnDevDropped == /\ dropped > 0
                /\ dropped' = dropped - 1
                /\ Stops
                /\ UNCHANGED <<link, gatt, client, watching>>

\* The cancelled reader has ended: the watcher goes before StopNotify.
Unwatch(d) == /\ device[d] = "stopping"
              /\ To(d, "silencing")
              /\ watching' = watching \ {d}
              /\ UNCHANGED <<link, gatt, bridge, client, reader, dropped>>

CloseClient(d) == /\ device[d] = "silencing"
                  /\ To(d, "unused")
                  /\ client' = client \ {d}
                  /\ UNCHANGED <<link, gatt, bridge, reader, watching, dropped>>
----------------------------------------------------------------------------
(* BlueZ and the peripheral *)

LinkDrops == /\ link /\ Tears
             /\ UNCHANGED <<bridge, device, client, reader, watching>>

\* A trusted peripheral, or bluetoothctl connect (pair, restore at boot).
LinkRises == /\ ~link /\ link' = TRUE
             /\ UNCHANGED <<gatt, device, Ours>>

ServicesResolve == /\ link /\ ~gatt /\ gatt' = TRUE
                   /\ UNCHANGED <<link, device, Ours>>

BridgeNext ==
    \/ \E d \in Dev :
          \/ StartBridge(d) \/ EnsureAgent(d) \/ CheckLink(d) \/ Dial(d)
          \/ AwaitServices(d) \/ FindCharacteristic(d) \/ Bond(d)
          \/ StartNotify(d) \/ Opens(d) \/ Unwatch(d) \/ CloseClient(d)
    \/ Disconnect \/ OnDevDropped
    \/ LinkDrops \/ LinkRises \/ ServicesResolve

BridgeSpec == BridgeInit /\ [][BridgeNext]_bridgeVars
----------------------------------------------------------------------------
BridgeTypeOK == /\ link \in BOOLEAN /\ gatt \in BOOLEAN
                /\ bridge \subseteq Dev /\ Cardinality(bridge) <= 1
                /\ device \in [Dev -> Phase]
                /\ client \subseteq Dev /\ reader \subseteq Dev
                /\ watching \subseteq Dev
                /\ dropped \in 0..MaxDropped

(* The registered bridge plays: while start_bridge answers "already       *)
(* active" for an address, the object it answers for has its ALSA client, *)
(* its reader and its watcher, whatever teardown of an earlier bridge of  *)
(* that address, by the user or by a late watcher, is still under way.    *)
RegisteredPlays ==
    \A d \in bridge : /\ device[d] = "open"
                      /\ d \in client \cap reader \cap watching
=============================================================================
