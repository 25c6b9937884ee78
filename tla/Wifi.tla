-------------------------------- MODULE Wifi --------------------------------
(***************************************************************************)
(* The radio of the hub: class WifiManager (wifi.py), the settings that    *)
(* drive it (api/wifi_routes.py) and the loop that watches a lost client   *)
(* connection (runtime/loops.py).                                          *)
(*                                                                         *)
(* start_ap and start_client block for seconds in executor threads, one    *)
(* for each caller, and nothing keeps two of them apart.  What wlan0 does  *)
(* and hostapd's configuration outlive the process; _mode and _ap_band do  *)
(* not.                                                                    *)
(***************************************************************************)
EXTENDS Integers, FiniteSets, FiniteSetsExt, Sequences

CONSTANTS
  DualBand,    \* radio_supports_5ghz
  Passwords,   \* the access point passwords in use
  Scans,       \* what a channel survey may see: sets of cells [channel, power]
  Faults,      \* what may fail (see ApSpawn, ApRaises, ClientJoin)
  MaxCommands, \* bound on the settings changed
  Hurried      \* whether settings are changed while a thread is at work

ASSUME RadioAssumption ==
  /\ DualBand \in BOOLEAN /\ Hurried \in BOOLEAN /\ MaxCommands \in Nat
  /\ Faults \subseteq {"join", "spawn5", "stuck5", "spawn", "raise", "power"}
  /\ Passwords # {}

VARIABLES
  mode,      \* WifiManager._mode
  heard,     \* WifiManager._ap_band
  wlan,      \* wlan0: down, a client, an access point and its configuration, or stuck
  conf,      \* hostapd.conf on tmpfs
  settings,  \* config.wifi
  thread,    \* for each caller, its start_ap or start_client
  home,      \* the home network: "internet", "lan" (no way out) or "away"
  misses,    \* wifi_watchdog's fail_count
  commands   \* settings changed so far

radio == <<mode, heard, wlan, conf, thread, misses>>
world == <<settings, home, commands>>
wifiVars == <<radio, world>>

-----------------------------------------------------------------------------
(* Channels.                                                               *)

Bands   == {"2.4", "5"}
Callers == {"boot", "mode", "radio", "watch", "flow"}
Prefs   == {"ap_only", "wifi_for_updates", "wifi_always"}

ChannelsOf(band) == IF band = "5" THEN <<36, 40, 44, 48>> ELSE <<1, 6, 11>>

\* What a survey picks when the scan shows nothing.
DefaultChannel(band) == IF band = "5" THEN 36 ELSE 11

\* The bleed of the cells of a scan onto a channel.  On 2.4 GHz a cell one or
\* two channels away weighs less; powers are divisible by 6.
Bleed(cell, ch, band) ==
  LET dist == IF cell.channel > ch THEN cell.channel - ch ELSE ch - cell.channel
  IN  IF dist > 2 THEN 0 ELSE IF band = "5" THEN cell.power ELSE cell.power \div (1 + dist)

Noise(scan, ch, band) == MapThenSumSet(LAMBDA cell : Bleed(cell, ch, band), scan)

ASSUME NoiseAssumption ==
  \A scan \in Scans, band \in Bands : \A i \in DOMAIN ChannelsOf(band) :
    Noise(scan, ChannelsOf(band)[i], band) \in Int

\* survey_ap_channel and survey_ap_channel_5ghz: the first of the least noisy.
Survey(scan, band) ==
  IF scan = {} THEN DefaultChannel(band)
  ELSE LET best(i) == \A j \in DOMAIN ChannelsOf(band) :
                        Noise(scan, ChannelsOf(band)[i], band)
                          <= Noise(scan, ChannelsOf(band)[j], band)
       IN  ChannelsOf(band)[Min({i \in DOMAIN ChannelsOf(band) : best(i)})]

-----------------------------------------------------------------------------
(* States of wlan0 and of the threads.                                     *)

Down      == [as |-> "down", conf |-> <<>>]
Client    == [as |-> "client", conf |-> <<>>]
AP(c)     == [as |-> "ap", conf |-> c]
\* hostapd's unit is active, and wlan0 has not gone into AP mode.
Stuck     == [as |-> "stuck", conf |-> <<>>]
NoConf    == <<>>
Resting   == [at |-> "none", band |-> "", cand |-> NoConf]
Busy(c)   == thread[c].at \notin {"none", "ended", "dead"}
AllQuiet  == \A c \in Callers : ~Busy(c)

\* Callers of start_ap that name no band leave it empty.
StartAP(band)  == [at |-> "survey", band |-> band, cand |-> NoConf]
StartClient    == [at |-> "leave", band |-> "", cand |-> NoConf]

\* The caller that awaits its thread sees it ended; the others forget it.
Over(c) == IF c = "flow" THEN [Resting EXCEPT !.at = "ended"] ELSE Resting

\* check_client_connected.
Connected == wlan.as = "client" /\ home # "away"

\* What a booting process asks of the radio.
BootThread == IF settings.pref = "wifi_always" /\ settings.creds
              THEN StartClient ELSE StartAP(settings.band)

WifiInit ==
  /\ mode = "unknown" /\ heard = "2.4" /\ wlan = Down /\ conf = NoConf
  /\ settings = [pref |-> "ap_only", creds |-> FALSE, band |-> "2.4",
                 psk |-> CHOOSE p \in Passwords : TRUE]
  /\ thread = [c \in Callers |-> IF c = "boot" THEN StartAP("2.4") ELSE Resting]
  /\ home = "internet" /\ misses = 0 /\ commands = 0

\* The process starts: async_main, up to its WiFi.  A power cut also clears the
\* radio and tmpfs.
BootRadio(powerCut) ==
  /\ mode' = "unknown" /\ heard' = "2.4" /\ misses' = 0
  /\ thread' = [c \in Callers |-> IF c = "boot" THEN BootThread ELSE Resting]
  /\ IF powerCut THEN wlan' = Down /\ conf' = NoConf ELSE UNCHANGED <<wlan, conf>>

-----------------------------------------------------------------------------
(* start_ap.                                                               *)

\* 5 GHz is never tried on a radio that cannot.
RadioBand(band) == IF band = "5" /\ ~DualBand THEN "2.4" ELSE band

Rendered(psk, channel, band) == [band |-> band, psk |-> psk, channel |-> channel]

\* Mutant: the channel of the last configuration is kept on any band.
Candidate_AnyBand(band, scan) ==
  Rendered(settings.psk, IF conf # NoConf THEN conf.channel ELSE Survey(scan, band), band)

\* The configuration start_ap would write: the channel of the last one if that
\* was for the same band.
Candidate(band, scan) ==
  Rendered(settings.psk,
           IF conf # NoConf /\ conf.band = band THEN conf.channel ELSE Survey(scan, band),
           band)

\* hostapd's unit is active and the kernel has wlan0 in AP mode.
ApUp == wlan.as = "ap"

\* Up to the idempotency guard: an access point that is up and matches is left
\* alone.
ApDecide(c) ==
  /\ thread[c].at = "survey"
  /\ heard' = IF thread[c].band # "" THEN thread[c].band ELSE heard
  /\ \E scan \in Scans :
       LET cand == Candidate(RadioBand(heard'), scan)
       IN  IF conf = cand /\ ApUp
           THEN mode' = "ap" /\ thread' = [thread EXCEPT ![c] = Over(c)]
           ELSE /\ thread' = [thread EXCEPT ![c].at = "claim", ![c].cand = cand]
                /\ UNCHANGED mode
  /\ UNCHANGED <<wlan, conf, misses, world>>

\* _claim_wlan0_for_ap, the configuration and the old processes.
ApClaim(c) ==
  /\ thread[c].at = "claim"
  /\ wlan' = Down /\ conf' = thread[c].cand
  /\ thread' = [thread EXCEPT ![c].at = "spawn"]
  /\ UNCHANGED <<mode, heard, misses, world>>

\* How _spawn_hostapd may fail on a band: the unit ends, or wlan0 stays as it is.
SpawnFaults(band) == IF band = "5" THEN {"spawn", "spawn5", "stuck5"} ELSE {"spawn"}

\* _spawn_hostapd, and once more: the unit reads the configuration that is there
\* now.  In the end the lockout guard asks whether the unit is active.
ApSpawn(c) ==
  /\ thread[c].at \in {"spawn", "respawn"}
  /\ \/ /\ wlan' = AP(conf)
        /\ thread' = [thread EXCEPT ![c].at = "adopt"]
     \/ \E fault \in Faults \cap SpawnFaults(conf.band) :
        /\ wlan' = IF thread[c].at = "respawn" /\ fault = "stuck5" THEN Stuck ELSE Down
        /\ thread' = [thread EXCEPT ![c].at =
             IF thread[c].at = "spawn" THEN "respawn"
             ELSE IF thread[c].cand.band = "5" /\ wlan' # Stuck THEN "lower" ELSE "adopt"]
  /\ UNCHANGED <<mode, heard, conf, misses, world>>

\* The lockout guard: 2.4 GHz when 5 GHz did not come up.
ApLower(c) ==
  /\ thread[c].at = "lower"
  /\ \E scan \in Scans :
       conf' = Rendered(thread[c].cand.psk, Survey(scan, "2.4"), "2.4")
  /\ \/ wlan' = AP(conf')
     \/ "spawn" \in Faults /\ wlan' = Down
  /\ thread' = [thread EXCEPT ![c].at = "adopt"]
  /\ UNCHANGED <<mode, heard, misses, world>>

\* dnsmasq, and what start_ap says at its end, whether or not hostapd runs.
ApAdopt(c) ==
  /\ thread[c].at = "adopt"
  /\ mode' = "ap" /\ thread' = [thread EXCEPT ![c] = Over(c)]
  /\ UNCHANGED <<heard, wlan, conf, misses, world>>

\* A command times out in start_ap.  Its callers log it, but the watchdog's
\* task is over.
ApRaises(c) ==
  /\ "raise" \in Faults /\ thread[c].at \in {"survey", "claim"}
  /\ thread' = [thread EXCEPT ![c] =
       IF c = "watch" THEN [Resting EXCEPT !.at = "dead"] ELSE Over(c)]
  /\ UNCHANGED <<mode, heard, wlan, conf, misses, world>>

-----------------------------------------------------------------------------
(* start_client_with_fallback.                                             *)

\* Mutant: no fallback.
ClientJoin_NoFallback(c) ==
  /\ thread[c].at = "join"
  /\ \/ /\ home # "away" /\ wlan' = Client /\ mode' = "client"
        /\ thread' = [thread EXCEPT ![c] = Over(c)]
     \/ /\ home = "away" \/ "join" \in Faults
        /\ thread' = [thread EXCEPT ![c] = Over(c)]
        /\ UNCHANGED <<mode, wlan>>
  /\ UNCHANGED <<heard, conf, misses, world>>

\* start_client: stop_ap ...
ClientLeave(c) ==
  /\ thread[c].at = "leave"
  /\ wlan' = Down /\ thread' = [thread EXCEPT ![c].at = "join"]
  /\ UNCHANGED <<mode, heard, conf, misses, world>>

\* ... the connection file, NetworkManager and `connection up`.  On failure, or
\* when a command times out, the access point comes back on the band last heard.
ClientJoin(c) ==
  /\ thread[c].at = "join"
  /\ \/ /\ home # "away" /\ wlan' = Client /\ mode' = "client"
        /\ thread' = [thread EXCEPT ![c] = Over(c)]
     \/ /\ home = "away" \/ "join" \in Faults
        /\ thread' = [thread EXCEPT ![c] = StartAP("")]
        /\ UNCHANGED <<mode, wlan>>
  /\ UNCHANGED <<heard, conf, misses, world>>

Thread(c) == \/ ApDecide(c) \/ ApClaim(c) \/ ApSpawn(c) \/ ApLower(c) \/ ApAdopt(c)
             \/ ApRaises(c) \/ ClientLeave(c) \/ ClientJoin(c)

-----------------------------------------------------------------------------
(* wifi_watchdog.                                                          *)

\* Mutant: the loop gives up one check too late.
Check_Late ==
  /\ thread["watch"].at = "none"
  /\ IF mode # "client" \/ Connected THEN misses' = 0 /\ UNCHANGED thread
     ELSE IF misses <= 2 THEN misses' = misses + 1 /\ UNCHANGED thread
     ELSE misses' = 0 /\ thread' = [thread EXCEPT !["watch"] = StartAP("")]
  /\ UNCHANGED <<mode, heard, wlan, conf, world>>

\* One round.  It awaits its start_ap, which names no band.
Check ==
  /\ thread["watch"].at = "none"
  /\ IF mode # "client" \/ Connected THEN misses' = 0 /\ UNCHANGED thread
     ELSE IF misses < 2 THEN misses' = misses + 1 /\ UNCHANGED thread
     ELSE misses' = 0 /\ thread' = [thread EXCEPT !["watch"] = StartAP("")]
  /\ UNCHANGED <<mode, heard, wlan, conf, world>>

-----------------------------------------------------------------------------
(* Settings.  The handlers save and force an autosave before they touch    *)
(* the radio.                                                              *)

Command ==
  /\ commands < MaxCommands /\ commands' = commands + 1
  /\ ~Busy("boot") /\ (Hurried \/ AllQuiet)

\* /api/wifi/credentials: without credentials only "ap_only" is left.
SetCredentials ==
  /\ Command
  /\ \/ settings' = [settings EXCEPT !.creds = TRUE]
     \/ settings' = [settings EXCEPT !.creds = FALSE, !.pref = "ap_only"]
  /\ UNCHANGED <<radio, home>>

\* /api/wifi/ap-password: set_ap_password edits the configuration in place and
\* reloads the unit "hostapd", which is not the one that runs.
SetPassword ==
  /\ Command
  /\ \E psk \in Passwords \ {settings.psk} :
       /\ settings' = [settings EXCEPT !.psk = psk]
       /\ conf' = IF conf = NoConf THEN conf ELSE [conf EXCEPT !.psk = psk]
  /\ UNCHANGED <<mode, heard, wlan, thread, misses, home>>

\* /api/wifi/ap-radio.
SetRadio ==
  /\ Command
  /\ \E band \in {b \in Bands \ {settings.band} : b = "5" => DualBand} :
       /\ settings' = [settings EXCEPT !.band = band]
       /\ IF mode # "ap" THEN UNCHANGED thread
          ELSE ~Busy("radio") /\ thread' = [thread EXCEPT !["radio"] = StartAP(band)]
  /\ UNCHANGED <<mode, heard, wlan, conf, misses, home>>

\* /api/wifi/apply-mode: only "wifi_always" lives as a client.
ApplyMode ==
  /\ Command
  /\ \E pref \in {p \in Prefs \ {settings.pref} : p # "ap_only" => settings.creds} :
       LET target == IF pref = "wifi_always" THEN "client" ELSE "ap"
       IN  /\ settings' = [settings EXCEPT !.pref = pref]
           /\ IF mode = target THEN UNCHANGED thread
              ELSE /\ ~Busy("mode")
                   /\ thread' = [thread EXCEPT !["mode"] =
                        IF target = "client" THEN StartClient ELSE StartAP(settings.band)]
  /\ UNCHANGED <<mode, heard, wlan, conf, misses, home>>

Settings == SetCredentials \/ SetPassword \/ SetRadio \/ ApplyMode

\* The home network comes and goes.
HomeChanges ==
  /\ home' \in {"internet", "lan", "away"} \ {home}
  /\ UNCHANGED <<radio, settings, commands>>

WifiNext == (\E c \in Callers : Thread(c)) \/ Check \/ Settings \/ HomeChanges

-----------------------------------------------------------------------------

ApConf   == [band : Bands, psk : Passwords, channel : {1, 6, 11, 36, 40, 44, 48}]
ConfType == {NoConf} \cup ApConf

WifiTypeOK ==
  /\ mode \in {"unknown", "ap", "client"} /\ heard \in Bands
  /\ wlan \in [as : {"down", "client", "ap", "stuck"}, conf : ConfType] /\ conf \in ConfType
  /\ settings \in [pref : Prefs, creds : BOOLEAN, band : Bands, psk : Passwords]
  /\ thread \in [Callers -> [at : {"none", "ended", "dead", "survey", "claim", "spawn", "respawn",
                                   "lower", "adopt", "leave", "join"},
                             band : Bands \cup {""}, cand : ConfType]]
  /\ home \in {"internet", "lan", "away"} /\ misses \in 0..2 /\ commands \in 0..MaxCommands

\* The channel of an access point is one of its band, through every reuse of an
\* old configuration and every fall back to 2.4 GHz: hostapd refuses any other.
OnBand(c) == \E i \in DOMAIN ChannelsOf(c.band) : c.channel = ChannelsOf(c.band)[i]
ChannelOnBand ==
  \A c \in {conf} \cup {thread[a].cand : a \in Callers} : c # NoConf => OnBand(c)

\* The browser can reach the hub, over its own network or the home network.
Reachable == wlan.as = "ap" \/ Connected

\* Whatever the home network does, and whichever of its steps fail, the hub does
\* not stay out of reach - but for the one failure that the lockout guard does not
\* see: on 5 GHz, hostapd's unit is active and wlan0 is not in AP mode.
StaysReachable == []<>(Reachable \/ wlan = Stuck)

\* Once nothing is at work, the access point asks for the password that was set.
PasswordInForce ==
  AllQuiet /\ commands > 0 /\ wlan.as = "ap" => wlan.conf.psk = settings.psk

=============================================================================
