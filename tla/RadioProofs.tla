------------------------------ MODULE RadioProofs ------------------------------
(* What holds of the radio and of the update flow whatever is scanned,     *)
(* whatever fails, and however many settings and flows there are.          *)
EXTENDS UpdateFlow, TLAPS

-----------------------------------------------------------------------------
(* The inductive invariant.  The lockout guard renders a configuration from *)
(* the one start_ap has made before, so the types rest on its being there.  *)

\* A thread that is past its survey has a configuration at hand.
CandidateMade ==
  \A c \in Callers :
    thread[c].at \in {"claim", "spawn", "respawn", "lower", "adopt"} =>
      thread[c].cand \in ApConf

RadioInv == WifiTypeOK /\ CandidateMade /\ ChannelOnBand

\* A flow at work knows what its work is: the orchestrator goes to it by name.
FlowShape == [at : {"idle", "probe", "join", "verify", "rescue", "check", "checkpre",
                    "download", "install", "await", "return", "back"},
              work : {"none", "check", "checkpre", "install"}, ver : Nat,
              switched : BOOLEAN, left : SUBSET DOMAIN Releases, bad : BOOLEAN]
Working   == flow.at # "idle" => flow.work # "none"
Scripts   == [ver : Nat, at : {"starts", "installs", "reports"}]

IInv == RadioInv /\ FlowTypeOK /\ Working

\* The states of a thread.
ThreadType == [at : {"none", "ended", "dead", "survey", "claim", "spawn", "respawn",
                     "lower", "adopt", "leave", "join"},
               band : Bands \cup {""}, cand : ConfType]

-----------------------------------------------------------------------------
(* Channels.                                                               *)

\* A survey picks one of the channels of the band: among finitely many some
\* channel is the least noisy, and Min takes the first of these.
LEMMA SurveyPicks ==
  ASSUME NEW scan \in Scans, NEW band \in Bands
  PROVE  /\ \E i \in DOMAIN ChannelsOf(band) : Survey(scan, band) = ChannelsOf(band)[i]
         /\ Survey(scan, band) \in {1, 6, 11, 36, 40, 44, 48}
<1>. DEFINE dom == DOMAIN ChannelsOf(band)
            n(i) == Noise(scan, ChannelsOf(band)[i], band)
            best == {i \in dom : \A j \in dom : n(i) <= n(j)}
<1>1. dom \in {1..3, 1..4}
  BY DEF ChannelsOf, Bands
<1>2. \A i \in dom : n(i) \in Int
  BY NoiseAssumption
<1>3. \E i \in dom : \A j \in dom : n(i) <= n(j)
  <2>. HIDE DEF dom, n
  <2>1. CASE dom = 1..3
    <3>1. n(1) \in Int /\ n(2) \in Int /\ n(3) \in Int
      BY <1>2, <2>1
    <3>. QED BY <2>1, <3>1
  <2>2. CASE dom = 1..4
    <3>1. n(1) \in Int /\ n(2) \in Int /\ n(3) \in Int /\ n(4) \in Int
      BY <1>2, <2>2
    <3>. QED BY <2>2, <3>1
  <2>. QED BY <1>1, <2>1, <2>2
<1>4. \E i \in best : \A j \in best : i <= j
  <2>1. best # {} /\ best \subseteq dom
    BY <1>3
  <2>. HIDE DEF best, dom, n
  <2>2. best \subseteq 1..4
    BY <1>1, <2>1
  <2>3. \A j \in best : j \in {1, 2, 3, 4}
    BY <2>2
  <2>4. \/ 1 \in best
        \/ 1 \notin best /\ 2 \in best
        \/ 1 \notin best /\ 2 \notin best /\ 3 \in best
        \/ 1 \notin best /\ 2 \notin best /\ 3 \notin best /\ 4 \in best
    BY <2>1, <2>3, Zenon
  <2>5. \A j \in best : \/ j = 1 \/ j = 2 \/ j = 3 \/ j = 4
    BY <2>3
  <2>. QED BY <2>4, <2>5
<1>5. Min(best) \in best
  <2>. HIDE DEF best
  <2>. QED BY <1>4 DEF Min
<1>6. CASE scan = {}
  BY <1>6 DEF Survey, DefaultChannel, ChannelsOf, Bands
<1>7. CASE scan # {}
  <2>1. Survey(scan, band) = ChannelsOf(band)[Min(best)]
    BY <1>7 DEF Survey
  <2>2. Min(best) \in dom
    BY <1>5
  <2>3. \A i \in dom : ChannelsOf(band)[i] \in {1, 6, 11, 36, 40, 44, 48}
    BY DEF ChannelsOf, Bands
  <2>. HIDE DEF best, dom
  <2>. QED BY <2>1, <2>2, <2>3 DEF dom
<1>. QED BY <1>6, <1>7

\* A configuration rendered with a surveyed channel is of the type, on its band.
LEMMA RenderedOnBand ==
  ASSUME NEW psk \in Passwords, NEW scan \in Scans, NEW band \in Bands
  PROVE  /\ Rendered(psk, Survey(scan, band), band) \in ApConf
         /\ OnBand(Rendered(psk, Survey(scan, band), band))
  BY SurveyPicks DEF Rendered, ApConf, OnBand

\* So is the one that start_ap makes, with a new channel or with its last one.
LEMMA CandidateOnBand ==
  ASSUME RadioInv, NEW band \in Bands, NEW scan \in Scans
  PROVE  Candidate(band, scan) \in ApConf /\ OnBand(Candidate(band, scan))
<1>1. settings.psk \in Passwords
  BY DEF RadioInv, WifiTypeOK
<1>2. CASE conf # NoConf /\ conf.band = band
  <2>1. conf \in ApConf /\ OnBand(conf)
    BY <1>2 DEF RadioInv, WifiTypeOK, ConfType, ChannelOnBand
  <2>2. Candidate(band, scan) = Rendered(settings.psk, conf.channel, band)
    BY <1>2 DEF Candidate
  <2>. QED BY <1>1, <1>2, <2>1, <2>2 DEF Rendered, ApConf, OnBand
<1>3. CASE ~(conf # NoConf /\ conf.band = band)
  BY <1>1, <1>3, RenderedOnBand DEF Candidate
<1>. QED BY <1>2, <1>3

-----------------------------------------------------------------------------
(* The radio's steps.                                                      *)

\* The states a caller puts its thread into, to begin and when it is done.
LEMMA ThreadStates ==
  ASSUME NEW c \in Callers, NEW b \in Bands \cup {""}
  PROVE  \A t \in {Resting, StartClient, StartAP(b), Over(c), [Resting EXCEPT !.at = "dead"]} :
           /\ t \in ThreadType /\ t.cand = NoConf
           /\ t.at \in {"none", "survey", "leave", "ended", "dead"}
<1>1. NoConf \in ConfType /\ "" \in Bands \cup {""}
  BY DEF ConfType
<1>2. /\ Resting.cand = NoConf /\ Resting.at = "none" /\ Resting \in ThreadType
      /\ StartClient.cand = NoConf /\ StartClient.at = "leave" /\ StartClient \in ThreadType
      /\ StartAP(b).cand = NoConf /\ StartAP(b).at = "survey" /\ StartAP(b) \in ThreadType
  BY <1>1 DEF Resting, StartClient, StartAP, ThreadType
<1>3. ASSUME NEW at \in {"ended", "dead"}
      PROVE  LET t == [Resting EXCEPT !.at = at]
             IN  t \in ThreadType /\ t.cand = NoConf /\ t.at = at
  BY <1>1 DEF Resting, ThreadType
<1>4. Over(c) \in {Resting, [Resting EXCEPT !.at = "ended"]}
  BY DEF Over
<1>. QED BY <1>2, <1>3, <1>4

\* A step that moves threads to such states and keeps the configuration.
LEMMA QuietThreads ==
  ASSUME RadioInv, conf' = conf,
         thread' \in [Callers -> ThreadType],
         \A c \in Callers : \/ thread'[c] = thread[c]
                            \/ /\ thread'[c].cand = NoConf
                               /\ thread'[c].at \in {"none", "survey", "leave", "ended", "dead"}
  PROVE  CandidateMade' /\ ChannelOnBand'
  BY DEF RadioInv, CandidateMade, ChannelOnBand

\* Steps that only move threads to such states, and change modes and settings.
LEMMA QuietStep ==
  ASSUME RadioInv, UNCHANGED <<wlan, conf>>, NEW c \in Callers,
         NEW b \in Bands \cup {""},
         NEW t \in {thread[c], Resting, StartClient, StartAP(b), Over(c),
                    [Resting EXCEPT !.at = "dead"]},
         thread' = [thread EXCEPT ![c] = t],
         mode' \in {"unknown", "ap", "client"}, heard' \in Bands, misses' \in 0..2,
         UNCHANGED world
  PROVE  RadioInv'
<1>1. thread \in [Callers -> ThreadType]
  BY DEF RadioInv, WifiTypeOK, ThreadType
<1>2. /\ t \in ThreadType
      /\ t = thread[c] \/ (t.cand = NoConf /\ t.at \in {"none", "survey", "leave", "ended", "dead"})
  BY <1>1, ThreadStates
<1>3. thread' \in [Callers -> ThreadType]
  BY <1>1, <1>2
<1>4. CandidateMade' /\ ChannelOnBand'
  BY <1>1, <1>2, <1>3, QuietThreads
<1>5. WifiTypeOK'
  BY <1>3 DEF RadioInv, WifiTypeOK, ThreadType, world
<1>. QED BY <1>4, <1>5 DEF RadioInv

\* Steps that render a configuration, or bring one that was rendered into force.
LEMMA RenderStep ==
  ASSUME RadioInv, UNCHANGED <<mode, misses, world>>, heard' \in Bands,
         NEW c \in Callers, NEW k \in ApConf, OnBand(k),
         thread' \in [Callers -> ThreadType], thread'[c].cand = k,
         \A d \in Callers \ {c} : thread'[d] = thread[d],
         conf' = conf \/ (conf' \in ApConf /\ OnBand(conf')),
         wlan' \in [as : {"down", "client", "ap", "stuck"}, conf : ConfType]
  PROVE  RadioInv'
<1>1. thread \in [Callers -> ThreadType]
  BY DEF RadioInv, WifiTypeOK, ThreadType
<1>2. conf' \in ConfType
  BY DEF RadioInv, WifiTypeOK, ConfType
<1>3. WifiTypeOK'
  BY <1>2 DEF RadioInv, WifiTypeOK, ThreadType, world
<1>4. CandidateMade' /\ ChannelOnBand'
  BY <1>1 DEF RadioInv, CandidateMade, ChannelOnBand
<1>. QED BY <1>3, <1>4 DEF RadioInv

\* A step of one caller's start_ap or start_client.
LEMMA ThreadStep ==
  ASSUME RadioInv, NEW c \in Callers, Thread(c)
  PROVE  RadioInv'
<1>1. /\ thread \in [Callers -> ThreadType] /\ conf \in ConfType /\ heard \in Bands
      /\ mode \in {"unknown", "ap", "client"} /\ misses \in 0..2
      /\ settings.psk \in Passwords
      /\ wlan \in [as : {"down", "client", "ap", "stuck"}, conf : ConfType]
  BY DEF RadioInv, WifiTypeOK, ThreadType
<1>3. thread[c].at \in {"claim", "spawn", "respawn", "lower", "adopt"} =>
        /\ thread[c].cand \in ApConf /\ thread[c].cand # NoConf => OnBand(thread[c].cand)
        /\ thread[c].cand \in ApConf
  BY DEF RadioInv, CandidateMade, ChannelOnBand
<1>4. \A k \in ApConf : k # NoConf
  BY DEF ApConf, NoConf
<1>5. /\ Down \in [as : {"down", "client", "ap", "stuck"}, conf : ConfType]
      /\ Client \in [as : {"down", "client", "ap", "stuck"}, conf : ConfType]
      /\ Stuck \in [as : {"down", "client", "ap", "stuck"}, conf : ConfType]
      /\ \A k \in ConfType : AP(k) \in [as : {"down", "client", "ap", "stuck"}, conf : ConfType]
  BY DEF Down, Client, AP, Stuck, ConfType, NoConf
<1>6. CASE ApDecide(c)
  <2>1. heard' \in Bands /\ RadioBand(heard') \in Bands
    BY <1>1, <1>6 DEF ApDecide, RadioBand, ThreadType, Bands
  <2>2. PICK scan \in Scans :
          \/ mode' = "ap" /\ thread' = [thread EXCEPT ![c] = Over(c)]
          \/ /\ thread' = [thread EXCEPT ![c].at = "claim",
                                         ![c].cand = Candidate(RadioBand(heard'), scan)]
             /\ UNCHANGED mode
    BY <1>6 DEF ApDecide
  <2>. DEFINE k == Candidate(RadioBand(heard'), scan)
  <2>3. k \in ApConf /\ OnBand(k)
    BY <2>1, CandidateOnBand
  <2>. HIDE DEF k
  <2>4. CASE mode' = "ap" /\ thread' = [thread EXCEPT ![c] = Over(c)]
    BY <1>1, <1>6, <2>1, <2>4, QuietStep DEF ApDecide
  <2>5. CASE thread' = [thread EXCEPT ![c].at = "claim", ![c].cand = k] /\ UNCHANGED mode
    <3>1. /\ thread' \in [Callers -> ThreadType] /\ thread'[c].cand = k
          /\ \A d \in Callers \ {c} : thread'[d] = thread[d]
      BY <1>1, <2>3, <2>5 DEF ThreadType, ConfType
    <3>2. UNCHANGED <<wlan, conf, misses, world>>
      BY <1>6 DEF ApDecide
    <3>. QED BY <1>1, <2>1, <2>3, <2>5, <3>1, <3>2, RenderStep
  <2>. QED BY <2>2, <2>4, <2>5 DEF k
<1>7. CASE ApClaim(c)
  <2>1. /\ thread' \in [Callers -> ThreadType] /\ thread'[c].cand = thread[c].cand
        /\ \A d \in Callers \ {c} : thread'[d] = thread[d]
    BY <1>1, <1>7 DEF ApClaim, ThreadType
  <2>2. wlan' = Down /\ conf' = thread[c].cand /\ UNCHANGED <<mode, heard, misses, world>>
    BY <1>7 DEF ApClaim
  <2>3. thread[c].cand \in ApConf /\ OnBand(thread[c].cand)
    BY <1>3, <1>4, <1>7 DEF ApClaim
  <2>. QED BY <1>1, <1>5, <2>1, <2>2, <2>3, RenderStep
<1>8. CASE ApSpawn(c)
  <2>1. /\ thread' \in [Callers -> ThreadType] /\ thread'[c].cand = thread[c].cand
        /\ \A d \in Callers \ {c} : thread'[d] = thread[d]
    <3>1. PICK at \in {"respawn", "lower", "adopt"} : thread' = [thread EXCEPT ![c].at = at]
      BY <1>8 DEF ApSpawn
    <3>. QED BY <1>1, <3>1 DEF ThreadType
  <2>2. wlan' \in {Down, Stuck, AP(conf)} /\ UNCHANGED <<mode, heard, conf, misses, world>>
    BY <1>8 DEF ApSpawn
  <2>3. thread[c].cand \in ApConf /\ OnBand(thread[c].cand)
    BY <1>3, <1>4, <1>8 DEF ApSpawn
  <2>. QED BY <1>1, <1>5, <2>1, <2>2, <2>3, RenderStep
<1>9. CASE ApLower(c)
  <2>1. thread[c].cand \in ApConf /\ OnBand(thread[c].cand)
    BY <1>3, <1>4, <1>9 DEF ApLower
  <2>2. conf' \in ApConf /\ OnBand(conf')
    <3>1. thread[c].cand.psk \in Passwords /\ "2.4" \in Bands
      BY <2>1 DEF ApConf, Bands
    <3>. QED BY <1>9, <3>1, RenderedOnBand DEF ApLower
  <2>3. /\ thread' \in [Callers -> ThreadType] /\ thread'[c].cand = thread[c].cand
        /\ \A d \in Callers \ {c} : thread'[d] = thread[d]
    BY <1>1, <1>9 DEF ApLower, ThreadType
  <2>4. wlan' \in {Down, AP(conf')} /\ UNCHANGED <<mode, heard, misses, world>>
    BY <1>9 DEF ApLower
  <2>. QED BY <1>1, <1>5, <2>1, <2>2, <2>3, <2>4, RenderStep DEF ConfType
<1>10. CASE ApAdopt(c)
  BY <1>1, <1>10, QuietStep DEF ApAdopt
<1>11. CASE ApRaises(c)
  BY <1>1, <1>11, QuietStep DEF ApRaises
<1>12. CASE ClientLeave(c)
  <2>1. thread[c].at = "leave" /\ wlan' = Down /\ UNCHANGED <<mode, heard, conf, misses, world>>
        /\ thread' = [thread EXCEPT ![c].at = "join"]
    BY <1>12 DEF ClientLeave
  <2>2. thread' \in [Callers -> ThreadType]
    BY <1>1, <2>1 DEF ThreadType
  <2>3. /\ \A d \in Callers : thread'[d].cand = thread[d].cand
        /\ \A d \in Callers \ {c} : thread'[d] = thread[d]
        /\ thread'[c].at = "join"
    BY <1>1, <2>1 DEF ThreadType
  <2>4. WifiTypeOK'
    BY <1>5, <2>1, <2>2 DEF RadioInv, WifiTypeOK, ThreadType, world
  <2>5. CandidateMade' /\ ChannelOnBand'
    BY <2>1, <2>3 DEF RadioInv, CandidateMade, ChannelOnBand
  <2>. QED BY <2>4, <2>5 DEF RadioInv
<1>13. CASE ClientJoin(c)
  <2>1. CASE thread' = [thread EXCEPT ![c] = StartAP("")] /\ UNCHANGED <<mode, wlan>>
    BY <1>1, <1>13, <2>1, QuietStep DEF ClientJoin
  <2>2. CASE wlan' = Client /\ mode' = "client" /\ thread' = [thread EXCEPT ![c] = Over(c)]
    <3>1. UNCHANGED <<heard, conf, misses, world>>
      BY <1>13 DEF ClientJoin
    <3>2. Over(c) \in ThreadType /\ Over(c).cand = NoConf
          /\ Over(c).at \in {"none", "survey", "leave", "ended", "dead"}
      BY ThreadStates
    <3>3. thread' \in [Callers -> ThreadType]
      BY <1>1, <2>2, <3>2
    <3>4. CandidateMade' /\ ChannelOnBand'
      BY <1>1, <2>2, <3>1, <3>2, <3>3, QuietThreads
    <3>5. WifiTypeOK'
      BY <1>5, <2>2, <3>1, <3>3 DEF RadioInv, WifiTypeOK, ThreadType, world
    <3>. QED BY <3>4, <3>5 DEF RadioInv
  <2>. QED BY <1>13, <2>1, <2>2 DEF ClientJoin
<1>. QED BY <1>6, <1>7, <1>8, <1>9, <1>10, <1>11, <1>12, <1>13 DEF Thread

\* The watchdog, the settings and the home network.
LEMMA WorldStep ==
  ASSUME RadioInv, Check \/ Settings \/ HomeChanges
  PROVE  RadioInv'
<1>1. /\ thread \in [Callers -> ThreadType] /\ conf \in ConfType /\ heard \in Bands
      /\ mode \in {"unknown", "ap", "client"} /\ misses \in 0..2
      /\ settings \in [pref : Prefs, creds : BOOLEAN, band : Bands, psk : Passwords]
      /\ commands \in 0..MaxCommands /\ MaxCommands \in Nat
  BY RadioAssumption DEF RadioInv, WifiTypeOK, ThreadType
<1>2. CASE Check
  <2>1. misses' \in 0..2
    <3>1. misses' = 0 \/ (misses < 2 /\ misses' = misses + 1)
      BY <1>2 DEF Check
    <3>. QED BY <1>1, <3>1
  <2>2. "watch" \in Callers
    BY DEF Callers
  <2>3. PICK t \in {thread["watch"], StartAP("")} : thread' = [thread EXCEPT !["watch"] = t]
    <3>1. thread' = thread \/ thread' = [thread EXCEPT !["watch"] = StartAP("")]
      BY <1>2 DEF Check
    <3>2. thread = [thread EXCEPT !["watch"] = thread["watch"]]
      BY <1>1
    <3>. QED BY <3>1, <3>2
  <2>4. UNCHANGED <<mode, heard, wlan, conf, world>>
    BY <1>2 DEF Check
  <2>. QED BY <1>1, <2>1, <2>2, <2>3, <2>4, QuietStep
<1>3. ASSUME NEW c \in Callers, NEW t \in {thread[c], StartClient, StartAP(settings'.band)},
             thread' = [thread EXCEPT ![c] = t],
             UNCHANGED <<mode, heard, wlan, misses>>,
             \/ conf' = conf
             \/ conf # NoConf /\ \E psk \in Passwords : conf' = [conf EXCEPT !.psk = psk],
             settings' \in [pref : Prefs, creds : BOOLEAN, band : Bands, psk : Passwords],
             home' \in {"internet", "lan", "away"}, commands' \in 0..MaxCommands
      PROVE  RadioInv'
  <2>1. settings'.band \in Bands
    BY <1>3
  <2>2. /\ t \in ThreadType
        /\ t = thread[c] \/ (t.cand = NoConf /\ t.at \in {"survey", "leave"})
    <3>1. CASE t = thread[c]
      BY <1>1, <3>1
    <3>2. CASE t \in {StartClient, StartAP(settings'.band)}
      <4>1. t \in ThreadType /\ t.cand = NoConf
        BY <2>1, <3>2, ThreadStates
      <4>2. StartClient.at = "leave" /\ StartAP(settings'.band).at = "survey"
        BY DEF StartClient, StartAP
      <4>. QED BY <3>2, <4>1, <4>2
    <3>. QED BY <1>3, <3>1, <3>2
  <2>3. thread' \in [Callers -> ThreadType]
    BY <1>1, <1>3, <2>2
  <2>4. /\ conf' \in ConfType
        /\ conf' # NoConf => ((conf # NoConf => OnBand(conf)) => OnBand(conf'))
    <3>1. CASE conf' = conf
      BY <1>1, <3>1 DEF RadioInv, ChannelOnBand
    <3>2. CASE conf # NoConf /\ \E psk \in Passwords : conf' = [conf EXCEPT !.psk = psk]
      BY <1>1, <3>2 DEF ConfType, ApConf, OnBand
    <3>. QED BY <1>3, <3>1, <3>2
  <2>5. WifiTypeOK'
    BY <1>3, <2>3, <2>4 DEF RadioInv, WifiTypeOK, ThreadType
  <2>6. CandidateMade' /\ ChannelOnBand'
    BY <1>1, <1>3, <2>2, <2>3, <2>4 DEF RadioInv, CandidateMade, ChannelOnBand
  <2>. QED BY <2>5, <2>6 DEF RadioInv
<1>4. thread = [thread EXCEPT !["boot"] = thread["boot"]] /\ "boot" \in Callers
  BY <1>1 DEF Callers
<1>5. Command => commands' \in 0..MaxCommands
  BY <1>1 DEF Command
<1>6. CASE HomeChanges
  <2>1. UNCHANGED <<mode, heard, wlan, conf, misses, thread, settings, commands>>
        /\ home' \in {"internet", "lan", "away"}
    BY <1>6 DEF HomeChanges, radio
  <2>. QED BY <1>1, <1>3, <1>4, <2>1
<1>7. CASE SetCredentials
  <2>1. UNCHANGED <<mode, heard, wlan, conf, misses, thread, home>>
    BY <1>7 DEF SetCredentials, radio
  <2>2. settings' \in [pref : Prefs, creds : BOOLEAN, band : Bands, psk : Passwords]
    BY <1>1, <1>7 DEF SetCredentials, Prefs
  <2>3. home' \in {"internet", "lan", "away"}
    BY <2>1 DEF RadioInv, WifiTypeOK
  <2>4. commands' \in 0..MaxCommands
    BY <1>5, <1>7 DEF SetCredentials
  <2>. QED BY <1>3, <1>4, <2>1, <2>2, <2>3, <2>4
<1>8. CASE SetPassword
  <2>1. UNCHANGED <<mode, heard, wlan, misses, thread, home>>
    BY <1>8 DEF SetPassword
  <2>2. PICK psk \in Passwords :
          /\ settings' = [settings EXCEPT !.psk = psk]
          /\ conf' = IF conf = NoConf THEN conf ELSE [conf EXCEPT !.psk = psk]
    BY <1>8 DEF SetPassword
  <2>3. settings' \in [pref : Prefs, creds : BOOLEAN, band : Bands, psk : Passwords]
    BY <1>1, <2>2
  <2>4. home' \in {"internet", "lan", "away"}
    BY <2>1 DEF RadioInv, WifiTypeOK
  <2>5. commands' \in 0..MaxCommands
    BY <1>5, <1>8 DEF SetPassword
  <2>. QED BY <1>3, <1>4, <2>1, <2>2, <2>3, <2>4, <2>5
<1>9. CASE SetRadio
  <2>1. PICK band \in Bands :
          /\ settings' = [settings EXCEPT !.band = band]
          /\ thread' = thread \/ thread' = [thread EXCEPT !["radio"] = StartAP(band)]
    BY <1>9 DEF SetRadio
  <2>2. settings' \in [pref : Prefs, creds : BOOLEAN, band : Bands, psk : Passwords]
        /\ settings'.band = band
    BY <1>1, <2>1
  <2>3. UNCHANGED <<mode, heard, wlan, conf, misses, home>>
    BY <1>9 DEF SetRadio
  <2>4. home' \in {"internet", "lan", "away"}
    BY <2>3 DEF RadioInv, WifiTypeOK
  <2>5. commands' \in 0..MaxCommands /\ "radio" \in Callers
    BY <1>5, <1>9 DEF SetRadio, Callers
  <2>. QED BY <1>3, <1>4, <2>1, <2>2, <2>3, <2>4, <2>5
<1>10. CASE ApplyMode
  <2>1. PICK pref \in Prefs :
          /\ settings' = [settings EXCEPT !.pref = pref]
          /\ \/ thread' = thread
             \/ \E t \in {StartClient, StartAP(settings.band)} :
                  thread' = [thread EXCEPT !["mode"] = t]
    BY <1>10 DEF ApplyMode
  <2>2. settings' \in [pref : Prefs, creds : BOOLEAN, band : Bands, psk : Passwords]
        /\ settings'.band = settings.band
    BY <1>1, <2>1
  <2>3. UNCHANGED <<mode, heard, wlan, conf, misses, home>>
    BY <1>10 DEF ApplyMode
  <2>4. home' \in {"internet", "lan", "away"}
    BY <2>3 DEF RadioInv, WifiTypeOK
  <2>5. commands' \in 0..MaxCommands /\ "mode" \in Callers
    BY <1>5, <1>10 DEF ApplyMode, Callers
  <2>. QED BY <1>3, <1>4, <2>1, <2>2, <2>3, <2>4, <2>5
<1>. QED BY <1>2, <1>6, <1>7, <1>8, <1>9, <1>10 DEF Settings


-----------------------------------------------------------------------------
(* The flow's steps.                                                       *)

\* A process that starts has forgotten its mode and its threads.
LEMMA BootStep ==
  ASSUME RadioInv, NEW powerCut \in BOOLEAN, BootRadio(powerCut), UNCHANGED world
  PROVE  RadioInv'
<1>1. settings.band \in Bands
  BY DEF RadioInv, WifiTypeOK
<1>2. /\ BootThread \in ThreadType /\ BootThread.cand = NoConf
      /\ BootThread.at \in {"survey", "leave"}
  <2>1. BootThread \in {StartClient, StartAP(settings.band)}
    BY DEF BootThread
  <2>2. StartClient.at = "leave" /\ StartAP(settings.band).at = "survey"
    BY DEF StartClient, StartAP
  <2>3. "boot" \in Callers
    BY DEF Callers
  <2>. QED BY <1>1, <2>1, <2>2, <2>3, ThreadStates
<1>3. Resting \in ThreadType /\ Resting.cand = NoConf /\ Resting.at = "none"
  BY DEF Resting, ThreadType, ConfType
<1>4. thread' = [c \in Callers |-> IF c = "boot" THEN BootThread ELSE Resting]
  BY DEF BootRadio
<1>5. thread' \in [Callers -> ThreadType]
  BY <1>2, <1>3, <1>4
<1>6. /\ conf' \in {conf, NoConf} /\ wlan' \in {wlan, Down}
      /\ mode' = "unknown" /\ heard' = "2.4" /\ misses' = 0
  BY DEF BootRadio
<1>7. Down \in [as : {"down", "client", "ap", "stuck"}, conf : ConfType] /\ "2.4" \in Bands
  BY DEF Down, ConfType, NoConf, Bands
<1>8. conf' \in ConfType /\ wlan' \in [as : {"down", "client", "ap", "stuck"}, conf : ConfType]
  BY <1>6, <1>7 DEF RadioInv, WifiTypeOK, ConfType
<1>9. WifiTypeOK'
  <2>1. UNCHANGED <<settings, home, commands>>
    BY DEF world
  <2>2. mode' \in {"unknown", "ap", "client"} /\ heard' \in Bands /\ misses' \in 0..2
    BY <1>6, <1>7
  <2>. QED BY <1>5, <1>8, <2>1, <2>2 DEF RadioInv, WifiTypeOK, ThreadType
<1>10. CandidateMade' /\ ChannelOnBand'
  BY <1>2, <1>3, <1>4, <1>6 DEF RadioInv, CandidateMade, ChannelOnBand
<1>. QED BY <1>9, <1>10 DEF RadioInv

\* A flow starts the thread it will await, or is done with it.
LEMMA FlowThread ==
  ASSUME RadioInv, UNCHANGED <<mode, heard, wlan, conf, misses, world>>,
         \/ thread' = thread
         \/ \E t \in {Resting, StartClient, StartAP(settings.band)} :
              thread' = [thread EXCEPT !["flow"] = t]
  PROVE  RadioInv'
<1>1. /\ thread \in [Callers -> ThreadType] /\ settings.band \in Bands \cup {""}
      /\ mode \in {"unknown", "ap", "client"} /\ heard \in Bands /\ misses \in 0..2
      /\ "flow" \in Callers
  BY DEF RadioInv, WifiTypeOK, ThreadType, Callers
<1>2. thread = [thread EXCEPT !["flow"] = thread["flow"]]
  BY <1>1
<1>3. PICK t \in {thread["flow"], Resting, StartClient, StartAP(settings.band)} :
        thread' = [thread EXCEPT !["flow"] = t]
  BY <1>2
<1>. QED BY <1>1, <1>3, QuietStep

\* The radio in every step.
LEMMA RadioStep ==
  ASSUME RadioInv, [Next]_vars
  PROVE  RadioInv'
<1>1. CASE RadioNext
  BY <1>1, ThreadStep, WorldStep DEF RadioNext, WifiNext
<1>2. CASE Start \/ CableChanges \/ UNCHANGED vars
  <2>1. UNCHANGED <<radio, world>>
    BY <1>2 DEF Start, CheckUpdate, InstallOffline, InstallOnline, Reinstall, Launch,
       CableChanges, vars, wifiVars
  <2>. QED BY <2>1, FlowThread DEF radio
<1>3. CASE FlowStep
  <2>1. ASSUME FetchList \/ Download \/ Prune \/ Install \/ InstallFailed PROVE RadioInv'
    <3>1. UNCHANGED <<radio, world>>
      BY <2>1 DEF FetchList, Download, Prune, Install, InstallFailed
    <3>. QED BY <3>1, FlowThread DEF radio
  <2>2. ASSUME Probe \/ Joined \/ Verify \/ Rescued \/ Return \/ Back PROVE RadioInv'
    <3>1. UNCHANGED <<mode, heard, wlan, conf, misses, world>>
      BY <2>2 DEF Probe, Joined, Verify, Rescued, Return, Back
    <3>2. \/ thread' = thread
          \/ \E t \in {Resting, StartClient, StartAP(settings.band)} :
               thread' = [thread EXCEPT !["flow"] = t]
      BY <2>2 DEF Probe, Joined, Verify, Rescued, Return, Back
    <3>. QED BY <3>1, <3>2, FlowThread
  <2>. QED BY <1>3, <2>1, <2>2 DEF FlowStep
<1>4. ASSUME NEW s \in script, ScriptStep(s) PROVE RadioInv'
  BY <1>4, BootStep, FlowThread
     DEF ScriptStep, ScriptBegins, ScriptInstalls, ScriptReports, ScriptFails, Restart, radio
<1>5. CASE TimerFires \/ PowerCut
  BY <1>5, BootStep DEF TimerFires, PowerCut, Restart
<1>. QED BY <1>1, <1>2, <1>3, <1>4, <1>5 DEF Next

\* What the orchestrator makes of the record of a flow at work.
LEMMA FlowStates ==
  ASSUME FlowTypeOK, Working, flow.at # "idle",
         NEW at \in {"join", "verify", "rescue", "check", "checkpre", "download", "install",
                     "await", "return", "back"},
         NEW S \in SUBSET DOMAIN Releases
  PROVE  \A f \in {[flow EXCEPT !.at = at], [flow EXCEPT !.at = flow.work],
                   [flow EXCEPT !.at = at, !.switched = TRUE],
                   [flow EXCEPT !.at = at, !.left = S], [flow EXCEPT !.left = S],
                   [flow EXCEPT !.at = at, !.bad = TRUE]} :
           f \in FlowShape /\ f.work # "none"
<1>1. /\ flow \in FlowShape
      /\ flow.work \in {"check", "checkpre", "install"}
  BY DEF FlowTypeOK, FlowShape, Working
<1>2. flow.at \in {"idle", "probe", "join", "verify", "rescue", "check", "checkpre",
                   "download", "install", "await", "return", "back"}
  BY <1>1 DEF FlowShape
<1>3. ASSUME NEW f \in {[flow EXCEPT !.at = at], [flow EXCEPT !.at = flow.work],
                        [flow EXCEPT !.at = at, !.switched = TRUE]}
      PROVE  f \in FlowShape /\ f.work # "none"
  BY <1>1, <1>3 DEF FlowShape
<1>4. ASSUME NEW f \in {[flow EXCEPT !.at = at, !.left = S], [flow EXCEPT !.left = S],
                        [flow EXCEPT !.at = at, !.bad = TRUE]}
      PROVE  f \in FlowShape /\ f.work # "none"
  BY <1>1, <1>4 DEF FlowShape
<1>. QED BY <1>3, <1>4

\* The flow, its status and the versions stored.
LEMMA FlowTypeStep ==
  ASSUME RadioInv', FlowTypeOK, Working, [Next]_vars
  PROVE  FlowTypeOK' /\ Working'
<1>1. /\ flow \in FlowShape /\ Idle \in FlowShape /\ Idle.at = "idle"
      /\ disk \subseteq Nat /\ running \in Nat /\ script \subseteq Scripts
      /\ status \in Terminal \cup {"none", "busy"} /\ timer \in BOOLEAN /\ cable \in BOOLEAN
      /\ flows \in 0..MaxFlows
  BY DEF FlowTypeOK, FlowShape, Scripts, Idle
<1>2. WifiTypeOK'
  BY DEF RadioInv
<1>3. ASSUME UNCHANGED flowVars PROVE FlowTypeOK' /\ Working'
  BY <1>2, <1>3 DEF flowVars, FlowTypeOK, Working
<1>4. ASSUME NEW f \in FlowShape, f.at = "idle" \/ f.work # "none", flow' = f,
             status' \in Terminal \cup {"none", "busy"}, timer' \in BOOLEAN, cable' \in BOOLEAN,
             disk' \subseteq Nat, running' \in Nat, script' \subseteq Scripts, flows' \in 0..MaxFlows
      PROVE  FlowTypeOK' /\ Working'
  BY <1>2, <1>4 DEF FlowTypeOK, FlowShape, Scripts, Working
<1>5. MayStart => flows' \in 0..MaxFlows
  BY FlowAssumption DEF MayStart, FlowTypeOK
<1>6. flow.at = "idle" \/ flow.work # "none"
  BY DEF Working
<1>7. /\ "busy" \in Terminal \cup {"none", "busy"} /\ "none" \in Terminal \cup {"none", "busy"}
      /\ "error" \in Terminal /\ "done" \in Terminal /\ "watchdog" \in Terminal
  BY DEF Terminal
<1>8. CASE Start
  <2>1. ASSUME NEW work \in {"check", "checkpre", "install"}, NEW ver \in Nat, MayStart,
               Launch(work, ver)
        PROVE  FlowTypeOK' /\ Working'
    <3>. DEFINE f == [Idle EXCEPT !.at = "probe", !.work = work, !.ver = ver]
    <3>1. f \in FlowShape /\ f.work # "none"
      BY DEF Idle, FlowShape
    <3>. HIDE DEF f
    <3>2. UNCHANGED <<timer, disk, running, script, cable>> /\ status' = "busy" /\ flow' = f
      BY <2>1 DEF Launch, f
    <3>. QED BY <1>1, <1>4, <1>5, <1>7, <2>1, <3>1, <3>2
  <2>2. ASSUME NEW v \in disk, InstallOffline(v) PROVE FlowTypeOK' /\ Working'
    <3>1. /\ MayStart /\ status' = "busy" /\ script' = script \cup {Installer(v, "starts")}
          /\ UNCHANGED <<flow, timer, disk, running, cable>>
      BY <2>2 DEF InstallOffline
    <3>2. Installer(v, "starts") \in Scripts
      BY <1>1 DEF Installer, Scripts
    <3>. QED BY <1>1, <1>4, <1>5, <1>6, <1>7, <3>1, <3>2
  <2>3. ASSUME NEW v \in disk, InstallOnline(v) PROVE FlowTypeOK' /\ Working'
    BY <1>1, <2>1, <2>3 DEF InstallOnline
  <2>4. ASSUME NEW pre \in BOOLEAN, CheckUpdate(pre) PROVE FlowTypeOK' /\ Working'
    BY <1>1, <2>1, <2>4 DEF CheckUpdate
  <2>. QED BY <1>8, <2>2, <2>3, <2>4 DEF Start, Reinstall
<1>9. CASE FlowStep
  <2>1. ASSUME NEW s \in Terminal, Leave(s) PROVE flow' = Idle /\ status' \in Terminal /\ timer' \in BOOLEAN
    BY <1>1, <1>7, <2>1 DEF Leave, Says
  <2>2. CASE Probe \/ Joined \/ Verify \/ Rescued \/ Return \/ Back
    <3>1. UNCHANGED <<disk, running, script, cable, flows>> /\ flow.at # "idle"
      BY <2>2 DEF Probe, Joined, Verify, Rescued, Return, Back, Flow
    <3>2. /\ status' \in Terminal \cup {"none", "busy"} /\ timer' \in BOOLEAN
      BY <1>1, <1>7, <2>1, <2>2 DEF Probe, Joined, Verify, Rescued, Return, Back, Says
    <3>3. \/ flow' = Idle
          \/ flow' = [flow EXCEPT !.at = flow.work]
          \/ flow' = [flow EXCEPT !.at = "join", !.switched = TRUE]
          \/ \E at \in {"verify", "rescue", "back"} : flow' = [flow EXCEPT !.at = at]
      BY <2>1, <2>2, <1>7 DEF Probe, Joined, Verify, Rescued, Return, Back, Goes
    <3>4. flow' \in FlowShape /\ (flow'.at = "idle" \/ flow'.work # "none")
      BY <1>1, <3>1, <3>3, FlowStates
    <3>. QED BY <1>1, <1>4, <3>1, <3>2, <3>4
  <2>3. CASE FetchList \/ Download \/ Prune \/ Install \/ InstallFailed
    <3>1. UNCHANGED <<timer, running, cable, flows>> /\ flow.at # "idle"
      BY <2>3 DEF FetchList, Download, Prune, Install, InstallFailed, Flow, Checking
    <3>2. status' \in Terminal \cup {"none", "busy"}
      BY <1>1, <1>7, <2>3 DEF FetchList, Download, Prune, Install, InstallFailed, Says
    <3>3. disk' \subseteq Nat
      <4>1. \A i \in DOMAIN Releases : Releases[i].ver \in Nat
        <5>. DEFINE Release == [ver : Nat, pre : BOOLEAN]
        <5>1. \A r \in Release : r.ver \in Nat
          OBVIOUS
        <5>2. Releases \in Seq(Release)
          BY FlowAssumption
        <5>. HIDE DEF Release
        <5>3. \A i \in DOMAIN Releases : Releases[i] \in Release
          BY <5>2
        <5>. QED BY <5>1, <5>3
      <4>2. flow.left \subseteq DOMAIN Releases
        BY <1>1 DEF FlowShape
      <4>. QED BY <1>1, <2>3, <4>1, <4>2
           DEF FetchList, Download, Prune, Install, InstallFailed, Newest
    <3>4. script' \subseteq Scripts
      <4>1. Installer(flow.ver, "starts") \in Scripts
        BY <1>1 DEF Installer, Scripts, FlowShape
      <4>. QED BY <1>1, <2>3, <4>1 DEF FetchList, Download, Prune, Install, InstallFailed
    <3>5. \/ \E at \in {"return", "await"} : flow' = [flow EXCEPT !.at = at]
          \/ flow' = [flow EXCEPT !.at = "return", !.bad = TRUE]
          \/ \E S \in SUBSET DOMAIN Releases :
               \/ flow' = [flow EXCEPT !.at = "download", !.left = S]
               \/ flow' = [flow EXCEPT !.left = S]
      <4>1. Wanted \subseteq DOMAIN Releases
        BY DEF Wanted
      <4>2. \A i : flow.left \ {i} \subseteq DOMAIN Releases
        BY <1>1 DEF FlowShape
      <4>. QED BY <2>3, <4>1, <4>2
           DEF FetchList, Download, Prune, Install, InstallFailed, Goes
    <3>6. flow' \in FlowShape /\ (flow'.at = "idle" \/ flow'.work # "none")
      <4>1. ASSUME NEW at \in {"return", "await"}, flow' = [flow EXCEPT !.at = at]
            PROVE  flow' \in FlowShape /\ flow'.work # "none"
        BY <3>1, <4>1, FlowStates
      <4>2. ASSUME flow' = [flow EXCEPT !.at = "return", !.bad = TRUE]
            PROVE  flow' \in FlowShape /\ flow'.work # "none"
        BY <3>1, <4>2, FlowStates
      <4>3. ASSUME NEW S \in SUBSET DOMAIN Releases,
                   \/ flow' = [flow EXCEPT !.at = "download", !.left = S]
                   \/ flow' = [flow EXCEPT !.left = S]
            PROVE  flow' \in FlowShape /\ flow'.work # "none"
        <5>1. CASE flow' = [flow EXCEPT !.at = "download", !.left = S]
          BY <3>1, <5>1, FlowStates
        <5>2. CASE flow' = [flow EXCEPT !.left = S]
          <6>1. \A at \in {"download"} : flow' \in FlowShape /\ flow'.work # "none"
            BY <3>1, <5>2, FlowStates
          <6>. QED BY <6>1
        <5>. QED BY <4>3, <5>1, <5>2
      <4>. QED BY <3>5, <4>1, <4>2, <4>3
    <3>. QED BY <1>1, <1>4, <3>1, <3>2, <3>3, <3>4, <3>6
  <2>. QED BY <1>9, <2>2, <2>3 DEF FlowStep
<1>10. ASSUME NEW s \in script, ScriptStep(s) PROVE FlowTypeOK' /\ Working'
  <2>1. /\ flow' \in {flow, Idle} /\ status' \in Terminal \cup {"none", "busy"}
        /\ running' \in {running, s.ver} /\ UNCHANGED <<timer, disk, cable, flows>>
    BY <1>1, <1>7, <1>10
       DEF ScriptStep, ScriptBegins, ScriptInstalls, ScriptReports, ScriptFails, Restart
  <2>2. s.ver \in Nat /\ \A at \in {"installs", "reports"} : [s EXCEPT !.at = at] \in Scripts
    BY <1>1 DEF Scripts
  <2>3. script' \subseteq Scripts
    BY <1>1, <1>10, <2>2
       DEF ScriptStep, ScriptBegins, ScriptInstalls, ScriptReports, ScriptFails, Becomes
  <2>. QED BY <1>1, <1>4, <1>6, <2>1, <2>2, <2>3
<1>11. CASE TimerFires \/ PowerCut
  <2>1. /\ flow' = Idle /\ timer' = FALSE
        /\ script' \subseteq script /\ UNCHANGED <<disk, running, cable, flows>>
    BY <1>11 DEF TimerFires, PowerCut, Restart
  <2>2. status' \in Terminal \cup {"none", "busy"}
    BY <1>7, <1>11 DEF TimerFires, PowerCut
  <2>3. timer' \in BOOLEAN /\ cable' \in BOOLEAN
    BY <1>1, <2>1
  <2>4. disk' \subseteq Nat /\ running' \in Nat /\ script' \subseteq Scripts /\ flows' \in 0..MaxFlows
    BY <1>1, <2>1
  <2>. QED BY <1>1, <1>4, <2>1, <2>2, <2>3, <2>4
<1>12. CASE CableChanges
  <2>1. cable' \in BOOLEAN /\ UNCHANGED <<flow, status, timer, disk, running, script, flows>>
    BY <1>1, <1>12 DEF CableChanges
  <2>. QED BY <1>1, <1>4, <1>6, <2>1
<1>13. CASE RadioNext \/ UNCHANGED vars
  <2>1. UNCHANGED flowVars
    BY <1>13 DEF RadioNext, vars
  <2>. QED BY <1>3, <2>1
<1>. QED BY <1>8, <1>9, <1>10, <1>11, <1>12, <1>13 DEF Next

-----------------------------------------------------------------------------
(* The theorems.                                                           *)

\* The first state: the process that boots makes its access point.
LEMMA InitInv == Init => IInv
<1>. SUFFICES ASSUME Init PROVE IInv
  OBVIOUS
<1>1. StartAP("2.4") \in ThreadType /\ Resting \in ThreadType
      /\ StartAP("2.4").cand = NoConf /\ Resting.cand = NoConf
      /\ StartAP("2.4").at = "survey" /\ Resting.at = "none"
  BY DEF StartAP, Resting, ThreadType, ConfType, Bands
<1>2. thread = [c \in Callers |-> IF c = "boot" THEN StartAP("2.4") ELSE Resting]
  BY DEF Init, WifiInit
<1>3. thread \in [Callers -> ThreadType]
  BY <1>1, <1>2
<1>4. Down \in [as : {"down", "client", "ap", "stuck"}, conf : ConfType] /\ "2.4" \in Bands
      /\ NoConf \in ConfType
  BY DEF Down, ConfType, NoConf, Bands
<1>5. settings \in [pref : Prefs, creds : BOOLEAN, band : Bands, psk : Passwords]
  BY RadioAssumption DEF Init, WifiInit, Prefs, Bands
<1>6. WifiTypeOK
  <2>1. wlan \in [as : {"down", "client", "ap", "stuck"}, conf : ConfType] /\ conf \in ConfType
    BY <1>4 DEF Init, WifiInit
  <2>2. /\ mode \in {"unknown", "ap", "client"} /\ heard \in Bands
        /\ home \in {"internet", "lan", "away"}
    BY <1>4 DEF Init, WifiInit
  <2>3. misses \in 0..2 /\ commands \in 0..MaxCommands
    BY RadioAssumption DEF Init, WifiInit
  <2>. QED BY <1>3, <1>5, <2>1, <2>2, <2>3 DEF WifiTypeOK, ThreadType
<1>7. CandidateMade /\ ChannelOnBand
  BY <1>1, <1>2 DEF Init, WifiInit, CandidateMade, ChannelOnBand
<1>8. FlowTypeOK /\ Working
  <2>1. flow \in FlowShape /\ flow.at = "idle"
    BY DEF Init, Idle, FlowShape
  <2>2. status \in Terminal \cup {"none", "busy"} /\ timer \in BOOLEAN /\ cable \in BOOLEAN
    BY DEF Init
  <2>3. disk \subseteq Nat /\ running \in Nat /\ script \subseteq Scripts /\ flows \in 0..MaxFlows
    BY FlowAssumption DEF Init
  <2>. QED BY <1>6, <2>1, <2>2, <2>3 DEF FlowTypeOK, FlowShape, Scripts, Working
<1>. QED BY <1>6, <1>7, <1>8 DEF IInv, RadioInv

\* The invariant holds in every reachable state.
THEOREM Invariant == Spec => []IInv
<1>1. IInv /\ [Next]_vars => IInv'
  BY RadioStep, FlowTypeStep DEF IInv
<1>. QED BY InitInv, <1>1, PTL DEF Spec

\* The radio, its threads and the flow keep the shapes the code gives them.
THEOREM FlowTypeCorrect == Spec => []FlowTypeOK
<1>1. IInv => FlowTypeOK
  BY DEF IInv
<1>. QED BY Invariant, <1>1, PTL

\* hostapd is never given a channel of another band, whoever runs start_ap.
THEOREM ChannelsOnBand == Spec => []ChannelOnBand
<1>1. IInv => ChannelOnBand
  BY DEF IInv, RadioInv
<1>. QED BY Invariant, <1>1, PTL

\* No flow deletes the version that runs: a rollback finds it.
THEOREM RollbackHolds == Spec => RollbackKept
<1>1. [Next]_vars => [(running \in disk /\ running' = running) => (running \in disk')]_vars
  <2>1. SUFFICES ASSUME Next, running \in disk, running' = running PROVE running \in disk'
    OBVIOUS
  <2>2. CASE RadioNext
    BY <2>1, <2>2 DEF RadioNext, flowVars
  <2>3. CASE Start
    BY <2>1, <2>3 DEF Start, CheckUpdate, InstallOffline, InstallOnline, Reinstall, Launch
  <2>4. CASE FlowStep
    BY <2>1, <2>4 DEF FlowStep, Probe, Joined, Verify, Rescued, Return, Back, FetchList,
       Download, Prune, Install, InstallFailed
  <2>5. ASSUME NEW s \in script, ScriptStep(s), running' = running PROVE running \in disk'
    BY <2>1, <2>5 DEF ScriptStep, ScriptBegins, ScriptInstalls, ScriptReports, ScriptFails
  <2>6. CASE CableChanges \/ TimerFires \/ PowerCut
    BY <2>1, <2>6 DEF CableChanges, TimerFires, PowerCut
  <2>. QED BY <2>1, <2>2, <2>3, <2>4, <2>5, <2>6 DEF Next
<1>. QED BY <1>1, PTL DEF Spec, RollbackKept

=============================================================================
