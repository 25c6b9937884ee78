----------------------------- MODULE UpdateFlow -----------------------------
(***************************************************************************)
(* Checking for, downloading and installing releases: class UpdateFetcher  *)
(* and its helpers (update_flow.py), the handlers that start them          *)
(* (api/updates.py), the install script and the watchdog timer, on top of  *)
(* the radio (Wifi).                                                       *)
(*                                                                         *)
(* A flow that needs the internet may leave the access point for the home  *)
(* network and has to come back.  The install script and the timer are     *)
(* processes of their own: they outlive the service, which they restart.   *)
(***************************************************************************)
EXTENDS Wifi

CONSTANTS
  Releases,   \* the releases on GitHub, newest first: records [ver, pre]
  FirstDisk,  \* the versions stored at the beginning
  Keep,       \* KEEP_VERSIONS
  MaxFlows    \* bound on the flows started

ASSUME FlowAssumption ==
  /\ FirstDisk \subseteq Nat /\ Keep \in Nat \ {0} /\ MaxFlows \in Nat
  /\ Releases \in Seq([ver : Nat, pre : BOOLEAN])

VARIABLES
  flow,     \* the orchestrator task: its step, its work and where it has got to
  status,   \* /run/raspimidihub/update-status
  timer,    \* whether the watchdog timer is armed
  disk,     \* the versions in UPDATES_DIR
  running,  \* __version__
  script,   \* the install scripts at work: the version, and how far they are
  cable,    \* whether ethernet leads to the internet
  flows     \* flows started so far

flowVars == <<flow, status, timer, disk, running, script, cable, flows>>
vars == <<wifiVars, flowVars>>

Idle == [at |-> "idle", work |-> "none", ver |-> 0, switched |-> FALSE, left |-> {}, bad |-> FALSE]

\* in_flight_check: set when a handler starts a task, clear when it is done.
InFlight == flow.at # "idle"

Terminal == {"done", "error", "watchdog"}
Online   == cable \/ (wlan.as = "client" /\ home = "internet")

\* parse_version: the pre-releases of a version sort below it, so that a number
\* stands for each.
Newest(n, S) == {v \in S : Cardinality({w \in S : w > v}) < n}

Init ==
  /\ WifiInit
  /\ flow = Idle /\ status = "none" /\ timer = FALSE
  /\ disk = FirstDisk /\ running = 2 /\ script = {} /\ cable = FALSE /\ flows = 0

-----------------------------------------------------------------------------
(* The process.                                                            *)

\* systemctl restart: by the package, or by the watchdog.
Restart == BootRadio(FALSE) /\ flow' = Idle

\* tmpfs, the timer and the script are gone after a power cut.
PowerCut ==
  /\ "power" \in Faults /\ flows = MaxFlows /\ flow # Idle
  /\ BootRadio(TRUE) /\ flow' = Idle
  /\ status' = "none" /\ timer' = FALSE /\ script' = {}
  /\ UNCHANGED <<world, disk, running, cable, flows>>

\* raspimidihub-update-watchdog: after 180 s, whatever the flow is doing.
TimerFires ==
  /\ timer /\ timer' = FALSE /\ status' = "watchdog"
  /\ Restart
  /\ UNCHANGED <<world, disk, running, script, cable, flows>>

-----------------------------------------------------------------------------
(* The handlers.  (start_new_session: a script is not part of the flow.)   *)

MayStart == flows < MaxFlows /\ flows' = flows + 1 /\ ~Busy("boot") /\ (Hurried \/ AllQuiet)

Launch(work, ver) ==
  /\ ~InFlight
  /\ flow' = [Idle EXCEPT !.at = "probe", !.work = work, !.ver = ver]
  /\ status' = "busy"
  /\ UNCHANGED <<radio, world, timer, disk, running, script, cable>>

CheckUpdate(pre) == MayStart /\ Launch(IF pre THEN "checkpre" ELSE "check", running)

\* A script that is started, in the flow or beside it.
Installer(v, at) == [ver |-> v, at |-> at]

\* A deb whose dependencies are all there is installed at once, in-flight or not.
InstallOffline(v) ==
  /\ MayStart /\ v \in disk
  /\ status' = "busy" /\ script' = script \cup {Installer(v, "starts")}
  /\ UNCHANGED <<radio, world, flow, timer, disk, running, cable>>

InstallOnline(v) == MayStart /\ v \in disk /\ Launch("install", v)

\* Always through UpdateFetcher, and refused while a flow is under way.
Reinstall == running \in disk /\ InstallOnline(running)

Becomes(s, at) == script' = (script \ {s}) \cup {[s EXCEPT !.at = at]}

\* A deb that has been pruned meanwhile: the script ends without a word.
ScriptBegins(s) ==
  /\ s.at = "starts"
  /\ IF s.ver \in disk THEN Becomes(s, "installs") /\ status' = "busy"
     ELSE script' = script \ {s} /\ UNCHANGED status
  /\ UNCHANGED <<radio, world, flow, timer, disk, running, cable, flows>>

\* apt: the package's postinst restarts the service ...
ScriptInstalls(s) ==
  /\ s.at = "installs" /\ Becomes(s, "reports")
  /\ running' = s.ver
  /\ Restart
  /\ UNCHANGED <<world, status, timer, disk, cable, flows>>

\* ... before the script reports.
ScriptReports(s) ==
  /\ s.at = "reports" /\ script' = script \ {s} /\ status' = "done"
  /\ UNCHANGED <<radio, world, flow, timer, disk, running, cable, flows>>

ScriptFails(s) ==
  /\ s.at = "installs" /\ script' = script \ {s} /\ status' = "error"
  /\ UNCHANGED <<radio, world, flow, timer, disk, running, cable, flows>>

-----------------------------------------------------------------------------
(* UpdateFetcher.                                                          *)

Flow(at) == flow.at = at
Goes(at) == flow' = [flow EXCEPT !.at = at]
Says(s)  == status' = s

\* Mutant: no status when the flow cannot go online.
Probe_Silent ==
  /\ Flow("probe")
  /\ IF Online THEN Goes(flow.work) /\ UNCHANGED <<timer, thread>>
     ELSE IF settings.pref # "wifi_for_updates" \/ ~settings.creds
     THEN flow' = Idle /\ UNCHANGED <<timer, thread>>
     ELSE /\ timer' = TRUE /\ flow' = [flow EXCEPT !.at = "join", !.switched = TRUE]
          /\ thread' = [thread EXCEPT !["flow"] = StartClient]
  /\ UNCHANGED <<mode, heard, wlan, conf, misses, world, status, disk, running, script, cable, flows>>

\* run: the network that is there, or the watchdog and the home network.
Probe ==
  /\ Flow("probe")
  /\ IF Online THEN Goes(flow.work) /\ Says("busy") /\ UNCHANGED <<timer, thread>>
     ELSE IF settings.pref # "wifi_for_updates" \/ ~settings.creds
     THEN flow' = Idle /\ Says("error") /\ UNCHANGED <<timer, thread>>
     ELSE /\ timer' = TRUE /\ flow' = [flow EXCEPT !.at = "join", !.switched = TRUE]
          /\ thread' = [thread EXCEPT !["flow"] = StartClient]
          /\ Says("busy")
  /\ UNCHANGED <<mode, heard, wlan, conf, misses, world, disk, running, script, cable, flows>>

\* run's finally: the watchdog is only called off when the access point is back.
\* (work that raised says so last of all.)
Leave(s) ==
  /\ flow' = Idle /\ Says(IF flow.bad THEN "error" ELSE s)
  /\ timer' = (timer /\ ~(flow.switched /\ mode = "ap"))

\* _transient_wifi_path, once start_client_with_fallback has returned.
Joined ==
  /\ Flow("join") /\ thread["flow"].at = "ended"
  /\ thread' = [thread EXCEPT !["flow"] = Resting]
  /\ IF mode = "client" THEN Goes("verify") /\ Says("busy") /\ UNCHANGED timer ELSE Leave("error")
  /\ UNCHANGED <<mode, heard, wlan, conf, misses, world, disk, running, script, cable, flows>>

\* Joined, but is there a way out?  If not, _switch_to_ap and an error.
Verify ==
  /\ Flow("verify")
  /\ IF Online THEN Goes(flow.work) /\ Says("busy") /\ UNCHANGED thread
     ELSE /\ Goes("rescue") /\ UNCHANGED status
          /\ thread' = [thread EXCEPT !["flow"] = StartAP(settings.band)]
  /\ UNCHANGED <<mode, heard, wlan, conf, misses, world, timer, disk, running, script, cable, flows>>

\* _switch_to_ap has returned (it logs what start_ap raises): _abort.
Rescued ==
  /\ Flow("rescue") /\ thread["flow"].at = "ended"
  /\ thread' = [thread EXCEPT !["flow"] = Resting]
  /\ Leave("error")
  /\ UNCHANGED <<mode, heard, wlan, conf, misses, world, disk, running, script, cable, flows>>

\* _run_work's finally, once the work is over: back to the access point ...
Return ==
  /\ Flow("return")
  /\ IF flow.switched
     THEN Goes("back") /\ Says("busy") /\ UNCHANGED timer
          /\ thread' = [thread EXCEPT !["flow"] = StartAP(settings.band)]
     ELSE Leave("done") /\ UNCHANGED thread
  /\ UNCHANGED <<mode, heard, wlan, conf, misses, world, disk, running, script, cable, flows>>

\* ... and 'done', over whatever was said before.
Back ==
  /\ Flow("back") /\ thread["flow"].at = "ended"
  /\ thread' = [thread EXCEPT !["flow"] = Resting]
  /\ Leave("done")
  /\ UNCHANGED <<mode, heard, wlan, conf, misses, world, disk, running, script, cable, flows>>

-----------------------------------------------------------------------------
(* The work: download_newer_releases, and the install script in the flow.  *)

Checking == flow.at \in {"check", "checkpre"}

\* The list: the running version if its deb is missing, and the newer ones that
\* are not stored and are of the chosen channel.
Wanted == {i \in DOMAIN Releases :
  LET r == Releases[i]
  IN  \/ r.ver = running /\ running \notin disk
      \/ r.ver > running /\ r.ver \notin disk /\ (r.pre => flow.work = "checkpre")}

FetchList ==
  /\ Checking
  /\ \/ flow' = [flow EXCEPT !.at = "download", !.left = Wanted]
     \/ flow' = [flow EXCEPT !.at = "return", !.bad = TRUE]
  /\ Says("busy")
  /\ UNCHANGED <<radio, world, timer, disk, running, script, cable, flows>>

\* The running version comes first, then the list in its order.
Upcoming(i) == \/ Releases[i].ver = running
               \/ \A j \in flow.left : Releases[j].ver # running /\ i <= j

\* One release; a download may fail half way and the loop goes on.
Download ==
  /\ Flow("download")
  /\ \E i \in flow.left :
       /\ Upcoming(i)
       /\ flow' = [flow EXCEPT !.left = @ \ {i}]
       /\ \/ Online /\ disk' = disk \cup {Releases[i].ver}
          \/ disk' = disk
  /\ Says("busy")
  /\ UNCHANGED <<radio, world, timer, running, script, cable, flows>>

\* Mutant: prune_stored without what it should protect.
Prune_Unprotected ==
  /\ Flow("download") /\ flow.left = {}
  /\ disk' = Newest(Keep, disk)
  /\ Goes("return")
  /\ UNCHANGED <<radio, world, status, timer, running, script, cable, flows>>

\* prune_stored: the newest few and the running version.
Prune ==
  /\ Flow("download") /\ flow.left = {}
  /\ disk' = Newest(Keep, disk) \cup ({running} \cap disk)
  /\ Goes("return")
  /\ UNCHANGED <<radio, world, status, timer, running, script, cable, flows>>

\* The install script, awaited by the flow.
Install ==
  /\ Flow("install")
  /\ script' = script \cup {Installer(flow.ver, "starts")} /\ Goes("await") /\ Says("busy")
  /\ UNCHANGED <<radio, world, timer, disk, running, cable, flows>>

InstallFailed ==
  /\ Flow("await") /\ \A s \in script : s.ver # flow.ver
  /\ Goes("return")
  /\ UNCHANGED <<radio, world, status, timer, disk, running, script, cable, flows>>

FlowStep == \/ Probe \/ Joined \/ Verify \/ Rescued \/ Return \/ Back
            \/ FetchList \/ Download \/ Prune \/ Install \/ InstallFailed

CableChanges ==
  /\ cable' = ~cable
  /\ UNCHANGED <<radio, world, flow, status, timer, disk, running, script, flows>>

-----------------------------------------------------------------------------

Start == \/ \E pre \in BOOLEAN : CheckUpdate(pre)
         \/ \E v \in disk : InstallOffline(v) \/ InstallOnline(v)
         \/ Reinstall

ScriptStep(s) == \/ ScriptBegins(s) \/ ScriptInstalls(s) \/ ScriptReports(s)
                 \/ ScriptFails(s)

RadioNext == /\ WifiNext
             /\ (settings' # settings => Hurried \/ flow = Idle)
             /\ UNCHANGED flowVars

Next == \/ RadioNext \/ Start \/ FlowStep \/ (\E s \in script : ScriptStep(s))
        \/ CableChanges \/ TimerFires \/ PowerCut

\* The threads, the tasks, the script and systemd's timer keep running.
Fairness ==
  /\ \A c \in Callers : WF_vars(Thread(c) /\ UNCHANGED flowVars)
  /\ WF_vars(Check /\ UNCHANGED flowVars)
  /\ WF_vars(FlowStep) /\ WF_vars(\E s \in script : ScriptStep(s)) /\ WF_vars(TimerFires)

Spec == Init /\ [][Next]_vars /\ Fairness

-----------------------------------------------------------------------------

FlowTypeOK ==
  /\ WifiTypeOK
  /\ flow \in [at : {"idle", "probe", "join", "verify", "rescue", "check", "checkpre",
                     "download", "install", "await", "return", "back"},
               work : {"none", "check", "checkpre", "install"}, ver : Nat,
               switched : BOOLEAN, left : SUBSET DOMAIN Releases, bad : BOOLEAN]
  /\ status \in Terminal \cup {"none", "busy"} /\ timer \in BOOLEAN /\ cable \in BOOLEAN
  /\ disk \subseteq Nat /\ running \in Nat /\ flows \in 0..MaxFlows
  /\ script \subseteq [ver : Nat, at : {"starts", "installs", "reports"}]

\* Each flow ends by telling the browser how, through all its failures.
FlowReports == (status = "busy") ~> (status \in Terminal \cup {"none"})

\* The running version, once stored, stays stored for a rollback.
RollbackKept ==
  [][(running \in disk /\ running' = running) => (running \in disk')]_vars
=============================================================================
