----------------------------- MODULE NetworkMidi -----------------------------
(***************************************************************************)
(* One exported device and the hub that mirrors it (network_midi.py): the   *)
(* ExportedSession answers invitations and clock syncs, the sessions that   *)
(* the other hub's NetworkMidiManager dials shake hands on two ports, one   *)
(* after the other, and then probe the exporter with a clock sync round     *)
(* every ten seconds.  Datagrams are lost, and an OK may be late.           *)
(*                                                                         *)
(* Dialling awaits: two tasks of the manager (an mDNS event, a reconnect)   *)
(* may dial the same service at the same time.                             *)
(***************************************************************************)
EXTENDS Naturals, FiniteSets

CONSTANTS
  Session,        \* sessions the mirroring hub may have at a time: their SSRCs
  Tries,          \* HANDSHAKE_RETRIES
  MaxUnanswered,  \* CK_MAX_UNANSWERED
  ReapAfter       \* PARTICIPANT_TIMEOUT, in clock sync rounds

NetAssumption == {Tries, MaxUnanswered, ReapAfter} \subseteq Nat \ {0}

VARIABLES
  exported,  \* whether the exporting hub has the session
  parts,     \* its participants: how far each SSRC has joined
  unheard,   \* rounds since each participant was heard
  net,       \* datagrams under way
  listed,    \* whether the service is in _discovered
  dial,      \* each session of the mirroring hub: where its task is
  tries,     \* invitations sent on the present port
  unanswered,\* rounds without an answer
  answered,  \* _ck_answered
  mirror,    \* _mirrors[service]
  retry      \* whether a reconnect task exists

netVars == <<exported, parts, unheard, net, listed, dial, tries, unanswered, answered, mirror, retry>>
exporter == <<exported, parts, unheard>>
dialler  == <<dial, tries, unanswered, answered, mirror, retry>>

Nobody == "nobody"
Packet == [kind : {"in1", "in2", "ok", "ck0", "ck1", "bye", "left"}, ssrc : Session]
P(kind, s) == [kind |-> kind, ssrc |-> s]

NetInit ==
  /\ exported = FALSE /\ parts = [s \in Session |-> "none"] /\ unheard = [s \in Session |-> 0]
  /\ net = {} /\ listed = FALSE
  /\ dial = [s \in Session |-> "none"] /\ tries = [s \in Session |-> 0]
  /\ unanswered = [s \in Session |-> 0] /\ answered = [s \in Session |-> FALSE]
  /\ mirror = Nobody /\ retry = FALSE

Live(s) == dial[s] = "live"

-----------------------------------------------------------------------------
(* The exporting hub: ExportedSession.                                     *)

Export ==
  /\ ~exported /\ exported' = TRUE
  /\ UNCHANGED <<parts, unheard, net, listed, dialler>>

\* stop: BY to every participant; a crash or a power cut says nothing.
Withdraw(farewell) ==
  /\ exported /\ exported' = FALSE
  /\ net' = net \cup {p \in Packet : farewell /\ p.kind = "left" /\ parts[p.ssrc] # "none"}
  /\ parts' = [s \in Session |-> "none"] /\ unheard' = [s \in Session |-> 0]
  /\ UNCHANGED <<listed, dialler>>

\* on_control, on_data, _on_clock.  A clock sync is answered whoever asks.
Answer(p) ==
  /\ exported /\ p \in net
  /\ \/ /\ p.kind = "in1" /\ parts' = [parts EXCEPT ![p.ssrc] = IF @ = "none" THEN "known" ELSE @]
        /\ net' = (net \ {p}) \cup {P("ok", p.ssrc)} /\ UNCHANGED unheard
     \/ /\ p.kind = "in2" /\ parts' = [parts EXCEPT ![p.ssrc] = "joined"]
        /\ net' = (net \ {p}) \cup {P("ok", p.ssrc)} /\ UNCHANGED unheard
     \/ /\ p.kind = "ck0" /\ unheard' = [unheard EXCEPT ![p.ssrc] = 0]
        /\ net' = (net \ {p}) \cup {P("ck1", p.ssrc)} /\ UNCHANGED parts
     \/ /\ p.kind = "bye" /\ parts' = [parts EXCEPT ![p.ssrc] = "none"]
        /\ net' = net \ {p} /\ UNCHANGED unheard
  /\ UNCHANGED <<exported, listed, dialler>>

\* _housekeep_once.
Reap(s) ==
  /\ exported /\ parts[s] # "none" /\ unheard[s] = ReapAfter
  /\ parts' = [parts EXCEPT ![s] = "none"] /\ unheard' = [unheard EXCEPT ![s] = 0]
  /\ UNCHANGED <<exported, net, listed, dialler>>

\* Ten seconds without a session that would send clock syncs.
Later(s) == [unheard EXCEPT ![s] = IF parts[s] # "none" /\ @ < ReapAfter THEN @ + 1 ELSE @]

Silence(s) ==
  /\ ~Live(s) /\ unheard' = Later(s) /\ unheard' # unheard
  /\ UNCHANGED <<exported, parts, net, listed, dialler>>

Lose(p) == p \in net /\ net' = net \ {p} /\ UNCHANGED <<exporter, listed, dialler>>

-----------------------------------------------------------------------------
(* The mirroring hub: MirroredSession.                                     *)

\* stop: what a session leaves behind.
Closed(s) == dial' = [dial EXCEPT ![s] = "none"]
Rest(s)   == /\ tries' = [tries EXCEPT ![s] = 0] /\ unanswered' = [unanswered EXCEPT ![s] = 0]
             /\ answered' = [answered EXCEPT ![s] = FALSE]

\* on_mirror_lost: the session goes, registered or not, and a reconnect is scheduled.
Lost(s) ==
  /\ Closed(s) /\ Rest(s)
  /\ mirror' = IF mirror = s THEN Nobody ELSE mirror
  /\ retry' = TRUE

\* _invite: on the first port, then on the second.
Invite(s, port) ==
  /\ dial' = [dial EXCEPT ![s] = port] /\ tries' = [tries EXCEPT ![s] = 1]
  /\ net' = net \cup {P(port, s)}

InviteTimesOut(s) ==
  /\ dial[s] \in {"in1", "in2"}
  /\ IF tries[s] < Tries
     THEN /\ net' = net \cup {P(dial[s], s)} /\ tries' = [tries EXCEPT ![s] = @ + 1]
          /\ UNCHANGED <<dial, unanswered, answered>>
     ELSE Closed(s) /\ Rest(s) /\ UNCHANGED net
  /\ UNCHANGED <<exporter, listed, mirror, retry>>

\* Any OK resolves the invitation that is waiting, whichever port it came from.
GetsOk(s) ==
  /\ P("ok", s) \in net
  /\ CASE dial[s] = "in1" ->
            /\ dial' = [dial EXCEPT ![s] = "in2"] /\ tries' = [tries EXCEPT ![s] = 1]
            /\ net' = (net \ {P("ok", s)}) \cup {P("in2", s)}
            /\ UNCHANGED <<answered, unanswered, mirror>>
       [] dial[s] = "in2" ->
            /\ dial' = [dial EXCEPT ![s] = "live"] /\ tries' = [tries EXCEPT ![s] = 0]
            /\ net' = (net \ {P("ok", s)}) \cup {P("ck0", s)}
            /\ mirror' = s /\ UNCHANGED <<answered, unanswered>>
       [] OTHER ->
            net' = net \ {P("ok", s)} /\ UNCHANGED <<dial, tries, answered, unanswered, mirror>>
  /\ UNCHANGED <<exporter, listed, retry>>

GetsClock(s) ==
  /\ P("ck1", s) \in net /\ net' = net \ {P("ck1", s)}
  /\ answered' = [answered EXCEPT ![s] = Live(s)]
  /\ UNCHANGED <<exporter, listed, dial, tries, unanswered, mirror, retry>>

GetsBye(s) ==
  /\ P("left", s) \in net /\ net' = net \ {P("left", s)}
  /\ IF dial[s] = "none" THEN UNCHANGED dialler ELSE Lost(s)
  /\ UNCHANGED <<exporter, listed>>

\* Mutant: a round that nobody answers is not counted.
Round_Uncounted(s) ==
  /\ Live(s) /\ unheard' = Later(s)
  /\ net' = (net \ {P("ck0", s), P("ck1", s)}) \cup {P("ck0", s)}
  /\ answered' = [answered EXCEPT ![s] = FALSE]
  /\ UNCHANGED <<unanswered, dial, tries, mirror, retry, exported, parts, listed>>

\* _ck_loop: ten seconds are over.  An answer to an earlier round does not count.
Round(s) ==
  /\ Live(s) /\ unheard' = Later(s)
  /\ IF ~answered[s] /\ unanswered[s] + 1 = MaxUnanswered
     THEN Lost(s) /\ net' = net \ {P("ck0", s), P("ck1", s)}
     ELSE /\ net' = (net \ {P("ck1", s)}) \cup {P("ck0", s)}
          /\ unanswered' = [unanswered EXCEPT ![s] = IF answered[s] THEN 0 ELSE @ + 1]
          /\ answered' = [answered EXCEPT ![s] = FALSE]
          /\ UNCHANGED <<dial, tries, mirror, retry>>
  /\ UNCHANGED <<exported, parts, listed>>

-----------------------------------------------------------------------------
(* The manager of the mirroring hub: discovery and reconnects.             *)

\* An SSRC that nothing on either hub or between them remembers.
Fresh(s) == dial[s] = "none" /\ parts[s] = "none" /\ \A p \in net : p.ssrc # s

\* _service_added: a task that first looks up the hub's own addresses.
ServiceAdded(s) ==
  /\ exported /\ Fresh(s)
  /\ listed' = TRUE /\ dial' = [dial EXCEPT ![s] = "lookup"]
  /\ UNCHANGED <<exporter, net, tries, unanswered, answered, mirror, retry>>

\* _apply_mirror_policy, after the await: one mirror per service, if it is registered by now.
Decide(s) ==
  /\ dial[s] = "lookup"
  /\ IF mirror # Nobody
     THEN dial' = [dial EXCEPT ![s] = "none"] /\ UNCHANGED <<tries, net>>
     ELSE Invite(s, "in1")
  /\ UNCHANGED <<exporter, listed, unanswered, answered, mirror, retry>>

\* _service_removed: a goodbye, or the records have expired, be the export gone or not.
ServiceRemoved ==
  /\ listed /\ listed' = FALSE
  /\ IF mirror = Nobody THEN UNCHANGED <<dial, tries, unanswered, answered>>
     ELSE Closed(mirror) /\ Rest(mirror)
  /\ mirror' = Nobody
  /\ UNCHANGED <<exporter, net, retry>>

\* The user takes the mirror down: BY.
Unmirror ==
  /\ mirror # Nobody /\ Closed(mirror) /\ Rest(mirror)
  /\ net' = net \cup {P("bye", mirror)} /\ mirror' = Nobody
  /\ UNCHANGED <<exporter, listed, retry>>

\* _schedule_reconnect's task: gives up when the service is gone or mirrored.
Reconnect ==
  /\ retry
  /\ IF ~listed \/ mirror # Nobody
     THEN retry' = FALSE /\ UNCHANGED dial
     ELSE \E s \in Session : Fresh(s) /\ dial' = [dial EXCEPT ![s] = "lookup"] /\ UNCHANGED retry
  /\ UNCHANGED <<exporter, net, listed, tries, unanswered, answered, mirror>>

SessionStep(s) == InviteTimesOut(s) \/ GetsOk(s) \/ GetsClock(s) \/ GetsBye(s) \/ Round(s) \/ Decide(s)

NetNext ==
  \/ Export \/ (\E farewell \in BOOLEAN : Withdraw(farewell))
  \/ \E p \in Packet : Answer(p) \/ Lose(p)
  \/ \E s \in Session : Reap(s) \/ Silence(s) \/ SessionStep(s) \/ ServiceAdded(s)
  \/ ServiceRemoved \/ Unmirror \/ Reconnect

NetFairness ==
  /\ \A s \in Session : /\ WF_netVars(Round(s)) /\ WF_netVars(Silence(s)) /\ WF_netVars(Reap(s))
                        /\ WF_netVars(InviteTimesOut(s)) /\ WF_netVars(Decide(s))

NetSpec == NetInit /\ [][NetNext]_netVars /\ NetFairness

-----------------------------------------------------------------------------

NetTypeOK ==
  /\ exported \in BOOLEAN /\ parts \in [Session -> {"none", "known", "joined"}]
  /\ unheard \in [Session -> 0..ReapAfter] /\ net \subseteq Packet /\ listed \in BOOLEAN
  /\ dial \in [Session -> {"none", "lookup", "in1", "in2", "live"}]
  /\ tries \in [Session -> 0..Tries] /\ unanswered \in [Session -> 0..(MaxUnanswered - 1)]
  /\ answered \in [Session -> BOOLEAN] /\ mirror \in Session \cup {Nobody} /\ retry \in BOOLEAN

\* A peer that vanishes without a goodbye (cable, power) takes its mirrors off the
\* matrix, also one that the manager has lost sight of.
Vanished(s) == Live(s) /\ ~exported
Noticed(s)  == ~Live(s) \/ exported

\* A participant whose session has ended, and whose BY was lost, is reaped.
Orphan(s) == parts[s] # "none" /\ dial[s] = "none"
Reaped(s) == parts[s] = "none"

\* Either end notices the loss of the other.
LossNoticed == \A s \in Session : (Vanished(s) ~> Noticed(s)) /\ (Orphan(s) ~> Reaped(s))
=============================================================================
