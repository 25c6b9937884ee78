---------------------------- MODULE EventStream ----------------------------
(***************************************************************************)
(* How one plugin parameter reaches the screen of a browser: the plugin's   *)
(* thread or a PATCH stores it, the trailing-edge coalescer of the host     *)
(* carries it to the event loop (coalesce.py), send_sse puts it into the    *)
(* outbox of every subscribed connection (web.py), and the connection's     *)
(* handler writes it out.  Strings are transitions and do not wait in the   *)
(* coalescer: the thread that wrote one emits it itself.  A view fetches    *)
(* the instance once, when it is opened, and lives by the events after.     *)
(***************************************************************************)
EXTENDS Naturals, Sequences

CONSTANTS
  Level,      \* the values of the parameter, numbers from 1
  OutboxSize  \* the size of the outbox

StreamAssumption == Level \subseteq Nat \ {0} /\ Level # {} /\ OutboxSize \in Nat \ {0}

VARIABLES
  stored,     \* the plugin's _param_values
  text,       \* its values are strings: every one is a transition that goes out at once
  wiring,     \* per writing thread: the value it has stored and not yet handed over, or 0
  stamped,    \* the threads whose value the coalescer has let pass, to emit it themselves
  pending,    \* the coalescer's _pending, or 0
  sent,       \* the coalescer's _sent, or 0
  emitting,   \* values taken out of the coalescer and still to be emitted, in order
  calls,      \* send_sse calls that wait on the event loop
  conn,       \* the SSE connection: "none", "open", "subscribed", or "broken" (the peer is gone)
  outbox,     \* its queue; 0 is any other message
  view,       \* "closed", "fetched" (the instance is loaded, the POST is not yet sent) or "live"
  shown,      \* what the view shows
  sure        \* nothing has happened to this view that the code cannot make up for (for the property)

coalescerVars == <<pending, sent, emitting>>
clientVars == <<conn, outbox, view, shown>>
streamVars == <<stored, text, wiring, stamped, coalescerVars, calls, clientVars, sure>>

Writer == {"plugin", "loop"}
Other == 0

StreamInit ==
  /\ stored \in Level /\ text \in BOOLEAN /\ wiring = [w \in Writer |-> 0] /\ stamped = {}
  /\ pending = 0 /\ sent = 0 /\ emitting = <<>> /\ calls = <<>>
  /\ conn = "none" /\ outbox = <<>> /\ view = "closed" /\ shown = 0 /\ sure = FALSE

\* set_param, of the plugin or of a PATCH (host.set_param): the value is stored, then
\* announced.  Two writers at once may announce in the other order.
Store(w, v) ==
  /\ wiring[w] = 0 /\ stored' = v /\ wiring' = [wiring EXCEPT ![w] = v]
  /\ sure' = (sure /\ view = "live" /\ \A u \in Writer : wiring[u] = 0)
  /\ UNCHANGED <<text, stamped, coalescerVars, calls, clientVars>>

\* A number or a structure is queued; the latest wins.
Submit(w) ==
  /\ ~text /\ wiring[w] # 0 /\ pending' = wiring[w] /\ wiring' = [wiring EXCEPT ![w] = 0]
  /\ UNCHANGED <<stored, text, stamped, sent, emitting, calls, clientVars, sure>>

\* emit_now, for a string: under the lock it is dropped if it was sent last, or marked as
\* sent ...
Stamp(w) ==
  /\ text /\ wiring[w] # 0 /\ w \notin stamped
  /\ IF wiring[w] = sent
     THEN wiring' = [wiring EXCEPT ![w] = 0] /\ UNCHANGED <<stamped, pending, sent>>
     ELSE stamped' = stamped \cup {w} /\ sent' = wiring[w] /\ pending' = 0 /\ UNCHANGED wiring
  /\ UNCHANGED <<stored, text, emitting, calls, clientVars, sure>>
\* ... and emitted outside it, by the thread that wrote.  Bound: no sooner than the loop
\* has run the call before.
EmitNow(w) ==
  /\ w \in stamped /\ calls = <<>> /\ calls' = <<wiring[w]>>
  /\ stamped' = stamped \ {w} /\ wiring' = [wiring EXCEPT ![w] = 0]
  /\ UNCHANGED <<stored, text, coalescerVars, clientVars, sure>>

\* flush, at 20 Hz on the loop, where the calls of the last one have run by then: the
\* queue is taken under the lock ...
Flush ==
  /\ emitting = <<>> /\ calls = <<>> /\ pending # 0
  /\ pending' = 0
  /\ IF pending = sent THEN UNCHANGED <<sent, emitting>> ELSE emitting' = <<pending>> /\ sent' = pending
  /\ UNCHANGED <<stored, text, wiring, stamped, calls, clientVars, sure>>

\* Mutant: the queue is emptied after the values are emitted.
Emit_ThenEmpties ==
  /\ emitting # <<>> /\ calls' = Append(calls, Head(emitting)) /\ emitting' = Tail(emitting)
  /\ pending' = 0 /\ UNCHANGED <<stored, text, wiring, stamped, sent, clientVars, sure>>
\* ... and emitted outside it: call_soon_threadsafe(send_sse).
Emit ==
  /\ emitting # <<>> /\ calls' = Append(calls, Head(emitting)) /\ emitting' = Tail(emitting)
  /\ UNCHANGED <<stored, text, wiring, stamped, pending, sent, clientVars, sure>>

\* send_sse: the connection is subscribed to the instance; a full outbox drops its oldest.
Put(m) == outbox' = (IF Len(outbox) = OutboxSize THEN Append(Tail(outbox), m) ELSE Append(outbox, m))
Loses == Len(outbox) = OutboxSize /\ Head(outbox) # Other
SendSse ==
  /\ calls # <<>> /\ calls' = Tail(calls)
  /\ IF conn \in {"none", "open"} THEN UNCHANGED <<outbox, sure>>
     ELSE Put(Head(calls)) /\ sure' = (sure /\ ~Loses)
  /\ UNCHANGED <<stored, text, wiring, stamped, coalescerVars, conn, view, shown>>

\* Every other event the view is subscribed to; the heartbeat waits for a free place.
SendOther(heartbeat) ==
  /\ IF heartbeat THEN conn # "none" /\ Len(outbox) < OutboxSize ELSE conn \in {"subscribed", "broken"}
  /\ Put(Other) /\ sure' = (sure /\ ~Loses)
  /\ UNCHANGED <<stored, text, wiring, stamped, coalescerVars, calls, conn, view, shown>>

\* _handle_sse writes out what has piled up; EventSource hands it to the view.
Drain ==
  /\ outbox # <<>> /\ conn \in {"open", "subscribed"} /\ outbox' = <<>>
  /\ LET mine == {i \in 1 .. Len(outbox) : outbox[i] # Other}
     IN \/ (view = "closed" \/ mine = {}) /\ shown' = shown
        \/ view # "closed" /\ \E i \in mine : (\A j \in mine : j <= i) /\ shown' = outbox[i]
  /\ UNCHANGED <<stored, text, wiring, stamped, coalescerVars, calls, conn, view, sure>>

\* EventSource connects, and again after an error; the intro carries the id that the
\* SubscriptionManager waits for.  No view fetches its instance again.
Connect ==
  /\ conn = "none" /\ conn' = "open" /\ outbox' = <<>>
  /\ UNCHANGED <<stored, text, wiring, stamped, coalescerVars, calls, view, shown, sure>>
PeerLeaves ==
  /\ conn \in {"open", "subscribed"} /\ conn' = "broken" /\ sure' = FALSE
  /\ UNCHANGED <<stored, text, wiring, stamped, coalescerVars, calls, outbox, view, shown>>
\* The peer's EOF, or the first write that fails: the finally clause of _handle_sse.
Shed ==
  /\ conn = "broken" /\ conn' = "none" /\ outbox' = <<>>
  /\ view' = (IF view = "live" THEN "fetched" ELSE view)
  /\ UNCHANGED <<stored, text, wiring, stamped, coalescerVars, calls, shown, sure>>

\* What the coalescer has sent last is what is stored, and what the view will fetch: a
\* value fetched before it is sent is not corrected when the next write takes it back.
\* Nothing of an earlier visit is still in the outbox, and no call of two writers that
\* overtook each other is on its way.
InStep ==
  /\ \A w \in Writer : wiring[w] = 0
  /\ pending = 0 /\ sent \in {0, stored}
  /\ \A i \in 1 .. Len(outbox) : outbox[i] = Other
  /\ \A i \in 1 .. Len(calls) : calls[i] = stored
\* A page is opened: it fetches the instance at once ...
Open ==
  /\ view = "closed" /\ view' = "fetched" /\ shown' = stored /\ sure' = InStep
  /\ UNCHANGED <<stored, text, wiring, stamped, coalescerVars, calls, conn, outbox>>
\* ... and subscribes 50 ms later, or when the connection is there.
Subscribe ==
  /\ view = "fetched" /\ conn = "open" /\ view' = "live" /\ conn' = "subscribed"
  /\ UNCHANGED <<stored, text, wiring, stamped, coalescerVars, calls, outbox, shown, sure>>
\* The page is left: the merged set without this instance is POSTed.
Leave ==
  /\ view # "closed" /\ view' = "closed" /\ shown' = 0 /\ sure' = FALSE
  /\ conn' = (IF conn = "subscribed" THEN "open" ELSE conn)
  /\ UNCHANGED <<stored, text, wiring, stamped, coalescerVars, calls, outbox>>

\* Load replaces the instance by one of the same id; nobody forgets what was sent for it.
Recreate(v) ==
  /\ (\A w \in Writer : wiring[w] = 0) /\ stored' = v /\ sure' = FALSE
  /\ UNCHANGED <<text, wiring, stamped, coalescerVars, calls, clientVars>>

StreamNext ==
  \/ \E v \in Level : Recreate(v) \/ \E w \in Writer : Store(w, v)
  \/ \E w \in Writer : Submit(w) \/ Stamp(w) \/ EmitNow(w)
  \/ Flush \/ Emit \/ SendSse \/ Drain
  \/ \E heartbeat \in BOOLEAN : SendOther(heartbeat)
  \/ Connect \/ PeerLeaves \/ Shed \/ Open \/ Subscribe \/ Leave

StreamSpec == StreamInit /\ [][StreamNext]_streamVars

-----------------------------------------------------------------------------

StreamTypeOK ==
  /\ stored \in Level /\ {pending, sent, shown} \subseteq Level \cup {0}
  /\ wiring \in [Writer -> Level \cup {0}] /\ stamped \subseteq Writer /\ text \in BOOLEAN
  /\ emitting \in Seq(Level) /\ calls \in Seq(Level)
  /\ outbox \in Seq(Level \cup {Other}) /\ Len(outbox) <= OutboxSize
  /\ conn \in {"none", "open", "subscribed", "broken"} /\ view \in {"closed", "fetched", "live"}
  /\ sure \in BOOLEAN

Quiet ==
  /\ \A w \in Writer : wiring[w] = 0
  /\ pending = 0 /\ emitting = <<>> /\ calls = <<>> /\ outbox = <<>>

\* "Guaranteeing the freshest value reaches the consumer": when everything has been
\* delivered, the view shows the stored value, if it was opened in step and since then
\* nothing was stored before it had subscribed or by two threads at once, and neither the
\* connection, nor the instance, nor an event of the parameter was lost.
QuietIsFresh == (Quiet /\ sure) => shown = stored
=============================================================================
