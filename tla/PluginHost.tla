----------------------------- MODULE PluginHost -----------------------------
(***************************************************************************)
(* One plugin instance of the PluginHost (plugin_host/host.py) with its     *)
(* thread, its ALSA client (alsa_client.py) and its subscription to the     *)
(* ClockBus (clock_bus.py).                                                 *)
(*                                                                         *)
(* Three threads meet here: the event loop turns MIDI clock and transport   *)
(* into messages in the instance's bounded queue, a worker of the API       *)
(* creates and deletes the instance, and the plugin's thread drains its     *)
(* ALSA input and then the queue.  The plugin is any that plays a note on   *)
(* a tick while it holds a key and lets go when the transport stops.        *)
(***************************************************************************)
EXTENDS Naturals, Sequences, SequencesExt

CONSTANTS
  QueueSize,  \* maxsize of _tick_queue
  PoolSize,   \* events that fit into the client's kernel FIFO
  Batch       \* events the thread reads before it turns to the queue (64)

HostAssumption ==
  QueueSize \in Nat \ {0} /\ PoolSize \in Nat \ {0} /\ Batch \in Nat \ {0}

VARIABLES
  bus,      \* the ClockBus: _running, _stopped_explicitly
  told,     \* history: the last transport event the bus passed on to the instance
  inst,     \* the instance: thread, flags, entry in _instances, subscription, client
  queue,    \* _tick_queue
  pool,     \* events in the kernel FIFO of the client
  player,   \* what the plugin believes: is the transport on, is a key held
  sounding, \* does a note of the plugin sound at a destination
  offAt     \* is its NoteOff scheduled in the ALSA queue

hostVars == <<bus, told, inst, queue, pool, player, sounding, offAt>>

Gone == [thread |-> "none", running |-> FALSE, crashed |-> FALSE, listed |-> FALSE,
         subscribed |-> FALSE, client |-> "none", stopping |-> FALSE, left |-> 0]

HostInit ==
  /\ bus = [running |-> FALSE, stopped |-> FALSE] /\ told = "none"
  /\ inst = Gone /\ queue = <<>> /\ pool = <<>>
  /\ player = [on |-> FALSE, key |-> FALSE] /\ sounding = FALSE /\ offAt = FALSE

Thread(at)  == inst.thread = at
SilenceAll  == sounding' = FALSE /\ offAt' = FALSE

-----------------------------------------------------------------------------
(* The ClockBus, on the event loop.                                        *)

Hears == inst.subscribed /\ inst.running

\* put_nowait: a full queue drops the message.
Put(q, msg) == IF Len(q) < QueueSize THEN Append(q, msg) ELSE q

\* on_clock_tick: starts the transport unless it was stopped; the tick may or may
\* not fall on a division the instance subscribed to.
ClockTick ==
  /\ bus' = [bus EXCEPT !.running = @ \/ ~bus.stopped]
  /\ queue' \in {queue, IF Hears THEN Put(queue, "tick") ELSE queue}
  /\ UNCHANGED <<told, inst, pool, player, sounding, offAt>>

Notify(q, msg) ==
  IF Hears THEN queue' = Put(q, msg) /\ told' = msg ELSE queue' = q /\ UNCHANGED told

\* Mutant: the stale ticks stay in the queue.
TransportStart_NoFlush ==
  /\ bus' = [running |-> TRUE, stopped |-> FALSE]
  /\ Notify(queue, "start")
  /\ UNCHANGED <<inst, pool, player, sounding, offAt>>

\* on_start flushes the queues first.
TransportStart ==
  /\ bus' = [running |-> TRUE, stopped |-> FALSE]
  /\ Notify(IF inst.subscribed THEN <<>> ELSE queue, "start")
  /\ UNCHANGED <<inst, pool, player, sounding, offAt>>

TransportContinue ==
  /\ bus' = [running |-> TRUE, stopped |-> FALSE]
  /\ Notify(queue, "continue")
  /\ UNCHANGED <<inst, pool, player, sounding, offAt>>

TransportStop ==
  /\ bus' = [running |-> FALSE, stopped |-> TRUE]
  /\ Notify(queue, "stop")
  /\ UNCHANGED <<inst, pool, player, sounding, offAt>>

-----------------------------------------------------------------------------
(* The API: create_instance, stop_instance, panic_all.                     *)

\* _start_instance; an ALSA client that cannot be made leaves a crashed instance.
NoClient == [Gone EXCEPT !.crashed = TRUE]
Started == [Gone EXCEPT !.thread = "starting", !.running = TRUE, !.subscribed = TRUE, !.client = "open"]

CreateInstance ==
  /\ ~inst.listed /\ inst.thread \in {"none", "ended"} /\ ~inst.stopping
  /\ \E new \in {NoClient, Started} : inst' = [new EXCEPT !.listed = TRUE]
  /\ queue' = <<>> /\ pool' = <<>> /\ told' = "none"
  /\ player' = [on |-> FALSE, key |-> FALSE] /\ SilenceAll
  /\ UNCHANGED bus

StopInstance ==
  /\ inst.listed
  /\ inst' = [inst EXCEPT !.listed = FALSE, !.running = FALSE, !.subscribed = FALSE, !.stopping = TRUE]
  /\ UNCHANGED <<bus, told, queue, pool, player, sounding, offAt>>

\* Mutant: the client is closed without waiting for the thread.
CloseClient_NoJoin ==
  /\ inst.stopping
  /\ inst' = [inst EXCEPT !.stopping = FALSE, !.client = IF @ = "open" THEN "closed" ELSE @]
  /\ offAt' = FALSE
  /\ UNCHANGED <<bus, told, queue, pool, player, sounding>>

\* join gives up on a thread that a callback keeps for longer than two seconds;
\* what the client had scheduled is gone with it.
CloseClient ==
  /\ inst.stopping /\ inst.thread \in {"none", "ended", "slow"}
  /\ inst' = [inst EXCEPT !.stopping = FALSE, !.client = IF @ = "open" THEN "closed" ELSE @]
  /\ offAt' = FALSE
  /\ UNCHANGED <<bus, told, queue, pool, player, sounding>>

Panic ==
  /\ inst.listed /\ inst.running
  /\ player' = [player EXCEPT !.key = FALSE] /\ SilenceAll
  /\ UNCHANGED <<bus, told, inst, queue, pool>>

-----------------------------------------------------------------------------
(* _plugin_thread.                                                         *)

At(step) == inst' = [inst EXCEPT !.thread = step]

\* on_start; if it raises there is no on_stop.
OnStart ==
  /\ Thread("starting")
  /\ \/ At("select")
     \/ inst' = [inst EXCEPT !.thread = "ended", !.crashed = TRUE, !.running = FALSE]
  /\ UNCHANGED <<bus, told, queue, pool, player, sounding, offAt>>

Select ==
  /\ Thread("select") /\ inst.running /\ (pool # <<>> \/ queue # <<>>)
  /\ inst' = [inst EXCEPT !.thread = "events", !.left = Batch]
  /\ UNCHANGED <<bus, told, queue, pool, player, sounding, offAt>>

\* _dispatch_event; whatever the callback raises is logged, and one that takes
\* too long ends the loop after this round.
Dispatch ==
  /\ Thread("events") /\ pool # <<>> /\ inst.left > 0
  /\ pool' = Tail(pool)
  /\ player' = [player EXCEPT !.key = (Head(pool) = "noteon")]
  /\ IF Head(pool) = "noteoff" THEN SilenceAll ELSE UNCHANGED <<sounding, offAt>>
  /\ \E step \in {"events", "slow"} : inst' = [inst EXCEPT !.thread = step, !.left = @ - 1]
  /\ UNCHANGED <<bus, told, queue>>

SlowReturns ==
  /\ Thread("slow")
  /\ inst' = [inst EXCEPT !.thread = "events", !.crashed = TRUE, !.running = FALSE]
  /\ UNCHANGED <<bus, told, queue, pool, player, sounding, offAt>>

EventsDone ==
  /\ Thread("events") /\ (pool = <<>> \/ inst.left = 0)
  /\ inst' = [inst EXCEPT !.thread = "messages", !.left = 0]
  /\ UNCHANGED <<bus, told, queue, pool, player, sounding, offAt>>

Reaches == inst.client = "open"   \* what is sent on a closed client gets nowhere

OnMessage(msg) ==
  CASE msg \in {"start", "stop"} ->
         /\ player' = [player EXCEPT !.on = (msg = "start")]
         /\ sounding' = (sounding /\ ~Reaches) /\ offAt' = FALSE
    [] msg = "continue" -> player' = [player EXCEPT !.on = TRUE] /\ UNCHANGED <<sounding, offAt>>
    [] msg = "tick" ->
         /\ sounding' = (IF Reaches THEN player.key ELSE sounding)
         /\ offAt' = (Reaches /\ player.key)
         /\ UNCHANGED player

TakeMessage ==
  /\ Thread("messages") /\ queue # <<>>
  /\ queue' = Tail(queue) /\ OnMessage(Head(queue))
  /\ UNCHANGED <<bus, told, inst, pool>>

MessagesDone ==
  /\ Thread("messages") /\ queue = <<>> /\ At("select")
  /\ UNCHANGED <<bus, told, queue, pool, player, sounding, offAt>>

\* The loop ends: on_stop.
OnStop ==
  /\ Thread("select") /\ ~inst.running
  /\ At("ended")
  /\ sounding' = (sounding /\ ~Reaches) /\ offAt' = FALSE
  /\ UNCHANGED <<bus, told, queue, pool, player>>

ThreadStep == OnStart \/ Select \/ Dispatch \/ SlowReturns \/ EventsDone
              \/ TakeMessage \/ MessagesDone \/ OnStop

\* The kernel: an event for the client (lost when the FIFO is full), a gate that ends.
Incoming ==
  /\ inst.client = "open" /\ Len(pool) < PoolSize
  /\ \E ev \in {"noteon", "noteoff"} : pool' = Append(pool, ev)
  /\ UNCHANGED <<bus, told, inst, queue, player, sounding, offAt>>

GateEnds ==
  /\ offAt /\ SilenceAll
  /\ UNCHANGED <<bus, told, inst, queue, pool, player>>

HostNext == ClockTick \/ TransportStart \/ TransportContinue \/ TransportStop
            \/ CreateInstance \/ StopInstance \/ CloseClient \/ Panic
            \/ ThreadStep \/ Incoming \/ GateEnds

HostSpec == HostInit /\ [][HostNext]_hostVars /\ WF_hostVars(ThreadStep)

-----------------------------------------------------------------------------

HostTypeOK ==
  /\ bus \in [running : BOOLEAN, stopped : BOOLEAN]
  /\ told \in {"none", "start", "continue", "stop"}
  /\ inst \in [thread : {"none", "starting", "select", "events", "slow", "messages", "ended"},
               running : BOOLEAN, crashed : BOOLEAN, listed : BOOLEAN, subscribed : BOOLEAN,
               client : {"none", "open", "closed"}, stopping : BOOLEAN, left : 0..Batch]
  /\ queue \in BoundedSeq({"tick", "start", "continue", "stop"}, QueueSize)
  /\ pool \in BoundedSeq({"noteon", "noteoff"}, PoolSize)
  /\ player \in [on : BOOLEAN, key : BOOLEAN] /\ sounding \in BOOLEAN /\ offAt \in BOOLEAN

\* Start reaches the plugin even when its queue is full.
StartDue == told = "start" /\ inst.running
StartOver == player.on \/ told # "start" \/ ~inst.running
StartHeard == StartDue ~> StartOver

\* A client is closed after its plugin has let go of its notes, unless the thread
\* was stuck in a callback.
QuietClose ==
  (inst.client = "open" /\ inst'.client = "closed" /\ ~Thread("slow")) => ~sounding
ClosedQuiet == [][QuietClose]_hostVars
=============================================================================
