----------------------------- MODULE Persistence -----------------------------
(***************************************************************************)
(* How the hub's state survives: class Config (config.py), the autosaver   *)
(* (api/_autosaver.py), the dirty flag of the engine, the handlers of Save *)
(* Load, Import (api/config_routes.py), backups, the factory reset (api/   *)
(* system.py) and the boot.                                                *)
(*                                                                         *)
(* Documents are numbered by the edit that made them; 0 is DEFAULT_CONFIG. *)
(* The loop edits, snapshots and books; forked children encode a copy of   *)
(* the document as it was at the fork and write it under the flock of      *)
(* _boot_rw; worker threads wait for the children of Save and of the       *)
(* forced autosave.  The power may go at any moment.                       *)
(***************************************************************************)
EXTENDS Naturals

CONSTANTS
  MaxEdits,   \* bound on the documents made by editing or imported
  MaxJobs,    \* bound on the Loads, Restores, Imports and factory resets
  Commands,   \* which of "save", "load", "restore", "import" and "reset" are used
  Outcomes    \* how a fork or a child may end: {TRUE}, or {TRUE, FALSE}

ASSUME BoundAssumption ==
  /\ MaxEdits \in Nat /\ MaxJobs \in Nat
  /\ Commands \subseteq {"save", "load", "restore", "import", "reset"}
  /\ TRUE \in Outcomes /\ Outcomes \subseteq BOOLEAN

VARIABLES
  live,        \* the state of the engine and of the plugins
  data,        \* Config._data
  edits,       \* documents made so far
  changes,     \* MidiEngine._change_seq
  booked,      \* _Autosaver._last_seq
  dirty,       \* MidiEngine.config_dirty
  aseq,        \* Config._autosave_seq
  slot,        \* the two autosave files
  persistent,  \* config.json on the boot partition
  runtime,     \* config.json on tmpfs
  backups,     \* the rolling backups
  writer,      \* the autosave children: of the poll loop, and of autosave_now
  save,        \* the asave in flight and its child
  job,         \* the Load, Restore or Import handler in flight
  jobs,        \* how many there have been
  up,          \* "running", or "flushing" in a clean shutdown
  reset        \* the factory reset: how far it is, whether the autosave loop still has
               \* the turn it was asleep for, and whether no other writer came between

memory == <<live, data, edits, changes, booked, dirty, aseq>>
disk   == <<slot, persistent, runtime, backups>>
tasks  == <<writer, save, job, jobs, up, reset>>
vars   == <<memory, disk, tasks>>

-----------------------------------------------------------------------------
(* The files.  A slot that is missing, torn or being written reads as      *)
(* Empty: gzip's CRC rejects it.                                           *)

Doc   == 0..MaxEdits
Empty == [seq |-> 0, doc |-> 0]

\* Mutant: always the same slot.
SlotOf_One(seq) == 0

SlotOf(seq) == seq % 2

\* _read_autosave: the valid slot with the highest sequence number.
Newest(s) == IF s[0].seq > s[1].seq THEN s[0] ELSE s[1]

\* What load would give to a boot that finds the slots s.
BootDoc(s) == IF Newest(s).seq > 0 THEN Newest(s).doc ELSE persistent

\* Mutant: load does not take over the slot's sequence number.
BootSeq_Zero(s) == 0

BootSeq(s) == Newest(s).seq

NoChild == [at |-> "none", seq |-> 0, doc |-> 0]
NoSave  == [at |-> "none", doc |-> 0, for |-> "save"]
NoReset == [at |-> "none", turn |-> FALSE, alone |-> FALSE]

\* _boot_rw's flock: one writer at a time.
LockFree == /\ \A w \in {"poll", "now"} : writer[w].at # "writing"
            /\ "writing" \notin {save.at, reset.at} /\ up # "flushing"

\* Mutant: the counters survive in part.
Boot_KeepsBooked(s) ==
  /\ slot' = s /\ runtime' = persistent
  /\ live' = BootDoc(s) /\ data' = BootDoc(s) /\ aseq' = BootSeq(s)
  /\ changes' = 0 /\ dirty' = FALSE
  /\ writer' = [w \in {"poll", "now"} |-> NoChild] /\ save' = NoSave
  /\ job' = "idle" /\ up' = "running" /\ reset' = NoReset
  /\ UNCHANGED <<booked, edits, persistent, backups, jobs>>

\* The process starts anew and finds the slots s: init_runtime_copy, load.
Boot(s) ==
  /\ slot' = s /\ runtime' = persistent
  /\ live' = BootDoc(s) /\ data' = BootDoc(s) /\ aseq' = BootSeq(s)
  /\ changes' = 0 /\ booked' = 0 /\ dirty' = FALSE
  /\ writer' = [w \in {"poll", "now"} |-> NoChild] /\ save' = NoSave
  /\ job' = "idle" /\ up' = "running" /\ reset' = NoReset
  /\ UNCHANGED <<edits, persistent, backups, jobs>>

Init ==
  /\ live = 0 /\ data = 0 /\ edits = 0 /\ changes = 0 /\ booked = 0
  /\ dirty = FALSE /\ aseq = 0
  /\ slot = [i \in {0, 1} |-> Empty] /\ persistent = 0 /\ runtime = 0
  /\ backups = {}
  /\ writer = [w \in {"poll", "now"} |-> NoChild] /\ save = NoSave
  /\ job = "idle" /\ jobs = 0 /\ up = "running" /\ reset = NoReset

-----------------------------------------------------------------------------
(* Editing and the autosave loop.                                          *)

\* Any handler that changes the engine and calls mark_dirty.
Edit ==
  /\ up = "running" /\ edits < MaxEdits
  /\ edits' = edits + 1 /\ live' = edits + 1
  /\ changes' = changes + 1 /\ dirty' = TRUE
  /\ UNCHANGED <<data, booked, aseq, disk, tasks>>

\* Mutant: changes are booked although the previous child still runs.
Poll_Busy ==
  /\ up = "running" /\ changes # booked
  /\ writer["now"].at = "forking" => aseq < writer["now"].seq
  /\ data' = live /\ booked' = changes
  /\ IF writer["poll"].at = "none"
     THEN /\ writer' = [writer EXCEPT !["poll"] =
                          [at |-> "encoding", seq |-> aseq + 1, doc |-> live]]
          /\ aseq' = aseq + 1
     ELSE UNCHANGED <<writer, aseq>>
  /\ UNCHANGED <<live, edits, changes, dirty, disk, save, job, jobs, up, reset>>

\* One turn of _Autosaver.run that gets past its guards.  The turns are seconds
\* apart: at most one falls between the two halves of a fork on the thread.  After
\* disable there is one turn left: the loop looks at _running before it sleeps.
Poll ==
  /\ up = "running" /\ writer["poll"].at = "none" /\ changes # booked
  /\ (reset.at = "none" \/ reset.turn) /\ reset' = [reset EXCEPT !.turn = FALSE]
  /\ writer["now"].at = "forking" => aseq < writer["now"].seq
  /\ data' = live /\ booked' = changes
  /\ \E forked \in Outcomes :
       IF forked
       THEN /\ writer' = [writer EXCEPT !["poll"] =
                            [at |-> "encoding", seq |-> aseq + 1, doc |-> live]]
            /\ aseq' = aseq + 1
       ELSE UNCHANGED <<writer, aseq>>
  /\ UNCHANGED <<live, edits, changes, dirty, disk, save, job, jobs, up>>

\* _write_slot: opening the file for writing empties it.
BeginWrite(w) ==
  /\ writer[w].at = "encoding" /\ LockFree
  /\ writer' = [writer EXCEPT ![w].at = "writing"]
  /\ slot' = [slot EXCEPT ![SlotOf(writer[w].seq)] = Empty]
  /\ UNCHANGED <<memory, persistent, runtime, backups, save, job, jobs, up, reset>>

\* The child exits, with the slot complete or torn.  The poll loop forgets it;
\* the thread of autosave_now notices.
EndWrite(w) ==
  LET kid == writer[w]
  IN  /\ kid.at = "writing"
      /\ \E done \in Outcomes :
           slot' = IF done
                   THEN [slot EXCEPT ![SlotOf(kid.seq)] = [seq |-> kid.seq, doc |-> kid.doc]]
                   ELSE slot
      /\ writer' = [writer EXCEPT ![w] =
                      IF w = "poll" THEN NoChild ELSE [NoChild EXCEPT !.at = "ended"]]
      /\ UNCHANGED <<memory, persistent, runtime, backups, save, job, jobs, up, reset>>

-----------------------------------------------------------------------------
(* Save.                                                                   *)

\* api_save_config up to its await.
PressSave ==
  /\ up = "running" /\ "save" \in Commands /\ save.at = "none"
  /\ data' = live
  /\ save' = [at |-> "queued", doc |-> 0, for |-> "save"]
  /\ reset' = [reset EXCEPT !.alone = FALSE]
  /\ UNCHANGED <<live, edits, changes, booked, dirty, aseq, disk, writer, job, jobs, up>>

\* fork_save on the worker thread: the child has _data as it is now.
SaveFork ==
  /\ save.at = "queued"
  /\ save' = [save EXCEPT !.at = "encoding", !.doc = data]
  /\ UNCHANGED <<memory, disk, writer, job, jobs, up, reset>>

\* _save_core replaces the tmpfs copy ...
SaveRuntime ==
  /\ save.at = "encoding"
  /\ save' = [save EXCEPT !.at = "staged"] /\ runtime' = save.doc
  /\ UNCHANGED <<memory, slot, persistent, backups, writer, job, jobs, up, reset>>

\* ... opens its rw window ...
SaveLock ==
  /\ save.at = "staged" /\ LockFree
  /\ save' = [save EXCEPT !.at = "writing"]
  /\ UNCHANGED <<memory, disk, writer, job, jobs, up, reset>>

\* ... and replaces the persistent copy, with a backup for a deliberate Save.
SaveCommit ==
  /\ save.at = "writing"
  /\ \E done \in Outcomes :
       /\ save' = [save EXCEPT !.at = IF done THEN "ended" ELSE "failed"]
       /\ persistent' = IF done THEN save.doc ELSE persistent
       /\ backups' = IF done /\ save.for = "save" THEN backups \cup {save.doc}
                                               ELSE backups
  /\ UNCHANGED <<memory, slot, runtime, writer, job, jobs, up, reset>>

\* api_save_config after its await.
Saved ==
  /\ up = "running" /\ save.for = "save" /\ save.at \in {"ended", "failed"}
  /\ dirty' = (dirty /\ save.at = "failed")
  /\ save' = NoSave
  /\ UNCHANGED <<live, data, edits, changes, booked, aseq, disk, writer, job, jobs, up, reset>>

-----------------------------------------------------------------------------
(* Load, Restore and Import: one of them at a time.                        *)

StartJob(command, at) ==
  /\ up = "running" /\ command \in Commands
  /\ job = "idle" /\ job' = at
  /\ jobs < MaxJobs /\ jobs' = jobs + 1
  /\ reset' = [reset EXCEPT !.alone = FALSE]
  /\ UNCHANGED <<live, changes, booked, dirty, aseq, disk, writer, up>>

StartLoad == StartJob("load", "loading") /\ UNCHANGED <<data, edits, save>>

\* aload_manual on a worker thread: the working copy.
LoadRead ==
  /\ job = "loading" /\ job' = "load"
  /\ data' = runtime
  /\ UNCHANGED <<live, edits, changes, booked, dirty, aseq, disk, writer, save, jobs, up, reset>>

StartRestore ==
  /\ \E d \in backups : data' = d
  /\ StartJob("restore", "restore")
  /\ UNCHANGED <<edits, save>>

\* An uploaded document replaces _data and is saved at once.
StartImport ==
  /\ edits < MaxEdits /\ edits' = edits + 1 /\ data' = edits + 1
  /\ save.at = "none" /\ save' = [at |-> "queued", doc |-> 0, for |-> "import"]
  /\ StartJob("import", "import")

\* The engine takes over _data, and autosave_now begins: it waits for the
\* poll's child, snapshots and leaves the rest to a worker thread.
Apply ==
  /\ up = "running" /\ job \in {"load", "restore", "import"}
  /\ writer["poll"].at = "none"
  /\ live' = data
  /\ IF job = "restore" THEN dirty' = TRUE /\ changes' = changes + 1
                        ELSE dirty' = FALSE /\ UNCHANGED changes
  /\ IF job = "import" THEN save.at \in {"ended", "failed"} /\ save' = NoSave
                       ELSE UNCHANGED save
  /\ job' = "autosaving"
  /\ writer' = [writer EXCEPT !["now"].at = "queued"]
  /\ UNCHANGED <<data, edits, booked, aseq, disk, jobs, up, reset>>

\* fork_write_autosave on the thread: the number is read before the fork and
\* written after it.
NowNumber ==
  /\ writer["now"].at = "queued"
  /\ writer' = [writer EXCEPT !["now"] = [at |-> "forking", seq |-> aseq + 1, doc |-> 0]]
  /\ UNCHANGED <<memory, disk, save, job, jobs, up, reset>>

NowFork ==
  /\ writer["now"].at = "forking"
  /\ writer' = [writer EXCEPT !["now"].at = "encoding", !["now"].doc = data]
  /\ aseq' = writer["now"].seq
  /\ UNCHANGED <<live, data, edits, changes, booked, dirty, disk, save, job, jobs, up, reset>>

\* autosave_now after its await.
NowDone ==
  /\ up = "running" /\ writer["now"].at = "ended"
  /\ booked' = changes
  /\ writer' = [writer EXCEPT !["now"] = NoChild] /\ job' = "idle"
  /\ UNCHANGED <<live, data, edits, changes, dirty, aseq, disk, save, jobs, up, reset>>

-----------------------------------------------------------------------------
(* The factory reset.                                                      *)

\* api_factory_reset: the autosaver is disabled; nothing waits for its child.
PressReset ==
  /\ up = "running" /\ "reset" \in Commands /\ reset.at = "none"
  /\ job = "idle" /\ jobs < MaxJobs /\ jobs' = jobs + 1
  /\ reset' = [at |-> "asked", turn |-> TRUE,
               alone |-> writer["poll"].at = "none" /\ save.at = "none"]
  /\ UNCHANGED <<memory, disk, writer, save, job, up>>

\* factory_reset on a worker thread: _data and the tmpfs copy ...
ResetRuntime ==
  /\ reset.at = "asked" /\ reset' = [reset EXCEPT !.at = "staged"]
  /\ data' = 0 /\ runtime' = 0
  /\ UNCHANGED <<live, edits, changes, booked, dirty, aseq, slot, persistent, backups,
                 writer, save, job, jobs, up>>

ResetLock ==
  /\ reset.at = "staged" /\ LockFree /\ reset' = [reset EXCEPT !.at = "writing"]
  /\ UNCHANGED <<memory, disk, writer, save, job, jobs, up>>

\* ... the persistent copy and the autosave slots.  The backups stay, and so does the
\* engine, which goes on until the reboot.  A reset that fails is not retried, and leaves
\* the autosaver disabled.
ResetCommit ==
  /\ reset.at = "writing"
  /\ \/ /\ reset' = [reset EXCEPT !.at = "done"]
        /\ persistent' = 0 /\ slot' = [i \in {0, 1} |-> Empty]
     \/ /\ FALSE \in Outcomes /\ reset' = [reset EXCEPT !.at = "failed"]
        /\ persistent' \in {0, persistent} /\ UNCHANGED slot
  /\ UNCHANGED <<memory, runtime, backups, writer, save, job, jobs, up>>

-----------------------------------------------------------------------------
(* The end of the process.                                                 *)

PowerCut == Boot(slot)

\* Mutant: the flush does not know of the factory reset.
ShutDown_Flushes ==
  /\ up = "running"
  /\ \/ changes = booked /\ writer["poll"].at = "none" /\ Boot(slot)
     \/ /\ changes # booked /\ writer["poll"].at = "none" /\ LockFree
        /\ data' = live /\ up' = "flushing"
        /\ slot' = [slot EXCEPT ![SlotOf(aseq + 1)] = Empty]
        /\ UNCHANGED <<live, edits, changes, booked, dirty, aseq, persistent, runtime,
                       backups, writer, save, job, jobs, reset>>

\* A clean stop: flush waits for the poll's child and writes in the process, unless
\* the autosaver is disabled.
ShutDown ==
  /\ up = "running"
  /\ \/ reset.at # "none" /\ Boot(slot)
     \/ reset.at = "none" /\ changes = booked /\ writer["poll"].at = "none" /\ Boot(slot)
     \/ /\ reset.at = "none" /\ changes # booked /\ writer["poll"].at = "none" /\ LockFree
        /\ data' = live /\ up' = "flushing"
        /\ slot' = [slot EXCEPT ![SlotOf(aseq + 1)] = Empty]
        /\ UNCHANGED <<live, edits, changes, booked, dirty, aseq, persistent, runtime,
                       backups, writer, save, job, jobs, reset>>

FlushDone ==
  /\ up = "flushing"
  /\ Boot([slot EXCEPT ![SlotOf(aseq + 1)] = [seq |-> aseq + 1, doc |-> data]])

-----------------------------------------------------------------------------

Autosave == Poll \/ \E w \in {"poll", "now"} : BeginWrite(w) \/ EndWrite(w)
SaveSteps == PressSave \/ SaveFork \/ SaveRuntime \/ SaveLock \/ SaveCommit \/ Saved
JobSteps == StartLoad \/ LoadRead \/ StartRestore \/ StartImport \/ Apply
            \/ NowNumber \/ NowFork \/ NowDone
Stop == PowerCut \/ ShutDown \/ FlushDone

ResetSteps == PressReset \/ ResetRuntime \/ ResetLock \/ ResetCommit

Next == Edit \/ Autosave \/ SaveSteps \/ JobSteps \/ ResetSteps \/ Stop

Spec == Init /\ [][Next]_vars

\* The poll loop wakes up, a child that waits for the flock gets it in turn,
\* and who holds it finishes.
Fairness ==
  /\ WF_vars(Poll) /\ SF_vars(BeginWrite("poll"))
  /\ \A w \in {"poll", "now"} : WF_vars(EndWrite(w))
  /\ WF_vars(SaveCommit) /\ WF_vars(FlushDone)

FairSpec == Spec /\ Fairness

-----------------------------------------------------------------------------
(* Properties.                                                             *)

\* The shapes of a slot, of a child, of a Save and of a reset.
Slots == [{0, 1} -> [seq : 0..aseq, doc : Doc]]
Child == [at : {"none", "queued", "forking", "encoding", "writing", "ended"},
          seq : Nat, doc : Doc]
Saving == [at : {"none", "queued", "encoding", "staged", "writing", "ended", "failed"},
           doc : Doc, for : {"save", "import"}]
Resetting == [at : {"none", "asked", "staged", "writing", "done", "failed"},
              turn : BOOLEAN, alone : BOOLEAN]

\* Every variable holds a value of the shape the code gives it, and nothing is
\* booked that has not happened.
TypeOK ==
  /\ live \in Doc /\ data \in Doc /\ edits \in 0..MaxEdits
  /\ changes \in Nat /\ booked \in 0..changes /\ dirty \in BOOLEAN /\ aseq \in Nat
  /\ slot \in Slots /\ persistent \in Doc /\ runtime \in Doc /\ backups \subseteq Doc
  /\ writer \in [{"poll", "now"} -> Child] /\ save \in Saving
  /\ job \in {"idle", "loading", "load", "restore", "import", "autosaving"}
  /\ jobs \in 0..MaxJobs /\ up \in {"running", "flushing"} /\ reset \in Resetting

\* The next autosave is newer than every complete slot: otherwise a boot would
\* prefer the older document.
NextIsNewest == \A i \in {0, 1} : slot[i].seq <= aseq

\* A factory reset holds: whatever was edited and not yet autosaved, and however the hub
\* goes down, it comes up with the defaults, if no autosave or Save was being written when
\* the reset was asked for and the loop did not use the turn that disable leaves it.
ResetSticks ==
  [][reset.at = "done" /\ reset.alone /\ reset.turn /\ reset'.at = "none" => live' = 0]_vars

\* Once there is a complete autosave there is always one, until a factory reset, whenever
\* the power goes, as long as no forced autosave runs beside the poll's child: the two
\* may be given the same number, or write in the wrong order.
Alone == writer["now"].at = "none" /\ reset.at \notin {"writing", "done"} /\ writer["poll"].seq # Newest(slot).seq
ResumeKept == [][Newest(slot).seq > 0 /\ Alone => Newest(slot').seq > 0]_vars

\* An edit that no forced autosave was waiting at is what a boot resumes in the
\* end, unless something replaces it or a factory reset disables the autosaver.
EditsResume ==
  \A d \in Doc : live = d /\ changes # booked /\ job # "autosaving"
                 ~> BootDoc(slot) = d \/ live # d \/ reset.at # "none"

\* Load discards the unsaved edits: the engine takes over the working copy.
LoadReverts == [][job = "load" /\ job' = "autosaving" => live' = runtime]_vars

=============================================================================
