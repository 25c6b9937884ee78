-------------------------- MODULE PersistenceProofs --------------------------
(* What holds of the autosave slots, the Saves and the factory reset,      *)
(* whatever the number of edits and jobs, and whichever commands are used. *)
EXTENDS Persistence, TLAPS

-----------------------------------------------------------------------------
(* The inductive invariant.                                                *)

\* A child that encodes or writes has its number, and nothing is numbered higher
\* than the counter, but the forced autosave whose thread is between the two halves
\* of its fork: the counter may be at its number already (the poll loop took the
\* same one) or one before it.
NumbersIssued ==
  /\ \A w \in {"poll", "now"} : writer[w].at \in {"encoding", "writing"} =>
                                  writer[w].seq \in 1..aseq
  /\ writer["now"].at = "forking" => writer["now"].seq \in {aseq, aseq + 1} \ {0}

\* The forced autosave belongs to the job in flight; a flush excludes a reset; and a
\* reset that nothing disturbed has no other writer beside it, and leaves nothing.
ResetAlone == reset.at # "none" /\ reset.alone /\ reset.turn
ResetQuiet ==
  /\ writer["now"].at # "none" => job = "autosaving"
  /\ up = "flushing" => reset.at = "none"
  /\ ResetAlone => /\ \A w \in {"poll", "now"} : writer[w].at = "none"
                   /\ save.at = "none" /\ job = "idle"
  /\ ResetAlone /\ reset.at = "done" => /\ slot = [i \in {0, 1} |-> Empty]
                                        /\ persistent = 0

IInv == TypeOK /\ NumbersIssued /\ ResetQuiet

-----------------------------------------------------------------------------
(* The second invariant: which slots can be empty, as long as no child and *)
(* no fork fails, until a factory reset clears them.                       *)

\* A child has its number and waits for the flock or holds it.
Busy(w) == writer[w].at \in {"encoding", "writing"}

Filled(i) == slot[i].seq > 0

\* What is not filled may be on its way.
Coming(i) == \E w \in {"poll", "now"} : Busy(w) /\ SlotOf(writer[w].seq) = i

\* Every number is in the slot of its parity; and a forced autosave that is not
\* forked yet has no other one between itself and the poll's child.
InOrder ==
  /\ \A i \in {0, 1} : Filled(i) => SlotOf(slot[i].seq) = i
  /\ writer["now"].at \in {"queued", "forking"} /\ Busy("poll") => writer["poll"].seq = aseq

\* The slot of the newest number is filled or about to be.
LatestKept == aseq > 0 => Filled(SlotOf(aseq)) \/ Coming(SlotOf(aseq))

\* While the poll's child waits to empty its slot, the other slot is filled or about
\* to be, or the forced autosave has written the very same number.
OtherKept ==
  writer["poll"].at = "encoding" /\ (\E i \in {0, 1} : Filled(i)) =>
    \/ Filled(SlotOf(writer["poll"].seq + 1))
    \/ Busy("now") /\ SlotOf(writer["now"].seq) = SlotOf(writer["poll"].seq + 1)
    \/ slot[SlotOf(writer["poll"].seq)].seq = writer["poll"].seq

\* If both are going to the same slot with different numbers, the other one is filled.
RaceKept ==
  writer["poll"].at = "encoding" /\ (writer["now"].at = "forking" \/ Busy("now")) =>
    \/ writer["now"].seq = writer["poll"].seq
    \/ SlotOf(writer["now"].seq) # SlotOf(writer["poll"].seq)
    \/ Filled(SlotOf(writer["poll"].seq + 1))

Kept == reset.at \notin {"writing", "done"} => LatestKept /\ OtherKept /\ RaceKept

KInv == IInv /\ InOrder /\ Kept
-----------------------------------------------------------------------------
(* Types.                                                                  *)

\* What the updates of the records give is of their shapes.
LEMMA ShapesKept ==
  ASSUME TypeOK
  PROVE  /\ \A b \in BOOLEAN : /\ [reset EXCEPT !.turn = b] \in Resetting
                               /\ [reset EXCEPT !.alone = b] \in Resetting
         /\ NoReset \in Resetting /\ NoChild \in Child /\ NoSave \in Saving
         /\ 0 \in Doc /\ Newest(slot) \in [seq : 0..aseq, doc : Doc]
  BY BoundAssumption
  DEF TypeOK, Resetting, NoReset, NoChild, NoSave, Child, Saving, Doc, Newest, Slots

\* The boot with slots whose numbers are those of a run gives a state of the type.
LEMMA BootType ==
  ASSUME TypeOK, NEW s \in [{0, 1} -> [seq : Nat, doc : Doc]], Boot(s)
  PROVE  TypeOK'
<1>1. /\ Newest(s) \in [seq : Nat, doc : Doc]
      /\ \A i \in {0, 1} : s[i].seq \in 0..Newest(s).seq
  BY DEF Newest
<1>2. BootDoc(s) \in Doc /\ BootSeq(s) \in Nat
  BY <1>1 DEF BootDoc, BootSeq, TypeOK
<1>3. s \in [{0, 1} -> [seq : 0..BootSeq(s), doc : Doc]]
  BY <1>1 DEF BootSeq
<1>4. slot' \in Slots'
  BY <1>3 DEF Boot, Slots
<1>5. writer' \in [{"poll", "now"} -> Child] /\ save' \in Saving /\ reset' \in Resetting
  BY ShapesKept DEF Boot
<1>6. /\ live' \in Doc /\ data' \in Doc /\ runtime' \in Doc /\ aseq' \in Nat
      /\ changes' \in Nat /\ booked' \in 0..changes'
  BY <1>2 DEF Boot, TypeOK
<1>. QED BY <1>4, <1>5, <1>6 DEF TypeOK, Boot

\* No step leaves the types.
LEMMA TypeStep ==
  ASSUME TypeOK, NumbersIssued, [Next]_vars
  PROVE  TypeOK'
<1>1. CASE Edit
  BY <1>1, BoundAssumption DEF Edit, TypeOK, Slots, Doc, disk, tasks
<1>2. CASE Poll
  <2>1. reset' \in Resetting
    BY <1>2, ShapesKept DEF Poll
  <2>2. writer' \in [{"poll", "now"} -> Child]
    BY <1>2 DEF Poll, TypeOK, Child
  <2>3. aseq' \in Nat /\ aseq <= aseq'
    BY <1>2 DEF Poll, TypeOK
  <2>. QED BY <1>2, <2>1, <2>2, <2>3 DEF Poll, TypeOK, Slots, disk
<1>3. CASE PressSave
  <2>1. reset' \in Resetting
    BY <1>3, ShapesKept DEF PressSave
  <2>2. save' \in Saving
    BY <1>3, BoundAssumption DEF PressSave, Saving, Doc
  <2>. QED BY <1>3, <2>1, <2>2 DEF PressSave, TypeOK, Slots, disk
<1>4. CASE SaveFork
  BY <1>4 DEF SaveFork, TypeOK, Slots, Child, Saving, memory, disk
<1>5. CASE SaveRuntime
  BY <1>5 DEF SaveRuntime, TypeOK, Slots, Saving, memory
<1>6. CASE SaveLock
  BY <1>6 DEF SaveLock, TypeOK, Slots, Saving, memory, disk
<1>7. CASE SaveCommit
  BY <1>7, BoundAssumption
  DEF SaveCommit, TypeOK, Slots, Child, Saving, Resetting, Doc, Empty, memory
<1>8. CASE Saved
  BY <1>8, BoundAssumption DEF Saved, TypeOK, Slots, Saving, Doc, NoSave, disk
<1>9. CASE StartLoad
  <2>1. reset' \in Resetting
    BY <1>9, ShapesKept DEF StartLoad, StartJob
  <2>2. save' \in Saving /\ data' \in Doc /\ edits' \in 0..MaxEdits
    BY <1>9, BoundAssumption DEF StartLoad, TypeOK
  <2>3. jobs' \in 0..MaxJobs
    BY <1>9, BoundAssumption DEF StartLoad, StartJob, TypeOK
  <2>. QED BY <1>9, <2>1, <2>2, <2>3 DEF StartLoad, StartJob, TypeOK, Slots, disk
<1>10. CASE LoadRead
  BY <1>10 DEF LoadRead, TypeOK, Slots, disk
<1>11. CASE StartRestore
  <2>1. reset' \in Resetting
    BY <1>11, ShapesKept DEF StartRestore, StartJob
  <2>2. save' \in Saving /\ data' \in Doc /\ edits' \in 0..MaxEdits
    BY <1>11, BoundAssumption DEF StartRestore, TypeOK
  <2>3. jobs' \in 0..MaxJobs
    BY <1>11, BoundAssumption DEF StartRestore, StartJob, TypeOK
  <2>. QED BY <1>11, <2>1, <2>2, <2>3 DEF StartRestore, StartJob, TypeOK, Slots, disk
<1>12. CASE StartImport
  <2>1. reset' \in Resetting
    BY <1>12, ShapesKept DEF StartImport, StartJob
  <2>2. save' \in Saving /\ data' \in Doc /\ edits' \in 0..MaxEdits
    BY <1>12, BoundAssumption DEF StartImport, TypeOK, Saving, Doc
  <2>3. jobs' \in 0..MaxJobs
    BY <1>12, BoundAssumption DEF StartImport, StartJob, TypeOK
  <2>. QED BY <1>12, <2>1, <2>2, <2>3 DEF StartImport, StartJob, TypeOK, Slots, disk
<1>13. CASE Apply
  <2>1. writer' \in [{"poll", "now"} -> Child]
    BY <1>13 DEF Apply, TypeOK, Child
  <2>2. save' \in Saving
    BY <1>13, ShapesKept DEF Apply, TypeOK
  <2>3. changes' \in Nat /\ booked' \in 0..changes'
    BY <1>13 DEF Apply, TypeOK
  <2>4. dirty' \in BOOLEAN
    BY <1>13 DEF Apply
  <2>. QED BY <1>13, <2>1, <2>2, <2>3, <2>4 DEF Apply, TypeOK, Slots, disk
<1>14. CASE NowNumber
  BY <1>14, BoundAssumption DEF NowNumber, TypeOK, Slots, Child, Doc, memory, disk
<1>15. CASE NowFork
  <2>1. writer' \in [{"poll", "now"} -> Child]
    BY <1>15 DEF NowFork, TypeOK, Child
  <2>2. aseq' \in Nat /\ aseq <= aseq'
    BY <1>15 DEF NowFork, NumbersIssued, TypeOK
  <2>. QED BY <1>15, <2>1, <2>2 DEF NowFork, TypeOK, Slots, disk
<1>16. CASE NowDone
  BY <1>16, BoundAssumption DEF NowDone, TypeOK, Slots, Child, Doc, NoChild, disk
<1>17. CASE PressReset
  BY <1>17, BoundAssumption DEF PressReset, TypeOK, Slots, Resetting, memory, disk
<1>18. CASE ResetRuntime
  BY <1>18, BoundAssumption DEF ResetRuntime, TypeOK, Slots, Resetting, Doc
<1>19. CASE ResetLock
  BY <1>19 DEF ResetLock, TypeOK, Slots, Resetting, memory, disk
<1>20. CASE ResetCommit
  <2>1. reset' \in Resetting
    BY <1>20 DEF ResetCommit, TypeOK, Resetting
  <2>2. slot' \in Slots' /\ persistent' \in Doc
    <3>1. Empty \in [seq : 0..aseq, doc : Doc]
      BY ShapesKept DEF Empty, TypeOK
    <3>. QED BY <1>20, <3>1, ShapesKept DEF ResetCommit, TypeOK, Slots, memory
  <2>. QED BY <1>20, <2>1, <2>2 DEF ResetCommit, TypeOK, memory
<1>21. CASE PowerCut
  BY <1>21, BootType DEF PowerCut, TypeOK, Slots
<1>22. CASE ShutDown
  <2>1. CASE Boot(slot)
    BY <2>1, BootType DEF TypeOK, Slots
  <2>2. CASE ~Boot(slot)
    <3>1. slot' \in Slots'
      BY <1>22, <2>2, BoundAssumption DEF ShutDown, TypeOK, Slots, Empty, Doc
    <3>. QED BY <1>22, <2>2, <3>1 DEF ShutDown, TypeOK
  <2>. QED BY <2>1, <2>2
<1>23. CASE FlushDone
  <2>1. [slot EXCEPT ![SlotOf(aseq + 1)] = [seq |-> aseq + 1, doc |-> data]]
          \in [{0, 1} -> [seq : Nat, doc : Doc]]
    <3>1. /\ slot \in [{0, 1} -> [seq : Nat, doc : Doc]]
          /\ [seq |-> aseq + 1, doc |-> data] \in [seq : Nat, doc : Doc]
      BY DEF TypeOK, Slots
    <3>. QED BY <3>1
  <2>. QED BY <1>23, <2>1, BootType DEF FlushDone
<1>24. ASSUME NEW w \in {"poll", "now"}, BeginWrite(w) PROVE TypeOK'
  <2>1. writer' \in [{"poll", "now"} -> Child]
    BY <1>24 DEF BeginWrite, TypeOK, Child
  <2>2. slot' \in Slots'
    <3>1. Empty \in [seq : 0..aseq, doc : Doc]
      BY ShapesKept DEF Empty, TypeOK
    <3>. QED BY <1>24, <3>1 DEF BeginWrite, TypeOK, Slots, memory
  <2>. QED BY <1>24, <2>1, <2>2 DEF BeginWrite, TypeOK, memory
<1>25. ASSUME NEW w \in {"poll", "now"}, EndWrite(w) PROVE TypeOK'
  <2>1. writer' \in [{"poll", "now"} -> Child]
    BY <1>25, ShapesKept DEF EndWrite, TypeOK, Child, NoChild
  <2>2. slot' \in Slots'
    <3>1. [seq |-> writer[w].seq, doc |-> writer[w].doc] \in [seq : 0..aseq, doc : Doc]
      BY <1>25 DEF EndWrite, NumbersIssued, TypeOK, Child
    <3>. QED BY <1>25, <3>1 DEF EndWrite, TypeOK, Slots, memory
  <2>. QED BY <1>25, <2>1, <2>2 DEF EndWrite, TypeOK, memory
<1>26. CASE UNCHANGED vars
  BY <1>26 DEF vars, TypeOK, Slots, memory, disk, tasks
<1>. QED
  BY <1>1, <1>2, <1>3, <1>4, <1>5, <1>6, <1>7, <1>8, <1>9, <1>10, <1>11, <1>12, <1>13,
     <1>14, <1>15, <1>16, <1>17, <1>18, <1>19, <1>20, <1>21, <1>22, <1>23, <1>24, <1>25,
     <1>26
  DEF Next, Autosave, SaveSteps, JobSteps, ResetSteps, Stop
-----------------------------------------------------------------------------
(* Numbers.                                                                *)

\* The steps that neither fork, write nor end a child and keep the process.
LEMMA OtherSteps ==
  ASSUME [Next]_vars
  PROVE  \/ Poll \/ (\E w \in {"poll", "now"} : BeginWrite(w) \/ EndWrite(w))
         \/ Apply \/ NowNumber \/ NowFork \/ NowDone
         \/ \E s : Boot(s)
         \/ UNCHANGED <<writer, aseq>>
<1>1. CASE Edit \/ SaveSteps \/ UNCHANGED vars
  BY <1>1 DEF Edit, SaveSteps, PressSave, SaveFork, SaveRuntime, SaveLock, SaveCommit,
              Saved, vars, memory, tasks
<1>2. CASE StartLoad \/ LoadRead \/ StartRestore \/ StartImport \/ ResetSteps
  BY <1>2 DEF StartLoad, LoadRead, StartRestore, StartImport, StartJob, ResetSteps,
              PressReset, ResetRuntime, ResetLock, ResetCommit, memory, tasks
<1>3. CASE Stop
  BY <1>3 DEF Stop, PowerCut, ShutDown, FlushDone
<1>. QED BY <1>1, <1>2, <1>3 DEF Next, Autosave, JobSteps

\* Numbers are given out upwards, one at a time but for the one that may be shared.
LEMMA NumbersStep ==
  ASSUME TypeOK, NumbersIssued, [Next]_vars
  PROVE  NumbersIssued'
<1>. USE DEF NumbersIssued
<1>t. writer \in [{"poll", "now"} -> Child] /\ aseq \in Nat
  BY DEF TypeOK
<1>1. CASE Poll
  BY <1>1, <1>t DEF Poll, Child
<1>2. ASSUME NEW w \in {"poll", "now"}, BeginWrite(w) PROVE NumbersIssued'
  BY <1>2, <1>t DEF BeginWrite, Child, memory
<1>3. ASSUME NEW w \in {"poll", "now"}, EndWrite(w) PROVE NumbersIssued'
  BY <1>3, <1>t DEF EndWrite, Child, NoChild, memory
<1>4. CASE Apply
  BY <1>4, <1>t DEF Apply, Child
<1>5. CASE NowNumber
  BY <1>5, <1>t DEF NowNumber, Child, memory
<1>6. CASE NowFork
  BY <1>6, <1>t DEF NowFork, Child
<1>7. CASE NowDone
  BY <1>7, <1>t DEF NowDone, Child, NoChild
<1>8. CASE \E s : Boot(s)
  BY <1>8 DEF Boot, NoChild
<1>9. CASE UNCHANGED <<writer, aseq>>
  BY <1>9
<1>. QED BY OtherSteps, <1>1, <1>2, <1>3, <1>4, <1>5, <1>6, <1>7, <1>8, <1>9

-----------------------------------------------------------------------------
(* The reset.                                                              *)

\* Nothing is written beside a reset that is alone, and it stays that way.
LEMMA ResetStep ==
  ASSUME TypeOK, ResetQuiet, [Next]_vars
  PROVE  ResetQuiet'
<1>. USE DEF ResetQuiet, ResetAlone
<1>t. writer \in [{"poll", "now"} -> Child] /\ save \in Saving /\ reset \in Resetting
  BY DEF TypeOK
<1>1. CASE Edit \/ LoadRead \/ UNCHANGED vars
  BY <1>1 DEF Edit, LoadRead, vars, memory, disk, tasks
<1>2. CASE Poll
  BY <1>2, <1>t DEF Poll, Child, Resetting
<1>3. ASSUME NEW w \in {"poll", "now"}, BeginWrite(w) PROVE ResetQuiet'
  BY <1>3, <1>t DEF BeginWrite, Child, memory
<1>4. ASSUME NEW w \in {"poll", "now"}, EndWrite(w) PROVE ResetQuiet'
  BY <1>4, <1>t DEF EndWrite, Child, NoChild, memory
<1>5. CASE PressSave
  BY <1>5, <1>t DEF PressSave, Resetting, disk
<1>6. CASE SaveFork \/ SaveRuntime \/ SaveLock \/ Saved
  BY <1>6, <1>t DEF SaveFork, SaveRuntime, SaveLock, Saved, Saving, NoSave, disk
<1>7. CASE SaveCommit
  BY <1>7, <1>t DEF SaveCommit, Saving
<1>8. CASE StartLoad \/ StartRestore \/ StartImport
  BY <1>8, <1>t DEF StartLoad, StartRestore, StartImport, StartJob, Resetting, disk
<1>9. CASE Apply
  BY <1>9, <1>t DEF Apply, Child, disk
<1>10. CASE NowNumber \/ NowFork
  BY <1>10, <1>t DEF NowNumber, NowFork, Child, disk
<1>11. CASE NowDone
  BY <1>11, <1>t DEF NowDone, Child, NoChild, disk
<1>12. CASE PressReset
  BY <1>12, <1>t DEF PressReset, Resetting, disk
<1>13. CASE ResetRuntime \/ ResetLock
  BY <1>13, <1>t DEF ResetRuntime, ResetLock, Resetting, disk
<1>14. CASE ResetCommit
  BY <1>14, <1>t DEF ResetCommit, Resetting
<1>15. CASE \E s : Boot(s)
  BY <1>15 DEF Boot, NoChild, NoSave, NoReset
<1>16. CASE ShutDown /\ ~\E s : Boot(s)
  BY <1>16 DEF ShutDown
<1>17. CASE PowerCut \/ FlushDone
  BY <1>15, <1>17 DEF PowerCut, FlushDone
<1>. QED
  BY <1>1, <1>2, <1>3, <1>4, <1>5, <1>6, <1>7, <1>8, <1>9, <1>10, <1>11, <1>12, <1>13,
     <1>14, <1>15, <1>16, <1>17
  DEF Next, Autosave, SaveSteps, JobSteps, ResetSteps, Stop

-----------------------------------------------------------------------------
(* The theorems.                                                           *)

\* The invariant holds at first ...
LEMMA InitInv ==
  ASSUME Init
  PROVE  IInv
<1>1. slot \in Slots
  BY BoundAssumption DEF Init, Slots, Doc, Empty
<1>2. writer \in [{"poll", "now"} -> Child] /\ save \in Saving /\ reset \in Resetting
  BY BoundAssumption DEF Init, Child, Saving, Resetting, Doc, NoChild, NoSave, NoReset
<1>3. /\ live \in Doc /\ data \in Doc /\ edits \in 0..MaxEdits /\ persistent \in Doc
      /\ runtime \in Doc /\ jobs \in 0..MaxJobs
  BY BoundAssumption DEF Init, Doc
<1>4. /\ changes \in Nat /\ booked \in 0..changes /\ aseq \in Nat /\ backups \subseteq Doc
      /\ job = "idle" /\ up = "running"
  BY DEF Init
<1>5. dirty \in BOOLEAN
  BY DEF Init
<1>6. TypeOK
  BY <1>1, <1>2, <1>3, <1>4, <1>5 DEF TypeOK
<1>7. NumbersIssued /\ ResetQuiet
  BY DEF Init, NoChild, NoSave, NoReset, NumbersIssued, ResetQuiet, ResetAlone
<1>. QED BY <1>6, <1>7 DEF IInv

\* ... and is kept.
THEOREM Invariant == Spec => []IInv
<1>1. Init => IInv
  BY InitInv
<1>2. IInv /\ [Next]_vars => IInv'
  BY TypeStep, NumbersStep, ResetStep DEF IInv
<1>. QED BY <1>1, <1>2, PTL DEF Spec

\* Every reachable state has the types of the code.
THEOREM TypeCorrect == Spec => []TypeOK
  BY Invariant, PTL DEF IInv

\* The counter never falls behind a complete slot.
THEOREM CounterLeads == Spec => []NextIsNewest
<1>1. TypeOK => NextIsNewest
  BY DEF TypeOK, Slots, NextIsNewest
<1>. QED BY <1>1, TypeCorrect, PTL

\* A factory reset that nothing disturbed is what the next boot finds.
THEOREM ResetHolds == Spec => ResetSticks
<1>1. ASSUME IInv, [Next]_vars, ResetAlone, reset.at = "done", reset'.at = "none"
      PROVE  live' = 0
  <2>1. reset \in Resetting /\ up = "running"
    BY <1>1 DEF IInv, TypeOK, ResetQuiet, ResetAlone
  <2>2. CASE Edit \/ Autosave \/ SaveSteps \/ UNCHANGED vars
    BY <1>1, <2>1, <2>2
    DEF Edit, Autosave, Poll, BeginWrite, EndWrite, SaveSteps, PressSave, SaveFork,
        SaveRuntime, SaveLock, SaveCommit, Saved, Resetting, vars, tasks
  <2>3. CASE JobSteps \/ ResetSteps
    BY <1>1, <2>1, <2>3
    DEF JobSteps, StartLoad, LoadRead, StartRestore, StartImport, StartJob, Apply,
        NowNumber, NowFork, NowDone, ResetSteps, PressReset, ResetRuntime, ResetLock,
        ResetCommit, Resetting
  <2>4. CASE Stop
    <3>1. Boot(slot)
      BY <1>1, <2>1, <2>4 DEF Stop, PowerCut, ShutDown, FlushDone
    <3>2. slot = [i \in {0, 1} |-> Empty] /\ persistent = 0
      BY <1>1 DEF IInv, ResetQuiet
    <3>. QED BY <3>1, <3>2 DEF Boot, BootDoc, Newest, Empty
  <2>. QED BY <1>1, <2>2, <2>3, <2>4 DEF Next
<1>2. IInv /\ [Next]_vars
        => [reset.at = "done" /\ reset.alone /\ reset.turn /\ reset'.at = "none" => live' = 0]_vars
  BY <1>1 DEF ResetAlone
<1>. QED BY <1>2, Invariant, PTL DEF Spec, ResetSticks

-----------------------------------------------------------------------------
(* The slots.                                                              *)

\* Neighbouring numbers go to different slots, and there are two of these.
LEMMA Parity ==
  ASSUME NEW n \in Nat
  PROVE  /\ SlotOf(n) \in {0, 1} /\ SlotOf(n + 1) \in {0, 1}
         /\ SlotOf(n + 1) # SlotOf(n) /\ SlotOf(n + 2) = SlotOf(n)
  BY DEF SlotOf

\* Newest is one of the two slots, and none is above it.
LEMMA NewestTop ==
  ASSUME NEW s \in [{0, 1} -> [seq : Nat, doc : Doc]]
  PROVE  /\ Newest(s).seq \in Nat
         /\ \E i \in {0, 1} : Newest(s) = s[i]
         /\ \A i \in {0, 1} : s[i].seq <= Newest(s).seq
  BY DEF Newest

\* The types in the form the proofs below use them.
LEMMA SlotType ==
  ASSUME TypeOK
  PROVE  /\ slot \in [{0, 1} -> [seq : Nat, doc : Doc]] /\ aseq \in Nat
         /\ \A i \in {0, 1} : slot[i].seq <= aseq
         /\ writer \in [{"poll", "now"} -> Child] /\ reset \in Resetting
<1>1. \A n \in 0..aseq : n \in Nat /\ n <= aseq
  BY DEF TypeOK
<1>2. slot \in [{0, 1} -> [seq : 0..aseq, doc : Doc]]
  BY DEF TypeOK, Slots
<1>. QED BY <1>1, <1>2 DEF TypeOK

\* The steps that matter to the slots; the others change neither slots nor children,
\* and none leads back from a committed reset while the process runs.
LEMMA SlotSteps ==
  ASSUME TypeOK, Outcomes = {TRUE}, [Next]_vars
  PROVE  \/ Poll \/ (\E w \in {"poll", "now"} : BeginWrite(w) \/ EndWrite(w))
         \/ Apply \/ NowNumber \/ NowFork \/ NowDone \/ ResetCommit
         \/ Boot(slot) \/ (ShutDown /\ ~Boot(slot)) \/ FlushDone
         \/ /\ UNCHANGED <<writer, aseq, slot>>
            /\ reset.at \in {"writing", "done"} => reset'.at \in {"writing", "done"}
<1>t. reset \in Resetting
  BY DEF TypeOK
<1>1. CASE Edit \/ SaveSteps \/ UNCHANGED vars
  BY <1>1, <1>t
  DEF Edit, SaveSteps, PressSave, SaveFork, SaveRuntime, SaveLock, SaveCommit, Saved,
      vars, memory, tasks, disk, Resetting
<1>2. CASE StartLoad \/ LoadRead \/ StartRestore \/ StartImport
  BY <1>2, <1>t
  DEF StartLoad, LoadRead, StartRestore, StartImport, StartJob, disk, Resetting
<1>3. CASE PressReset \/ ResetRuntime \/ ResetLock
  BY <1>3, <1>t DEF PressReset, ResetRuntime, ResetLock, memory, disk, Resetting
<1>4. CASE Stop
  BY <1>4 DEF Stop, PowerCut
<1>. QED BY <1>1, <1>2, <1>3, <1>4 DEF Next, Autosave, JobSteps, ResetSteps

\* Numbers keep to the slot of their parity.
LEMMA OrderStep ==
  ASSUME IInv, InOrder, Outcomes = {TRUE}, [Next]_vars
  PROVE  InOrder'
<1>. USE DEF InOrder, Filled, Busy
<1>t. /\ TypeOK /\ NumbersIssued
      /\ slot \in [{0, 1} -> [seq : Nat, doc : Doc]] /\ aseq \in Nat
      /\ writer \in [{"poll", "now"} -> Child]
  BY SlotType DEF IInv
<1>1. CASE Poll
  BY <1>1, <1>t DEF Poll, Child, disk
<1>2. ASSUME NEW w \in {"poll", "now"}, BeginWrite(w) PROVE InOrder'
  BY <1>2, <1>t DEF BeginWrite, Child, memory, Empty
<1>3. ASSUME NEW w \in {"poll", "now"}, EndWrite(w) PROVE InOrder'
  BY <1>3, <1>t DEF EndWrite, Child, NoChild, memory
<1>4. CASE Apply
  BY <1>4, <1>t DEF Apply, Child, disk
<1>5. CASE NowNumber
  BY <1>5, <1>t DEF NowNumber, Child, memory, disk
<1>6. CASE NowFork
  BY <1>6, <1>t DEF NowFork, Child, disk
<1>7. CASE NowDone
  BY <1>7, <1>t DEF NowDone, Child, NoChild, disk
<1>8. CASE ResetCommit
  BY <1>8, <1>t DEF ResetCommit, Empty, memory
<1>9. CASE Boot(slot)
  BY <1>9 DEF Boot, NoChild
<1>10. CASE ShutDown /\ ~Boot(slot)
  BY <1>10, <1>t DEF ShutDown, Empty
<1>11. CASE FlushDone
  BY <1>11, <1>t DEF FlushDone, Boot, NoChild
<1>12. CASE UNCHANGED <<writer, aseq, slot>>
  BY <1>12
<1>. QED
  BY <1>t, SlotSteps, <1>1, <1>2, <1>3, <1>4, <1>5, <1>6, <1>7, <1>8, <1>9, <1>10, <1>11,
     <1>12

\* After a boot the counter is at the newest slot.
LEMMA BootKept ==
  ASSUME NEW s \in [{0, 1} -> [seq : Nat, doc : Doc]], Boot(s),
         \A i \in {0, 1} : s[i].seq > 0 => SlotOf(s[i].seq) = i
  PROVE  Kept'
<1>1. writer'["poll"].at = "none" /\ aseq' = Newest(s).seq /\ slot' = s
  BY DEF Boot, BootSeq, NoChild
<1>2. LatestKept'
  BY <1>1, NewestTop DEF LatestKept, Filled
<1>. QED BY <1>1, <1>2 DEF Kept, OtherKept, RaceKept

\* The slot of the newest number is kept.
LEMMA LatestStep ==
  ASSUME IInv, InOrder, LatestKept, Outcomes = {TRUE},
         NEW w \in {"poll", "now"},
         Poll \/ BeginWrite(w) \/ EndWrite(w) \/ Apply \/ NowNumber \/ NowFork \/ NowDone
              \/ (ShutDown /\ ~Boot(slot))
  PROVE  LatestKept'
<1>. USE DEF LatestKept, Filled, Busy, Coming
<1>t. /\ TypeOK /\ NumbersIssued
      /\ slot \in [{0, 1} -> [seq : Nat, doc : Doc]] /\ aseq \in Nat
      /\ writer \in [{"poll", "now"} -> Child]
  BY SlotType DEF IInv
<1>1. CASE Poll
  BY <1>1, <1>t DEF Poll, Child, disk
<1>2. CASE BeginWrite(w)
  <2>1. SlotOf(writer[w].seq) \in {0, 1} /\ SlotOf(aseq) \in {0, 1}
    BY <1>t, Parity DEF Child
  <2>. QED BY <1>2, <1>t, <2>1 DEF BeginWrite, Child, memory, Empty
<1>3. CASE EndWrite(w)
  <2>1. SlotOf(writer[w].seq) \in {0, 1} /\ SlotOf(aseq) \in {0, 1}
    BY <1>t, Parity DEF Child
  <2>2. writer[w].seq > 0
    BY <1>3, <1>t DEF EndWrite, NumbersIssued
  <2>. QED BY <1>3, <1>t, <2>1, <2>2 DEF EndWrite, Child, NoChild, memory
<1>4. CASE Apply
  BY <1>4, <1>t DEF Apply, Child, disk, ResetQuiet, IInv
<1>5. CASE NowNumber
  BY <1>5, <1>t DEF NowNumber, Child, memory, disk
<1>6. CASE NowFork
  BY <1>6, <1>t DEF NowFork, Child, disk
<1>7. CASE NowDone
  BY <1>7, <1>t DEF NowDone, Child, NoChild, disk
<1>8. CASE ShutDown /\ ~Boot(slot)
  BY <1>8, <1>t, Parity DEF ShutDown, Empty
<1>. QED BY <1>1, <1>2, <1>3, <1>4, <1>5, <1>6, <1>7, <1>8

\* As long as the poll's child waits, the other slot is kept.
LEMMA OtherStep ==
  ASSUME IInv, InOrder, LatestKept, OtherKept, RaceKept, Outcomes = {TRUE},
         NEW w \in {"poll", "now"},
         Poll \/ BeginWrite(w) \/ EndWrite(w) \/ Apply \/ NowNumber \/ NowFork \/ NowDone
              \/ (ShutDown /\ ~Boot(slot))
  PROVE  OtherKept'
<1>. USE DEF OtherKept, Filled, Busy
<1>t. /\ TypeOK /\ NumbersIssued /\ ResetQuiet
      /\ slot \in [{0, 1} -> [seq : Nat, doc : Doc]] /\ aseq \in Nat
      /\ \A i \in {0, 1} : slot[i].seq <= aseq
      /\ writer \in [{"poll", "now"} -> Child]
  BY SlotType DEF IInv
<1>p. \A v \in {"poll", "now"} :
        /\ writer[v].seq \in Nat
        /\ SlotOf(writer[v].seq) \in {0, 1} /\ SlotOf(writer[v].seq + 1) \in {0, 1}
        /\ SlotOf(writer[v].seq) # SlotOf(writer[v].seq + 1)
  BY <1>t, Parity DEF Child
<1>1. CASE Poll
  <2>1. SlotOf(aseq + 1 + 1) = SlotOf(aseq)
    BY <1>t, Parity
  <2>2. writer'["poll"].seq = aseq + 1 /\ writer'["now"] = writer["now"] /\ slot' = slot
    BY <1>1, <1>t DEF Poll, disk
  <2>3. (\E i \in {0, 1} : Filled(i)) => Filled(SlotOf(aseq)) \/ Coming(SlotOf(aseq))
    BY <1>t DEF LatestKept
  <2>4. Coming(SlotOf(aseq)) => Busy("now") /\ SlotOf(writer["now"].seq) = SlotOf(aseq)
    BY <1>1 DEF Coming, Poll
  <2>. QED BY <2>1, <2>2, <2>3, <2>4
<1>2. CASE BeginWrite(w)
  <2>1. CASE w = "poll"
    BY <1>2, <1>t, <2>1 DEF BeginWrite, Child
  <2>2. CASE w = "now"
    BY <1>2, <1>t, <1>p, <2>2 DEF BeginWrite, Child, Empty
  <2>. QED BY <2>1, <2>2
<1>3. CASE EndWrite(w)
  <2>1. CASE w = "poll"
    BY <1>3, <1>t, <2>1 DEF EndWrite, Child, NoChild
  <2>2. CASE w = "now"
    <3>1. writer["now"].seq > 0
      BY <1>3, <1>t, <2>2 DEF EndWrite, NumbersIssued
    <3>. QED BY <1>3, <1>t, <1>p, <2>2, <3>1 DEF EndWrite, Child, NoChild, RaceKept
  <2>. QED BY <2>1, <2>2
<1>4. CASE Apply
  BY <1>4, <1>t DEF Apply, Child, disk, ResetQuiet
<1>5. CASE NowNumber
  BY <1>5, <1>t DEF NowNumber, Child, memory, disk
<1>6. CASE NowFork
  BY <1>6, <1>t DEF NowFork, Child, disk
<1>7. CASE NowDone
  BY <1>7, <1>t DEF NowDone, Child, NoChild, disk
<1>8. CASE ShutDown /\ ~Boot(slot)
  BY <1>8, <1>t DEF ShutDown
<1>. QED BY <1>1, <1>2, <1>3, <1>4, <1>5, <1>6, <1>7, <1>8

\* Two children that go to one slot with different numbers leave the other one filled.
LEMMA RaceStep ==
  ASSUME IInv, InOrder, LatestKept, RaceKept, Outcomes = {TRUE},
         NEW w \in {"poll", "now"},
         Poll \/ BeginWrite(w) \/ EndWrite(w) \/ Apply \/ NowNumber \/ NowFork \/ NowDone
              \/ (ShutDown /\ ~Boot(slot))
  PROVE  RaceKept'
<1>. USE DEF RaceKept, Filled, Busy
<1>t. /\ TypeOK /\ NumbersIssued /\ ResetQuiet
      /\ slot \in [{0, 1} -> [seq : Nat, doc : Doc]] /\ aseq \in Nat
      /\ writer \in [{"poll", "now"} -> Child]
  BY SlotType DEF IInv
<1>p. \A v \in {"poll", "now"} :
        /\ writer[v].seq \in Nat
        /\ SlotOf(writer[v].seq) \in {0, 1} /\ SlotOf(writer[v].seq + 1) \in {0, 1}
        /\ SlotOf(writer[v].seq) # SlotOf(writer[v].seq + 1)
  BY <1>t, Parity DEF Child
<1>1. CASE Poll
  <2>1. SlotOf(aseq + 1 + 1) = SlotOf(aseq) /\ SlotOf(aseq + 1) # SlotOf(aseq)
    BY <1>t, Parity
  <2>2. writer'["poll"].seq = aseq + 1 /\ writer'["now"] = writer["now"] /\ slot' = slot
    BY <1>1, <1>t DEF Poll, disk
  <2>3. ASSUME writer["now"].at = "forking" \/ Busy("now"),
               writer["now"].seq # aseq + 1, SlotOf(writer["now"].seq) = SlotOf(aseq + 1)
        PROVE  Filled(SlotOf(aseq))
    <3>1. aseq > 0
      BY <1>t, <2>3 DEF NumbersIssued
    <3>2. ~Coming(SlotOf(aseq))
      BY <1>1, <2>1, <2>3 DEF Coming, Poll
    <3>. QED BY <3>1, <3>2 DEF LatestKept
  <2>. QED BY <2>1, <2>2, <2>3
<1>2. CASE BeginWrite(w)
  <2>1. CASE w = "poll"
    BY <1>2, <1>t, <2>1 DEF BeginWrite, Child
  <2>2. CASE w = "now"
    BY <1>2, <1>t, <1>p, <2>2 DEF BeginWrite, Child, Empty
  <2>. QED BY <2>1, <2>2
<1>3. CASE EndWrite(w)
  BY <1>3, <1>t DEF EndWrite, Child, NoChild
<1>4. CASE Apply
  BY <1>4, <1>t DEF Apply, Child, disk
<1>5. CASE NowNumber
  <2>1. CASE Busy("poll")
    BY <1>5, <1>t, <2>1, Parity DEF NowNumber, Child, memory, disk, InOrder
  <2>2. CASE ~Busy("poll")
    BY <1>5, <1>t, <2>2 DEF NowNumber, Child
  <2>. QED BY <2>1, <2>2
<1>6. CASE NowFork
  BY <1>6, <1>t DEF NowFork, Child, disk
<1>7. CASE NowDone
  BY <1>7, <1>t DEF NowDone, Child, NoChild, disk
<1>8. CASE ShutDown /\ ~Boot(slot)
  BY <1>8, <1>t DEF ShutDown
<1>. QED BY <1>1, <1>2, <1>3, <1>4, <1>5, <1>6, <1>7, <1>8

\* Together: the second invariant is kept.
LEMMA KeptStep ==
  ASSUME KInv, Outcomes = {TRUE}, [Next]_vars
  PROVE  KInv'
<1>t. TypeOK /\ IInv /\ InOrder /\ slot \in [{0, 1} -> [seq : Nat, doc : Doc]] /\ aseq \in Nat
  BY SlotType DEF KInv, IInv
<1>1. IInv'
  BY <1>t, TypeStep, NumbersStep, ResetStep DEF IInv
<1>2. InOrder'
  BY <1>t, OrderStep
<1>. SUFFICES Kept'
  BY <1>1, <1>2 DEF KInv
<1>3. CASE Boot(slot)
  BY <1>3, <1>t, BootKept DEF InOrder, Filled, KInv
<1>4. CASE FlushDone
  <2>. DEFINE s == [slot EXCEPT ![SlotOf(aseq + 1)] = [seq |-> aseq + 1, doc |-> data]]
  <2>1. s \in [{0, 1} -> [seq : Nat, doc : Doc]]
    <3>1. [seq |-> aseq + 1, doc |-> data] \in [seq : Nat, doc : Doc]
      BY <1>t DEF TypeOK
    <3>. QED BY <1>t, <3>1
  <2>2. \A i \in {0, 1} : s[i].seq > 0 => SlotOf(s[i].seq) = i
    BY <1>t DEF InOrder, Filled
  <2>3. Boot(s)
    BY <1>4 DEF FlushDone
  <2>. HIDE DEF s
  <2>. QED BY <2>1, <2>2, <2>3, BootKept
<1>5. CASE ResetCommit
  BY <1>5, <1>t DEF ResetCommit, TypeOK, Resetting, Kept
<1>6. CASE UNCHANGED <<writer, aseq, slot>>
           /\ (reset.at \in {"writing", "done"} => reset'.at \in {"writing", "done"})
  BY <1>6
  DEF KInv, Kept, LatestKept, OtherKept, RaceKept, Filled, Busy, Coming
<1>7. ASSUME NEW w \in {"poll", "now"},
             Poll \/ BeginWrite(w) \/ EndWrite(w) \/ Apply \/ NowNumber \/ NowFork
                  \/ NowDone \/ (ShutDown /\ ~Boot(slot))
      PROVE  Kept'
  <2>1. reset'.at = reset.at
    BY <1>7, <1>t
    DEF Poll, BeginWrite, EndWrite, Apply, NowNumber, NowFork, NowDone, ShutDown, TypeOK,
        Resetting, tasks
  <2>2. CASE reset.at \in {"writing", "done"}
    BY <2>1, <2>2 DEF Kept
  <2>3. CASE LatestKept /\ OtherKept /\ RaceKept
    BY <1>t, <1>7, <2>3, LatestStep, OtherStep, RaceStep DEF Kept
  <2>. QED BY <2>2, <2>3 DEF KInv, Kept
<1>. QED
  BY <1>t, SlotSteps, <1>3, <1>4, <1>5, <1>6, <1>7

\* Once there is a complete autosave there is always one, until a factory reset, if
\* forks and children succeed and no forced autosave runs beside the poll's child.
THEOREM ResumeHolds ==
  ASSUME Outcomes = {TRUE}
  PROVE  Spec => ResumeKept
<1>1. ASSUME KInv, [Next]_vars, Newest(slot).seq > 0, Alone
      PROVE  Newest(slot').seq > 0
  <2>t. /\ TypeOK /\ TypeOK' /\ InOrder /\ NumbersIssued /\ LatestKept /\ OtherKept
        /\ slot \in [{0, 1} -> [seq : Nat, doc : Doc]] /\ aseq \in Nat
        /\ \A i \in {0, 1} : slot[i].seq <= aseq
        /\ writer \in [{"poll", "now"} -> Child]
    BY <1>1, SlotType, TypeStep DEF KInv, IInv, Kept, Alone
  <2>0. slot' \in [{0, 1} -> [seq : Nat, doc : Doc]]
    <3>1. \A n \in 0..aseq' : n \in Nat
      BY <2>t DEF TypeOK
    <3>. QED BY <2>t, <3>1 DEF TypeOK, Slots
  <2>. SUFFICES \E i \in {0, 1} : slot'[i].seq > 0
    BY <2>0, NewestTop
  <2>1. \E i \in {0, 1} : Filled(i)
    BY <1>1, <2>t, NewestTop DEF Filled
  <2>2. CASE BeginWrite("poll")
    <3>1. /\ SlotOf(writer["poll"].seq) \in {0, 1} /\ SlotOf(writer["poll"].seq + 1) \in {0, 1}
          /\ SlotOf(writer["poll"].seq) # SlotOf(writer["poll"].seq + 1)
      BY <2>t, Parity DEF Child
    <3>2. \/ Filled(SlotOf(writer["poll"].seq + 1))
          \/ slot[SlotOf(writer["poll"].seq)].seq = writer["poll"].seq
      BY <1>1, <2>t, <2>1, <2>2 DEF OtherKept, Busy, Alone, BeginWrite
    <3>3. Filled(SlotOf(writer["poll"].seq + 1))
      BY <1>1, <2>t, <2>1, <2>2, <3>1, <3>2, NewestTop
      DEF Filled, Alone, Newest, NumbersIssued, BeginWrite
    <3>. QED BY <2>t, <2>2, <3>1, <3>3 DEF BeginWrite, Filled
  <2>3. CASE EndWrite("poll")
    <3>1. SlotOf(writer["poll"].seq) \in {0, 1} /\ writer["poll"].seq > 0
      BY <2>t, <2>3, Parity DEF Child, EndWrite, NumbersIssued
    <3>. QED BY <2>t, <2>3, <3>1 DEF EndWrite
  <2>4. CASE ShutDown /\ ~Boot(slot)
    <3>1. /\ SlotOf(aseq) \in {0, 1} /\ SlotOf(aseq + 1) # SlotOf(aseq)
      BY <2>t, Parity
    <3>2. Filled(SlotOf(aseq))
      BY <1>1, <2>t, <2>1, <2>4 DEF LatestKept, Coming, Busy, Filled, ShutDown, Alone
    <3>. QED BY <2>t, <2>4, <3>1, <3>2 DEF ShutDown, Filled
  <2>5. CASE FlushDone
    <3>1. SlotOf(aseq + 1) \in {0, 1}
      BY <2>t, Parity
    <3>. QED BY <2>t, <2>5, <3>1 DEF FlushDone, Boot
  <2>6. CASE UNCHANGED slot
    BY <2>1, <2>6 DEF Filled
  <2>7. CASE Poll \/ Apply \/ NowNumber \/ NowFork \/ NowDone \/ Boot(slot)
    BY <2>6, <2>7 DEF Poll, Apply, NowNumber, NowFork, NowDone, Boot, disk
  <2>8. CASE ResetCommit \/ BeginWrite("now") \/ EndWrite("now")
    BY <1>1, <2>8 DEF ResetCommit, BeginWrite, EndWrite, Alone
  <2>. QED BY <1>1, <2>t, SlotSteps, <2>2, <2>3, <2>4, <2>5, <2>6, <2>7, <2>8
<1>2. Init => KInv
  <2>1. Init => IInv
    BY InitInv
  <2>2. Init => InOrder /\ Kept
    BY
    DEF Init, InOrder, Kept, LatestKept, OtherKept, RaceKept, Filled, Busy, NoChild,
        Empty
  <2>. QED BY <2>1, <2>2 DEF KInv
<1>3. KInv /\ [Next]_vars => KInv'
  BY KeptStep
<1>4. KInv /\ [Next]_vars => [Newest(slot).seq > 0 /\ Alone => Newest(slot').seq > 0]_vars
  BY <1>1
<1>. QED BY <1>2, <1>3, <1>4, PTL DEF Spec, ResumeKept
=============================================================================
