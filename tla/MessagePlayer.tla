--------------------------- MODULE MessagePlayer ---------------------------
(***************************************************************************)
(* What a MIDI bridge promises: the messages of a packet that it bridges   *)
(* are played one after the other, each once, in the order sent, to the    *)
(* last.  BleMidi, which looks at the bytes, implements it.                *)
(***************************************************************************)
EXTENDS Naturals, Sequences

CONSTANTS Message,   \* MIDI messages
          Audible(_) \* whether the bridge promises to play a message

VARIABLES sent,  \* the messages of the packet
          played \* those played so far

playerVars == <<sent, played>>

Due == SelectSeq(sent, Audible)

PlayerInit == sent \in Seq(Message) /\ played = <<>>

PlayNext == /\ Len(played) < Len(Due)
            /\ played' = Append(played, Due[Len(played) + 1])
            /\ UNCHANGED sent

PlayerSpec == PlayerInit /\ [][PlayNext]_playerVars /\ WF_playerVars(PlayNext)
=============================================================================
