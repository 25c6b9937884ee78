---------------------------- MODULE MCMidiEngine ----------------------------
(* Instances of MidiEngine for TLC: what the mappings of the runs do to    *)
(* notes, and the symmetries of the client numbers.                        *)
EXTENDS MidiEngine, TLC

CONSTANT Transposes   \* mappings that turn every note into another one

ThruRewrite == [m \in Mapping |-> [n \in Note |->
  IF m \in Transposes /\ Cardinality(Note) > 1 THEN CHOOSE o \in Note : o # n ELSE n]]

ClientSymmetry == Permutations(DeviceClient) \cup Permutations(PluginClient)

=============================================================================
