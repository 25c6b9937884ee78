---------------------------- MODULE MCUpdateFlow ----------------------------
(* A hub on which version 2 runs, with a newer pre-release on GitHub and a   *)
(* crowded band.                                                            *)
EXTENDS UpdateFlow

MCReleases == <<[ver |-> 3, pre |-> TRUE], [ver |-> 2, pre |-> FALSE]>>
MCDisk     == {1}
MCScans    == {{[channel |-> 1, power |-> 6], [channel |-> 36, power |-> 12]}}
=============================================================================
