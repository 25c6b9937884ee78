SPECIFICATION Spec
CONSTANTS
  Device = {keys, synth}
  Plugin = {}
  Source = {keys}
  Sink = {synth}
  Removable = {}
  DeviceClient = {c1, c2}
  PluginClient = {}
  NoClient = NoClient
  Filter = {all, mute}
  PassAll = all
  Mutes = {mute}
  Mapping = {cc}
  Note = {n1}
  Transposes = {}
  Rewrite <- ThruRewrite
  Off = Off
  DefaultRouting = "none"
  StaleClients = FALSE
  MaxPorts = 8
  MaxFifo = 2
SYMMETRY ClientSymmetry
INVARIANTS TypeOK HeldNotesOnLiveEdges OnePath NoDeadEdge
PROPERTIES TeardownSilences
