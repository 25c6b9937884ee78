SPECIFICATION Spec
CONSTANTS
  Device = {keys, synth}
  Plugin = {}
  Source = {keys}
  Sink = {synth}
  Removable = {}
  DeviceClient = {c1, c2}
  PluginClient = {}
  NoClient = NoClient
  Filter = {all}
  PassAll = all
  Mutes = {}
  Mapping = {}
  Note = {n1}
  Transposes = {}
  Rewrite <- ThruRewrite
  Off = Off
  DefaultRouting = "none"
  StaleClients = FALSE
  MaxPorts = 8
  MaxFifo = 2
INVARIANTS NoStuckNotes
