SPECIFICATION Spec
CONSTANTS
  Device = {keys, synth}
  Plugin = {}
  Source = {keys}
  Sink = {synth}
  Removable = {keys, synth}
  DeviceClient = {c1, c2}
  PluginClient = {}
  NoClient = NoClient
  Filter = {all}
  PassAll = all
  Mutes = {}
  Mapping = {}
  Note = {}
  Transposes = {}
  Rewrite <- ThruRewrite
  Off = Off
  DefaultRouting = "all"
  StaleClients = FALSE
  MaxPorts = 2
  MaxFifo = 0
PROPERTIES AbsentCellsKept
