SPECIFICATION Spec
CONSTANTS
  Device = {keys}
  Plugin = {arp}
  Source = {keys}
  Sink = {arp}
  Removable = {keys}
  DeviceClient = {c1}
  PluginClient = {c3}
  NoClient = NoClient
  Filter = {all, mute}
  PassAll = all
  Mutes = {mute}
  Mapping = {}
  Note = {}
  Transposes = {}
  Rewrite <- ThruRewrite
  Off = Off
  DefaultRouting = "all"
  StaleClients = TRUE
  MaxPorts = 2
  MaxFifo = 0
INVARIANTS NoHiddenPath
PROPERTIES RescanKeepsRouting
