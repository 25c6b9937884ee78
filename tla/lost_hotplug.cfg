SPECIFICATION FairSpec
CONSTANTS
  Device = {keys}
  Plugin = {arp}
  Source = {keys}
  Sink = {arp}
  Removable = {keys}
  DeviceClient = {c1}
  PluginClient = {c3}
  NoClient = NoClient
  Filter = {all}
  PassAll = all
  Mutes = {}
  Mapping = {}
  Note = {}
  Transposes = {}
  Rewrite <- ThruRewrite
  Off = Off
  DefaultRouting = "none"
  StaleClients = FALSE
  MaxPorts = 2
  MaxFifo = 0
PROPERTIES HotplugSeen
