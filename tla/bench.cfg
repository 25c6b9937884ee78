SPECIFICATION BenchSpec
CONSTANTS
  QueueSize = 2  PoolSize = 1  Batch = 1
  ArpNotes = {1, 2}  Steps = 1  MaxRunners = 1  MaxOffs = 1
  CartKey = {1}  Laps = 0  CartSlot = {1, 2}
  EucKey = {1, 2}  Full = 2
  Rows = 2  Tracks = 1  Bank <- MCBank  Taps = 3
  Slot = {1, 2}  Param = {p, q}  Value = {0, 1}
  Button = {1, 2}  Horizon = 2  Backlog = 1
  Level = {1, 2}  OutboxSize = 2
  Session = {s1}  Tries = 1  MaxUnanswered = 2  ReapAfter = 2
  Dev = {1, 2}  MaxDropped = 2
  Message <- MCMessage  MaxMessages = 3
  Mapping <- MCMapping  Filter <- MCFilter  Input <- MCInput  Unset = Unset  MaxMappings = 2
  VelocityBits = 10  ValueBits = 14
  Device = {1, 2}  WithSerial = {1}  UsbPort = {1, 2}  Document <- MCDocument
  EffectKey = {1, 2}  Setting = {1, 2}  MaxPending = 2  MaxCalls = 1
  Dump = {1, 2, 3}  Size = {1, 2}  MaxSegment = 3  MaxWire = 2  MaxMishaps = 1
INVARIANTS PartsTypeOK NotesEnd FrozenGrid EvictedWithSlot QuietIsFresh RegisteredPlays WaysAgree UnhurtIsHeard
PROPERTIES  StartHeard ClosedQuiet NoNewGhosts FadeEnds LaunchesServed SwitchKeepsSlots DropWins LossNoticed KeepsIdentity
CHECK_DEADLOCK FALSE
