CONSTANTS
  Proc = {p1, p2}
  d1 = d1
  d2 = d2
  temp = temp
  hum = hum
  NoDevice = NoDevice
  NoType = NoType
  NoTime = NoTime
  NoEntry = NoEntry
  SubSec <- MCSubSec
  Requests <- MCOneRequest
  DeviceIDs <- MCDeviceIDs
  ReadingTypes <- MCReadingTypes
  RowPool <- MCRows
  TTL = 1
  Deadline = 1
  WireDelay = 1
  MaxWire = 1
  MaxTime = 4
SPECIFICATION Spec
SYMMETRY Symmetry
INVARIANTS TypeOK CacheSound InFlightSound
PROPERTY PromiseKept
