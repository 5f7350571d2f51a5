CONSTANTS
  Proc = {p1, p2}
  d1 = d1
  d2 = d2
  temp = temp
  hum = hum
  NoDevice = NoDevice
  NoType = NoType
  NoTime = NoTime
  NoEntry = NoEntry
  SubSec <- MCSubSec
  Requests <- MCCollidingRequests
  DeviceIDs <- MCDeviceIDs
  ReadingTypes <- MCReadingTypes
  RowPool <- MCRows
  TTL = 1
  Deadline = 1
  WireDelay = 0
  MaxWire = 0
  MaxTime = 2
SPECIFICATION Spec
INVARIANT OnlyMatchingRows
