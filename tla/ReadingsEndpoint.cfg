CONSTANTS
  Proc = {p1}
  d1 = d1
  d2 = d2
  temp = temp
  hum = hum
  NoDevice = NoDevice
  NoType = NoType
  NoTime = NoTime
  NoEntry = NoEntry
  NoQuery = NoQuery
  SubSec <- MCSubSec
  Requests <- MCRequests
  Queries <- MCQueries
  DeviceIDs <- MCDeviceIDs
  ReadingTypes <- MCReadingTypes
  RowPool <- MCRows
  TTL = 1
  Deadline = 1
  WireDelay = 0
  MaxWire = 0
  MaxTime = 1
SPECIFICATION EndpointSpec
INVARIANTS ByIdExact RangelessRowsMatch AnsweredAsDocumented
PROPERTIES KeptUpToKey Answered
