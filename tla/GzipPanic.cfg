CONSTANTS
  Conn = {c1, c2}
  Kinds <- MCFewKinds
  PoolSize = 1
  RequestTimeout = 2
  QueryTimeout = 1
  RedisTimeout = 1
  WriteTimeout = 4
  HeaderTimeout = 1
  Grace = 5
  MaxTime = 7
SPECIFICATION Spec
SYMMETRY Symmetry
INVARIANT PanicIsInternalError
