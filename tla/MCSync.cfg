CONSTANTS
  good = good  slow = slow  g = g  a1 = a1  a2 = a2  b3 = b3
  Peers = {good, slow}
  Conns <- MCConns
  Host <- MCHost
  Chain <- MCChain
  Bad = {b3}
  Malformed = {b3}
  Slow = {slow}
  ids_limit = 4
  count_limit = 2
  NSPANS_THRESHOLD = 1
  SIZE_THRESHOLD = 1
  NEAR_BLOCKS = 1
  MAX_CALLBACKS = 1
  MAX_TROUBLE = 2
  NoOne = NoOne
SPECIFICATION FairSpec
INVARIANT OnlyRefusalForgets NoHashIsLost
PROPERTY SynchronizedIsTrue CatchesUp
CHECK_DEADLOCK FALSE
