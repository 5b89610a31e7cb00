CONSTANTS
  o1 = o1  o2 = o2  t = t  Nil = Nil
  Conns = {o1, o2}
  Out = {o1, o2}
  Txs = {t}
  STEMS = 2
  MAX_CALLBACKS = 2
  MAX_TROUBLE = 1
SPECIFICATION Spec
INVARIANT EveryTxIsScheduled QueuedIsFlushed UsageIsCounted
PROPERTY StemIsKept Broadcast
