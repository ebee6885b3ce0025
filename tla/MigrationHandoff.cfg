SPECIFICATION Spec
CONSTANTS
  w1 = w1
  w2 = w2
  t1 = t1
  t2 = t2
  MaxRevision = 2
  Trades <- TwoTrades
  NoTrade = NoTrade
  Inboxes <- FillFirst
  Writers <- TwoWriters
  Sessions <- OneSession
  Holder = Holder
  SourceWriter = Holder
  NoFence = NoFence
  NotAcked = NotAcked
  Zeros = Zeros
  MaxFaults = 1
INVARIANTS
  TypeOK
  AckProvesProjection
  AckedInOrder
PROPERTIES
  AckIsFinal
  FlippedIsReplayed
CHECK_DEADLOCK FALSE
