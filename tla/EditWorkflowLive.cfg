\* One worker that is restarted again and again, one intent.
SPECIFICATION FairSpec
CONSTANTS
  Worker = {w1}
  IntentId = {i1}
  Content = {c1, c2}
  MaxEpoch = 1
  MaxNet = 2
  NoIntent = NoIntent
  None = None
PROPERTY LockIsFreed
PROPERTY PendingIsResolved
