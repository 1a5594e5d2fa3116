\* Two workers on one session, two intents, one resume: every interleaving.
SPECIFICATION Spec
CONSTANTS
  Worker = {w1, w2}
  IntentId = {i1, i2}
  Content = {c1, c2}
  MaxEpoch = 2
  MaxNet = 2
  NoIntent = NoIntent
  None = None
SYMMETRY Symmetry
INVARIANT TypeOK
INVARIANT NoForgottenIntent
INVARIANT ClosedMeansReleased
INVARIANT BaseIsCurrent
INVARIANT ReceiptIsTrue
PROPERTY ImplementsPublication
