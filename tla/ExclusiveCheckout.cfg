\* Two threads of the desktop process on one exclusive-edit task.
SPECIFICATION Spec
CONSTANTS
  Worker = {w1, w2}
  IntentId = {i1, i2}
  Content = {c1, c2}
  Actions = {"commit", "checkin"}
  MaxNet = 2
  NoIntent = NoIntent
  None = None
  Torn = Torn
SYMMETRY Symmetry
CONSTRAINT OneLateSender
INVARIANT TypeOK
INVARIANT NoForgottenIntent
INVARIANT JournalIsTrue
INVARIANT RecoverCanProceed
PROPERTY ImplementsPublication
