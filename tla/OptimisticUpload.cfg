\* One window and the observer on one optimistic-edit task; the process is not
\* killed for ever.
SPECIFICATION FairSpec
CONSTANTS
  Worker = {window, observer}
  Observer = observer
  IntentId = {i1, i2}
  Content = {c1, c2}
  Actions = {"optimistic-update"}
  MaxNet = 2
  NoIntent = NoIntent
  None = None
  Torn = Torn
CONSTRAINT OnAtTheEnd
CONSTRAINT QuietObserver
INVARIANT TypeOK
INVARIANT UploadsAreTrue
PROPERTY AutoNeverResends
PROPERTY ImplementsPublication
PROPERTY EditsAreUploaded
