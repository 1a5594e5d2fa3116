\* The comment on Workflow.Resume against the code.
SPECIFICATION Spec
CONSTANTS
  Worker = {w1}
  IntentId = {i1}
  Content = {c1, c2}
  MaxEpoch = 2
  MaxNet = 2
  NoIntent = NoIntent
  None = None
ACTION_CONSTRAINT OnlyAnswersAreLost
INVARIANT LostResumeRecoverable
