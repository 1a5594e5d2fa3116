\* Two messages of the browser for one file.
SPECIFICATION Spec
CONSTANTS
  Request = {r1, r2}
  Ticket = {t1, t2}
  Desktop = Desktop
  None = None
SYMMETRY Symmetry
INVARIANT TypeOK
INVARIANT AnswersAreHonest
INVARIANT WaitingIsNeverForgotten
PROPERTY HandledOnce
PROPERTY NothingStartedLate
PROPERTY EditedCopyIsKept
