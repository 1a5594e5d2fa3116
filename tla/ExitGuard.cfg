\* Two tasks, changed by other threads while they are assessed.
SPECIFICATION Spec
CONSTANTS
  Task = {t1, t2}
SYMMETRY Symmetry
INVARIANT TypeOK
INVARIANT QuietExitMissesNothing
