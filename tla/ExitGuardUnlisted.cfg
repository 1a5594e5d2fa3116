\* The promise of guard.rs about a store that cannot be read.
SPECIFICATION Spec
CONSTANTS
  Task = {t1}
SYMMETRY Symmetry
INVARIANT FailureIsNeverSafe
