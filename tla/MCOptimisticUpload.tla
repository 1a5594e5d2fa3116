-------------------------- MODULE MCOptimisticUpload --------------------------
EXTENDS OptimisticUpload, TLC

\* Bounds: auto-upload stays on once the ids are used up, and while two requests
\* are on their way the observer has nothing in hand.
OnAtTheEnd == used = IntentId => settings.enabled
QuietObserver == Cardinality(net) > 1 => pc[Observer] = "idle" /\ seen = None
================================================================================
