-------------------------- MODULE MCExclusiveCheckout --------------------------
EXTENDS ExclusiveCheckout, TLC

Symmetry == Permutations(Worker) \cup Permutations(IntentId) \cup Permutations(Content)

\* A bound: while two requests are on their way, the handoff is over and only
\* the thread that sent both is at work.
OneLateSender ==
    Cardinality(net) > 1 =>
        /\ journal.ack \/ journal.closed
        /\ \E w \in Worker : /\ \A r \in net : r.from = w
                             /\ \A v \in Worker \ {w} : pc[v] = "idle"
================================================================================
