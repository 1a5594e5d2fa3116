---------------------------- MODULE MCEditWorkflow ----------------------------
EXTENDS EditWorkflow, TLC

Symmetry == Permutations(Worker) \cup Permutations(IntentId) \cup Permutations(Content)

\* Run lost_resume asks about a lost answer and nothing else: what a save leaves on
\* disk is what the worker remembers, and a commit begins when no request is on its way.
OnlyAnswersAreLost ==
    /\ journal' # journal => \E w \in Worker : mem'[w] = journal'
    /\ used' # used => net = {}
================================================================================
