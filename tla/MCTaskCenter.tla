---------------------------- MODULE MCTaskCenter ----------------------------
(* TaskCenter for TLC: each part alone, and within a part the operations that *)
(* touch different state one after the other.                                 *)
EXTENDS TaskCenter

\* A part that does not act is in one of its initial states.
NoChoice == "window" \notin parts => core

\* Focus requests and the monitor share only the index; a session is indexed before
\* or after its copy is watched.
Focusing == beat # -1 \/ polled # NoFocus \/ request # NoFocus \/ focused # NoFocus
Watching == monitor = "ended" \/ \E e \in Edit : seen[e] # Unseen \/ notices[e] # Half(0)
Registering == \E r \in Registrar : reg[r] # Idle
IndexBound ==
    /\ Focusing => ~Watching /\ ~Registering /\ \A e \in Edit : copy[e].stamp = 0
    /\ Watching => ~Registering

\* The clock matters from the first renewal on; what becomes of the sealed lease does
\* not, once the journal is there.  A checkout that ends does so early.
GateBound ==
    /\ clock > 0 => lease # NoJournal /\ escrow # "held"
    /\ clock > 2 => guard.live /\ ~lease.closed

\* Once a closure has been dropped only the first step is explored; requests to quit,
\* the icon, focus requests, the second session and a failed cycle of renewals come with
\* fewer changes of the sessions, and not all at once.
WindowBound ==
    /\ ~dropped
    /\ quit # NoQuit => /\ asks = 0 /\ updates = <<>> /\ pipe.lines = <<>>
                        /\ tray = "adding" /\ warned = {}
    /\ asks > 0 \/ tray # "adding" \/ "c2" \in listed \/ Nothing \in warned => tells <= 2
    /\ "c2" \in listed => "c1" \in listed /\ (asks = 0 \/ tray = "adding")

Symmetry == Permutations(Renewer) \cup Permutations(Registrar)

Bounds == NoChoice /\ IndexBound /\ GateBound /\ WindowBound
================================================================================
