----------------------------- MODULE TaskCenter ------------------------------
(***************************************************************************)
(* The task center: the index of the sessions and its monitor, the renewal *)
(* of exclusive checkouts, and the window.  The three meet in the files of *)
(* the index and in the journals, of which each part has its own view:     *)
(* TaskWindow only knows whether a session is listed and its journal open, *)
(* RenewalGate only the lease in one journal.  What the others do to these *)
(* is an action of each part, so that a behaviour of one part stands for   *)
(* all behaviours of the whole: MaxPart = 1 explores one after the other.  *)
(***************************************************************************)
EXTENDS TaskIndex, RenewalGate, TaskWindow

CONSTANT MaxPart    \* bound: parts that act in one behaviour

VARIABLE parts      \* the parts that act

Part == {"index", "renewal", "window"}

DeskInit ==
    /\ parts \in {P \in SUBSET Part : Cardinality(P) = MaxPart}
    /\ IndexInit /\ GateInit /\ WindowInit

Desk ==
    \/ "index" \in parts /\ IndexNext /\ UNCHANGED <<parts, gateVars, windowVars>>
    \/ "renewal" \in parts /\ GateNext /\ UNCHANGED <<parts, indexVars, windowVars>>
    \/ "window" \in parts /\ WindowNext /\ UNCHANGED <<parts, indexVars, gateVars>>

DeskSpec == DeskInit /\ [][Desk]_<<parts, indexVars, gateVars, windowVars>>

\* Types of the three parts.
DeskTypeOK == IndexTypeOK /\ GateTypeOK /\ WindowTypeOK /\ parts \subseteq Part

\* What is said of a lease is true on both sides: a renewal that is reported has been
\* made, and the server gives its copy up only for a journal that holds the lease.
LeaseIsKept == ReusedIsRecent /\ ErasedIsSaved
================================================================================
