------------------------------ MODULE Publication ------------------------------
(***************************************************************************)
(* What the agents promise their user about uploads of one file, without   *)
(* processes, files, requests or failures: every version that appears in   *)
(* the cloud is one the user approved, it appears once, and only while the *)
(* approval is on record.  An approval leaves the record after its version *)
(* has been published, or without ever being published.                    *)
(***************************************************************************)
CONSTANTS
    Approval,   \* approved versions, each with an id
    Nothing     \* no approval on record

VARIABLES
    open,       \* the approval on record
    published   \* the approved versions that have appeared in the cloud

Init ==
    /\ open = Nothing
    /\ published = {}

\* The user approves a version; an approval that was not published is dropped.
Approve(a) ==
    /\ open \notin published
    /\ \A b \in published : b.id # a.id
    /\ open' = a
    /\ UNCHANGED published

Publish ==
    /\ open # Nothing
    /\ open \notin published
    /\ published' = published \cup {open}
    /\ UNCHANGED open

Settle ==
    /\ open # Nothing
    /\ open' = Nothing
    /\ UNCHANGED published

Next == Publish \/ Settle \/ \E a \in Approval : Approve(a)

Spec == Init /\ [][Next]_<<open, published>>
================================================================================
