------------------------------- MODULE MCMailbox -------------------------------
EXTENDS Mailbox, TLC

Symmetry == Permutations(Request) \cup Permutations(Ticket)

\* For the liveness run: the drain loop is the same for both kinds, and nothing
\* it does depends on the user having saved.
SessionsUnedited == kind = "session" /\ copy # "edited"
================================================================================
