------------------------------ MODULE SessionOpen ------------------------------
(***************************************************************************)
(* Opening one file: the steps of session::open_session (kind "session")   *)
(* and paired_session::open_with (kind "link").  Both claim a single-use   *)
(* ticket, download into a temporary file, rename it to the working copy   *)
(* and only then write task.json, under the operation.lock of the task.    *)
(* They differ in what comes first: a session is claimed before the lock   *)
(* is taken and the task looked up, a link after.                          *)
(***************************************************************************)
CONSTANTS
    Request,    \* messages of the browser that ask to open the file
    Ticket,     \* tickets the server has issued for it
    Desktop,    \* the desktop process
    None        \* no message is being handled, nobody holds the lock

\* The processes that may open the file: the desktop, and the native host that
\* was started for a message.
Opener == Request \cup {Desktop}

Working == {"begin", "claimed", "look", "fetch", "downloaded", "kept", "launch"}
Outcome == {"ok", "error", "expired"}

\* A message in hand: it is being worked on, answered, or removed.
Job == [of : Request, step : Working \cup Outcome \cup {"remove"}]

ASSUME OpenAssumption == None \notin Job \cup Opener /\ Desktop \notin Request

VARIABLES
    kind,       \* how this file is opened
    letter,     \* the ticket each message carries
    tickets,    \* the server: tickets not yet claimed
    copy,       \* the working copy: none, as downloaded, edited by the user
    recorded,   \* task.json exists
    lock,       \* holder of operation.lock
    job         \* the message each process has in hand, and how far it is

fileVars == <<tickets, copy, recorded>>
openVars == <<kind, letter, fileVars, lock, job>>

OpenTypeOK ==
    /\ kind \in {"session", "link"}
    /\ letter \in [Request -> Ticket]
    /\ tickets \subseteq Ticket
    /\ copy \in {"none", "clean", "edited"}
    /\ recorded \in BOOLEAN
    /\ lock \in Opener \cup {None}
    /\ job \in [Opener -> Job \cup {None}]

OpenInit ==
    /\ kind \in {"session", "link"}
    /\ letter \in [Request -> Ticket]
    /\ tickets = Ticket
    /\ copy = "none"
    /\ recorded = FALSE
    /\ lock = None
    /\ job = [p \in Opener |-> None]

-------------------------------------------------------------------------------
At(p, step) == job[p] # None /\ job[p].step = step

Step(p, step) == job' = [job EXCEPT ![p] = [of |-> job[p].of, step |-> step]]

Unlocked(p) == IF lock = p THEN None ELSE lock

\* The server accepts each ticket once; the answer may be lost on the way back.
Claim(p) ==
    /\ IF kind = "session" THEN At(p, "begin") ELSE At(p, "look") /\ ~recorded
    /\ letter[job[p].of] \in tickets
    /\ tickets' = tickets \ {letter[job[p].of]}
    /\ \/ Step(p, IF kind = "session" THEN "claimed" ELSE "fetch") /\ UNCHANGED lock
       \/ Step(p, "error") /\ lock' = Unlocked(p)
    /\ UNCHANGED <<kind, letter, copy, recorded>>

Lock(p) ==
    /\ At(p, IF kind = "session" THEN "claimed" ELSE "begin")
    /\ lock = None
    /\ lock' = p
    /\ Step(p, "look")
    /\ UNCHANGED <<kind, letter, fileVars>>

\* A task that exists is used as it is, with the working copy it has.
Reopen(p) ==
    /\ At(p, "look")
    /\ recorded
    /\ copy # "none"
    /\ Step(p, "launch")
    /\ lock' = Unlocked(p)
    /\ UNCHANGED <<kind, letter, fileVars>>

\* A working copy without a task is left for the user to look at.
Download(p) ==
    /\ At(p, IF kind = "session" THEN "look" ELSE "fetch")
    /\ ~recorded
    /\ copy = "none"
    /\ Step(p, "downloaded")
    /\ UNCHANGED <<kind, letter, fileVars, lock>>

\* persist_noclobber
Keep(p) ==
    /\ At(p, "downloaded")
    /\ copy = "none"
    /\ copy' = "clean"
    /\ Step(p, "kept")
    /\ UNCHANGED <<kind, letter, tickets, recorded, lock>>

\* Mutant: the answer does not wait for task.json.
RecordIgnored(p) ==
    /\ At(p, "kept")
    /\ recorded' = TRUE \/ UNCHANGED recorded
    /\ Step(p, "launch")
    /\ lock' = Unlocked(p)
    /\ UNCHANGED <<kind, letter, tickets, copy>>

\* storage::write may fail before or after it has replaced the file.
Record(p) ==
    /\ At(p, "kept")
    /\ \/ recorded' = TRUE /\ Step(p, "launch")
       \/ recorded' = TRUE /\ Step(p, "error")
       \/ UNCHANGED recorded /\ Step(p, "error")
    /\ lock' = Unlocked(p)
    /\ UNCHANGED <<kind, letter, tickets, copy>>

\* The lease of an exclusive task is there and the application has started.
Launch(p) ==
    /\ At(p, "launch")
    /\ Step(p, "ok")
    /\ UNCHANGED <<kind, letter, fileVars, lock>>

\* A check, a call, a lock or a file operation fails.
Refuse(p) ==
    /\ \E step \in Working : At(p, step)
    /\ Step(p, "error")
    /\ lock' = Unlocked(p)
    /\ UNCHANGED <<kind, letter, fileVars>>

\* Mutant: a request to overwrite is honoured.
OpenOverwrites(p) ==
    \/ Claim(p) \/ Lock(p) \/ Record(p) \/ Launch(p) \/ Refuse(p)
    \/ /\ At(p, IF kind = "session" THEN "look" ELSE "fetch")
       /\ copy' = "clean"
       /\ Step(p, "kept")
       /\ UNCHANGED <<kind, letter, tickets, recorded, lock>>

Open(p) ==
    \/ Claim(p) \/ Lock(p) \/ Reopen(p) \/ Download(p)
    \/ Keep(p) \/ Record(p) \/ Launch(p) \/ Refuse(p)

\* A process dies: its lock is free.
Die(p) ==
    /\ job' = [job EXCEPT ![p] = None]
    /\ lock' = Unlocked(p)

\* The user's application saves.
Edit ==
    /\ copy = "clean"
    /\ copy' = "edited"
    /\ UNCHANGED <<kind, letter, tickets, recorded, lock, job>>
================================================================================
