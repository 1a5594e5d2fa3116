----------------------------- MODULE AgentJournal -----------------------------
(***************************************************************************)
(* The durable record of one task of the Rust agent: journal.json and      *)
(* task.json with the functions of journal.rs that change them, and the    *)
(* locks and atomic writes of storage.rs they use.                         *)
(*                                                                         *)
(* All operations run as threads of the one desktop process and work on    *)
(* the files: there is no copy in memory that outlives an operation.       *)
(* upload.lock is held by an operation that may send, operation.lock while *)
(* the journal is read, changed and written.  Both are try-locks.          *)
(* ExclusiveCheckout and OptimisticUpload build their operations from the  *)
(* actions of this module.                                                 *)
(***************************************************************************)
EXTENDS Naturals, FiniteSets

CONSTANTS
    Worker,     \* threads of the desktop process
    IntentId,   \* uuids a capture may draw
    Content,    \* file contents, and the file ids they hash to
    Actions,    \* journal::Action, as far as the task's mode uses it
    NoIntent,   \* no intent
    None,       \* no thread, no lease, no request
    Torn        \* a read that mixes two versions of the working copy

ASSUME AgentAssumption ==
    None \notin Worker \cup Content /\ NoIntent \notin IntentId /\ Torn \notin Content

VARIABLES
    journal,   \* journal.json
    task,      \* task.json: the baseline, as a file id and a digest
    copy,      \* the working copy the user's application edits
    uplock,    \* holder of upload.lock
    oplock,    \* holder of operation.lock
    pc,        \* where each thread is
    mem,       \* local variables of each thread's operation
    used       \* uuids drawn so far

agentVars == <<journal, task, copy, uplock, oplock, pc, mem, used>>

Intent == [id : IntentId, content : Content, expected : Content, action : Actions]

ASSUME IntentAssumption == NoIntent \notin Intent

\* A receipt repeats the intent it confirms; of the lease only the base matters.
Journal == [pending : Intent \cup {NoIntent}, receipt : Intent \cup {NoIntent},
            lease : Content \cup {None}, ack : BOOLEAN, closed : BOOLEAN]

\* What an operation remembers between its steps: the baseline and the lease it
\* read first, until they are used; the version the observer saw; the snapshot
\* it is taking; and its intent.
Op == {"commit", "checkin", "recover", "release", "open", "save", "query", "auto"}

Memory == [op : Op, baseline : Content \cup {None}, lease : Content \cup {None},
           observed : Content \cup {None}, snapshot : Content \cup {Torn, None},
           intent : Intent \cup {NoIntent}]

\* The local variables of an operation that begins.
Local(op) == [op |-> op, baseline |-> None, lease |-> None, observed |-> None,
              snapshot |-> None, intent |-> NoIntent]

Point == {"idle", "enter", "capture", "reading", "send", "publish", "await",
          "baseline", "clear", "store", "confirm", "acknowledge", "pause", "look"}

AgentTypeOK ==
    /\ journal \in Journal
    /\ task \in Content
    /\ copy \in Content
    /\ uplock \in Worker \cup {None}
    /\ oplock \in Worker \cup {None}
    /\ pc \in [Worker -> Point]
    /\ mem \in [Worker -> Memory \cup {None}]
    /\ used \subseteq IntentId

\* A session has been opened: the baseline is downloaded, the task is written.
AgentInit(base) ==
    /\ journal = [pending |-> NoIntent, receipt |-> NoIntent, lease |-> None,
                  ack |-> FALSE, closed |-> FALSE]
    /\ task = base
    /\ copy = base
    /\ uplock = None
    /\ oplock = None
    /\ pc = [w \in Worker |-> "idle"]
    /\ mem = [w \in Worker |-> None]
    /\ used = {}

-------------------------------------------------------------------------------
Goto(w, p) == pc' = [pc EXCEPT ![w] = p]

Without(lock, w) == IF lock = w THEN None ELSE lock

\* What the caller of an operation does after a success, and after an error:
\* uploads are followed by a note in the auto-upload settings.
Done(w) == IF mem[w].op \in {"save", "query", "auto"} THEN "confirm" ELSE "idle"
Fail(w) == IF mem[w].op = "auto" THEN "pause" ELSE "idle"

\* The operation returns; the locks it holds are dropped with their files.
Return(w, next) ==
    /\ Goto(w, next)
    /\ mem' = [mem EXCEPT ![w] = None]
    /\ uplock' = Without(uplock, w)
    /\ oplock' = Without(oplock, w)

\* storage::write returned an error, after or without replacing the file.
Failed(w, file, value) ==
    /\ file' \in {file, value}
    /\ Return(w, Fail(w))

\* The desktop process dies with all its threads.
AgentCrash ==
    /\ \E w \in Worker : pc[w] # "idle"
    /\ pc' = [w \in Worker |-> "idle"]
    /\ mem' = [w \in Worker |-> None]
    /\ uplock' = None
    /\ oplock' = None
    /\ UNCHANGED <<journal, task, copy, used>>

\* The application saves the working copy; a snapshot that is being read may
\* then hold parts of both versions.
Edit(c) ==
    /\ c # copy
    /\ copy' = c
    /\ \/ UNCHANGED mem
       \/ \E w \in Worker :
            /\ pc[w] = "reading"
            /\ mem' = [mem EXCEPT ![w].snapshot = Torn]
    /\ UNCHANGED <<journal, task, uplock, oplock, pc, used>>

-------------------------------------------------------------------------------
(* capture_observed                                                        *)

\* The working copy is copied into the snapshot under operation.lock.
CaptureRead(w) ==
    /\ pc[w] = "capture"
    /\ oplock = None
    /\ ~journal.closed
    /\ journal.pending = NoIntent
    /\ oplock' = w
    /\ mem' = [mem EXCEPT ![w].snapshot = copy]
    /\ Goto(w, "reading")
    /\ UNCHANGED <<journal, task, copy, uplock, used>>

\* The copy is hashed again: it must be what was read, and what the observer
\* saw.  Then the intent is saved.
CaptureSave(w, i, action) ==
    LET m == [id |-> i, content |-> mem[w].snapshot, expected |-> task, action |-> action]
        j == [journal EXCEPT !.pending = m]
    IN  /\ pc[w] = "reading"
        /\ mem[w].snapshot = copy
        /\ mem[w].observed \in {None, copy}
        /\ i \notin used
        /\ used' = used \cup {i}
        /\ \/ /\ journal' = j
              /\ mem' = [mem EXCEPT ![w].intent = m, ![w].snapshot = None]
              /\ oplock' = None
              /\ Goto(w, "send")
              /\ UNCHANGED uplock
           \/ Failed(w, journal, j)
        /\ UNCHANGED <<task, copy>>

-------------------------------------------------------------------------------
(* accept: three writes under operation.lock                               *)

\* A published receipt of the pending intent is written down first ...
AcceptReceipt(w, m) ==
    LET j == [journal EXCEPT !.receipt = m]
    IN  /\ oplock = None
        /\ m # NoIntent
        /\ journal.pending = m
        /\ \/ /\ journal' = j
              /\ oplock' = w
              /\ Goto(w, "baseline")
              /\ mem' = [mem EXCEPT ![w].intent = m]
              /\ UNCHANGED uplock
           \/ Failed(w, journal, j)
        /\ UNCHANGED <<task, copy, used>>

\* Mutant: an error of the second write is ignored.
AcceptBaselineIgnored(w) ==
    /\ pc[w] = "baseline"
    /\ task' \in {task, mem[w].intent.content}
    /\ Goto(w, "clear")
    /\ UNCHANGED <<mem, uplock, oplock, journal, copy, used>>

\* ... then the baseline of the task ...
AcceptBaseline(w) ==
    /\ pc[w] = "baseline"
    /\ \/ /\ task' = mem[w].intent.content
          /\ Goto(w, "clear")
          /\ UNCHANGED <<mem, uplock, oplock>>
       \/ Failed(w, task, mem[w].intent.content)
    /\ UNCHANGED <<journal, copy, used>>

\* ... and last the intent is cleared: a check-in closes the session, a commit
\* moves the base of the lease.
AcceptClear(w) ==
    LET m == mem[w].intent
        in == m.action = "checkin"
        j == [journal EXCEPT !.pending = NoIntent,
                             !.closed = in,
                             !.ack = IF in THEN FALSE ELSE @,
                             !.lease = IF in \/ @ = None THEN None ELSE m.content]
    IN  /\ pc[w] = "clear"
        /\ \/ journal' = j /\ Return(w, Done(w))
           \/ Failed(w, journal, j)
        /\ UNCHANGED <<task, copy, used>>
================================================================================
