--------------------------- MODULE OptimisticUpload ---------------------------
(***************************************************************************)
(* An optimistic-edit task of the Rust agent: upload.rs and auto_upload.rs *)
(* on top of the task journal.  Nobody holds a reservation: the server     *)
(* takes a version only if the file still is the base it was made from.    *)
(*                                                                         *)
(* Threads of windows save and recover on request.  One more thread, the   *)
(* observer, scans the task every two seconds and uploads a working copy   *)
(* that has stopped changing.  The settings (enabled, paused) are a file   *)
(* of their own, changed under auto-upload.lock.                           *)
(***************************************************************************)
EXTENDS AgentJournal

CONSTANTS
    Observer,   \* the thread that scans; one of Worker
    MaxNet      \* bound: requests on their way at the same time

ASSUME ObserverAssumption == Observer \in Worker /\ MaxNet \in Nat

\* journal::Action: what an optimistic-edit task captures.
ASSUME ActionsAssumption == Actions = {"optimistic-update"}

VARIABLES
    file, reg,    \* the server: current version, and what it knows of each intent
    settings,     \* auto-upload.json
    seen,         \* the observer's observation: a digest it has seen before
    ask, reply, net,
    sent          \* history: ids of the intents that were ever sent

serverVars == <<file, reg>>
autoVars == <<settings, seen>>
netVars == <<ask, reply, net, sent>>
vars == <<agentVars, serverVars, autoVars, netVars>>

Request == [from : Worker, intent : Intent]

ASSUME NoneAssumption == None \notin Request

TypeOK ==
    /\ AgentTypeOK
    /\ file \in Content
    /\ reg \in [IntentId -> [state : {"not-found", "prepared", "published"},
                             intent : Intent \cup {NoIntent}]]
    /\ settings \in [enabled : BOOLEAN, paused : BOOLEAN]
    /\ seen \in Content \cup {None}
    /\ ask \in [Worker -> Request \cup {None}]
    /\ reply \in [Worker -> Intent \cup {None}]
    /\ net \subseteq Request
    /\ sent \subseteq IntentId
    /\ \A w \in Worker :
         pc[w] \in {"send", "await", "baseline", "clear"} => mem[w].intent \in Intent

Init ==
    /\ file \in Content
    /\ reg = [i \in IntentId |-> [state |-> "not-found", intent |-> NoIntent]]
    /\ AgentInit(file)
    /\ settings = [enabled |-> TRUE, paused |-> FALSE]
    /\ seen = None
    /\ ask = [w \in Worker |-> None]
    /\ reply = [w \in Worker |-> None]
    /\ net = {}
    /\ sent = {}

Window == Worker \ {Observer}

Quiet(w) ==
    /\ ask' = [ask EXCEPT ![w] = None]
    /\ reply' = [reply EXCEPT ![w] = None]

-------------------------------------------------------------------------------
(* save and recover (upload.rs)                                            *)

Begin(w, op) ==
    /\ w \in Window
    /\ pc[w] = "idle"
    /\ mem' = [mem EXCEPT ![w] = Local(op)]
    /\ Goto(w, "enter")
    /\ UNCHANGED <<journal, task, copy, uplock, oplock, used, serverVars, autoVars, netVars>>

\* save_inner under upload.lock, nothing pending, and a change to upload.
SaveNew(w) ==
    /\ pc[w] = "enter"
    /\ mem[w].op \in {"save", "auto"}
    /\ uplock = None
    /\ journal.pending = NoIntent
    /\ copy # task
    /\ uplock' = w
    /\ Goto(w, "capture")
    /\ UNCHANGED <<journal, task, copy, oplock, mem, used, serverVars, autoVars, netVars>>

\* Nothing to upload, the lock is busy, or, for the observer, something is
\* pending already: the scan goes on.
SaveNothing(w) ==
    /\ pc[w] = "enter"
    /\ mem[w].op \in {"save", "auto"}
    /\ \/ uplock # None
       \/ copy = task /\ journal.pending = NoIntent
       \/ mem[w].op = "auto" /\ journal.pending # NoIntent
    /\ Return(w, "idle")
    /\ UNCHANGED <<journal, task, copy, used, serverVars, autoVars, netVars>>

Capture(w) ==
    /\ CaptureRead(w)
    /\ UNCHANGED <<serverVars, autoVars, netVars>>

\* The observer binds the capture to the digest it has seen.
Captured(w, i) ==
    /\ CaptureSave(w, i, "optimistic-update")
    /\ UNCHANGED <<serverVars, autoVars, netVars>>

\* The working copy moved on: the observer returns "changing", a window an error.
Changing(w) ==
    /\ pc[w] = "reading"
    /\ mem[w].snapshot # copy \/ mem[w].observed \notin {None, copy}
    /\ Return(w, "idle")
    /\ UNCHANGED <<journal, task, copy, used, serverVars, autoVars, netVars>>

\* Mutant: the intent found in the journal is not kept.
RetryUnread(w) ==
    LET m == journal.pending
        known == reg[m.id].state = "published"
    IN  /\ pc[w] = "enter"
        /\ mem[w].op \in {"save", "query"}
        /\ uplock = None
        /\ m # NoIntent
        /\ mem[w].op = "query" => known
        /\ uplock' = w
        /\ reply' = IF known THEN [reply EXCEPT ![w] = m] ELSE reply
        /\ Goto(w, IF known THEN "await" ELSE "send")
        /\ UNCHANGED <<journal, task, copy, oplock, mem, used, serverVars, autoVars, ask, net, sent>>

\* Mutant: the working copy of today is sent under the old intent.
RetryFresh(w) ==
    LET m == journal.pending
        known == reg[m.id].state = "published"
    IN  /\ pc[w] = "enter"
        /\ mem[w].op \in {"save", "query"}
        /\ uplock = None
        /\ m # NoIntent
        /\ mem[w].op = "query" => known
        /\ uplock' = w
        /\ mem' = [mem EXCEPT ![w].intent = [m EXCEPT !.content = copy]]
        /\ reply' = IF known THEN [reply EXCEPT ![w] = m] ELSE reply
        /\ Goto(w, IF known THEN "await" ELSE "send")
        /\ UNCHANGED <<journal, task, copy, oplock, used, serverVars, autoVars, ask, net, sent>>

\* Mutant: the observer retries a pending intent as a window does.
RetryAlways(w) ==
    LET m == journal.pending
        known == reg[m.id].state = "published"
    IN  /\ pc[w] = "enter"
        /\ uplock = None
        /\ m # NoIntent
        /\ mem[w].op = "query" => known
        /\ uplock' = w
        /\ mem' = [mem EXCEPT ![w].intent = m]
        /\ reply' = IF known THEN [reply EXCEPT ![w] = m] ELSE reply
        /\ Goto(w, IF known THEN "await" ELSE "send")
        /\ UNCHANGED <<journal, task, copy, oplock, used, serverVars, autoVars, ask, net, sent>>

\* A pending intent is asked about first; only save (not recover, and never
\* the observer) sends it again if it is not published.
Retry(w) ==
    LET m == journal.pending
        known == reg[m.id].state = "published"
    IN  /\ pc[w] = "enter"
        /\ mem[w].op \in {"save", "query"}
        /\ uplock = None
        /\ m # NoIntent
        /\ mem[w].op = "query" => known
        /\ uplock' = w
        /\ mem' = [mem EXCEPT ![w].intent = m]
        /\ reply' = IF known THEN [reply EXCEPT ![w] = m] ELSE reply
        /\ Goto(w, IF known THEN "await" ELSE "send")
        /\ UNCHANGED <<journal, task, copy, oplock, used, serverVars, autoVars, ask, net, sent>>

Publish(w) ==
    LET r == [from |-> w, intent |-> mem[w].intent]
    IN  /\ pc[w] = "send"
        /\ Cardinality(net \cup {r}) <= MaxNet
        /\ net' = net \cup {r}
        /\ sent' = sent \cup {mem[w].intent.id}
        /\ ask' = [ask EXCEPT ![w] = r]
        /\ Goto(w, "await")
        /\ UNCHANGED <<journal, task, copy, uplock, oplock, mem, used, serverVars, autoVars, reply>>

Published(w) ==
    /\ pc[w] = "await"
    /\ reply[w] # None
    /\ AcceptReceipt(w, reply[w])
    /\ Quiet(w)
    /\ UNCHANGED <<serverVars, autoVars, net, sent>>

Baseline(w) == AcceptBaseline(w) /\ UNCHANGED <<serverVars, autoVars, netVars>>

Clear(w) == AcceptClear(w) /\ UNCHANGED <<serverVars, autoVars, netVars>>

\* An error ends the operation; after one of its uploads the observer pauses.
GiveUp(w) ==
    /\ pc[w] \in {"enter", "capture", "reading", "send", "await", "baseline", "clear"}
    /\ Return(w, Fail(w))
    /\ Quiet(w)
    /\ UNCHANGED <<journal, task, copy, used, serverVars, autoVars, net, sent>>

-------------------------------------------------------------------------------
(* The settings and the observer (auto_upload.rs)                          *)

\* auto-upload.lock may be busy and the write may fail.
Note(w, s) ==
    /\ settings' \in {settings, s}
    /\ Goto(w, "idle")
    /\ UNCHANGED <<journal, task, copy, uplock, oplock, mem, used, serverVars, seen, netVars>>

Confirmed(w) == pc[w] = "confirm" /\ Note(w, [settings EXCEPT !.paused = FALSE])

Pause(w) == pc[w] = "pause" /\ Note(w, [settings EXCEPT !.paused = TRUE])

SetEnabled(b) ==
    /\ settings' = [enabled |-> b, paused |-> IF b THEN FALSE ELSE settings.paused]
    /\ UNCHANGED <<agentVars, serverVars, seen, netVars>>

\* Mutant: every scan begins with no observation.
ScanForgets(o) ==
    LET on == settings.enabled /\ ~settings.paused /\ journal.pending = NoIntent
    IN  /\ pc[o] = "idle"
        /\ IF on THEN /\ mem' = [mem EXCEPT ![o] = [Local("auto") EXCEPT !.baseline = task]]
                      /\ Goto(o, "look")
                 ELSE UNCHANGED <<mem, pc>>
        /\ seen' = None
        /\ UNCHANGED <<journal, task, copy, uplock, oplock, used, serverVars, settings, netVars>>

\* A scan loads the task, the settings and the journal ...
Scan(o) ==
    LET on == settings.enabled /\ ~settings.paused /\ journal.pending = NoIntent
    IN  /\ pc[o] = "idle"
        /\ IF on THEN /\ mem' = [mem EXCEPT ![o] = [Local("auto") EXCEPT !.baseline = task]]
                      /\ Goto(o, "look")
                      /\ UNCHANGED seen
                 ELSE seen' = None /\ UNCHANGED <<mem, pc>>
        /\ UNCHANGED <<journal, task, copy, uplock, oplock, used, serverVars, settings, netVars>>

\* ... then hashes the working copy: it is away for the moment ...
Unreadable(o) ==
    /\ pc[o] = "look"
    /\ seen' = None
    /\ Return(o, "idle")
    /\ UNCHANGED <<journal, task, copy, used, serverVars, settings, netVars>>

\* ... it is the baseline, it is new, or it has not been the same for SETTLE_MS ...
Unsettled(o) ==
    /\ pc[o] = "look"
    /\ seen' = IF copy = mem[o].baseline THEN None ELSE copy
    /\ Return(o, "idle")
    /\ UNCHANGED <<journal, task, copy, used, serverVars, settings, netVars>>

\* ... or it has settled, and this very version is uploaded.
Settled(o) ==
    /\ pc[o] = "look"
    /\ copy # mem[o].baseline
    /\ seen = copy
    /\ seen' = None
    /\ mem' = [mem EXCEPT ![o].baseline = None, ![o].observed = copy]
    /\ Goto(o, "enter")
    /\ UNCHANGED <<journal, task, copy, uplock, oplock, used, serverVars, settings, netVars>>

-------------------------------------------------------------------------------
(* The editor, the process, the network and the server.                    *)

Save(c) == Edit(c) /\ UNCHANGED <<serverVars, autoVars, netVars>>

\* The observations live in memory.
Crash ==
    /\ AgentCrash
    /\ seen' = None
    /\ ask' = [w \in Worker |-> None]
    /\ reply' = [w \in Worker |-> None]
    /\ UNCHANGED <<serverVars, settings, net, sent>>

Answer(r, m) ==
    /\ net' = net \ {r}
    /\ reply' = IF ask[r.from] = r THEN [reply EXCEPT ![r.from] = m] ELSE reply
    /\ UNCHANGED <<agentVars, autoVars, ask, sent>>

HandlePublish(r) ==
    LET m == r.intent
    IN  \/ /\ file = m.expected
           /\ reg[m.id].state # "published"
           /\ file' = m.content
           /\ reg' = [reg EXCEPT ![m.id] = [state |-> "published", intent |-> m]]
           /\ Answer(r, m)
        \/ /\ reg[m.id].state = "published"
           /\ Answer(r, reg[m.id].intent)
           /\ UNCHANGED serverVars

\* The server is authorised to receive the bytes, which do not arrive.
Stall(r) ==
    /\ reg[r.intent.id].state = "not-found"
    /\ reg' = [reg EXCEPT ![r.intent.id] = [state |-> "prepared", intent |-> r.intent]]
    /\ net' = net \ {r}
    /\ UNCHANGED <<agentVars, file, autoVars, ask, reply, sent>>

Lose(r) ==
    /\ net' = net \ {r}
    /\ UNCHANGED <<agentVars, serverVars, autoVars, ask, reply, sent>>

Others(c) ==
    /\ file' = c
    /\ UNCHANGED <<agentVars, reg, autoVars, netVars>>

Operation(w) ==
    \/ \E op \in {"save", "query"} : Begin(w, op)
    \/ SaveNew(w) \/ SaveNothing(w) \/ Capture(w) \/ Changing(w)
    \/ (\E i \in IntentId : Captured(w, i))
    \/ Retry(w) \/ Publish(w) \/ Published(w) \/ Baseline(w) \/ Clear(w)
    \/ Confirmed(w) \/ Pause(w)

Observe == Scan(Observer) \/ Unreadable(Observer) \/ Unsettled(Observer) \/ Settled(Observer)

Next ==
    \/ \E w \in Worker : Operation(w) \/ GiveUp(w)
    \/ Observe
    \/ \E b \in BOOLEAN : SetEnabled(b)
    \/ Crash
    \/ \E c \in Content : Save(c) \/ Others(c)
    \/ \E r \in net : HandlePublish(r) \/ Stall(r) \/ Lose(r)

Spec == Init /\ [][Next]_vars

-------------------------------------------------------------------------------
\* Intents that may still change the file.
Outstanding ==
    {reg[i].intent : i \in {j \in IntentId : reg[j].state = "prepared"}}
    \cup {r.intent : r \in {q \in net : reg[q.intent.id].state # "published"}}

\* Whichever thread, crash or late request: an intent the server may still
\* publish is the pending one of the journal.
NoForgottenIntent == \A m \in Outstanding : journal.pending = m

\* Once an upload has been confirmed and nothing is pending, the task's baseline
\* is the version the receipt confirms: no crash between the three writes of
\* accept leaves a baseline from before the upload, which would make the next
\* save a conflict with ourselves.
BaselineFollowsReceipt ==
    journal.receipt # NoIntent =>
        /\ reg[journal.receipt.id] = [state |-> "published", intent |-> journal.receipt]
        /\ journal.pending = NoIntent => task = journal.receipt.content

\* A version that mixes two states of the working copy never reaches the cloud.
NoTornUpload == \A i \in IntentId : reg[i].intent # NoIntent => reg[i].intent.content # Torn

\* What the task has on record of its uploads agrees with the server, whichever
\* thread, crash or late request: nothing it may still publish is unknown here, what
\* is confirmed is the baseline, and only whole versions were sent.
UploadsAreTrue == NoForgottenIntent /\ BaselineFollowsReceipt /\ NoTornUpload

\* auto_upload.rs:2: "Existing intents are never sent automatically": the
\* observer sends an intent at most once, and none that another thread sent,
\* even if it became pending between the scan and the upload.
AutoNeverResends ==
    [][\A r \in net' \ net : r.from = Observer => r.intent.id \notin sent]_vars

Pub == INSTANCE Publication WITH
    Approval <- Intent,
    Nothing <- NoIntent,
    open <- journal.pending,
    published <- {reg[i].intent : i \in {j \in IntentId : reg[j].state = "published"}}

\* Refinement: a captured version is published at most once, unchanged, and
\* only while the journal has it on record.
ImplementsPublication == Pub!Spec

-------------------------------------------------------------------------------
(* Liveness.  The observer's thread runs for ever and every operation ends.    *)
(* The strong conditions say that locks, disk and working copy are usable     *)
(* again and again, the last one that the process is not killed for ever and  *)
(* that a user who waits for the observer does not keep the task busy.        *)

Uploads(o) == (\E i \in IntentId : Captured(o, i)) /\ journal'.pending # NoIntent

Disturbance == Crash \/ \E w \in Window, op \in {"save", "query"} : Begin(w, op)

Fairness ==
    /\ WF_vars(Scan(Observer)) /\ SF_vars(Unsettled(Observer)) /\ SF_vars(Settled(Observer))
    /\ SF_vars(SaveNew(Observer)) /\ SF_vars(Capture(Observer)) /\ SF_vars(Uploads(Observer))
    /\ SF_vars(Pause(Observer) /\ settings'.paused)
    /\ WF_vars(SaveNothing(Observer)) /\ WF_vars(Confirmed(Observer))
    /\ \A w \in Worker : WF_vars(Changing(w)) /\ WF_vars(GiveUp(w))
    /\ <>[][~Disturbance]_vars

FairSpec == Spec /\ Fairness

\* A version that the user leaves in the working copy is captured for upload,
\* unless auto-upload is off, paused or waiting for an older intent (or the
\* model has run out of ids): no scan loses sight of it for ever.
EditsAreUploaded ==
    \A c \in Content :
        (copy = c /\ task # c)
            ~> \/ copy # c \/ task = c
               \/ journal.pending # NoIntent
               \/ ~settings.enabled \/ settings.paused
               \/ used = IntentId
================================================================================
