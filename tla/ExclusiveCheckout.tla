--------------------------- MODULE ExclusiveCheckout ---------------------------
(***************************************************************************)
(* An exclusive-edit task of the Rust agent: exclusive.rs on top of the    *)
(* task journal, against the Hub.                                          *)
(*                                                                         *)
(* Opening the task receives the device lease, stores it and only then     *)
(* confirms it, after which the server forgets its copy (handoff).  Commit *)
(* and check-in capture an intent, prepare it on the server and publish    *)
(* it; recover asks for the outcome and repeats the same intent; release   *)
(* gives the checkout back and closes the journal.  Any of them may run at *)
(* the same time in different threads.                                     *)
(***************************************************************************)
EXTENDS AgentJournal

CONSTANT MaxNet     \* bound: requests on their way at the same time

ASSUME NetAssumption == MaxNet \in Nat

\* journal::Action: what an exclusive-edit task captures.
ASSUME ActionsAssumption == Actions = {"commit", "checkin"}

VARIABLES
    guard, file, reg,   \* the Hub
    handoff,            \* the server's encrypted copy of the lease
    ask,                \* the request each thread waits for
    reply,              \* the answer it got
    net                 \* requests sent, not handled and not lost

\* The device lease carries one credential epoch, which never changes.
Server == INSTANCE Hub WITH MaxEpoch <- 1

hubVars == <<guard, file, reg>>
netVars == <<ask, reply, net>>
vars == <<agentVars, hubVars, handoff, netVars>>

Request == [kind : {"prepare", "publish", "abandon", "confirm"}, from : Worker,
            intent : Intent \cup {NoIntent}]

ASSUME NoneAssumption == None \notin Request

Reply == [state : {"prepared", "published", "released", "confirmed"},
          intent : Intent \cup {NoIntent}]

TypeOK ==
    /\ AgentTypeOK
    /\ Server!HubTypeOK
    /\ handoff \in {"offered", "erased"}
    /\ ask \in [Worker -> Request \cup {None}]
    /\ reply \in [Worker -> Reply \cup {None}]
    /\ net \subseteq Request
    /\ \A w \in Worker :
         /\ pc[w] \notin {"idle"} => mem[w] \in Memory
         /\ pc[w] \in {"send", "publish", "baseline", "clear"} => mem[w].intent \in Intent

\* The browser has checked the file out and the working copy is downloaded.
Init ==
    /\ Server!HubInit
    /\ AgentInit(file)
    /\ handoff = "offered"
    /\ ask = [w \in Worker |-> None]
    /\ reply = [w \in Worker |-> None]
    /\ net = {}

Quiet(w) ==
    /\ ask' = [ask EXCEPT ![w] = None]
    /\ reply' = [reply EXCEPT ![w] = None]

Send(w, kind, m) ==
    LET r == [kind |-> kind, from |-> w, intent |-> m]
    IN  /\ Cardinality(net \cup {r}) <= MaxNet
        /\ net' = net \cup {r}
        /\ ask' = [ask EXCEPT ![w] = r]
        /\ reply' = [reply EXCEPT ![w] = None]
        /\ Goto(w, "await")

Answered(w, state) ==
    /\ pc[w] = "await"
    /\ reply[w] # None
    /\ reply[w].state = state

-------------------------------------------------------------------------------
(* Commit, check-in, recover and release.                                  *)

\* bound() reads the task and the lease, before any lock is taken.
Begin(w, op) ==
    /\ pc[w] = "idle"
    /\ ~journal.closed
    /\ journal.lease # None
    /\ mem' = [mem EXCEPT ![w] =
           [Local(op) EXCEPT
                !.baseline = IF op = "commit" THEN task ELSE None,
                !.lease = IF op = "release" THEN None ELSE journal.lease]]
    /\ Goto(w, "enter")
    /\ UNCHANGED <<journal, task, copy, uplock, oplock, used, hubVars, handoff, netVars>>

\* commit_with under upload.lock: nothing may be pending, and a commit needs a change.
Commit(w) ==
    /\ pc[w] = "enter"
    /\ mem[w].op \in {"commit", "checkin"}
    /\ uplock = None
    /\ journal.pending = NoIntent
    /\ mem[w].op = "commit" => copy # mem[w].baseline
    /\ uplock' = w
    /\ mem' = [mem EXCEPT ![w].baseline = None]
    /\ Goto(w, "capture")
    /\ UNCHANGED <<journal, task, copy, oplock, used, hubVars, handoff, netVars>>

Capture(w) ==
    /\ CaptureRead(w)
    /\ UNCHANGED <<hubVars, handoff, netVars>>

Captured(w, i) ==
    /\ CaptureSave(w, i, mem[w].op)
    /\ UNCHANGED <<hubVars, handoff, netVars>>

\* prepare: request() refuses an intent whose base is not that of the lease.
Prepare(w) ==
    /\ pc[w] = "send"
    /\ mem[w].lease = mem[w].intent.expected
    /\ Send(w, "prepare", mem[w].intent)
    /\ mem' = [mem EXCEPT ![w].lease = None]
    /\ UNCHANGED <<journal, task, copy, uplock, oplock, used, hubVars, handoff>>

Publish(w) ==
    /\ Answered(w, "prepared")
    /\ Send(w, "publish", mem[w].intent)
    /\ UNCHANGED <<journal, task, copy, uplock, oplock, mem, used, hubVars, handoff>>

Published(w) ==
    /\ Answered(w, "published")
    /\ reply[w].intent = mem[w].intent
    /\ AcceptReceipt(w, mem[w].intent)
    /\ Quiet(w)
    /\ UNCHANGED <<hubVars, handoff, net>>

\* recover_with: the server knows the intent as published: accept the receipt.
RecoverAccept(w) ==
    /\ pc[w] = "enter"
    /\ mem[w].op = "recover"
    /\ uplock = None
    /\ journal.pending # NoIntent
    /\ reg[journal.pending.id].state = "published"
    /\ reply' = [reply EXCEPT ![w] = [state |-> "published", intent |-> journal.pending]]
    /\ mem' = [mem EXCEPT ![w].intent = journal.pending]
    /\ uplock' = w
    /\ Goto(w, "await")
    /\ UNCHANGED <<journal, task, copy, oplock, used, hubVars, handoff, ask, net>>

\* Mutant: the intent found in the journal is not kept.
RecoverResendUnread(w) ==
    /\ pc[w] = "enter"
    /\ mem[w].op = "recover"
    /\ uplock = None
    /\ journal.pending # NoIntent
    /\ reg[journal.pending.id].state \in {"not-found", "prepared"}
    /\ uplock' = w
    /\ Goto(w, "send")
    /\ UNCHANGED <<journal, task, copy, oplock, mem, used, hubVars, handoff, netVars>>

\* Mutant: the working copy of today is sent under the old intent.
RecoverResendFresh(w) ==
    /\ pc[w] = "enter"
    /\ mem[w].op = "recover"
    /\ uplock = None
    /\ journal.pending # NoIntent
    /\ reg[journal.pending.id].state \in {"not-found", "prepared"}
    /\ mem' = [mem EXCEPT ![w].intent = [journal.pending EXCEPT !.content = copy]]
    /\ uplock' = w
    /\ Goto(w, "send")
    /\ UNCHANGED <<journal, task, copy, oplock, used, hubVars, handoff, netVars>>

\* It does not: the original intent is prepared and published again.
RecoverResend(w) ==
    /\ pc[w] = "enter"
    /\ mem[w].op = "recover"
    /\ uplock = None
    /\ journal.pending # NoIntent
    /\ reg[journal.pending.id].state \in {"not-found", "prepared"}
    /\ mem' = [mem EXCEPT ![w].intent = journal.pending]
    /\ uplock' = w
    /\ Goto(w, "send")
    /\ UNCHANGED <<journal, task, copy, oplock, used, hubVars, handoff, netVars>>

Baseline(w) ==
    /\ AcceptBaseline(w)
    /\ UNCHANGED <<hubVars, handoff, netVars>>

Clear(w) ==
    /\ AcceptClear(w)
    /\ UNCHANGED <<hubVars, handoff, netVars>>

\* release_with: refused while an intent is pending.
Release(w) ==
    /\ pc[w] = "enter"
    /\ mem[w].op = "release"
    /\ uplock = None
    /\ journal.pending = NoIntent
    /\ uplock' = w
    /\ Send(w, "abandon", NoIntent)
    /\ UNCHANGED <<journal, task, copy, oplock, mem, used, hubVars, handoff>>

\* journal::close after the server confirmed the release.
Close(w) ==
    LET j == [journal EXCEPT !.closed = TRUE, !.lease = None, !.ack = FALSE]
    IN  /\ Answered(w, "released")
        /\ oplock = None
        /\ journal.pending = NoIntent
        /\ journal' \in {j, journal}
        /\ Return(w, "idle")
        /\ Quiet(w)
        /\ UNCHANGED <<task, copy, used, hubVars, handoff, net>>

-------------------------------------------------------------------------------
(* ensure_lease: opening, or opening again, the task.                      *)

\* The lease that is already stored is used; otherwise the server, which keeps
\* it until it is confirmed, hands it over.
Open(w) ==
    LET received == journal.lease = None
    IN  /\ pc[w] = "idle"
        /\ received => handoff = "offered" /\ guard.owner = "us"
        /\ mem' = [mem EXCEPT ![w] =
               [Local("open") EXCEPT !.lease = IF received THEN file ELSE None]]
        /\ Goto(w, IF received THEN "store" ELSE "confirm")
        /\ UNCHANGED <<journal, task, copy, uplock, oplock, used, hubVars, handoff, netVars>>

\* Mutant: the lease is confirmed before it is stored.
SetLeaseLater(w) ==
    /\ pc[w] = "store"
    /\ mem' = [mem EXCEPT ![w].lease = None]
    /\ Goto(w, "confirm")
    /\ UNCHANGED <<journal, task, copy, uplock, oplock, used, hubVars, handoff, netVars>>

\* Mutant: a lease received long ago replaces the one in the journal.
SetLeaseAnyway(w) ==
    LET j == [journal EXCEPT !.lease = mem[w].lease]
    IN  /\ pc[w] = "store"
        /\ oplock = None
        /\ ~journal.closed
        /\ journal' = j
        /\ mem' = [mem EXCEPT ![w].lease = None]
        /\ Goto(w, "confirm")
        /\ UNCHANGED <<task, copy, uplock, oplock, used, hubVars, handoff, netVars>>

\* journal::set_lease refuses a closed session and a different lease.
SetLease(w) ==
    LET j == [journal EXCEPT !.lease = mem[w].lease]
    IN  /\ pc[w] = "store"
        /\ oplock = None
        /\ ~journal.closed
        /\ journal.lease \in {None, mem[w].lease}
        /\ \/ /\ journal' = j
              /\ mem' = [mem EXCEPT ![w].lease = None]
              /\ Goto(w, "confirm")
              /\ UNCHANGED <<uplock, oplock>>
           \/ Failed(w, journal, j)
        /\ UNCHANGED <<task, copy, used, hubVars, handoff, netVars>>

Confirm(w) ==
    /\ pc[w] = "confirm"
    /\ ~journal.ack
    /\ Send(w, "confirm", NoIntent)
    /\ UNCHANGED <<journal, task, copy, uplock, oplock, mem, used, hubVars, handoff>>

Acknowledge(w) ==
    LET j == [journal EXCEPT !.ack = TRUE]
    IN  /\ Answered(w, "confirmed")
        /\ oplock = None
        /\ journal.lease # None
        /\ journal' \in {j, journal}
        /\ Return(w, "idle")
        /\ Quiet(w)
        /\ UNCHANGED <<task, copy, used, hubVars, handoff, net>>

-------------------------------------------------------------------------------
\* Mutant: an operation that fails forgets its intent.
GiveUpForgets(w) ==
    /\ pc[w] # "idle"
    /\ journal' = IF pc[w] = "await" /\ mem[w].intent # NoIntent
                     THEN [journal EXCEPT !.pending = NoIntent] ELSE journal
    /\ Return(w, "idle")
    /\ Quiet(w)
    /\ UNCHANGED <<task, copy, used, hubVars, handoff, net>>

\* A lock is busy, a check fails, a call is refused, fails or times out: the
\* operation returns.  What was sent stays on its way.
GiveUp(w) ==
    /\ pc[w] # "idle"
    /\ Return(w, "idle")
    /\ Quiet(w)
    /\ UNCHANGED <<journal, task, copy, used, hubVars, handoff, net>>

Crash ==
    /\ AgentCrash
    /\ ask' = [w \in Worker |-> None]
    /\ reply' = [w \in Worker |-> None]
    /\ UNCHANGED <<hubVars, handoff, net>>

Save(c) == Edit(c) /\ UNCHANGED <<hubVars, handoff, netVars>>

Answer(r, state) ==
    /\ net' = net \ {r}
    /\ reply' = IF ask[r.from] = r
                  THEN [reply EXCEPT ![r.from] = [state |-> state, intent |-> r.intent]]
                  ELSE reply
    /\ UNCHANGED <<agentVars, ask>>

HandlePrepare(r) ==
    /\ Server!HubPrepare(r.intent, 1)
    /\ Answer(r, "prepared")
    /\ UNCHANGED handoff

HandlePublish(r) ==
    /\ \/ Server!HubPublish(r.intent, 1)
       \/ reg[r.intent.id].state = "published" /\ UNCHANGED hubVars
    /\ Answer(r, "published")
    /\ UNCHANGED handoff

HandleAbandon(r) ==
    /\ Server!HubAbandon(1)
    /\ Answer(r, "released")
    /\ UNCHANGED handoff

HandleConfirm(r) ==
    /\ handoff' = "erased"
    /\ Answer(r, "confirmed")
    /\ UNCHANGED hubVars

Handle(r) ==
    \/ r.kind = "prepare" /\ HandlePrepare(r)
    \/ r.kind = "publish" /\ HandlePublish(r)
    \/ r.kind = "abandon" /\ HandleAbandon(r)
    \/ r.kind = "confirm" /\ HandleConfirm(r)

Lose(r) ==
    /\ net' = net \ {r}
    /\ UNCHANGED <<agentVars, hubVars, handoff, ask, reply>>

Others ==
    /\ \/ Server!HubExpire
       \/ \E c \in Content, o \in {"other", "free"} : Server!HubOther(c, o)
    /\ UNCHANGED <<agentVars, handoff, netVars>>

Operation(w) ==
    \/ \E op \in {"commit", "checkin", "recover", "release"} : Begin(w, op)
    \/ Commit(w) \/ Capture(w) \/ (\E i \in IntentId : Captured(w, i))
    \/ Prepare(w) \/ Publish(w) \/ Published(w)
    \/ RecoverAccept(w) \/ RecoverResend(w) \/ Baseline(w) \/ Clear(w)
    \/ Release(w) \/ Close(w)
    \/ Open(w) \/ SetLease(w) \/ Confirm(w) \/ Acknowledge(w)

Next ==
    \/ \E w \in Worker : Operation(w) \/ GiveUp(w)
    \/ Crash
    \/ \E c \in Content : Save(c)
    \/ \E r \in net : Handle(r) \/ Lose(r)
    \/ Others

Spec == Init /\ [][Next]_vars

-------------------------------------------------------------------------------
\* Intents that may still change the file.
Outstanding ==
    {reg[i].intent : i \in {j \in IntentId : reg[j].state = "prepared"}}
    \cup {r.intent : r \in {q \in net : q.kind \in {"prepare", "publish"}
                                          /\ reg[q.intent.id].state \notin Server!Settled}}

\* Whichever thread, crash or late request: an intent the server may still
\* publish is the pending one of the journal.
NoForgottenIntent == \A m \in Outstanding : journal.pending = m

\* A session that is closed holds no checkout any more.
ClosedMeansReleased == journal.closed => guard.owner # "us"

\* The only copy of the lease is never lost: once the server has erased its
\* own, the journal has one, or the session has come to its end.
LeaseNeverLost == handoff = "erased" => journal.lease # None \/ journal.closed

\* A pending intent always has the base of the stored lease, so that recover,
\* which reads both again, gets past request(): a lease that was read before
\* upload.lock is never the reason for an intent that stays for ever.
RecoverCanProceed ==
    journal.pending # NoIntent /\ journal.lease # None =>
        journal.lease = journal.pending.expected

\* Between two operations the lease and the baseline of the task are the
\* current version, wherever a crash has cut accept short.
BaseIsCurrent ==
    guard.owner = "us" /\ journal.pending = NoIntent =>
        task = file /\ journal.lease \in {None, file}

\* What the journal says of the checkout is so, whatever crash, lost answer or other
\* thread came in between: a closed session holds nothing, the lease is there as
\* long as nobody else has it, and its base is the current version.
JournalIsTrue == ClosedMeansReleased /\ LeaseNeverLost /\ BaseIsCurrent

Pub == INSTANCE Publication WITH
    Approval <- Intent,
    Nothing <- NoIntent,
    open <- journal.pending,
    published <- {reg[i].intent : i \in {j \in IntentId : reg[j].state = "published"}}

\* Refinement: a captured version is published at most once, unchanged, and
\* only while the journal has it on record.
ImplementsPublication == Pub!Spec
================================================================================
