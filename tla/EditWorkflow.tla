----------------------------- MODULE EditWorkflow -----------------------------
(***************************************************************************)
(* Manual commits of one checked-out file by the Go agent:                 *)
(* internal/editing/workflow.go (Workflow), journal.go (FileJournal),      *)
(* worker.go (SessionWorker), manual.go (ManualSubmitter) and the client   *)
(* half of http.go (SessionHTTPTransport), against the Hub.                *)
(*                                                                         *)
(* Several worker processes may run on one session directory.  A worker    *)
(* takes .operation.lock, loads the journal and runs operations on its     *)
(* in-memory copy until it closes or crashes.  Requests that a worker gave *)
(* up waiting for may still reach the Hub, or never do.                    *)
(***************************************************************************)
EXTENDS Hub, FiniteSets

CONSTANTS
    Worker,     \* processes that may open the session
    MaxNet,     \* bound: requests on their way at the same time
    None        \* no worker, no request, no answer

ASSUME WorkerAssumption == None \notin Worker /\ MaxNet \in Nat

VARIABLES
    journal,   \* journal.json on disk
    lock,      \* holder of .operation.lock
    pc,        \* where each worker is in the operation it runs
    mem,       \* Workflow.state of each worker
    ask,       \* the request whose answer a worker waits for
    reply,     \* the answer it got
    net,       \* requests sent, not yet handled by the Hub, and not lost
    used       \* intent ids drawn so far (newIntentID never repeats one)

local == <<journal, lock, pc, mem, ask, reply, net, used>>
vars == <<hubVars, local>>

\* State, with the lease's guard id and generation left out: one session has one.
State == [epoch : 1..MaxEpoch, base : Content, token : BOOLEAN,
          pending : Intent \cup {NoIntent}, closed : BOOLEAN,
          receipt : IntentId \cup {NoIntent}]

Request ==
    [kind : {"publish", "cancel"}, from : Worker, epoch : 1..MaxEpoch, intent : Intent]
    \cup
    [kind : {"resume", "abandon"}, from : Worker, epoch : 1..MaxEpoch, intent : {NoIntent}]

Reply == [state : IntentState \cup {"resumed", "released"},
          intent : Intent \cup {NoIntent}, epoch : 1..MaxEpoch]

ASSUME NoneAssumption == None \notin State /\ None \notin Request /\ None \notin Reply

Point == {"down", "ready", "prepare", "publish", "recover", "cancel", "await"}

TypeOK ==
    /\ HubTypeOK
    /\ journal \in State
    /\ lock \in Worker \cup {None}
    /\ pc \in [Worker -> Point]
    /\ mem \in [Worker -> State \cup {None}]
    /\ \A w \in Worker :
         /\ pc[w] # "down" => mem[w] \in State
         /\ pc[w] \in {"prepare", "publish", "recover", "cancel"} => mem[w].pending \in Intent
    /\ ask \in [Worker -> Request \cup {None}]
    /\ reply \in [Worker -> Reply \cup {None}]
    /\ net \subseteq Request
    /\ used \subseteq IntentId

\* InitializePrivateCheckout has just written the journal of a fresh checkout.
Init ==
    /\ HubInit
    /\ journal = [epoch |-> 1, base |-> file, token |-> TRUE, pending |-> NoIntent,
                  closed |-> FALSE, receipt |-> NoIntent]
    /\ lock = None
    /\ pc = [w \in Worker |-> "down"]
    /\ mem = [w \in Worker |-> None]
    /\ ask = [w \in Worker |-> None]
    /\ reply = [w \in Worker |-> None]
    /\ net = {}
    /\ used = {}

-------------------------------------------------------------------------------
(* What the operations share.                                              *)

Goto(w, p) == pc' = [pc EXCEPT ![w] = p]

\* Workflow.save: FileJournal writes a temporary file, renames it over the
\* journal and syncs the directory.  An error of the last step is returned
\* although the journal has been replaced.
Save(w, s, next) ==
    \/ /\ journal' = s
       /\ mem' = [mem EXCEPT ![w] = s]
       /\ Goto(w, next)
    \/ /\ journal' = s
       /\ Goto(w, "ready")
       /\ UNCHANGED mem
    \/ /\ Goto(w, "ready")
       /\ UNCHANGED <<journal, mem>>

Send(w, kind, e, m) ==
    LET r == [kind |-> kind, from |-> w, epoch |-> e, intent |-> m]
    IN  /\ Cardinality(net \cup {r}) <= MaxNet
        /\ net' = net \cup {r}
        /\ ask' = [ask EXCEPT ![w] = r]
        /\ reply' = [reply EXCEPT ![w] = None]
        /\ Goto(w, "await")

\* What Query returns for intent m.
Receipt(m, e) == [state |-> reg[m.id].state, intent |-> reg[m.id].intent, epoch |-> e]

\* Mutant: the base is not moved to the version just published.
AcceptWithoutBase(w, r) ==
    LET m == mem[w].pending
        done == m.action # "commit"
    IN  /\ m # NoIntent
        /\ r.state = "published"
        /\ r.intent = m
        /\ Save(w, [mem[w] EXCEPT !.closed = done, !.token = IF done THEN FALSE ELSE @,
                                  !.pending = NoIntent, !.receipt = m.id], "ready")

\* Mutant: a prepared receipt counts as published.
AcceptPrepared(w, r) ==
    LET m == mem[w].pending
        done == m.action # "commit"
    IN  /\ m # NoIntent
        /\ r.state \in {"prepared", "published"}
        /\ r.intent = m
        /\ Save(w, [mem[w] EXCEPT !.base = m.content, !.closed = done,
                                  !.token = IF done THEN FALSE ELSE @,
                                  !.pending = NoIntent, !.receipt = m.id], "ready")

\* Workflow.accept: only a published receipt of exactly the pending intent counts.
Accept(w, r) ==
    LET m == mem[w].pending
        done == m.action # "commit"
    IN  /\ m # NoIntent
        /\ r.state = "published"
        /\ r.intent = m
        /\ Save(w, [mem[w] EXCEPT
                        !.base = m.content,
                        !.closed = done,
                        !.token = IF done THEN FALSE ELSE @,
                        !.pending = NoIntent,
                        !.receipt = m.id], "ready")

-------------------------------------------------------------------------------
(* The worker process.                                                     *)

\* Mutant: the journal is not loaded after the lock has been taken.
OpenWithoutLoad(w) ==
    /\ pc[w] = "down"
    /\ lock = None
    /\ journal.token \/ journal.closed
    /\ lock' = w
    /\ Goto(w, "ready")
    /\ UNCHANGED <<hubVars, journal, mem, ask, reply, net, used>>

\* OpenSessionWorker: lock first, then Load and New.
Open(w) ==
    /\ pc[w] = "down"
    /\ lock = None
    /\ journal.token \/ journal.closed
    /\ lock' = w
    /\ mem' = [mem EXCEPT ![w] = journal]
    /\ Goto(w, "ready")
    /\ UNCHANGED <<hubVars, journal, ask, reply, net, used>>

Exit(w) ==
    /\ lock' = None
    /\ Goto(w, "down")
    /\ mem' = [mem EXCEPT ![w] = None]
    /\ ask' = [ask EXCEPT ![w] = None]
    /\ reply' = [reply EXCEPT ![w] = None]
    /\ UNCHANGED <<hubVars, journal, net, used>>

Close(w) == pc[w] = "ready" /\ Exit(w)

\* The process dies at any point of an operation; the system frees its lock.
Crash(w) == pc[w] \notin {"down", "ready"} /\ Exit(w)

\* Mutant: a request that was sent is waited for without a deadline.
GiveUpNoDeadline(w) ==
    /\ pc[w] \in {"prepare", "publish", "recover", "cancel"}
    /\ Goto(w, "ready")
    /\ ask' = [ask EXCEPT ![w] = None]
    /\ reply' = [reply EXCEPT ![w] = None]
    /\ UNCHANGED <<hubVars, journal, lock, mem, net, used>>

\* A call is refused, fails or times out: the operation returns its error.
\* A request that was already sent stays on its way.
GiveUp(w) ==
    /\ pc[w] \in {"prepare", "publish", "recover", "cancel", "await"}
    /\ Goto(w, "ready")
    /\ ask' = [ask EXCEPT ![w] = None]
    /\ reply' = [reply EXCEPT ![w] = None]
    /\ UNCHANGED <<hubVars, journal, lock, mem, net, used>>

\* Mutant: a commit does not look for a pending intent.
SubmitOverPending(w, i, action, c) ==
    /\ pc[w] = "ready"
    /\ ~mem[w].closed
    /\ i \notin used
    /\ used' = used \cup {i}
    /\ action = "checkin-unchanged" => c = mem[w].base
    /\ Save(w, [mem[w] EXCEPT !.pending = [id |-> i, content |-> c, action |-> action,
                                           expected |-> mem[w].base]], "prepare")
    /\ UNCHANGED <<hubVars, lock, ask, reply, net>>

\* ManualSubmitter.Submit captures the working copy and CommitCaptured persists
\* a new intent; CheckinUnchanged does the same without content.
Submit(w, i, action, c) ==
    /\ pc[w] = "ready"
    /\ ~mem[w].closed
    /\ mem[w].pending = NoIntent
    /\ i \notin used
    /\ used' = used \cup {i}
    /\ action = "checkin-unchanged" => c = mem[w].base
    /\ Save(w, [mem[w] EXCEPT !.pending = [id |-> i, content |-> c, action |-> action,
                                           expected |-> mem[w].base]], "prepare")
    /\ UNCHANGED <<hubVars, lock, ask, reply, net>>

\* Transport.Prepare of the HTTP transport: the guard is read and compared.
Prepare(w) ==
    LET m == mem[w].pending
    IN  /\ pc[w] = "prepare"
        /\ Current(mem[w].epoch)
        /\ file = m.expected
        /\ guard.pending \in {NoIntent, m.id}
        /\ Goto(w, "publish")
        /\ UNCHANGED <<hubVars, journal, lock, mem, ask, reply, net, used>>

Publish(w) ==
    /\ pc[w] = "publish"
    /\ Send(w, "publish", mem[w].epoch, mem[w].pending)
    /\ UNCHANGED <<hubVars, journal, lock, mem, used>>

\* The publish call returned a receipt.
Published(w) ==
    /\ pc[w] = "await"
    /\ ask[w] # None
    /\ ask[w].kind = "publish"
    /\ reply[w] # None
    /\ Accept(w, reply[w])
    /\ ask' = [ask EXCEPT ![w] = None]
    /\ reply' = [reply EXCEPT ![w] = None]
    /\ UNCHANGED <<hubVars, lock, net, used>>

\* Recover and CancelPrepared begin by asking what became of the intent.
Query(w, next) ==
    /\ pc[w] = "ready"
    /\ mem[w].pending # NoIntent
    /\ reply' = [reply EXCEPT ![w] = Receipt(mem[w].pending, mem[w].epoch)]
    /\ Goto(w, next)
    /\ UNCHANGED <<hubVars, journal, lock, mem, ask, net, used>>

Recover(w) == Query(w, "recover")
CancelPrepared(w) == Query(w, "cancel")

\* Recover on an unpublished intent: the same intent is sent again.
Resend(w) ==
    /\ pc[w] = "recover"
    /\ \/ reply[w].state = "not-found" /\ Goto(w, "prepare")
       \/ reply[w].state = "prepared" /\ Goto(w, "publish")
    /\ reply' = [reply EXCEPT ![w] = None]
    /\ UNCHANGED <<hubVars, journal, lock, mem, ask, net, used>>

\* Mutant: a receipt is only accepted while the guard is still ours.
RecoveredUnderGuard(w) ==
    /\ pc[w] \in {"recover", "cancel"}
    /\ Current(mem[w].epoch)
    /\ Accept(w, reply[w])
    /\ reply' = [reply EXCEPT ![w] = None]
    /\ UNCHANGED <<hubVars, lock, ask, net, used>>

\* Recover or CancelPrepared learns that the intent has been published.
Recovered(w) ==
    /\ pc[w] \in {"recover", "cancel"}
    /\ Accept(w, reply[w])
    /\ reply' = [reply EXCEPT ![w] = None]
    /\ UNCHANGED <<hubVars, lock, ask, net, used>>

\* CancelPrepared on a prepared intent asks the Hub to cancel it.
CancelCall(w) ==
    /\ pc[w] = "cancel"
    /\ reply[w].state = "prepared"
    /\ Send(w, "cancel", mem[w].epoch, mem[w].pending)
    /\ UNCHANGED <<hubVars, journal, lock, mem, used>>

\* Mutant: an intent that the Hub does not know is taken for cancelled.
CancelledIfAbsent(w) ==
    /\ pc[w] \in {"cancel", "await"}
    /\ reply[w] # None
    /\ reply[w].state \in {"cancelled", "not-found"}
    /\ Save(w, [mem[w] EXCEPT !.pending = NoIntent], "ready")
    /\ ask' = [ask EXCEPT ![w] = None]
    /\ reply' = [reply EXCEPT ![w] = None]
    /\ UNCHANGED <<hubVars, lock, net, used>>

\* The cancellation is confirmed, by the query or by the cancel call.
Cancelled(w) ==
    /\ pc[w] \in {"cancel", "await"}
    /\ reply[w] # None
    /\ reply[w].state = "cancelled"
    /\ reply[w].intent.id = mem[w].pending.id
    /\ Save(w, [mem[w] EXCEPT !.pending = NoIntent], "ready")
    /\ ask' = [ask EXCEPT ![w] = None]
    /\ reply' = [reply EXCEPT ![w] = None]
    /\ UNCHANGED <<hubVars, lock, net, used>>

\* Resume: the guard must still be this one, at this base; its current epoch is used.
Resume(w) ==
    /\ pc[w] = "ready"
    /\ mem[w].pending = NoIntent
    /\ ~mem[w].closed
    /\ guard.owner = "us"
    /\ file = mem[w].base
    /\ guard.pending = NoIntent
    /\ Send(w, "resume", guard.epoch, NoIntent)
    /\ UNCHANGED <<hubVars, journal, lock, mem, used>>

Resumed(w) ==
    /\ pc[w] = "await"
    /\ reply[w] # None
    /\ reply[w].state = "resumed"
    /\ Save(w, [mem[w] EXCEPT !.epoch = reply[w].epoch], "ready")
    /\ ask' = [ask EXCEPT ![w] = None]
    /\ reply' = [reply EXCEPT ![w] = None]
    /\ UNCHANGED <<hubVars, lock, net, used>>

Closed(s) == [s EXCEPT !.closed = TRUE, !.token = FALSE]

\* Mutant: the journal is closed although the guard is still held.
AbandonUnreleased(w) ==
    /\ pc[w] = "ready"
    /\ mem[w].pending = NoIntent
    /\ ~mem[w].closed
    /\ guard.owner # "other"
    /\ Save(w, Closed(mem[w]), "ready")
    /\ UNCHANGED <<hubVars, lock, ask, reply, net, used>>

\* Abandon of a guard that is already gone only closes the journal.
AbandonLocal(w) ==
    /\ pc[w] = "ready"
    /\ mem[w].pending = NoIntent
    /\ ~mem[w].closed
    /\ guard.owner = "free"
    /\ Save(w, Closed(mem[w]), "ready")
    /\ UNCHANGED <<hubVars, lock, ask, reply, net, used>>

Abandon(w) ==
    /\ pc[w] = "ready"
    /\ mem[w].pending = NoIntent
    /\ ~mem[w].closed
    /\ guard.owner = "us"
    /\ guard.pending = NoIntent
    /\ Send(w, "abandon", mem[w].epoch, NoIntent)
    /\ UNCHANGED <<hubVars, journal, lock, mem, used>>

Abandoned(w) ==
    /\ pc[w] = "await"
    /\ reply[w] # None
    /\ reply[w].state = "released"
    /\ Save(w, Closed(mem[w]), "ready")
    /\ ask' = [ask EXCEPT ![w] = None]
    /\ reply' = [reply EXCEPT ![w] = None]
    /\ UNCHANGED <<hubVars, lock, net, used>>

-------------------------------------------------------------------------------
(* The network and the Hub.                     *)

\* The answer to request r reaches the worker only if it still waits for it.
Answer(r, a) ==
    /\ net' = net \ {r}
    /\ reply' = IF ask[r.from] = r THEN [reply EXCEPT ![r.from] = a] ELSE reply
    /\ UNCHANGED <<journal, lock, pc, mem, ask, used>>

\* The Hub carries a request out, now or long after its sender gave up.
HandlePublish(r) ==
    \/ /\ HubPublish(r.intent, r.epoch)
       /\ Answer(r, [state |-> "published", intent |-> r.intent, epoch |-> r.epoch])
    \/ /\ reg[r.intent.id].state = "published"
       /\ Answer(r, [state |-> "published", intent |-> reg[r.intent.id].intent,
                     epoch |-> r.epoch])
       /\ UNCHANGED hubVars

HandleCancel(r) ==
    /\ HubCancel(r.intent.id, r.epoch)
    /\ Answer(r, [state |-> "cancelled", intent |-> r.intent, epoch |-> r.epoch])

HandleResume(r) ==
    /\ HubResume(r.epoch)
    /\ Answer(r, [state |-> "resumed", intent |-> NoIntent, epoch |-> r.epoch + 1])

HandleAbandon(r) ==
    /\ HubAbandon(r.epoch)
    /\ Answer(r, [state |-> "released", intent |-> NoIntent, epoch |-> r.epoch])

Handle(r) ==
    \/ r.kind = "publish" /\ HandlePublish(r)
    \/ r.kind = "cancel" /\ HandleCancel(r)
    \/ r.kind = "resume" /\ HandleResume(r)
    \/ r.kind = "abandon" /\ HandleAbandon(r)

\* The Hub stops between preparing and publishing; the request gets no answer.
Stall(r) ==
    /\ r.kind = "publish"
    /\ HubPrepare(r.intent, r.epoch)
    /\ net' = net \ {r}
    /\ UNCHANGED <<journal, lock, pc, mem, ask, reply, used>>

\* A request is lost, or refused by the Hub.
Lose(r) ==
    /\ net' = net \ {r}
    /\ UNCHANGED <<hubVars, journal, lock, pc, mem, ask, reply, used>>

Others ==
    /\ \/ HubExpire
       \/ \E c \in Content, o \in {"other", "free"} : HubOther(c, o)
    /\ UNCHANGED local

-------------------------------------------------------------------------------
Operation(w) ==
    \/ \E i \in IntentId, a \in Action, c \in Content : Submit(w, i, a, c)
    \/ Prepare(w) \/ Publish(w) \/ Published(w)
    \/ Recover(w) \/ Resend(w) \/ Recovered(w)
    \/ CancelPrepared(w) \/ CancelCall(w) \/ Cancelled(w)
    \/ Resume(w) \/ Resumed(w)
    \/ Abandon(w) \/ AbandonLocal(w) \/ Abandoned(w)

Next ==
    \/ \E w \in Worker : Open(w) \/ Close(w) \/ Crash(w) \/ GiveUp(w) \/ Operation(w)
    \/ \E r \in net : Handle(r) \/ Stall(r) \/ Lose(r)
    \/ Others

Spec == Init /\ [][Next]_vars

-------------------------------------------------------------------------------
(* Safety.                                                                 *)

\* Intents that may still change the file: prepared, or in a publish request
\* that has not been handled.
Outstanding ==
    {reg[i].intent : i \in {j \in IntentId : reg[j].state = "prepared"}}
    \cup {r.intent : r \in {q \in net : q.kind = "publish"
                                          /\ reg[q.intent.id].state \notin Settled}}

\* Whatever happens (crash, lost answer, delayed request, failed save), an
\* intent that can still be published is the one the journal names, so that a
\* restarted agent can find out about it: no upload is ever forgotten, and no
\* second one starts beside it.
NoForgottenIntent == \A m \in Outstanding : journal.pending = m

\* A journal that says the checkout is closed never covers a guard that the
\* Hub still holds for us: nobody is locked out by a session that has ended.
ClosedMeansReleased == journal.closed => guard.owner # "us"

\* While the checkout is ours and nothing is pending, the base that the next
\* commit will be compared with is the current version of the file.
BaseIsCurrent ==
    guard.owner = "us" /\ journal.pending = NoIntent => journal.base = file

\* The receipt shown to the user as saved belongs to a published version.
ReceiptIsTrue ==
    journal.receipt # NoIntent => reg[journal.receipt].state = "published"

-------------------------------------------------------------------------------
(* The inductive invariant: why the safety properties hold.                *)

Up(w) == pc[w] # "down"

\* Only the holder of .operation.lock is past Open.
LockInv == \A w \in Worker : Up(w) => lock = w

\* Everything the Hub, the network or a worker knows of an intent comes from a
\* drawn id, and the Hub files it under that id.
OriginInv ==
    /\ \A i \in IntentId : reg[i].state # "not-found" =>
           i \in used /\ reg[i].intent \in Intent /\ reg[i].intent.id = i
    /\ \A r \in net : r.kind \in {"publish", "cancel"} => r.intent.id \in used
    /\ journal.pending # NoIntent => journal.pending.id \in used

\* A worker's memory and the disk disagree about the pending intent only after
\* a save that failed after its rename: then the intent on disk has never been
\* sent, or the one in memory is settled.
MemoryInv ==
    \A w \in Worker : Up(w) =>
        IF mem[w].pending = NoIntent
          THEN /\ Outstanding = {}
               /\ journal.pending # NoIntent => reg[journal.pending.id].state = "not-found"
          ELSE \/ journal.pending = mem[w].pending
               \/ /\ journal.pending = NoIntent
                  /\ reg[mem[w].pending.id].state \in Settled

\* A worker holds an answer, or waits for one, only inside an operation; a
\* resumed or released answer reaches an operation that found nothing pending.
AskInv ==
    \A w \in Worker :
        /\ ask[w] # None =>
               /\ pc[w] = "await"
               /\ ask[w].kind \in {"resume", "abandon"} => mem[w].pending = NoIntent
        /\ reply[w] # None =>
               /\ pc[w] \in {"recover", "cancel", "await"}
               /\ reply[w].state \in {"resumed", "released"} => mem[w].pending = NoIntent
        /\ pc[w] \in {"recover", "cancel"} => reply[w] # None

\* An answer that settles an intent is true for ever.
ReplyInv ==
    \A w \in Worker : reply[w] # None =>
        /\ reply[w].state = "published" =>
               /\ reply[w].intent \in Intent
               /\ reg[reply[w].intent.id] = [state |-> "published", intent |-> reply[w].intent]
        /\ reply[w].state = "cancelled" =>
               /\ reply[w].intent \in Intent
               /\ reg[reply[w].intent.id].state = "cancelled"
        /\ reply[w].state = "released" => guard.owner # "us"

\* A released checkout stays released, also for those who have not noticed.
ReleaseInv ==
    /\ ClosedMeansReleased
    /\ \A w \in Worker : Up(w) /\ mem[w].closed => guard.owner # "us"
    /\ \A i \in IntentId :
           reg[i].state = "published" /\ reg[i].intent.action # "commit" => guard.owner # "us"

\* State s knows the current version, or has yet to learn that its pending
\* intent produced it.
Based(s) ==
    IF s.pending # NoIntent /\ reg[s.pending.id].state = "published"
      THEN s.pending.content = file
      ELSE s.base = file

BaseInv == guard.owner = "us" =>
    Based(journal) /\ \A w \in Worker : Up(w) => Based(mem[w])

ReceiptInv ==
    /\ ReceiptIsTrue
    /\ \A w \in Worker : Up(w) /\ mem[w].receipt # NoIntent =>
           reg[mem[w].receipt].state = "published"

\* The conjunction is inductive; NoForgottenIntent alone is not, because it
\* does not say what a worker in the middle of an operation may still send.
IInv ==
    /\ TypeOK /\ LockInv /\ OriginInv /\ NoForgottenIntent /\ MemoryInv
    /\ AskInv /\ ReplyInv /\ ReleaseInv /\ BaseInv /\ ReceiptInv

-------------------------------------------------------------------------------
\* The journal and the Hub together keep the promise of Publication: the open
\* approval is the journal's pending intent.
Pub == INSTANCE Publication WITH
    Approval <- Intent,
    Nothing <- NoIntent,
    open <- journal.pending,
    published <- {reg[i].intent : i \in {j \in IntentId : reg[j].state = "published"}}

\* Refinement: an intent is published at most once, with the content that was
\* captured for it, and never after the journal has let go of it.
ImplementsPublication == Pub!Spec

\* After a lost Resume answer nothing is in doubt but the credential: the guard
\* is ours, at our base, no request is on its way, and a worker that remembers what
\* is on disk is ready for the next operation.
CredentialBehind ==
    /\ guard.owner = "us" /\ guard.pending = NoIntent
    /\ ~journal.closed /\ journal.epoch # guard.epoch /\ journal.base = file
    /\ net = {}
    /\ \E w \in Worker : pc[w] = "ready" /\ mem[w] = journal

\* workflow.go:254-256: "a lost Resume response or failed journal save can be
\* recovered by an explicit fresh Resume".  Resume refuses a pending intent.
LostResumeRecoverable == CredentialBehind => journal.pending = NoIntent

-------------------------------------------------------------------------------
(* Liveness.  Every call has a deadline and every process ends, so GiveUp    *)
(* and Close happen.  The strong conditions say that the user tries again    *)
(* until the network and the disk work: they are assumptions on the          *)
(* environment, not on the agent.                                            *)

\* A request is carried out while its sender still waits for it.
Delivered(w) == ask[w] # None /\ ask[w] \in net /\ Handle(ask[w])

Learned(w) == (Published(w) \/ Recovered(w) \/ Cancelled(w)) /\ journal'.pending = NoIntent

Fairness ==
    /\ WF_vars(\E r \in net : Lose(r))
    /\ \A w \in Worker :
         /\ WF_vars(Open(w)) /\ WF_vars(GiveUp(w)) /\ SF_vars(Close(w))
         /\ SF_vars(Recover(w)) /\ SF_vars(CancelPrepared(w)) /\ SF_vars(Resend(w)) /\ SF_vars(Publish(w))
         /\ SF_vars(Delivered(w)) /\ SF_vars(Learned(w))

FairSpec == Spec /\ Fairness

\* The session is never left locked: the worker that runs lets it go.
LockIsFreed == lock # None ~> lock = None

\* An intent that the Hub has prepared or published does not stay pending for
\* ever, wherever the agent crashed and whichever answers were lost.
PendingIsResolved ==
    (journal.pending # NoIntent /\ reg[journal.pending.id].state \in {"prepared", "published"})
        ~> journal.pending = NoIntent
================================================================================
