------------------------ MODULE ExclusiveCheckoutProofs ------------------------
(***************************************************************************)
(* The safety of ExclusiveCheckout, for any number of threads, ids and     *)
(* requests: what each thread holds and remembers (ThreadOK), what the     *)
(* record says of the Hub (OriginInv, RecordInv, LeaseInv), and from both  *)
(* the properties of the run and the refinement of Publication.            *)
(*                                                                         *)
(* A step is one thread's or the Hub's.  OtherThread shows that it leaves  *)
(* every other thread as it was; QuietStep, and one lemma per step that    *)
(* changes the journal or the Hub, show that the record stays true.        *)
(***************************************************************************)
EXTENDS ExclusiveCheckout, TLAPS

USE AgentAssumption, IntentAssumption, ActionsAssumption, NoneAssumption

Editing == {"commit", "checkin", "recover"}

\* The operations that can be at each point.
OpsAt == [p \in Point |->
    CASE p = "enter" -> Editing \cup {"release"}
      [] p \in {"capture", "reading"} -> {"commit", "checkin"}
      [] p \in {"send", "baseline", "clear"} -> Editing
      [] p = "await" -> Editing \cup {"release", "open"}
      [] p \in {"store", "confirm"} -> {"open"}
      [] OTHER -> {}]

\* The server has published intent m.
Known(m) == reg[m.id].state = "published"

\* The lease is stored here, or no longer needed.
Kept == journal.lease # None \/ journal.closed

\* Threads under upload.lock, and those of them that have an intent in hand.
Holds(w) == pc[w] \notin {"idle", "enter"} /\ mem[w].op # "open"
Sends(w) == mem[w].op \in Editing /\ pc[w] \in {"send", "await", "baseline", "clear"}

\* What thread w holds, remembers, waits for and was told is so.
LocksOK(w) ==
    /\ pc[w] # "idle" => mem[w].op \in OpsAt[pc[w]]
    /\ Holds(w) => uplock = w

IntentOK(w) ==
    /\ Sends(w) => mem[w].intent = journal.pending /\ journal.pending # NoIntent
    /\ Holds(w) /\ ~Sends(w) => journal.pending = NoIntent
    /\ pc[w] = "reading" => ~journal.closed
    /\ pc[w] \in {"baseline", "clear"} => Known(journal.pending)
    /\ pc[w] = "clear" => task = journal.pending.content

LeaseOK(w) ==
    /\ pc[w] \notin {"idle", "store"} => Kept
    /\ pc[w] = "store" => mem[w].lease \in Content /\ (Kept \/ mem[w].lease = task)

AskOK(w) ==
    ask[w] # None =>
        /\ pc[w] = "await"
        /\ ask[w].kind \in {"prepare", "publish"} => mem[w].op \in Editing
        /\ ask[w].kind = "abandon" => mem[w].op = "release"

ReplyOK(w) ==
    reply[w] # None =>
        /\ pc[w] = "await"
        /\ reply[w].state \in {"prepared", "published"} => mem[w].op \in Editing
        /\ reply[w].state = "published" =>
             /\ reply[w].intent \in Intent
             /\ reg[reply[w].intent.id] = [state |-> "published", intent |-> reply[w].intent]
        /\ reply[w].state = "released" => mem[w].op = "release" /\ guard.owner # "us"

ThreadOK(w) == LocksOK(w) /\ IntentOK(w) /\ LeaseOK(w) /\ AskOK(w) /\ ReplyOK(w)

\* Every intent comes from a capture, and an id names one intent only.
OriginInv ==
    /\ \A i \in IntentId : reg[i].state # "not-found" =>
         i \in used /\ reg[i].intent \in Intent /\ reg[i].intent.id = i
    /\ journal.pending # NoIntent =>
         /\ journal.pending.id \in used
         /\ Known(journal.pending) => reg[journal.pending.id].intent = journal.pending
    /\ \A r \in net : r.kind \in {"prepare", "publish"} =>
         /\ r.intent \in Intent
         /\ r.intent.id \in used
         /\ Known(r.intent) => reg[r.intent.id].intent = r.intent

\* The journal and the task against the Hub, while an intent is pending and while none is.
RecordInv ==
    /\ journal.pending # NoIntent =>
         /\ ~journal.closed
         /\ journal.lease = journal.pending.expected
         /\ Known(journal.pending) =>
              /\ journal.pending.action # "commit" => guard.owner # "us"
              /\ guard.owner = "us" => file = journal.pending.content
    /\ journal.pending = NoIntent =>
         /\ journal.lease \in {None, task}
         /\ guard.owner = "us" => task = file
    /\ ClosedMeansReleased

\* Nobody confirms a lease that is not stored.
LeaseInv ==
    /\ LeaseNeverLost
    /\ \A r \in net : r.kind = "confirm" => Kept

Record == OriginInv /\ NoForgottenIntent /\ RecordInv /\ LeaseInv

IInv == TypeOK /\ (\A w \in Worker : ThreadOK(w)) /\ Record

-------------------------------------------------------------------------------
(* Types.                                                                  *)

\* A return keeps the types, whatever comes next.
LEMMA ReturnType ==
    ASSUME AgentTypeOK, NEW w \in Worker, Return(w, "idle")
    PROVE  /\ pc' = [pc EXCEPT ![w] = "idle"]
           /\ pc' \in [Worker -> Point]
           /\ mem' \in [Worker -> Memory \cup {None}]
           /\ \A v \in Worker : v # w => mem'[v] = mem[v]
           /\ uplock' \in Worker \cup {None}
           /\ oplock' \in Worker \cup {None}
  BY DEF AgentTypeOK, Return, Goto, Without, Point

\* The caller of an operation of an exclusive-edit task has nothing to note.
LEMMA NoNote ==
    ASSUME NEW w \in Worker, pc[w] \in Point, LocksOK(w), pc[w] # "idle"
    PROVE  Done(w) = "idle" /\ Fail(w) = "idle"
  BY DEF LocksOK, OpsAt, Editing, Done, Fail

\* A request of the right kind keeps the types.
LEMMA SendType ==
    ASSUME TypeOK, NEW w \in Worker, NEW m \in Intent \cup {NoIntent},
           NEW k \in {"prepare", "publish", "abandon", "confirm"}, Send(w, k, m)
    PROVE  /\ pc' = [pc EXCEPT ![w] = "await"]
           /\ pc' \in [Worker -> Point]
           /\ ask' \in [Worker -> Request \cup {None}]
           /\ reply' \in [Worker -> Reply \cup {None}]
           /\ net' \subseteq Request
<1> DEFINE r == [kind |-> k, from |-> w, intent |-> m]
<1>1. r \in Request
  BY DEF Request
<1>2. net' = net \cup {r} /\ ask' = [ask EXCEPT ![w] = r]
      /\ reply' = [reply EXCEPT ![w] = None] /\ pc' = [pc EXCEPT ![w] = "await"]
  BY DEF Send, Goto
<1> HIDE DEF r
<1> QED BY <1>1, <1>2 DEF TypeOK, AgentTypeOK, Point

\* Steps of one thread that touch neither the journal nor the files.
LEMMA TypeQuiet ==
    ASSUME IInv, NEW w \in Worker,
           \/ \E op \in {"commit", "checkin", "recover", "release"} : Begin(w, op)
           \/ Commit(w) \/ Capture(w) \/ RecoverAccept(w) \/ RecoverResend(w) \/ Open(w) \/ GiveUp(w)
    PROVE  TypeOK'
<1> USE DEF IInv, TypeOK, AgentTypeOK
<1>1. ASSUME NEW op \in {"commit", "checkin", "recover", "release"}, Begin(w, op) PROVE TypeOK'
  <2> DEFINE b == IF op = "commit" THEN task ELSE None
             l == IF op = "release" THEN None ELSE journal.lease
  <2>1. /\ b \in Content \cup {None} /\ l \in Content \cup {None}
        /\ mem'[w] = [Local(op) EXCEPT !.baseline = b, !.lease = l]
    BY <1>1 DEF Begin, Journal
  <2> HIDE DEF b, l
  <2>2. mem'[w] \in Memory
    <3> DEFINE x == [op |-> op, baseline |-> b, lease |-> l, observed |-> None,
                     snapshot |-> None, intent |-> NoIntent]
    <3>1. mem'[w] = x
      BY <2>1 DEF Local
    <3>2. x \in Memory
      BY <2>1 DEF Memory, Op
    <3> QED BY <3>1, <3>2
  <2> QED BY <1>1, <2>2 DEF Begin, Goto, Point, hubVars, netVars, Server!HubTypeOK
<1>2. CASE Commit(w)
  <2>1. mem'[w] \in Memory
    BY <1>2 DEF Commit, Memory
  <2> QED BY <1>2, <2>1 DEF Commit, Goto, Point, hubVars, netVars, Server!HubTypeOK
<1>3. CASE Capture(w)
  <2>1. mem'[w] \in Memory
    BY <1>3 DEF Capture, CaptureRead, Memory
  <2> QED BY <1>3, <2>1 DEF Capture, CaptureRead, Goto, Point, hubVars, netVars, Server!HubTypeOK
<1>4. CASE RecoverAccept(w)
  <2>1. mem'[w] \in Memory /\ journal.pending \in Intent
    BY <1>4 DEF RecoverAccept, Memory, Journal
  <2>2. [state |-> "published", intent |-> journal.pending] \in Reply
    BY <2>1 DEF Reply
  <2>3. reply' \in [Worker -> Reply \cup {None}]
    BY <1>4, <2>2 DEF RecoverAccept
  <2> QED BY <1>4, <2>1, <2>3 DEF RecoverAccept, Goto, Point, hubVars, Server!HubTypeOK
<1>5. CASE RecoverResend(w)
  <2>1. mem'[w] \in Memory /\ mem'[w].intent = journal.pending /\ journal.pending \in Intent
    BY <1>5 DEF RecoverResend, Memory, Journal
  <2> QED BY <1>5, <2>1 DEF RecoverResend, Goto, Point, hubVars, netVars, Server!HubTypeOK
<1>6. CASE Open(w)
  <2>1. mem'[w] \in Memory
    BY <1>6 DEF Open, Local, Memory, Op, Server!HubTypeOK
  <2> QED BY <1>6, <2>1 DEF Open, Goto, Point, hubVars, netVars, Server!HubTypeOK
<1>7. CASE GiveUp(w)
  BY <1>7, ReturnType DEF GiveUp, Quiet, hubVars, Server!HubTypeOK
<1> QED BY <1>1, <1>2, <1>3, <1>4, <1>5, <1>6, <1>7

\* Steps of one thread that send a request.
LEMMA TypeSend ==
    ASSUME IInv, NEW w \in Worker, Prepare(w) \/ Publish(w) \/ Release(w) \/ Confirm(w)
    PROVE  TypeOK'
<1> USE DEF IInv, TypeOK, AgentTypeOK
<1>1. mem[w] \in Memory
  BY DEF Prepare, Publish, Release, Confirm, Answered
<1>2. PICK k \in {"prepare", "publish", "abandon", "confirm"}, m \in Intent \cup {NoIntent} : Send(w, k, m)
  BY <1>1 DEF Prepare, Publish, Release, Confirm, Memory
<1>3. mem' \in [Worker -> Memory \cup {None}] /\ mem'[w] \in Memory
      /\ \A v \in Worker : v # w => mem'[v] = mem[v]
  BY <1>1 DEF Prepare, Publish, Release, Confirm, Memory
<1>4. UNCHANGED <<journal, task, copy, oplock, used, hubVars, handoff>> /\ uplock' \in {uplock, w}
  BY DEF Prepare, Publish, Release, Confirm
<1> QED BY <1>2, <1>3, <1>4, SendType DEF hubVars, Server!HubTypeOK

\* Steps of one thread that write the journal or the task.
LEMMA TypeWrite ==
    ASSUME IInv, NEW w \in Worker,
           \/ \E i \in IntentId : Captured(w, i)
           \/ Published(w) \/ Baseline(w) \/ Clear(w) \/ Close(w) \/ SetLease(w) \/ Acknowledge(w)
    PROVE  TypeOK'
<1> USE DEF IInv, TypeOK, AgentTypeOK
<1> DEFINE Frame == /\ journal' \in Journal
                    /\ task' \in Content
                    /\ used' \subseteq IntentId
                    /\ UNCHANGED <<copy, hubVars, handoff, net>>
<1>0. /\ mem[w] \in Memory /\ LocksOK(w) /\ pc[w] # "idle" /\ Fail(w) = "idle" /\ Done(w) = "idle"
      /\ pc[w] \in {"baseline", "clear"} => mem[w].intent \in Intent
  <2>1. pc[w] # "idle"
    BY DEF Captured, CaptureSave, Published, Answered, Baseline, AcceptBaseline, Clear, AcceptClear,
           Close, SetLease, Acknowledge
  <2> QED BY <2>1, NoNote DEF ThreadOK
<1>1. ASSUME Frame, Return(w, "idle"), Quiet(w) \/ UNCHANGED <<ask, reply>> PROVE TypeOK'
  BY <1>1, ReturnType DEF Quiet, hubVars, Server!HubTypeOK
<1>2. ASSUME NEW i \in IntentId, Captured(w, i) PROVE TypeOK'
  <2> DEFINE m == [id |-> i, content |-> mem[w].snapshot, expected |-> task, action |-> mem[w].op]
             j == [journal EXCEPT !.pending = m]
  <2>1. mem[w].op \in {"commit", "checkin"}
    BY <1>0, <1>2 DEF Captured, CaptureSave, LocksOK, OpsAt, Point
  <2>2. m \in Intent
    BY <1>2, <2>1 DEF Captured, CaptureSave, Intent
  <2>3. j \in Journal
    <3> HIDE DEF m
    <3> QED BY <2>2 DEF Journal
  <2>4. Frame
    BY <1>2, <1>0, <2>3 DEF Captured, CaptureSave, netVars, Failed
  <2>5. CASE Return(w, "idle")
    BY <1>1, <1>2, <2>4, <2>5 DEF Captured, netVars
  <2>6. CASE /\ mem' = [mem EXCEPT ![w].intent = m, ![w].snapshot = None]
             /\ oplock' = None /\ Goto(w, "send") /\ UNCHANGED uplock
    <3> HIDE DEF m
    <3> DEFINE x == [mem[w] EXCEPT !.intent = m, !.snapshot = None]
    <3>0. mem'[w] = x /\ x \in Memory /\ x.intent = m
      <4>1. x \in Memory /\ x.intent = m
        BY <1>0, <2>2 DEF Memory
      <4>2. mem'[w] = x
        BY <1>0, <2>6
      <4> QED BY <4>1, <4>2
    <3>1. mem'[w] \in Memory /\ mem'[w].intent = m
      BY <3>0
    <3>2. mem' \in [Worker -> Memory \cup {None}] /\ \A v \in Worker : v # w => mem'[v] = mem[v]
      BY <2>6, <3>1
    <3>3. UNCHANGED <<ask, reply>>
      BY <1>2 DEF Captured, netVars
    <3> HIDE DEF j
    <3> QED BY <2>2, <2>4, <2>6, <3>1, <3>2, <3>3 DEF Goto, Point, hubVars, Server!HubTypeOK
  <2> QED BY <1>0, <1>2, <2>5, <2>6 DEF Captured, CaptureSave, Failed
<1>3. CASE Published(w)
  <2> DEFINE m == mem[w].intent
             j == [journal EXCEPT !.receipt = m]
  <2>1. m \in Intent
    BY <1>0, <1>3 DEF Published, AcceptReceipt, Memory
  <2>2. j \in Journal
    BY <2>1 DEF Journal
  <2>3. Frame
    BY <1>0, <1>3, <2>2 DEF Published, AcceptReceipt, Failed
  <2>4. CASE Return(w, "idle")
    BY <1>1, <1>3, <2>3, <2>4 DEF Published
  <2>5. CASE /\ oplock' = w /\ Goto(w, "baseline") /\ UNCHANGED uplock
             /\ mem' = [mem EXCEPT ![w].intent = m]
    <3>1. mem' = mem
      BY <1>0, <2>5 DEF Memory
    <3>2. ask' \in [Worker -> Request \cup {None}] /\ reply' \in [Worker -> Reply \cup {None}]
      BY <1>3 DEF Published, Quiet
    <3> HIDE DEF j
    <3> QED BY <1>0, <2>1, <2>3, <2>5, <3>1, <3>2 DEF Goto, Point, hubVars, Server!HubTypeOK
  <2> QED BY <1>0, <1>3, <2>4, <2>5 DEF Published, AcceptReceipt, Failed
<1>4. CASE Baseline(w)
  <2>1. mem[w].intent.content \in Content /\ pc[w] = "baseline"
    BY <1>0, <1>4 DEF Baseline, AcceptBaseline, Intent
  <2>2. Frame /\ UNCHANGED <<ask, reply>>
    BY <1>4, <2>1 DEF Baseline, AcceptBaseline, Failed, netVars
  <2>3. CASE Goto(w, "clear") /\ UNCHANGED <<mem, uplock, oplock>>
    BY <1>0, <2>1, <2>2, <2>3 DEF Goto, Point, hubVars, Server!HubTypeOK
  <2> QED BY <1>0, <1>1, <1>4, <2>2, <2>3 DEF Baseline, AcceptBaseline, Failed
<1>5. CASE Clear(w)
  <2>1. mem[w].intent.content \in Content /\ pc[w] = "clear"
    BY <1>0, <1>5 DEF Clear, AcceptClear, Intent
  <2>2. journal' \in Journal
    <3> DEFINE in == mem[w].intent.action = "checkin"
               a == IF in THEN FALSE ELSE journal.ack
               l == IF in \/ journal.lease = None THEN None ELSE mem[w].intent.content
               j == [journal EXCEPT !.pending = NoIntent, !.closed = in, !.ack = a, !.lease = l]
    <3>1. in \in BOOLEAN /\ a \in BOOLEAN /\ l \in Content \cup {None}
      BY <2>1 DEF Journal
    <3>2. journal' \in {j, journal}
      BY <1>5 DEF Clear, AcceptClear, Failed
    <3> HIDE DEF in, a, l
    <3>3. j \in Journal
      BY <3>1 DEF Journal
    <3> QED BY <3>2, <3>3
  <2>3. Frame /\ UNCHANGED <<ask, reply>> /\ Return(w, "idle")
    BY <1>0, <1>5, <2>2 DEF Clear, AcceptClear, Failed, netVars
  <2> QED BY <1>1, <2>3
<1>6. CASE Close(w) \/ Acknowledge(w)
  <2>1. [journal EXCEPT !.closed = TRUE, !.lease = None, !.ack = FALSE] \in Journal
    BY DEF Journal
  <2>2. [journal EXCEPT !.ack = TRUE] \in Journal
    BY DEF Journal
  <2>3. journal' \in Journal
    BY <1>6, <2>1, <2>2 DEF Close, Acknowledge
  <2> QED BY <1>1, <1>6, <2>3 DEF Close, Acknowledge
<1>7. CASE SetLease(w)
  <2>1. pc[w] = "store" /\ mem[w].lease \in Content
    BY <1>7 DEF SetLease, ThreadOK, LeaseOK
  <2>2. journal' \in Journal
    BY <1>7, <2>1 DEF SetLease, Journal, Failed
  <2>3. Frame /\ UNCHANGED <<ask, reply>>
    BY <1>7, <2>2 DEF SetLease, netVars
  <2>4. CASE /\ mem' = [mem EXCEPT ![w].lease = None] /\ Goto(w, "confirm") /\ UNCHANGED <<uplock, oplock>>
    <3>1. mem'[w] \in Memory
      BY <1>0, <2>4 DEF Memory
    <3> QED BY <2>3, <2>4, <3>1 DEF Goto, Point, hubVars, Server!HubTypeOK
  <2> QED BY <1>0, <1>1, <1>7, <2>3, <2>4 DEF SetLease, Failed
<1> QED BY <1>2, <1>3, <1>4, <1>5, <1>6, <1>7

\* What the Hub does with an intent keeps the types of its state.
LEMMA HubType ==
    ASSUME Server!HubTypeOK, NEW m \in Intent, Server!HubPrepare(m, 1) \/ Server!HubPublish(m, 1)
    PROVE  Server!HubTypeOK'
<1> USE DEF Server!HubTypeOK, Server!IntentState
<1>1. m \in Server!Intent /\ m.id \in IntentId /\ m.content \in Content
  BY DEF Intent, Server!Intent, Server!Action
<1>2. CASE Server!HubPrepare(m, 1)
  BY <1>1, <1>2 DEF Server!HubPrepare
<1>3. CASE Server!HubPublish(m, 1)
  BY <1>1, <1>3 DEF Server!HubPublish
<1> QED BY <1>2, <1>3

\* A request is answered, and the Hub may have changed.
LEMMA TypeHandle ==
    ASSUME IInv, NEW r \in net, Handle(r)
    PROVE  TypeOK'
<1> USE DEF IInv, TypeOK, AgentTypeOK
<1>1. r \in Request /\ r.from \in Worker /\ r.intent \in Intent \cup {NoIntent}
  BY DEF Request
<1>2. Server!HubTypeOK'
  <2>1. CASE r.kind \in {"prepare", "publish"}
    <3>1. r.intent \in Intent
      BY <2>1 DEF Record, OriginInv
    <3>2. CASE UNCHANGED hubVars
      BY <3>2 DEF hubVars, Server!HubTypeOK
    <3> QED BY <2>1, <3>1, <3>2, HubType DEF Handle, HandlePrepare, HandlePublish
  <2>2. CASE r.kind \notin {"prepare", "publish"}
    BY <2>2 DEF Handle, HandleAbandon, HandleConfirm, hubVars, Server!HubAbandon, Server!HubTypeOK
  <2> QED BY <2>1, <2>2
<1>3. PICK st \in {"prepared", "published", "released", "confirmed"} : Answer(r, st)
  BY DEF Handle, HandlePrepare, HandlePublish, HandleAbandon, HandleConfirm
<1>4. [state |-> st, intent |-> r.intent] \in Reply
  BY <1>1 DEF Reply
<1>5. reply' \in [Worker -> Reply \cup {None}] /\ net' \subseteq Request
      /\ UNCHANGED <<agentVars, ask>>
  BY <1>1, <1>3, <1>4 DEF Answer
<1>6. handoff' \in {"offered", "erased"}
  BY DEF Handle, HandlePrepare, HandlePublish, HandleAbandon, HandleConfirm
<1> QED BY <1>2, <1>5, <1>6 DEF agentVars

\* Every step keeps the types.
LEMMA TypeStep ==
    ASSUME IInv, [Next]_vars
    PROVE  TypeOK'
<1> USE DEF IInv, TypeOK, AgentTypeOK
<1>1. ASSUME NEW w \in Worker, Operation(w) \/ GiveUp(w) PROVE TypeOK'
  BY <1>1, TypeQuiet, TypeSend, TypeWrite DEF Operation
<1>2. CASE Crash
  BY <1>2 DEF Crash, AgentCrash, Point, hubVars, Server!HubTypeOK
<1>3. ASSUME NEW c \in Content, Save(c) PROVE TypeOK'
  <2>1. mem' \in [Worker -> Memory \cup {None}]
        /\ \A w \in Worker : /\ mem[w] \in Memory => mem'[w] \in Memory
                             /\ mem[w] \in Memory => mem'[w].intent = mem[w].intent
    <3>1. ASSUME NEW w \in Worker, pc[w] = "reading", mem' = [mem EXCEPT ![w].snapshot = Torn]
          PROVE  mem'[w] \in Memory /\ mem'[w].intent = mem[w].intent
      BY <3>1 DEF Memory
    <3>2. CASE mem' = mem
      BY <3>2
    <3>3. ASSUME NEW w \in Worker, pc[w] = "reading", mem' = [mem EXCEPT ![w].snapshot = Torn]
          PROVE  \A v \in Worker : v # w => mem'[v] = mem[v]
      BY <3>3
    <3>4. \/ mem' = mem
          \/ \E w \in Worker : pc[w] = "reading" /\ mem' = [mem EXCEPT ![w].snapshot = Torn]
      BY <1>3 DEF Save, Edit
    <3>5. ASSUME NEW w \in Worker, pc[w] = "reading", mem' = [mem EXCEPT ![w].snapshot = Torn]
          PROVE  mem' \in [Worker -> Memory \cup {None}]
      <4>1. mem'[w] \in Memory
        BY <3>1, <3>5
      <4> QED BY <3>5, <4>1
    <3> QED BY <3>1, <3>2, <3>3, <3>4, <3>5
  <2>2. /\ UNCHANGED <<journal, task, uplock, oplock, pc, used, guard, file, reg, handoff, ask, reply, net>>
        /\ copy' = c
    BY <1>3 DEF Save, Edit, hubVars, netVars
  <2>3. Server!HubTypeOK'
    BY <2>2 DEF Server!HubTypeOK
  <2>4. \A w \in Worker : /\ pc'[w] \notin {"idle"} => mem'[w] \in Memory
                          /\ pc'[w] \in {"send", "publish", "baseline", "clear"} => mem'[w].intent \in Intent
    BY <2>1, <2>2
  <2>5. AgentTypeOK'
    BY <2>1, <2>2
  <2> QED BY <2>2, <2>3, <2>4, <2>5
<1>4. ASSUME NEW r \in net, Handle(r) \/ Lose(r) PROVE TypeOK'
  <2>1. CASE Lose(r)
    BY <2>1 DEF Lose, agentVars, hubVars, Server!HubTypeOK
  <2> QED BY <1>4, <2>1, TypeHandle
<1>5. CASE Others
  <2>1. Server!HubTypeOK'
    BY <1>5 DEF Others, Server!HubExpire, Server!HubOther, Server!HubTypeOK
  <2> QED BY <1>5, <2>1 DEF Others, agentVars, netVars
<1>6. CASE UNCHANGED vars
  BY <1>6 DEF vars, agentVars, hubVars, netVars, Server!HubTypeOK
<1> QED BY <1>1, <1>2, <1>3, <1>4, <1>5, <1>6 DEF Next

-------------------------------------------------------------------------------
(* The threads.                                                            *)

\* What thread v holds and remembers is the same, up to the snapshot that an edit can spoil.
SameHands(v) ==
    /\ pc'[v] = pc[v] /\ ask'[v] = ask[v]
    /\ pc[v] # "idle" => /\ mem'[v].op = mem[v].op
                         /\ mem'[v].intent = mem[v].intent
                         /\ mem'[v].lease = mem[v].lease

SameThread(v) == SameHands(v) /\ reply'[v] = reply[v]

\* A step of somebody else leaves thread v in order: it may not touch what v guards
\* with upload.lock, nor take the lease away.
LEMMA OtherThread ==
    ASSUME TypeOK, NEW v \in Worker, ThreadOK(v), SameHands(v),
           reply'[v] = reply[v] \/ ReplyOK(v)',
           Holds(v) => /\ uplock' = uplock
                       /\ journal'.pending = journal.pending
                       /\ journal'.closed = journal.closed
                       /\ task' = task,
           Kept => Kept', ~Kept => task' = task,
           \A i \in IntentId : reg[i].state = "published" => reg'[i] = reg[i],
           guard.owner # "us" => guard'.owner # "us"
    PROVE  ThreadOK(v)'
<1> USE DEF ThreadOK, SameHands
<1>1. LocksOK(v)'
  BY DEF LocksOK, Holds, OpsAt
<1>2. IntentOK(v)'
  <2>1. Sends(v) => Holds(v) /\ journal.pending.id \in IntentId
    <3>1. Sends(v) => Holds(v) /\ journal.pending # NoIntent
      BY DEF Sends, Holds, IntentOK, Editing
    <3> QED BY <3>1 DEF TypeOK, AgentTypeOK, Journal, Intent
  <2>2. pc[v] \in {"baseline", "clear"} => Sends(v)
    BY DEF Sends, LocksOK, OpsAt, Point
  <2>3. pc[v] = "reading" => Holds(v)
    BY DEF Holds, LocksOK, OpsAt, Point
  <2>4. (Sends(v)' <=> Sends(v)) /\ (Holds(v)' <=> Holds(v))
    BY DEF Sends, Holds, Editing
  <2> QED BY <2>1, <2>2, <2>3, <2>4 DEF IntentOK, Known, Sends
<1>3. LeaseOK(v)'
  BY DEF LeaseOK
<1>4. AskOK(v)'
  BY DEF AskOK
<1>5. ReplyOK(v)'
  BY DEF ReplyOK, Intent
<1> QED BY <1>1, <1>2, <1>3, <1>4, <1>5

\* A step of thread w leaves all threads in order.
LEMMA AllThreads ==
    ASSUME TypeOK, \A v \in Worker : ThreadOK(v), NEW w \in Worker, ThreadOK(w)',
           \A v \in Worker : v # w => SameThread(v),
           uplock \notin {None, w} => /\ uplock' = uplock
                                     /\ journal'.pending = journal.pending
                                     /\ journal'.closed = journal.closed
                                     /\ task' = task,
           Kept => Kept', ~Kept => task' = task, UNCHANGED <<guard, reg>>
    PROVE  \A v \in Worker : ThreadOK(v)'
<1> SUFFICES ASSUME NEW v \in Worker, v # w PROVE ThreadOK(v)'
  OBVIOUS
<1>1. Holds(v) => uplock \notin {None, w}
  BY DEF ThreadOK, LocksOK
<1> QED BY <1>1, OtherThread DEF SameThread

-------------------------------------------------------------------------------
(* The record.                                                             *)

\* What can still be published is filed under a drawn id and not settled.
LEMMA OutstandingFacts ==
    ASSUME TypeOK, OriginInv, NEW m \in Outstanding
    PROVE  m \in Intent /\ m.id \in used /\ m.id \in IntentId /\ ~Known(m)
<1>1. CASE \E i \in IntentId : reg[i].state = "prepared" /\ m = reg[i].intent
  BY <1>1 DEF OriginInv, Known, Intent
<1>2. CASE \E r \in net : /\ r.kind \in {"prepare", "publish"} /\ m = r.intent
                           /\ reg[r.intent.id].state \notin Server!Settled
  BY <1>2 DEF OriginInv, Known, Intent, Server!Settled
<1> QED BY <1>1, <1>2 DEF Outstanding

\* Nothing is on its way while nothing is pending, or after it was published.
LEMMA NothingOutstanding ==
    ASSUME TypeOK, OriginInv, NoForgottenIntent,
           journal.pending = NoIntent \/ Known(journal.pending)
    PROVE  Outstanding = {}
  BY OutstandingFacts DEF NoForgottenIntent

\* What a step sends is the pending intent, or no intent.
Fair(r) ==
    \/ r \in net
    \/ r.kind \in {"prepare", "publish"} /\ r.intent = journal.pending /\ journal.pending # NoIntent
    \/ r.kind = "confirm" /\ Kept
    \/ r.kind = "abandon"

\* After fair requests only the pending intent can have become outstanding.
LEMMA OutstandingGrows ==
    ASSUME UNCHANGED reg, \A r \in net' : Fair(r)
    PROVE  \A m \in Outstanding' : m \in Outstanding \/ m = journal.pending
  BY DEF Outstanding, Fair

\* A step of a thread that changes neither the pending intent nor the lease.
LEMMA QuietRecord ==
    ASSUME TypeOK, Record, UNCHANGED <<task, used, guard, file, reg, handoff>>,
           journal'.pending = journal.pending, journal'.lease = journal.lease,
           journal'.closed = journal.closed,
           \A r \in net' : Fair(r)
    PROVE  Record'
<1> USE DEF Record
<1>1. journal.pending # NoIntent => journal.pending \in Intent
  BY DEF TypeOK, AgentTypeOK, Journal
<1>2. OriginInv'
  BY <1>1 DEF OriginInv, Known, Fair
<1>3. NoForgottenIntent'
  BY OutstandingGrows DEF NoForgottenIntent
<1>4. RecordInv'
  BY DEF RecordInv, Known, ClosedMeansReleased
<1>5. LeaseInv'
  BY DEF LeaseInv, LeaseNeverLost, Kept, Fair
<1> QED BY <1>2, <1>3, <1>4, <1>5

-------------------------------------------------------------------------------
(* The steps of a thread.                                                  *)

Threads == \A v \in Worker : ThreadOK(v)

\* Steps that only take a lock and note something in the thread's memory.
LEMMA QuietStep ==
    ASSUME IInv, TypeOK', NEW w \in Worker,
           \/ \E op \in {"commit", "checkin", "recover", "release"} : Begin(w, op)
           \/ Commit(w) \/ Capture(w) \/ RecoverAccept(w) \/ RecoverResend(w) \/ Open(w) \/ GiveUp(w)
    PROVE  Threads' /\ Record'
<1> USE DEF IInv
<1>1. UNCHANGED <<journal, task, used, guard, file, reg, handoff, net>>
  BY DEF Begin, Commit, Capture, CaptureRead, RecoverAccept, RecoverResend, Open, GiveUp, hubVars, netVars
<1>2. Record'
  BY <1>1, QuietRecord DEF Fair
<1> SUFFICES Threads'
  BY <1>2
<1>3. ASSUME ThreadOK(w)', \A v \in Worker : v # w => SameThread(v),
             uplock \notin {None, w} => uplock' = uplock
      PROVE Threads'
  BY <1>1, <1>3, AllThreads DEF Threads, Kept
<1>4. ThreadOK(w) /\ pc[w] \in Point /\ w # None
  BY DEF TypeOK, AgentTypeOK
<1> USE DEF TypeOK, AgentTypeOK, ThreadOK, LocksOK, IntentOK, LeaseOK, AskOK, ReplyOK
<1>5. ASSUME NEW op \in {"commit", "checkin", "recover", "release"}, Begin(w, op) PROVE Threads'
  <2>1. /\ pc[w] = "idle" /\ pc' = [pc EXCEPT ![w] = "enter"] /\ mem'[w].op = op
        /\ UNCHANGED <<ask, reply, uplock>> /\ Kept
        /\ \A v \in Worker : v # w => mem'[v] = mem[v]
    BY <1>5 DEF Begin, Goto, Local, Kept, netVars
  <2>2. ThreadOK(w)'
    BY <1>1, <1>4, <2>1 DEF Holds, Sends, Kept, OpsAt, Point, Editing
  <2>3. \A v \in Worker : v # w => SameThread(v)
    BY <2>1 DEF SameThread, SameHands
  <2> QED BY <1>3, <2>1, <2>2, <2>3
<1>6. CASE Commit(w)
  <2>1. /\ pc[w] = "enter" /\ pc' = [pc EXCEPT ![w] = "capture"] /\ mem'[w].op = mem[w].op
        /\ mem[w].op \in {"commit", "checkin"} /\ UNCHANGED <<ask, reply>>
        /\ uplock = None /\ uplock' = w /\ journal.pending = NoIntent
        /\ \A v \in Worker : v # w => mem'[v] = mem[v]
    BY <1>6 DEF Commit, Goto, netVars, Memory
  <2>2. ThreadOK(w)'
    BY <1>1, <1>4, <2>1 DEF Holds, Sends, Kept, OpsAt, Point, Editing
  <2>3. \A v \in Worker : v # w => SameThread(v)
    BY <2>1 DEF SameThread, SameHands
  <2> QED BY <1>3, <2>1, <2>2, <2>3
<1>7. CASE Capture(w)
  <2>1. /\ pc[w] = "capture" /\ pc' = [pc EXCEPT ![w] = "reading"] /\ mem'[w].op = mem[w].op
        /\ UNCHANGED <<ask, reply, uplock>> /\ journal.pending = NoIntent /\ ~journal.closed
        /\ \A v \in Worker : v # w => mem'[v] = mem[v]
    BY <1>7 DEF Capture, CaptureRead, Goto, netVars, Memory
  <2>2. ThreadOK(w)'
    BY <1>1, <1>4, <2>1 DEF Holds, Sends, Kept, OpsAt, Point, Editing
  <2>3. \A v \in Worker : v # w => SameThread(v)
    BY <2>1 DEF SameThread, SameHands
  <2> QED BY <1>3, <2>1, <2>2, <2>3
<1>8. CASE RecoverAccept(w) \/ RecoverResend(w)
  <2>1. /\ pc[w] = "enter" /\ mem[w].op = "recover" /\ mem'[w].op = "recover"
        /\ mem'[w].intent = journal.pending /\ journal.pending # NoIntent
        /\ uplock = None /\ uplock' = w /\ ask' = ask
        /\ \A v \in Worker : v # w => mem'[v] = mem[v] /\ reply'[v] = reply[v] /\ pc'[v] = pc[v]
    <3>1. CASE RecoverAccept(w)
      BY <3>1 DEF RecoverAccept, Goto, Memory
    <3>2. CASE RecoverResend(w)
      BY SMTT(30), <3>2 DEF RecoverResend, Goto, netVars, Memory
    <3> QED BY <1>8, <3>1, <3>2
  <2>2. journal.pending \in Intent /\ journal.pending.id \in IntentId
    BY <2>1 DEF Journal, Intent
  <2>3. \/ pc'[w] = "send" /\ reply' = reply
        \/ /\ pc'[w] = "await" /\ Known(journal.pending)
           /\ reply'[w] = [state |-> "published", intent |-> journal.pending]
    <3>1. CASE RecoverAccept(w)
      BY <3>1 DEF RecoverAccept, Goto, Known
    <3>2. CASE RecoverResend(w)
      BY <3>2 DEF RecoverResend, Goto, netVars
    <3> QED BY <1>8, <3>1, <3>2
  <2>4. Known(journal.pending) =>
          reg[journal.pending.id] = [state |-> "published", intent |-> journal.pending]
    BY <2>1, <2>2 DEF Record, OriginInv, Known, Server!HubTypeOK
  <2>5. ThreadOK(w)'
    BY <1>1, <1>4, <2>1, <2>2, <2>3, <2>4 DEF Holds, Sends, Kept, OpsAt, Point, Editing
  <2>6. \A v \in Worker : v # w => SameThread(v)
    BY <2>1 DEF SameThread, SameHands
  <2> QED BY <1>3, <2>1, <2>5, <2>6
<1>9. CASE Open(w)
  <2>1. /\ pc[w] = "idle" /\ mem'[w].op = "open" /\ UNCHANGED <<ask, reply, uplock>>
        /\ \/ pc'[w] = "confirm" /\ journal.lease # None
           \/ pc'[w] = "store" /\ journal.lease = None /\ mem'[w].lease = file /\ guard.owner = "us"
        /\ \A v \in Worker : v # w => mem'[v] = mem[v] /\ pc'[v] = pc[v]
    BY <1>9 DEF Open, Goto, Local, netVars
  <2>2. pc'[w] = "store" => mem'[w].lease \in Content /\ mem'[w].lease = task
    <3>1. pc'[w] = "store" => journal.pending = NoIntent
      BY <2>1 DEF Record, RecordInv, Journal, Intent
    <3> QED BY <2>1, <3>1 DEF Record, RecordInv
  <2>3. ThreadOK(w)'
    BY <1>1, <1>4, <2>1, <2>2 DEF Holds, Sends, Kept, OpsAt, Point, Editing
  <2>4. \A v \in Worker : v # w => SameThread(v)
    BY <2>1 DEF SameThread, SameHands
  <2> QED BY <1>3, <2>1, <2>3, <2>4
<1>10. CASE GiveUp(w)
  <2>1. /\ pc'[w] = "idle" /\ ask'[w] = None /\ reply'[w] = None /\ uplock' = Without(uplock, w)
        /\ \A v \in Worker : v # w => /\ mem'[v] = mem[v] /\ pc'[v] = pc[v]
                                      /\ ask'[v] = ask[v] /\ reply'[v] = reply[v]
    BY <1>10 DEF GiveUp, Return, Goto, Quiet
  <2>2. ThreadOK(w)'
    BY <2>1 DEF Holds, Sends
  <2>3. \A v \in Worker : v # w => SameThread(v)
    BY <2>1 DEF SameThread, SameHands
  <2> QED BY <1>3, <2>1, <2>2, <2>3 DEF Without
<1> QED BY <1>5, <1>6, <1>7, <1>8, <1>9, <1>10

\* Steps that send a request: it is Fair, and the thread waits.
LEMMA SendStep ==
    ASSUME IInv, TypeOK', NEW w \in Worker, Prepare(w) \/ Publish(w) \/ Release(w) \/ Confirm(w)
    PROVE  Threads' /\ Record'
<1> USE DEF IInv
<1>1. ThreadOK(w) /\ pc[w] \in Point /\ w # None /\ mem[w] \in Memory
  BY DEF TypeOK, AgentTypeOK, Prepare, Publish, Release, Confirm, Answered
<1>2. PICK k \in {"prepare", "publish", "abandon", "confirm"}, m \in Intent \cup {NoIntent} :
        /\ Send(w, k, m)
        /\ k \in {"prepare", "publish"} => m = mem[w].intent /\ Sends(w)
        /\ k = "abandon" => pc[w] = "enter" /\ mem[w].op = "release" /\ journal.pending = NoIntent
        /\ k = "confirm" => pc[w] = "confirm"
  <2>1. CASE Prepare(w)
    BY <1>1, <2>1 DEF Prepare, Memory, Sends, ThreadOK, LocksOK, OpsAt, Point
  <2>2. CASE Publish(w)
    BY <1>1, <2>2 DEF Publish, Memory, Sends, ThreadOK, ReplyOK, Answered
  <2>3. CASE Release(w)
    BY <2>3 DEF Release
  <2>4. CASE Confirm(w)
    BY <2>4 DEF Confirm
  <2> QED BY <2>1, <2>2, <2>3, <2>4
<1>3. UNCHANGED <<journal, task, used, guard, file, reg, handoff>>
      /\ mem'[w].op = mem[w].op /\ mem'[w].intent = mem[w].intent
      /\ \A v \in Worker : v # w => mem'[v] = mem[v]
  BY <1>1 DEF Prepare, Publish, Release, Confirm, hubVars, TypeOK, AgentTypeOK, Memory
<1>4. /\ ask'[w] = [kind |-> k, from |-> w, intent |-> m] /\ reply'[w] = None /\ pc'[w] = "await"
      /\ net' = net \cup {[kind |-> k, from |-> w, intent |-> m]}
      /\ \A v \in Worker : v # w => pc'[v] = pc[v] /\ ask'[v] = ask[v] /\ reply'[v] = reply[v]
  BY <1>2 DEF Send, Goto, TypeOK, AgentTypeOK
<1>5. Record'
  <2>1. Sends(w) => mem[w].intent = journal.pending /\ journal.pending # NoIntent
    BY <1>1 DEF ThreadOK, IntentOK
  <2>2. k = "confirm" => Kept
    BY <1>1, <1>2 DEF ThreadOK, LeaseOK
  <2>3. Fair([kind |-> k, from |-> w, intent |-> m])
    BY <1>2, <2>1, <2>2 DEF Fair
  <2>4. \A r \in net' : Fair(r)
    BY <1>4, <2>3 DEF Fair
  <2> QED BY <1>3, <2>4, QuietRecord
<1>6. uplock \notin {None, w} => uplock' = uplock
  BY DEF Prepare, Publish, Release, Confirm
<1>7. k # "confirm" => uplock' = w
  <2>1. CASE Prepare(w) \/ Publish(w)
    BY <1>1, <2>1 DEF Prepare, Publish, Answered, ThreadOK, LocksOK, ReplyOK, Holds, OpsAt, Point, Editing
  <2>2. CASE Release(w)
    BY <2>2 DEF Release
  <2>3. CASE Confirm(w)
    BY <1>4, <2>3 DEF Confirm, Send, TypeOK
  <2> QED BY <2>1, <2>2, <2>3
<1>8. ThreadOK(w)'
  <2> USE DEF ThreadOK
  <2>1. LocksOK(w)'
    BY <1>1, <1>2, <1>3, <1>4, <1>7 DEF LocksOK, Holds, Sends, OpsAt, Point, Editing
  <2>2. IntentOK(w)'
    BY <1>1, <1>2, <1>3, <1>4 DEF LocksOK, IntentOK, Holds, Sends, OpsAt, Point, Editing
  <2>3. LeaseOK(w)'
    BY <1>1, <1>2, <1>3, <1>4 DEF LeaseOK, Kept, Sends
  <2>4. AskOK(w)' /\ ReplyOK(w)'
    BY <1>2, <1>3, <1>4 DEF AskOK, ReplyOK, Sends
  <2> QED BY <2>1, <2>2, <2>3, <2>4
<1>9. \A v \in Worker : v # w => SameThread(v)
  BY <1>3, <1>4 DEF SameThread, SameHands
<1>10. Threads'
  BY <1>3, <1>6, <1>8, <1>9, AllThreads DEF Kept, Threads
<1> QED BY <1>5, <1>10

\* A step of thread w that returns to idle, whatever it wrote: the others and w are in order.
LEMMA ReturnStep ==
    ASSUME TypeOK, TypeOK', Threads, NEW w \in Worker, Return(w, "idle"), ask'[w] = None, reply'[w] = None,
           \A v \in Worker : v # w => ask'[v] = ask[v] /\ reply'[v] = reply[v],
           uplock \notin {None, w} => /\ journal'.pending = journal.pending
                                     /\ journal'.closed = journal.closed
                                     /\ task' = task,
           Kept => Kept', ~Kept => task' = task, UNCHANGED <<guard, reg>>
    PROVE  Threads'
<1>1. /\ pc'[w] = "idle" /\ uplock' = Without(uplock, w)
      /\ \A v \in Worker : v # w => mem'[v] = mem[v] /\ pc'[v] = pc[v]
  BY DEF Return, Goto, TypeOK, AgentTypeOK
<1>2. ThreadOK(w)'
  BY <1>1 DEF ThreadOK, LocksOK, IntentOK, LeaseOK, AskOK, ReplyOK, Holds, Sends
<1>3. \A v \in Worker : v # w => SameThread(v)
  BY <1>1 DEF SameThread, SameHands
<1> QED BY <1>1, <1>2, <1>3, AllThreads DEF Threads, Without

\* A thread at one of these points holds upload.lock and waits for nothing.
LEMMA HolderFacts ==
    ASSUME TypeOK, NEW w \in Worker, ThreadOK(w)
    PROVE  /\ pc[w] \in {"reading", "baseline", "clear"} =>
                /\ uplock = w /\ Kept /\ Done(w) = "idle" /\ Fail(w) = "idle"
           /\ pc[w] # "idle" => mem[w] \in Memory /\ Done(w) = "idle" /\ Fail(w) = "idle"
           /\ pc[w] # "await" => ask[w] = None /\ reply[w] = None
           /\ pc[w] \in {"baseline", "clear"} => Sends(w)
           /\ w # None /\ pc[w] \in Point
<1>1. w # None /\ pc[w] \in Point
  BY DEF TypeOK, AgentTypeOK
<1>2. pc[w] # "idle" => mem[w] \in Memory /\ Done(w) = "idle" /\ Fail(w) = "idle"
  BY <1>1, NoNote DEF ThreadOK, TypeOK
<1>3. pc[w] # "await" => ask[w] = None /\ reply[w] = None
  BY DEF ThreadOK, AskOK, ReplyOK
<1>4. pc[w] \in {"reading", "baseline", "clear"} => Holds(w) /\ Kept
  BY <1>1 DEF ThreadOK, LocksOK, LeaseOK, Holds, OpsAt, Point, Editing
<1>5. pc[w] \in {"baseline", "clear"} => Sends(w)
  BY <1>1 DEF ThreadOK, LocksOK, Sends, OpsAt, Point, Editing
<1> QED BY <1>1, <1>2, <1>3, <1>4, <1>5 DEF ThreadOK, LocksOK

\* The intent is saved: nothing was pending, and its id is new.
LEMMA CapturedStep ==
    ASSUME IInv, TypeOK', NEW w \in Worker, NEW i \in IntentId, Captured(w, i)
    PROVE  Threads' /\ Record'
<1> USE DEF IInv
<1> DEFINE m == [id |-> i, content |-> mem[w].snapshot, expected |-> task, action |-> mem[w].op]
           j == [journal EXCEPT !.pending = m]
<1>1. /\ pc[w] = "reading" /\ mem[w].snapshot = copy /\ i \notin used /\ used' = used \cup {i}
      /\ UNCHANGED <<task, guard, file, reg, handoff, ask, reply, net>>
  BY DEF Captured, CaptureSave, hubVars, netVars
<1>2. /\ ThreadOK(w) /\ uplock = w /\ Kept /\ Fail(w) = "idle" /\ ask[w] = None /\ reply[w] = None
      /\ mem[w] \in Memory /\ w # None /\ pc[w] \in Point
  BY <1>1, HolderFacts DEF ThreadOK
<1>3. journal.pending = NoIntent /\ ~journal.closed /\ mem[w].op \in {"commit", "checkin"}
  <2>1. Holds(w) /\ ~Sends(w) /\ mem[w].op \in {"commit", "checkin"}
    BY <1>1, <1>2 DEF ThreadOK, LocksOK, Holds, Sends, OpsAt, Point
  <2> QED BY <1>1, <1>2, <2>1 DEF ThreadOK, IntentOK
<1>4. m \in Intent /\ m.id = i /\ m.expected = task
  BY <1>1, <1>3 DEF Intent, TypeOK, AgentTypeOK
<1>5. j.pending = m /\ j.closed = journal.closed /\ j.lease = journal.lease
  <2> HIDE DEF m
  <2> QED BY DEF TypeOK, AgentTypeOK, Journal
<1>6. journal' \in {j, journal} /\ (journal' = j \/ Return(w, "idle"))
  BY <1>2 DEF Captured, CaptureSave, Failed
<1>7. journal.lease = task
  BY <1>2, <1>3 DEF Record, RecordInv, Kept
<1>8. reg[i].state = "not-found" /\ \A r \in net : r.kind \in {"prepare", "publish"} => r.intent.id # i
  BY <1>1 DEF Record, OriginInv
<1> HIDE DEF m, j
<1>9. Record'
  <2>1. CASE journal' = journal
    <3>1. OriginInv'
      BY <1>1, <2>1 DEF Record, OriginInv, Known
    <3>2. NoForgottenIntent' /\ RecordInv' /\ LeaseInv'
      BY <1>1, <2>1 DEF Record, NoForgottenIntent, Outstanding, RecordInv, Known, ClosedMeansReleased,
                       LeaseInv, LeaseNeverLost, Kept
    <3> QED BY <3>1, <3>2 DEF Record
  <2>2. CASE journal' = j
    <3>1. OriginInv'
      BY <1>1, <1>4, <1>5, <1>8, <2>2 DEF Record, OriginInv, Known
    <3>2. NoForgottenIntent'
      <4>1. Outstanding' = Outstanding
        BY <1>1 DEF Outstanding
      <4> QED BY <1>3, <4>1, NothingOutstanding DEF Record, NoForgottenIntent
    <3>3. RecordInv'
      BY <1>1, <1>3, <1>4, <1>5, <1>7, <1>8, <2>2 DEF RecordInv, Known, ClosedMeansReleased
    <3>4. LeaseInv'
      BY <1>1, <1>5, <2>2 DEF Record, LeaseInv, LeaseNeverLost, Kept
    <3> QED BY <3>1, <3>2, <3>3, <3>4 DEF Record
  <2> QED BY <1>6, <2>1, <2>2
<1>10. Threads'
  <2>1. Kept'
    BY <1>2, <1>5, <1>6 DEF Kept
  <2>2. CASE Return(w, "idle")
    BY <1>1, <1>2, <2>1, <2>2, ReturnStep DEF Threads
  <2>3. CASE /\ journal' = j /\ mem' = [mem EXCEPT ![w].intent = m, ![w].snapshot = None]
             /\ Goto(w, "send") /\ UNCHANGED uplock
    <3>1. /\ pc'[w] = "send" /\ mem'[w].op = mem[w].op /\ mem'[w].intent = m
          /\ \A v \in Worker : v # w => mem'[v] = mem[v] /\ pc'[v] = pc[v]
      BY <1>2, <2>3 DEF Goto, TypeOK, AgentTypeOK, Memory
    <3>2. LocksOK(w)'
      BY <1>2, <1>3, <2>3, <3>1 DEF LocksOK, OpsAt, Point, Editing
    <3>3. IntentOK(w)'
      BY <1>3, <1>4, <1>5, <2>3, <3>1 DEF IntentOK, Sends, Holds, Editing
    <3>4. LeaseOK(w)' /\ AskOK(w)' /\ ReplyOK(w)'
      BY <1>1, <1>2, <2>1, <3>1 DEF LeaseOK, AskOK, ReplyOK
    <3>5. \A v \in Worker : v # w => SameThread(v)
      BY <1>1, <3>1 DEF SameThread, SameHands
    <3> QED BY <1>1, <1>2, <2>1, <3>2, <3>3, <3>4, <3>5, AllThreads DEF ThreadOK, Threads
  <2> QED BY <1>2, <2>2, <2>3 DEF Captured, CaptureSave, Failed, m, j
<1> QED BY <1>9, <1>10

\* The receipt is written, and a lease is noted as confirmed: nothing the record speaks of.
LEMMA ReceiptStep ==
    ASSUME IInv, TypeOK', NEW w \in Worker, Published(w) \/ Acknowledge(w)
    PROVE  Threads' /\ Record'
<1> USE DEF IInv
<1>1. /\ journal'.pending = journal.pending /\ journal'.lease = journal.lease
      /\ journal'.closed = journal.closed
      /\ UNCHANGED <<task, used, guard, file, reg, handoff, net>>
      /\ pc[w] = "await" /\ ask'[w] = None /\ reply'[w] = None
      /\ \A v \in Worker : v # w => ask'[v] = ask[v] /\ reply'[v] = reply[v]
  <2>1. journal \in Journal /\ ask \in [Worker -> Request \cup {None}] /\ reply \in [Worker -> Reply \cup {None}]
    BY DEF TypeOK, AgentTypeOK
  <2>2. journal' = journal \/ (\E m : journal' = [journal EXCEPT !.receipt = m])
          \/ journal' = [journal EXCEPT !.ack = TRUE]
    BY DEF Published, Acknowledge, AcceptReceipt, Failed
  <2>3. /\ journal'.pending = journal.pending /\ journal'.lease = journal.lease
        /\ journal'.closed = journal.closed
    BY <2>1, <2>2 DEF Journal
  <2> QED BY <2>1, <2>3 DEF Published, Acknowledge, Answered, AcceptReceipt, Quiet, hubVars
<1>2. Record'
  BY <1>1, QuietRecord DEF Fair
<1>3. ThreadOK(w) /\ Fail(w) = "idle" /\ mem[w] \in Memory /\ w # None /\ pc[w] \in Point
  BY <1>1, HolderFacts
<1>4. CASE Return(w, "idle")
  BY <1>1, <1>2, <1>4, ReturnStep DEF Threads, Kept
<1>5. CASE /\ Published(w) /\ Goto(w, "baseline") /\ UNCHANGED uplock
           /\ mem' = [mem EXCEPT ![w].intent = mem[w].intent]
  <2>1. pc'[w] = "baseline" /\ \A v \in Worker : mem'[v] = mem[v] /\ (v # w => pc'[v] = pc[v])
    BY <1>3, <1>5 DEF Goto, TypeOK, AgentTypeOK, Memory
  <2>2. /\ mem[w].op \in Editing /\ mem[w].intent \in Intent
        /\ reg[mem[w].intent.id].state = "published"
    BY <1>3, <1>5 DEF Published, Answered, ThreadOK, ReplyOK
  <2>3. Sends(w) /\ Holds(w) /\ journal.pending = mem[w].intent /\ journal.pending # NoIntent
    BY <1>1, <1>3, <2>2 DEF ThreadOK, IntentOK, Sends, Holds, Editing
  <2>4. LocksOK(w)'
    BY <1>3, <1>5, <2>1, <2>2, <2>3 DEF ThreadOK, LocksOK, OpsAt, Point
  <2>5. IntentOK(w)'
    BY <1>1, <2>1, <2>2, <2>3 DEF IntentOK, Sends, Holds, Editing, Known
  <2>6. LeaseOK(w)' /\ AskOK(w)' /\ ReplyOK(w)'
    BY <1>1, <1>3, <2>1 DEF ThreadOK, LeaseOK, AskOK, ReplyOK, Kept
  <2>7. \A v \in Worker : v # w => SameThread(v)
    BY <1>1, <2>1 DEF SameThread, SameHands
  <2>8. Threads'
    BY <1>1, <1>3, <1>5, <2>4, <2>5, <2>6, <2>7, AllThreads DEF ThreadOK, Threads, Kept
  <2> QED BY <1>2, <2>8
<1> QED BY <1>3, <1>4, <1>5 DEF Published, Acknowledge, AcceptReceipt, Failed

\* The baseline is moved: the intent is published, so it is the current version.
LEMMA BaselineStep ==
    ASSUME IInv, TypeOK', NEW w \in Worker, Baseline(w)
    PROVE  Threads' /\ Record'
<1> USE DEF IInv
<1>1. /\ pc[w] = "baseline"
      /\ UNCHANGED <<journal, used, guard, file, reg, handoff, ask, reply, net>>
      /\ task' \in {task, mem[w].intent.content}
  BY DEF Baseline, AcceptBaseline, Failed, hubVars, netVars
<1>2. /\ ThreadOK(w) /\ uplock = w /\ Kept /\ Fail(w) = "idle" /\ ask[w] = None /\ reply[w] = None
      /\ Sends(w) /\ w # None /\ pc[w] \in Point
  BY <1>1, HolderFacts DEF ThreadOK
<1>3. journal.pending # NoIntent /\ mem[w].intent = journal.pending /\ Known(journal.pending)
  BY <1>1, <1>2 DEF ThreadOK, IntentOK
<1>4. Record'
  <2>1. OriginInv' /\ LeaseInv'
    BY <1>1 DEF Record, OriginInv, Known, LeaseInv, LeaseNeverLost, Kept
  <2>2. NoForgottenIntent'
    BY <1>1 DEF Record, NoForgottenIntent, Outstanding
  <2>3. RecordInv'
    BY <1>1, <1>3 DEF Record, RecordInv, Known, ClosedMeansReleased
  <2> QED BY <2>1, <2>2, <2>3 DEF Record
<1>5. CASE Return(w, "idle")
  BY <1>1, <1>2, <1>4, <1>5, ReturnStep DEF Threads, Kept
<1>6. CASE task' = mem[w].intent.content /\ Goto(w, "clear") /\ UNCHANGED <<mem, uplock, oplock>>
  <2>1. pc'[w] = "clear" /\ \A v \in Worker : v # w => pc'[v] = pc[v]
    BY <1>6 DEF Goto, TypeOK, AgentTypeOK
  <2>2. LocksOK(w)'
    BY <1>1, <1>2, <1>6, <2>1 DEF ThreadOK, LocksOK, OpsAt, Point
  <2>3. IntentOK(w)'
    BY <1>1, <1>2, <1>3, <1>6, <2>1 DEF IntentOK, Sends, Holds, Editing, Known
  <2>4. LeaseOK(w)' /\ AskOK(w)' /\ ReplyOK(w)'
    BY <1>1, <1>2, <2>1 DEF ThreadOK, LeaseOK, AskOK, ReplyOK, Kept
  <2>5. \A v \in Worker : v # w => SameThread(v)
    BY <1>1, <1>6, <2>1 DEF SameThread, SameHands
  <2>6. Threads'
    BY <1>1, <1>2, <2>2, <2>3, <2>4, <2>5, AllThreads DEF ThreadOK, Threads, Kept
  <2> QED BY <1>4, <2>6
<1> QED BY <1>2, <1>5, <1>6 DEF Baseline, AcceptBaseline, Failed

\* The intent is cleared: it was published, and the baseline and the lease follow it.
LEMMA ClearStep ==
    ASSUME IInv, TypeOK', NEW w \in Worker, Clear(w)
    PROVE  Threads' /\ Record'
<1> USE DEF IInv
<1> DEFINE m == mem[w].intent
           in == m.action = "checkin"
           l == IF in \/ journal.lease = None THEN None ELSE m.content
           j == [journal EXCEPT !.pending = NoIntent, !.closed = in,
                                !.ack = IF in THEN FALSE ELSE @,
                                !.lease = IF in \/ @ = None THEN None ELSE m.content]
<1>1. /\ pc[w] = "clear"
      /\ UNCHANGED <<task, used, guard, file, reg, handoff, ask, reply, net>>
  BY DEF Clear, AcceptClear, hubVars, netVars
<1>2. /\ ThreadOK(w) /\ uplock = w /\ Kept /\ Done(w) = "idle" /\ Fail(w) = "idle"
      /\ ask[w] = None /\ reply[w] = None
      /\ Sends(w) /\ w # None /\ pc[w] \in Point
  BY <1>1, HolderFacts DEF ThreadOK
<1>3. /\ m = journal.pending /\ m # NoIntent /\ Known(m) /\ task = m.content
      /\ m \in Intent /\ m.content # None /\ m.action \in {"commit", "checkin"}
  BY <1>1, <1>2 DEF ThreadOK, IntentOK, TypeOK, AgentTypeOK, Journal, Intent
<1>4. journal' \in {j, journal} /\ Return(w, "idle")
  BY <1>2 DEF Clear, AcceptClear, Failed
<1>5. j.pending = NoIntent /\ j.closed = in /\ j.lease = l
  BY DEF TypeOK, AgentTypeOK, Journal
<1>6. /\ ~journal.closed /\ journal.lease # None
      /\ in => guard.owner # "us"
      /\ guard.owner = "us" => file = m.content
  BY <1>2, <1>3 DEF Record, RecordInv, Kept
<1> HIDE DEF j, m
<1>7. Kept'
  BY <1>2, <1>3, <1>4, <1>5, <1>6 DEF Kept
<1>8. Outstanding' = {} /\ Outstanding = {}
  <2>1. Outstanding' = Outstanding
    BY <1>1 DEF Outstanding
  <2> QED BY <1>3, <2>1, NothingOutstanding DEF Record
<1>9. Record'
  <2>1. OriginInv'
    BY <1>1, <1>4, <1>5 DEF Record, OriginInv, Known
  <2>2. RecordInv'
    <3>1. CASE journal' = journal
      BY <1>1, <3>1 DEF Record, RecordInv, Known, ClosedMeansReleased
    <3>2. CASE journal' = j
      BY <1>1, <1>3, <1>5, <1>6, <3>2 DEF RecordInv, ClosedMeansReleased
    <3> QED BY <1>4, <3>1, <3>2
  <2>3. NoForgottenIntent' /\ LeaseInv'
    BY <1>1, <1>7, <1>8 DEF NoForgottenIntent, LeaseInv, LeaseNeverLost, Kept
  <2> QED BY <2>1, <2>2, <2>3 DEF Record
<1>10. Threads'
  BY <1>1, <1>2, <1>4, <1>7, ReturnStep DEF Threads
<1> QED BY <1>9, <1>10

\* The journal is closed: the Hub has confirmed the release, and nothing is pending.
LEMMA CloseStep ==
    ASSUME IInv, TypeOK', NEW w \in Worker, Close(w)
    PROVE  Threads' /\ Record'
<1> USE DEF IInv
<1> DEFINE j == [journal EXCEPT !.closed = TRUE, !.lease = None, !.ack = FALSE]
<1>1. /\ pc[w] = "await" /\ reply[w] # None /\ reply[w].state = "released"
      /\ journal.pending = NoIntent /\ journal' \in {j, journal}
      /\ Return(w, "idle") /\ ask' = [ask EXCEPT ![w] = None] /\ reply' = [reply EXCEPT ![w] = None]
      /\ UNCHANGED <<task, used, guard, file, reg, handoff, net>>
  BY DEF Close, Answered, Quiet, hubVars
<1>2. j.pending = journal.pending /\ j.closed /\ j.lease = None
  BY DEF TypeOK, AgentTypeOK, Journal
<1>3. ThreadOK(w) /\ mem[w].op = "release" /\ guard.owner # "us" /\ uplock = w
  BY <1>1 DEF ThreadOK, ReplyOK, LocksOK, Holds
<1> HIDE DEF j
<1>4. Kept => Kept'
  BY <1>1, <1>2 DEF Kept
<1>5. Record'
  <2>1. OriginInv'
    BY <1>1, <1>2 DEF Record, OriginInv, Known
  <2>2. NoForgottenIntent'
    <3>1. journal'.pending = journal.pending
      BY <1>1, <1>2
    <3> QED BY <1>1, <3>1 DEF Record, NoForgottenIntent, Outstanding
  <2>3. RecordInv'
    BY <1>1, <1>2, <1>3 DEF Record, RecordInv, ClosedMeansReleased
  <2>4. LeaseInv'
    BY <1>1, <1>4 DEF Record, LeaseInv, LeaseNeverLost, Kept
  <2> QED BY <2>1, <2>2, <2>3, <2>4 DEF Record
<1>6. /\ ask'[w] = None /\ reply'[w] = None
      /\ \A v \in Worker : v # w => ask'[v] = ask[v] /\ reply'[v] = reply[v]
  BY <1>1 DEF TypeOK
<1>7. Threads'
  BY <1>1, <1>3, <1>4, <1>6, ReturnStep DEF Threads
<1> QED BY <1>5, <1>7

\* A lease is stored: it is the one stored already, or the first, of the version downloaded.
LEMMA SetLeaseStep ==
    ASSUME IInv, TypeOK', NEW w \in Worker, SetLease(w)
    PROVE  Threads' /\ Record'
<1> USE DEF IInv
<1> DEFINE l == mem[w].lease
           j == [journal EXCEPT !.lease = l]
<1>1. /\ pc[w] = "store" /\ ~journal.closed /\ journal.lease \in {None, l}
      /\ UNCHANGED <<task, used, guard, file, reg, handoff, ask, reply, net>>
  BY DEF SetLease, hubVars, netVars
<1>2. /\ ThreadOK(w) /\ Fail(w) = "idle" /\ ask[w] = None /\ reply[w] = None
      /\ mem[w] \in Memory /\ w # None /\ pc[w] \in Point
  BY <1>1, HolderFacts
<1>3. l \in Content /\ l # None /\ (journal.lease = None => l = task)
  <2>1. l \in Content /\ (Kept \/ l = task)
    BY <1>1, <1>2 DEF ThreadOK, LeaseOK
  <2> QED BY <1>1, <2>1 DEF Kept
<1>4. journal' \in {j, journal} /\ (journal' = j \/ Return(w, "idle"))
  BY <1>2 DEF SetLease, Failed
<1>5. j.pending = journal.pending /\ j.closed = journal.closed /\ j.lease = l
  BY DEF TypeOK, AgentTypeOK, Journal
<1>6. journal.lease = None => journal.pending = NoIntent
  BY <1>1 DEF Record, RecordInv, TypeOK, AgentTypeOK, Journal, Intent
<1> HIDE DEF j
<1>7. (Kept => Kept') /\ (journal' = j => Kept')
  BY <1>3, <1>4, <1>5 DEF Kept
<1>8. journal'.pending = journal.pending /\ journal'.closed = journal.closed
  BY <1>4, <1>5
<1>9. Record'
  <2>1. OriginInv'
    BY <1>1, <1>8 DEF Record, OriginInv, Known
  <2>2. NoForgottenIntent'
    BY <1>1, <1>8 DEF Record, NoForgottenIntent, Outstanding
  <2>3. RecordInv'
    <3>1. journal'.lease = journal.lease \/ (journal.pending = NoIntent /\ journal'.lease = task)
      BY <1>1, <1>3, <1>4, <1>5, <1>6
    <3> QED BY <1>1, <1>8, <3>1 DEF Record, RecordInv, Known, ClosedMeansReleased
  <2>4. LeaseInv'
    BY <1>1, <1>7 DEF Record, LeaseInv, LeaseNeverLost, Kept
  <2> QED BY <2>1, <2>2, <2>3, <2>4 DEF Record
<1>10. CASE Return(w, "idle")
  BY <1>1, <1>2, <1>7, <1>8, <1>9, <1>10, ReturnStep DEF Threads
<1>11. CASE /\ journal' = j /\ mem' = [mem EXCEPT ![w].lease = None]
            /\ Goto(w, "confirm") /\ UNCHANGED <<uplock, oplock>>
  <2>1. /\ pc'[w] = "confirm" /\ mem'[w].op = mem[w].op
        /\ \A v \in Worker : v # w => mem'[v] = mem[v] /\ pc'[v] = pc[v]
    BY <1>2, <1>11 DEF Goto, TypeOK, AgentTypeOK, Memory
  <2>2. mem[w].op = "open"
    BY <1>1, <1>2 DEF ThreadOK, LocksOK, OpsAt, Point
  <2>3. LocksOK(w)' /\ IntentOK(w)'
    BY <2>1, <2>2 DEF LocksOK, IntentOK, Holds, Sends, OpsAt, Point, Editing
  <2>4. LeaseOK(w)' /\ AskOK(w)' /\ ReplyOK(w)'
    BY <1>1, <1>2, <1>7, <1>11, <2>1 DEF LeaseOK, AskOK, ReplyOK
  <2>5. \A v \in Worker : v # w => SameThread(v)
    BY <1>1, <2>1 DEF SameThread, SameHands
  <2>6. Threads'
    BY <1>1, <1>2, <1>7, <1>8, <1>11, <2>3, <2>4, <2>5, AllThreads DEF ThreadOK, Threads
  <2> QED BY <1>9, <2>6
<1> QED BY <1>2, <1>10, <1>11 DEF SetLease, Failed, j

-------------------------------------------------------------------------------
(* The steps of the Hub, the process and the editor.                       *)

\* A thread that waits for r may be answered as long as the answer is true.
LEMMA AnswerStep ==
    ASSUME TypeOK, Threads, NEW r \in net, NEW st \in {"prepared", "published", "released", "confirmed"},
           Answer(r, st),
           st \in {"prepared", "published"} => r.kind \in {"prepare", "publish"},
           st = "published" => /\ r.intent \in Intent
                               /\ reg'[r.intent.id] = [state |-> "published", intent |-> r.intent],
           st = "released" => r.kind = "abandon" /\ guard'.owner # "us",
           \A i \in IntentId : reg[i].state = "published" => reg'[i] = reg[i],
           guard.owner # "us" => guard'.owner # "us"
    PROVE  Threads'
<1> SUFFICES ASSUME NEW v \in Worker PROVE ThreadOK(v)'
  BY DEF Threads
<1>1. UNCHANGED <<journal, task, uplock>> /\ SameHands(v) /\ ThreadOK(v)
  BY DEF Answer, agentVars, SameHands, Threads
<1>2. reply'[v] = reply[v] \/ ReplyOK(v)'
  <2>1. CASE ask[r.from] = r /\ r.from = v
    <3>1. ask[v] # None
      BY <2>1 DEF TypeOK
    <3>2. reply'[v] = [state |-> st, intent |-> r.intent]
      BY <2>1 DEF Answer, TypeOK
    <3>3. AskOK(v)
      BY <1>1 DEF ThreadOK
    <3> QED BY <1>1, <2>1, <3>1, <3>2, <3>3 DEF AskOK, ReplyOK, SameHands, Answer, agentVars
  <2>2. CASE ~(ask[r.from] = r /\ r.from = v)
    BY <2>2 DEF Answer, TypeOK
  <2> QED BY <2>1, <2>2
<1> QED BY <1>1, <1>2, OtherThread DEF Kept

\* The Hub moves intent m, which is still open, to state st.
Decides(m, st) ==
    /\ reg' = [reg EXCEPT ![m.id] = [state |-> st, intent |-> m]]
    /\ file' = IF st = "published" THEN m.content ELSE file
    /\ guard.owner = "us"
    /\ guard'.owner = IF st = "published" /\ m.action # "commit" THEN "free" ELSE "us"

\* What the Hub decides is outstanding.
LEMMA HubDecides ==
    ASSUME TypeOK, OriginInv, NEW r \in net, NEW st \in {"prepared", "published"},
           r.kind \in {"prepare", "publish"},
           IF st = "prepared" THEN Server!HubPrepare(r.intent, 1) ELSE Server!HubPublish(r.intent, 1)
    PROVE  r.intent \in Outstanding /\ Decides(r.intent, st)
<1>1. reg[r.intent.id].state \notin Server!Settled
  BY DEF Server!HubPrepare, Server!HubPublish, Server!Admits
<1>2. Decides(r.intent, st)
  BY DEF Decides, Server!HubPrepare, Server!HubPublish, Server!Admits, Server!Current, TypeOK, Server!HubTypeOK
<1> QED BY <1>1, <1>2 DEF Outstanding

\* Only the pending intent can be decided, and the record still fits afterwards.
LEMMA DecisionStep ==
    ASSUME TypeOK, Record, NEW m \in Outstanding, NEW st \in {"prepared", "published"}, Decides(m, st),
           UNCHANGED <<journal, task, used, handoff>>, net' \subseteq net
    PROVE  Record'
<1> USE DEF Record
<1>1. m \in Intent /\ m.id \in used /\ m.id \in IntentId /\ ~Known(m) /\ journal.pending = m
  BY OutstandingFacts DEF NoForgottenIntent
<1>2. /\ reg'[m.id] = [state |-> st, intent |-> m]
      /\ \A i \in IntentId : i # m.id => reg'[i] = reg[i]
  BY <1>1 DEF Decides, TypeOK, Server!HubTypeOK
\* Whatever bears the id of m is m: while it was open it was outstanding.
<1>3. ASSUME NEW r \in net, r.kind \in {"prepare", "publish"}
      PROVE  /\ r.intent.id \in IntentId
             /\ r.intent.id = m.id => r.intent = m
             /\ reg[r.intent.id].state \notin Server!Settled => r.intent = m
  <2>1. r.intent.id \in IntentId
    BY <1>3 DEF OriginInv, Intent
  <2>2. reg[r.intent.id].state \notin Server!Settled => r.intent = m
    BY <1>1, <1>3 DEF Outstanding, NoForgottenIntent
  <2>3. reg[m.id].state \notin Server!Settled
    <3>1. reg[m.id].state # "cancelled"
      BY <1>1 DEF Outstanding, OriginInv, Server!Settled
    <3> QED BY <1>1, <3>1 DEF Known, Server!Settled
  <2> QED BY <2>1, <2>2, <2>3
<1>4. OriginInv'
  BY <1>1, <1>2, <1>3 DEF OriginInv, Known
<1>5. Outstanding' \subseteq {m}
  <2>1. \A i \in IntentId : reg'[i].state = "prepared" => reg'[i].intent = m
    <3>1. \A i \in IntentId : reg[i].state = "prepared" => reg[i].intent \in Outstanding
      BY DEF Outstanding
    <3> QED BY <1>1, <1>2, <3>1 DEF NoForgottenIntent
  <2>2. \A r \in net' : r.kind \in {"prepare", "publish"} /\ reg'[r.intent.id].state \notin Server!Settled
                           => r.intent = m
    BY <1>2, <1>3
  <2> QED BY <2>1, <2>2 DEF Outstanding
<1>6. NoForgottenIntent'
  BY <1>1, <1>5 DEF NoForgottenIntent
<1>7. RecordInv'
  BY <1>1, <1>2 DEF RecordInv, Known, Decides, ClosedMeansReleased
<1>8. LeaseInv'
  BY DEF LeaseInv, LeaseNeverLost, Kept
<1> QED BY <1>4, <1>6, <1>7, <1>8

\* A step of the Hub that decides no intent and, while the guard is ours, leaves the file alone.
LEMMA OtherHubStep ==
    ASSUME Record, guard'.owner = "us" => guard.owner = "us" /\ file' = file,
           UNCHANGED <<reg, journal, task, used>>, net' \subseteq net,
           handoff' = "erased" => handoff = "erased" \/ Kept
    PROVE  Record'
<1> USE DEF Record
<1>1. Outstanding' \subseteq Outstanding
  BY DEF Outstanding
<1>2. OriginInv'
  BY DEF OriginInv, Known
<1>3. NoForgottenIntent'
  BY <1>1 DEF NoForgottenIntent
<1>4. RecordInv'
  BY DEF RecordInv, Known, ClosedMeansReleased
<1>5. LeaseInv'
  BY DEF LeaseInv, LeaseNeverLost, Kept
<1> QED BY <1>2, <1>3, <1>4, <1>5

\* Requests are answered, and the record and the threads stay in order.
LEMMA HandleStep ==
    ASSUME IInv, TypeOK', NEW r \in net, Handle(r)
    PROVE  Threads' /\ Record'
<1> USE DEF IInv, Threads
<1>1. UNCHANGED <<journal, task, used>> /\ net' \subseteq net
  BY DEF Handle, HandlePrepare, HandlePublish, HandleAbandon, HandleConfirm, Answer, agentVars
<1>2. ASSUME NEW st \in {"prepared", "published"}, r.kind \in {"prepare", "publish"}, Answer(r, st),
             IF st = "prepared" THEN Server!HubPrepare(r.intent, 1) ELSE Server!HubPublish(r.intent, 1),
             UNCHANGED handoff
      PROVE Threads' /\ Record'
  <2> DEFINE m == r.intent
  <2>1. m \in Outstanding /\ Decides(m, st)
    BY <1>2, HubDecides DEF Record
  <2>2. m \in Intent /\ m.id \in IntentId /\ ~Known(m)
    BY <2>1, OutstandingFacts DEF Record
  <2>3. /\ reg'[m.id] = [state |-> st, intent |-> m]
        /\ \A i \in IntentId : reg[i].state = "published" => reg'[i] = reg[i]
    BY <2>1, <2>2 DEF Decides, Known, TypeOK, Server!HubTypeOK
  <2>4. Record'
    BY <1>1, <1>2, <2>1, DecisionStep
  <2>5. guard.owner = "us"
    BY <2>1 DEF Decides
  <2>6. Threads'
    BY <1>2, <2>2, <2>3, <2>5, AnswerStep
  <2> QED BY <2>4, <2>6
<1>3. CASE r.kind = "publish" /\ reg[r.intent.id].state = "published" /\ UNCHANGED hubVars
           /\ Answer(r, "published") /\ UNCHANGED handoff
  <2>1. r.intent \in Intent /\ reg[r.intent.id].intent = r.intent /\ r.intent.id \in IntentId
    BY <1>3 DEF Record, OriginInv, Known, Intent
  <2>2. reg[r.intent.id] = [state |-> "published", intent |-> r.intent]
    BY <1>3, <2>1 DEF TypeOK, Server!HubTypeOK
  <2>3. UNCHANGED <<guard, file, reg>>
    BY <1>3 DEF hubVars
  <2>4. Record'
    BY <1>1, <1>3, <2>3, OtherHubStep
  <2>5. Threads'
    BY <1>3, <2>1, <2>2, <2>3, AnswerStep
  <2> QED BY <2>4, <2>5
<1>4. CASE r.kind = "abandon" /\ HandleAbandon(r)
  <2>1. guard'.owner = "free" /\ UNCHANGED <<reg, file, handoff>> /\ Answer(r, "released")
    BY <1>4 DEF HandleAbandon, Server!HubAbandon, TypeOK, Server!HubTypeOK
  <2>2. Record'
    BY <1>1, <2>1, OtherHubStep
  <2>3. Threads'
    BY <1>4, <2>1, AnswerStep
  <2> QED BY <2>2, <2>3
<1>5. CASE r.kind = "confirm" /\ HandleConfirm(r)
  <2>1. UNCHANGED <<guard, file, reg>> /\ Answer(r, "confirmed") /\ Kept
    BY <1>5 DEF HandleConfirm, hubVars, Record, LeaseInv
  <2>2. Record'
    BY <1>1, <2>1, OtherHubStep
  <2>3. Threads'
    BY <2>1, AnswerStep
  <2> QED BY <2>2, <2>3
<1> QED BY <1>2, <1>3, <1>4, <1>5 DEF Handle, HandlePrepare, HandlePublish

\* Lost requests, other users, the end of the process and a save in the editor.
LEMMA EnvironmentStep ==
    ASSUME IInv, TypeOK',
           \/ \E r \in net : Lose(r)
           \/ Others
           \/ Crash
           \/ \E c \in Content : Save(c)
    PROVE  Threads' /\ Record'
<1> USE DEF IInv, Threads
<1>1. ASSUME NEW r \in net, Lose(r) PROVE Threads' /\ Record'
  <2>1. UNCHANGED <<agentVars, guard, file, reg, handoff, ask, reply>> /\ net' \subseteq net
    BY <1>1 DEF Lose, hubVars
  <2>2. UNCHANGED <<journal, task, used, uplock, pc, mem>>
    BY <2>1 DEF agentVars
  <2>3. Record'
    BY <2>1, <2>2, OtherHubStep
  <2>4. Threads'
    BY <2>1, <2>2, OtherThread DEF SameHands, Kept
  <2> QED BY <2>3, <2>4
<1>2. CASE Others
  <2>1. /\ UNCHANGED <<reg, handoff, ask, reply, net, journal, task, used, uplock, pc, mem>>
        /\ guard'.owner # "us"
    BY <1>2 DEF Others, Server!HubExpire, Server!HubOther, agentVars, netVars, TypeOK, Server!HubTypeOK
  <2>2. Record'
    BY <2>1, OtherHubStep
  <2>3. Threads'
    BY <2>1, OtherThread DEF SameHands, Kept
  <2> QED BY <2>2, <2>3
<1>3. CASE Crash
  <2>1. /\ UNCHANGED <<journal, task, used, guard, file, reg, handoff, net>>
        /\ \A v \in Worker : pc'[v] = "idle" /\ ask'[v] = None /\ reply'[v] = None
    BY <1>3 DEF Crash, AgentCrash, hubVars
  <2>2. Record'
    BY <2>1, OtherHubStep
  <2>3. Threads'
    BY <2>1 DEF ThreadOK, LocksOK, IntentOK, LeaseOK, AskOK, ReplyOK, Holds, Sends
  <2> QED BY <2>2, <2>3
<1>4. ASSUME NEW c \in Content, Save(c) PROVE Threads' /\ Record'
  <2>1. UNCHANGED <<journal, task, used, guard, file, reg, handoff, net, uplock, pc, ask, reply>>
    BY <1>4 DEF Save, Edit, hubVars, netVars
  <2>2. Record'
    BY <2>1, OtherHubStep
  <2>3. ASSUME NEW v \in Worker, pc[v] # "idle"
        PROVE  mem'[v].op = mem[v].op /\ mem'[v].intent = mem[v].intent /\ mem'[v].lease = mem[v].lease
    <3>1. mem[v] \in Memory /\ v \in DOMAIN mem
      BY <2>3 DEF TypeOK, AgentTypeOK
    <3>2. mem' = mem \/ \E w \in Worker : mem' = [mem EXCEPT ![w].snapshot = Torn]
      BY <1>4 DEF Save, Edit
    <3> QED BY <3>1, <3>2 DEF Memory
  <2>4. Threads'
    BY <2>1, <2>3, OtherThread DEF SameHands, Kept
  <2> QED BY <2>2, <2>4
<1> QED BY <1>1, <1>2, <1>3, <1>4

-------------------------------------------------------------------------------
(* Theorems.                                                               *)

\* Nothing has begun: the record is empty and every thread is idle.
LEMMA InitInv ==
    ASSUME Init
    PROVE  IInv
<1> USE DEF Init, AgentInit, Server!HubInit
<1>1. TypeOK
  BY DEF TypeOK, AgentTypeOK, Server!HubTypeOK, Server!IntentState, Journal, Point
<1>2. \A w \in Worker : ThreadOK(w)
  BY DEF ThreadOK, LocksOK, IntentOK, LeaseOK, AskOK, ReplyOK, Holds, Sends
<1>3. OriginInv /\ RecordInv /\ LeaseInv
  BY DEF OriginInv, RecordInv, LeaseInv, ClosedMeansReleased, LeaseNeverLost
<1>4. NoForgottenIntent
  BY DEF NoForgottenIntent, Outstanding
<1> QED BY <1>1, <1>2, <1>3, <1>4 DEF IInv, Record

\* Every step keeps the threads and the record in order.
LEMMA InvStep ==
    ASSUME IInv, [Next]_vars
    PROVE  IInv'
<1>1. TypeOK'
  BY TypeStep
<1> SUFFICES Threads' /\ Record'
  BY <1>1 DEF IInv, Threads
<1>2. ASSUME NEW w \in Worker, Operation(w) \/ GiveUp(w) PROVE Threads' /\ Record'
  BY <1>1, <1>2, QuietStep, SendStep, CapturedStep, ReceiptStep, BaselineStep, ClearStep,
     CloseStep, SetLeaseStep DEF Operation
<1>3. ASSUME NEW r \in net, Handle(r) PROVE Threads' /\ Record'
  BY <1>1, <1>3, HandleStep
<1>4. CASE \/ \E r \in net : Lose(r)
           \/ Others
           \/ Crash
           \/ \E c \in Content : Save(c)
  BY <1>1, <1>4, EnvironmentStep
<1>5. CASE UNCHANGED vars
  <2>1. UNCHANGED <<journal, task, used, guard, file, reg, handoff, net, uplock, pc, mem, ask, reply>>
    BY <1>5 DEF vars, agentVars, hubVars, netVars
  <2>2. Record'
    BY <2>1, OtherHubStep DEF IInv
  <2>3. Threads'
    BY <2>1, OtherThread DEF SameHands, Kept, IInv, Threads
  <2> QED BY <2>2, <2>3
<1> QED BY <1>2, <1>3, <1>4, <1>5 DEF Next

\* The inductive invariant holds in every reachable state: each thread's memory,
\* lock and answers agree with the journal, and the journal with the Hub.
THEOREM InductiveInvariant == Spec => []IInv
<1>1. Init => IInv
  BY InitInv
<1>2. IInv /\ [Next]_vars => IInv'
  BY InvStep
<1> QED BY <1>1, <1>2, PTL DEF Spec

\* Every variable keeps its type.
THEOREM TypeCorrect == Spec => []TypeOK
<1>1. IInv => TypeOK
  BY DEF IInv
<1> QED BY <1>1, InductiveInvariant, PTL

\* An intent the server may still publish is the pending one of the journal,
\* whichever of the threads failed, was late or was killed.
THEOREM NothingForgotten == Spec => []NoForgottenIntent
<1>1. IInv => NoForgottenIntent
  BY DEF IInv, Record
<1> QED BY <1>1, InductiveInvariant, PTL

\* A closed session holds nothing, the lease is never lost, and between two
\* operations the baseline and the lease name the current version.
THEOREM JournalTrue == Spec => []JournalIsTrue
<1>1. IInv => JournalIsTrue
  <2> SUFFICES ASSUME IInv PROVE JournalIsTrue
    OBVIOUS
  <2>1. ClosedMeansReleased /\ LeaseNeverLost
    BY DEF IInv, Record, RecordInv, LeaseInv
  <2>2. BaseIsCurrent
    BY DEF IInv, Record, RecordInv, BaseIsCurrent
  <2> QED BY <2>1, <2>2 DEF JournalIsTrue
<1> QED BY <1>1, InductiveInvariant, PTL

\* A pending intent has the base of the stored lease: recover is never refused for it.
THEOREM RecoverProceeds == Spec => []RecoverCanProceed
<1>1. IInv => RecoverCanProceed
  BY DEF IInv, Record, RecordInv, RecoverCanProceed
<1> QED BY <1>1, InductiveInvariant, PTL

-------------------------------------------------------------------------------
(* Refinement.  Captured is Approve, the Hub's publication is Publish, and  *)
(* Clear is Settle; every other step leaves both variables alone.           *)

PublishedSet == {reg[i].intent : i \in {j \in IntentId : reg[j].state = "published"}}

pubVars == <<journal.pending, PublishedSet>>

\* What is published is filed under its own drawn id.
LEMMA PublishedFacts ==
    ASSUME OriginInv, NEW m \in PublishedSet
    PROVE  m \in Intent /\ m.id \in used /\ Known(m)
<1>1. PICK i \in IntentId : reg[i].state = "published" /\ m = reg[i].intent
  BY DEF PublishedSet
<1> QED BY <1>1 DEF OriginInv, Known

\* A thread records an intent, or clears one, or leaves the record alone.
LEMMA RefineThread ==
    ASSUME IInv, NEW w \in Worker, Operation(w) \/ GiveUp(w)
    PROVE  [Pub!Next]_pubVars
<1> USE DEF IInv, pubVars, TypeOK, AgentTypeOK
<1>1. PublishedSet' = PublishedSet
  <2>1. UNCHANGED reg
    BY ZenonT(60)
       DEF Operation, GiveUp, Begin, Commit, Capture, Captured, Prepare, Publish, Published,
           RecoverAccept, RecoverResend, Baseline, Clear, Release, Close, Open, SetLease, Confirm,
           Acknowledge, hubVars
  <2> QED BY <2>1 DEF PublishedSet
<1>2. CASE journal'.pending = journal.pending
  BY <1>1, <1>2
<1>3. ASSUME NEW i \in IntentId, Captured(w, i) PROVE [Pub!Next]_pubVars
  <2> DEFINE m == [id |-> i, content |-> mem[w].snapshot, expected |-> task, action |-> mem[w].op]
             j == [journal EXCEPT !.pending = m]
  <2>1. pc[w] = "reading" /\ mem[w].snapshot = copy /\ i \notin used /\ journal' \in {j, journal}
    BY <1>3 DEF Captured, CaptureSave, Failed
  <2>2. Holds(w) /\ ~Sends(w) /\ mem[w].op \in {"commit", "checkin"}
    BY <2>1 DEF ThreadOK, LocksOK, Holds, Sends, OpsAt, Point
  <2>3. journal.pending = NoIntent
    BY <2>2 DEF ThreadOK, IntentOK
  <2>4. m \in Intent /\ m.id = i
    BY <2>1, <2>2 DEF Intent
  <2>5. j.pending = m
    <3> HIDE DEF m
    <3> QED BY DEF Journal
  <2> HIDE DEF m, j
  <2>6. journal.pending \notin PublishedSet /\ \A b \in PublishedSet : b.id # m.id
    BY <2>1, <2>3, <2>4, PublishedFacts DEF Record
  <2>7. CASE journal' = j
    <3>1. Pub!Approve(m)
      BY <1>1, <2>5, <2>6, <2>7 DEF Pub!Approve, PublishedSet
    <3> QED BY <2>4, <3>1 DEF Pub!Next
  <2> QED BY <1>2, <2>1, <2>7
<1>4. CASE Clear(w)
  <2>1. journal' = journal \/ journal'.pending = NoIntent
    BY <1>4 DEF Clear, AcceptClear, Failed, Journal
  <2>2. CASE journal'.pending = NoIntent /\ journal.pending # NoIntent
    BY <1>1, <2>2 DEF Pub!Next, Pub!Settle, PublishedSet
  <2> QED BY <1>2, <2>1, <2>2
<1>5. CASE Published(w) \/ Close(w) \/ SetLease(w) \/ Acknowledge(w)
  <2>1. \/ journal' = journal
        \/ \E m : journal' = [journal EXCEPT !.receipt = m]
        \/ journal' = [journal EXCEPT !.closed = TRUE, !.lease = None, !.ack = FALSE]
        \/ journal' = [journal EXCEPT !.lease = mem[w].lease]
        \/ journal' = [journal EXCEPT !.ack = TRUE]
    BY <1>5 DEF Published, AcceptReceipt, Close, SetLease, Acknowledge, Failed
  <2>2. journal'.pending = journal.pending
    BY <2>1 DEF Journal
  <2> QED BY <1>2, <2>2
<1>6. \/ UNCHANGED journal
      \/ \E i \in IntentId : Captured(w, i)
      \/ Clear(w) \/ Published(w) \/ Close(w) \/ SetLease(w) \/ Acknowledge(w)
  BY ZenonT(60)
     DEF Operation, GiveUp, Begin, Commit, Capture, CaptureRead, Prepare, Publish, RecoverAccept,
         RecoverResend, Baseline, AcceptBaseline, Release, Open, Confirm
<1> QED BY <1>2, <1>3, <1>4, <1>5, <1>6

\* A decision of the Hub publishes the intent on record, or changes nothing.
LEMMA RefineDecision ==
    ASSUME IInv, NEW m \in Outstanding, NEW st \in {"prepared", "published"}, Decides(m, st),
           UNCHANGED journal
    PROVE  [Pub!Next]_pubVars
<1> USE DEF IInv, pubVars, Record
<1>1. m \in Intent /\ m.id \in IntentId /\ ~Known(m) /\ journal.pending = m
  BY OutstandingFacts DEF NoForgottenIntent
<1>2. /\ reg'[m.id] = [state |-> st, intent |-> m]
      /\ \A i \in IntentId : i # m.id => reg'[i] = reg[i]
  BY <1>1 DEF Decides, TypeOK, Server!HubTypeOK
<1>3. PublishedSet' = IF st = "published" THEN PublishedSet \cup {m} ELSE PublishedSet
  <2>1. \A i \in IntentId : reg'[i].state = "published" <=>
            IF i = m.id THEN st = "published" ELSE reg[i].state = "published"
    BY <1>2
  <2> QED BY <1>1, <1>2, <2>1 DEF PublishedSet, Known
<1>4. m \notin PublishedSet
  BY <1>1, PublishedFacts
<1>5. CASE st = "published"
  BY <1>1, <1>3, <1>4, <1>5 DEF Pub!Next, Pub!Publish, PublishedSet
<1>6. CASE st # "published"
  BY <1>3, <1>6
<1> QED BY <1>5, <1>6

\* Every step of the threads, the network and the Hub is a step of Publication or none.
LEMMA RefineStep ==
    ASSUME IInv, [Next]_vars
    PROVE  [Pub!Next]_pubVars
<1>1. CASE UNCHANGED <<reg, journal>>
  BY <1>1 DEF pubVars, PublishedSet
<1>2. ASSUME NEW r \in net, Handle(r) PROVE [Pub!Next]_pubVars
  <2>1. UNCHANGED journal
    BY <1>2 DEF Handle, HandlePrepare, HandlePublish, HandleAbandon, HandleConfirm, Answer, agentVars
  <2>2. ASSUME NEW st \in {"prepared", "published"}, r.kind \in {"prepare", "publish"},
               IF st = "prepared" THEN Server!HubPrepare(r.intent, 1) ELSE Server!HubPublish(r.intent, 1)
        PROVE [Pub!Next]_pubVars
    BY <2>1, <2>2, HubDecides, RefineDecision DEF IInv, Record
  <2>3. \/ UNCHANGED reg
        \/ r.kind = "prepare" /\ Server!HubPrepare(r.intent, 1)
        \/ r.kind = "publish" /\ Server!HubPublish(r.intent, 1)
    BY <1>2 DEF Handle, HandlePrepare, HandlePublish, HandleAbandon, HandleConfirm, hubVars,
                Server!HubAbandon
  <2> QED BY <1>1, <2>1, <2>2, <2>3
<1>3. ASSUME NEW w \in Worker, Operation(w) \/ GiveUp(w) PROVE [Pub!Next]_pubVars
  BY <1>3, RefineThread
<1>4. \/ UNCHANGED <<reg, journal>>
      \/ \E w \in Worker : Operation(w) \/ GiveUp(w)
      \/ \E r \in net : Handle(r)
  BY DEF Next, Crash, AgentCrash, Save, Edit, Lose, Others, Server!HubExpire, Server!HubOther,
         vars, agentVars, hubVars
<1> QED BY <1>1, <1>2, <1>3, <1>4

\* The task journal implements Publication: a captured version is published at most
\* once, unchanged, and only while the journal has it on record.
THEOREM RefinesPublication == Spec => ImplementsPublication
<1>1. Init => Pub!Init
  BY DEF Init, AgentInit, Server!HubInit, Pub!Init
<1>2. IInv /\ [Next]_vars => [Pub!Next]_<<journal.pending, {reg[i].intent : i \in {j \in IntentId : reg[j].state = "published"}}>>
  BY RefineStep DEF pubVars, PublishedSet
<1> QED BY <1>1, <1>2, InductiveInvariant, PTL DEF Spec, ImplementsPublication, Pub!Spec
================================================================================
