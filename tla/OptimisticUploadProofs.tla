------------------------- MODULE OptimisticUploadProofs -------------------------
(***************************************************************************)
(* The safety of OptimisticUpload, for any number of windows, ids and      *)
(* requests.  As for the exclusive task, an invariant on each thread       *)
(* (ThreadOK) and one on the record (OriginInv, NoForgottenIntent,         *)
(* BaselineFollowsReceipt) carry each other: upload.lock keeps a thread's  *)
(* intent the pending one, and what the server knows decides which of the  *)
(* three writes of accept may still be missing.  From both follow the      *)
(* safety properties, the promise that the observer sends nothing twice,   *)
(* and the refinement of Publication.                                      *)
(***************************************************************************)
EXTENDS OptimisticUpload, TLAPS

USE AgentAssumption, IntentAssumption, ObserverAssumption, ActionsAssumption, NoneAssumption

\* The server has published intent m.
Known(m) == reg[m.id].state = "published"

\* Threads with an operation, those under upload.lock, and those with an intent in hand.
Busy(w) == pc[w] \notin {"idle", "confirm", "pause"}
Holds(w) == pc[w] \in {"capture", "reading", "send", "await", "baseline", "clear"}
Sends(w) == pc[w] \in {"send", "await", "baseline", "clear"}

LocksOK(w) ==
    /\ Busy(w) => /\ mem[w] \in Memory
                  /\ mem[w].op \in {"save", "query", "auto"}
                  /\ mem[w].op = "auto" <=> w = Observer
    /\ Holds(w) => uplock = w

\* The intent in hand is the pending one; the observer's has never been sent.
IntentOK(w) ==
    /\ Sends(w) => mem[w].intent = journal.pending /\ journal.pending # NoIntent
    /\ Holds(w) /\ ~Sends(w) => journal.pending = NoIntent
    /\ pc[w] \in {"baseline", "clear"} => Known(journal.pending) /\ journal.receipt = journal.pending
    /\ pc[w] = "clear" => task = journal.pending.content
    /\ pc[w] = "send" /\ w = Observer => journal.pending.id \notin sent

WaitOK(w) ==
    /\ pc[w] # "await" => ask[w] = None /\ reply[w] = None
    /\ reply[w] # None => reg[reply[w].id] = [state |-> "published", intent |-> reply[w]]

ThreadOK(w) == LocksOK(w) /\ IntentOK(w) /\ WaitOK(w)

\* Every intent comes from a capture, and an id names one intent only.
OriginInv ==
    /\ \A i \in IntentId : reg[i].state # "not-found" =>
         i \in used /\ reg[i].intent \in Intent /\ reg[i].intent.id = i
    /\ journal.pending # NoIntent =>
         /\ journal.pending.id \in used
         /\ Known(journal.pending) => reg[journal.pending.id].intent = journal.pending
    /\ \A r \in net : /\ r.intent.id \in used
                      /\ Known(r.intent) => reg[r.intent.id].intent = r.intent
    /\ sent \subseteq used

Record == OriginInv /\ NoForgottenIntent /\ BaselineFollowsReceipt

Threads == \A w \in Worker : ThreadOK(w)

IInv == TypeOK /\ Threads /\ Record

-------------------------------------------------------------------------------
(* Types.                                                                  *)

\* A return keeps the types, whatever comes next.
LEMMA ReturnType ==
    ASSUME AgentTypeOK, NEW w \in Worker, NEW p \in {"idle", "confirm", "pause"}, Return(w, p)
    PROVE  /\ pc' = [pc EXCEPT ![w] = p]
           /\ pc' \in [Worker -> Point]
           /\ mem' \in [Worker -> Memory \cup {None}]
           /\ \A v \in Worker : v # w => mem'[v] = mem[v]
           /\ uplock' \in Worker \cup {None}
           /\ oplock' \in Worker \cup {None}
  BY DEF AgentTypeOK, Return, Goto, Without, Point

\* Where an operation goes after a success and after an error.
LEMMA WhatIsNext ==
    ASSUME NEW w \in Worker
    PROVE  Done(w) \in {"idle", "confirm"} /\ Fail(w) \in {"idle", "pause"}
  BY DEF Done, Fail

\* Answers withdrawn, or left alone, keep their types.
LEMMA QuietType ==
    ASSUME TypeOK, NEW w \in Worker, Quiet(w) \/ UNCHANGED <<ask, reply>>
    PROVE  ask' \in [Worker -> Request \cup {None}] /\ reply' \in [Worker -> Intent \cup {None}]
  BY DEF TypeOK, Quiet

\* Steps of one thread that leave the journal, the task and the server alone.
LEMMA TypeQuiet ==
    ASSUME IInv, NEW w \in Worker,
           \/ \E op \in {"save", "query"} : Begin(w, op)
           \/ SaveNew(w) \/ SaveNothing(w) \/ Capture(w) \/ Changing(w) \/ Retry(w) \/ GiveUp(w)
    PROVE  TypeOK'
<1> USE DEF IInv, TypeOK, AgentTypeOK
<1>1. ASSUME NEW op \in {"save", "query"}, Begin(w, op) PROVE TypeOK'
  <2>1. Local(op) \in Memory
    BY DEF Local, Memory, Op
  <2> QED BY <1>1, <2>1 DEF Begin, Goto, Point, serverVars, autoVars, netVars
<1>2. CASE SaveNew(w)
  BY <1>2 DEF SaveNew, Goto, Point, serverVars, autoVars, netVars
<1>3. CASE SaveNothing(w) \/ Changing(w)
  BY <1>3, ReturnType DEF SaveNothing, Changing, serverVars, autoVars, netVars
<1>4. CASE Capture(w)
  <2>1. mem[w] \in Memory
    BY <1>4 DEF Capture, CaptureRead, Threads, ThreadOK, LocksOK, Busy
  <2>2. mem'[w] \in Memory
    BY <1>4, <2>1 DEF Capture, CaptureRead, Memory
  <2> QED BY <1>4, <2>2 DEF Capture, CaptureRead, Goto, Point, serverVars, autoVars, netVars
<1>5. CASE Retry(w)
  <2> DEFINE known == reg[journal.pending.id].state = "published"
  <2>1. mem[w] \in Memory /\ journal.pending \in Intent
    BY <1>5 DEF Retry, Threads, ThreadOK, LocksOK, Busy, Journal
  <2>2. mem' = [mem EXCEPT ![w].intent = journal.pending]
    BY <1>5 DEF Retry
  <2>3. mem'[w] \in Memory /\ mem'[w].intent = journal.pending
        /\ \A v \in Worker : v # w => mem'[v] = mem[v]
    BY <2>1, <2>2 DEF Memory
  <2>4. mem' \in [Worker -> Memory \cup {None}]
    BY <2>2, <2>3
  <2>5. /\ reply' \in [Worker -> Intent \cup {None}]
        /\ pc' \in [Worker -> Point] /\ \A v \in Worker : v # w => pc'[v] = pc[v]
    BY <1>5, <2>1 DEF Retry, Goto, Point
  <2>6. uplock' = w /\ UNCHANGED <<journal, task, copy, oplock, used, file, reg, settings, seen, ask, net, sent>>
    BY <1>5 DEF Retry, serverVars, autoVars
  <2> QED BY <2>1, <2>3, <2>4, <2>5, <2>6
<1>6. CASE GiveUp(w)
  BY <1>6, ReturnType, WhatIsNext DEF GiveUp, Quiet, serverVars, autoVars
<1> QED BY <1>1, <1>2, <1>3, <1>4, <1>5, <1>6

\* Steps that change the settings or the observation.
LEMMA TypeAuto ==
    ASSUME IInv,
           \/ Observe
           \/ \E w \in Worker : Confirmed(w) \/ Pause(w)
           \/ \E b \in BOOLEAN : SetEnabled(b)
    PROVE  TypeOK'
<1> USE DEF IInv, TypeOK, AgentTypeOK
<1>1. ASSUME NEW w \in Worker, Confirmed(w) \/ Pause(w) PROVE TypeOK'
  <2>1. /\ settings' \in {settings, [settings EXCEPT !.paused = FALSE], [settings EXCEPT !.paused = TRUE]}
        /\ pc[w] \in {"confirm", "pause"} /\ pc' = [pc EXCEPT ![w] = "idle"]
        /\ UNCHANGED <<journal, task, copy, uplock, oplock, mem, used, file, reg, seen, ask, reply, net, sent>>
    BY <1>1 DEF Confirmed, Pause, Note, Goto, serverVars, netVars
  <2>2. settings' \in [enabled : BOOLEAN, paused : BOOLEAN]
    BY <2>1
  <2>3. pc' \in [Worker -> Point]
    BY <2>1 DEF Point
  <2> QED BY <2>1, <2>2, <2>3
<1>2. ASSUME NEW b \in BOOLEAN, SetEnabled(b) PROVE TypeOK'
  BY <1>2 DEF SetEnabled, agentVars, serverVars, netVars
<1>3. CASE Scan(Observer)
  <2>1. [Local("auto") EXCEPT !.baseline = task] \in Memory
    BY DEF Local, Memory, Op
  <2> QED BY <1>3, <2>1 DEF Scan, Goto, Point, serverVars, netVars
<1>4. CASE Unreadable(Observer) \/ Unsettled(Observer)
  BY <1>4, ReturnType DEF Unreadable, Unsettled, serverVars, netVars
<1>5. CASE Settled(Observer)
  <2>1. mem[Observer] \in Memory
    BY <1>5 DEF Settled, Threads, ThreadOK, LocksOK, Busy
  <2>2. [mem[Observer] EXCEPT !.baseline = None, !.observed = copy] \in Memory
    BY <2>1 DEF Memory
  <2>3. mem' \in [Worker -> Memory \cup {None}] /\ \A v \in Worker : v # Observer => mem'[v] = mem[v]
    BY <1>5, <2>2 DEF Settled
  <2> QED BY <1>5, <2>3 DEF Settled, Goto, Point, serverVars, netVars
<1> QED BY <1>1, <1>2, <1>3, <1>4, <1>5 DEF Observe

\* The request for an intent, and the writes of capture and accept.
LEMMA TypeWrite ==
    ASSUME IInv, NEW w \in Worker,
           \/ \E i \in IntentId : Captured(w, i)
           \/ Publish(w) \/ Published(w) \/ Baseline(w) \/ Clear(w)
    PROVE  TypeOK'
<1> USE DEF IInv, TypeOK, AgentTypeOK
<1> DEFINE Frame == /\ journal' \in Journal
                    /\ task' \in Content
                    /\ used' \subseteq IntentId
                    /\ UNCHANGED <<copy, file, reg, settings, seen, net, sent>>
<1>0. /\ mem[w] \in Memory
      /\ Sends(w) => mem[w].intent \in Intent /\ mem[w].intent.id \in IntentId
                                              /\ mem[w].intent.content \in Content
  <2>1. Busy(w)
    BY DEF Captured, CaptureSave, Publish, Published, Baseline, AcceptBaseline, Clear, AcceptClear, Busy
  <2>2. Sends(w) => mem[w].intent \in Intent
    BY DEF Sends
  <2> QED BY <2>1, <2>2 DEF Threads, ThreadOK, LocksOK, Intent
<1>1. ASSUME Frame, NEW p \in {"idle", "confirm", "pause"}, Return(w, p),
             Quiet(w) \/ UNCHANGED <<ask, reply>>
      PROVE TypeOK'
  BY <1>1, ReturnType, QuietType
<1>2. ASSUME NEW i \in IntentId, Captured(w, i) PROVE TypeOK'
  <2> DEFINE m == [id |-> i, content |-> mem[w].snapshot, expected |-> task,
                   action |-> "optimistic-update"]
             j == [journal EXCEPT !.pending = m]
  <2>1. m \in Intent
    BY <1>2 DEF Captured, CaptureSave, Intent
  <2>2. j \in Journal
    <3> HIDE DEF m
    <3> QED BY <2>1 DEF Journal
  <2>3. Frame /\ UNCHANGED <<ask, reply>>
    BY <1>2, <2>2 DEF Captured, CaptureSave, Failed, serverVars, autoVars, netVars
  <2>4. CASE Return(w, Fail(w))
    BY <1>1, <2>3, <2>4, WhatIsNext
  <2>5. CASE /\ mem' = [mem EXCEPT ![w].intent = m, ![w].snapshot = None]
             /\ oplock' = None /\ Goto(w, "send") /\ UNCHANGED uplock
    <3> HIDE DEF m
    <3> DEFINE x == [mem[w] EXCEPT !.intent = m, !.snapshot = None]
    <3>1. x \in Memory /\ x.intent = m
      BY <1>0, <2>1 DEF Memory
    <3>2. mem'[w] = x /\ \A v \in Worker : v # w => mem'[v] = mem[v]
      BY <1>0, <2>5
    <3> HIDE DEF x, j
    <3>3. mem' \in [Worker -> Memory \cup {None}]
      BY <2>5, <3>1, <3>2
    <3> QED BY <2>1, <2>3, <2>5, <3>1, <3>2, <3>3 DEF Goto, Point
  <2> QED BY <1>2, <2>4, <2>5 DEF Captured, CaptureSave, Failed
<1>3. CASE Publish(w)
  <2> DEFINE r == [from |-> w, intent |-> mem[w].intent]
  <2>1. r \in Request /\ mem[w].intent.id \in IntentId
    BY <1>0, <1>3 DEF Publish, Request, Sends
  <2>2. /\ net' = net \cup {r} /\ ask' = [ask EXCEPT ![w] = r] /\ sent' = sent \cup {mem[w].intent.id}
        /\ pc' = [pc EXCEPT ![w] = "await"] /\ pc[w] = "send"
        /\ UNCHANGED <<journal, task, copy, uplock, oplock, mem, used, file, reg, settings, seen, reply>>
    BY <1>3 DEF Publish, Goto, serverVars, autoVars
  <2> HIDE DEF r
  <2> QED BY <2>1, <2>2 DEF Point
<1>4. CASE Published(w)
  <2> DEFINE m == reply[w]
             j == [journal EXCEPT !.receipt = m]
  <2>1. m \in Intent
    BY <1>4 DEF Published
  <2>2. j \in Journal
    BY <2>1 DEF Journal
  <2>3. Frame /\ Quiet(w)
    BY <1>4, <2>2 DEF Published, AcceptReceipt, Failed, serverVars, autoVars
  <2>4. CASE Return(w, Fail(w))
    BY <1>1, <2>3, <2>4, WhatIsNext
  <2>5. CASE /\ oplock' = w /\ Goto(w, "baseline") /\ UNCHANGED uplock
             /\ mem' = [mem EXCEPT ![w].intent = m]
    <3> DEFINE x == [mem[w] EXCEPT !.intent = m]
    <3>1. x \in Memory /\ x.intent = m
      BY <1>0, <2>1 DEF Memory
    <3>2. mem'[w] = x /\ \A v \in Worker : v # w => mem'[v] = mem[v]
      BY <1>0, <2>5
    <3> HIDE DEF x, j
    <3>3. mem' \in [Worker -> Memory \cup {None}]
      BY <2>5, <3>1, <3>2
    <3>4. ask' \in [Worker -> Request \cup {None}] /\ reply' \in [Worker -> Intent \cup {None}]
      BY <2>3, QuietType
    <3> QED BY <2>1, <2>3, <2>5, <3>1, <3>2, <3>3, <3>4 DEF Goto, Point
  <2> QED BY <1>4, <2>4, <2>5 DEF Published, AcceptReceipt, Failed
<1>5. CASE Baseline(w)
  <2>1. Frame /\ UNCHANGED <<ask, reply>>
    BY <1>0, <1>5 DEF Baseline, AcceptBaseline, Failed, Sends, serverVars, autoVars, netVars
  <2>2. CASE pc[w] = "baseline" /\ Goto(w, "clear") /\ UNCHANGED <<mem, uplock, oplock>>
    BY <2>1, <2>2 DEF Goto, Point
  <2>3. CASE Return(w, Fail(w))
    BY <1>1, <2>1, <2>3, WhatIsNext
  <2> QED BY <1>5, <2>2, <2>3 DEF Baseline, AcceptBaseline, Failed
<1>6. CASE Clear(w)
  <2> DEFINE in == mem[w].intent.action = "checkin"
             a == IF in THEN FALSE ELSE journal.ack
             l == IF in \/ journal.lease = None THEN None ELSE mem[w].intent.content
             j == [journal EXCEPT !.pending = NoIntent, !.closed = in, !.ack = a, !.lease = l]
  <2>1. in \in BOOLEAN /\ a \in BOOLEAN /\ l \in Content \cup {None}
    BY <1>0, <1>6 DEF Clear, AcceptClear, Sends, Journal
  <2>2. journal' \in {j, journal}
    BY <1>6 DEF Clear, AcceptClear, Failed
  <2> HIDE DEF in, a, l
  <2>3. j \in Journal
    BY <2>1 DEF Journal
  <2>4. Frame /\ UNCHANGED <<ask, reply>>
    BY <1>6, <2>2, <2>3 DEF Clear, AcceptClear, serverVars, autoVars, netVars
  <2>5. \E p \in {"idle", "confirm", "pause"} : Return(w, p)
    BY <1>6, WhatIsNext DEF Clear, AcceptClear, Failed
  <2> QED BY <1>1, <2>4, <2>5
<1> QED BY <1>2, <1>3, <1>4, <1>5, <1>6

\* Every step keeps the types.
LEMMA TypeStep ==
    ASSUME IInv, [Next]_vars
    PROVE  TypeOK'
<1> USE DEF IInv, TypeOK, AgentTypeOK
<1>1. ASSUME NEW w \in Worker, Operation(w) \/ GiveUp(w) PROVE TypeOK'
  BY <1>1, TypeQuiet, TypeWrite, TypeAuto DEF Operation
<1>2. CASE Observe \/ \E b \in BOOLEAN : SetEnabled(b)
  BY <1>2, TypeAuto
<1>3. CASE Crash
  BY <1>3 DEF Crash, AgentCrash, Point, serverVars
<1>4. ASSUME NEW c \in Content, Save(c) PROVE TypeOK'
  <2>1. /\ UNCHANGED <<journal, task, uplock, oplock, pc, used, file, reg, settings, seen, ask, reply, net, sent>>
        /\ copy' = c
    BY <1>4 DEF Save, Edit, serverVars, autoVars, netVars
  <2>2. mem' \in [Worker -> Memory \cup {None}]
        /\ \A w \in Worker : Busy(w) => mem'[w].intent = mem[w].intent
    <3>1. CASE mem' = mem
      BY <3>1
    <3>2. ASSUME NEW w \in Worker, pc[w] = "reading", mem' = [mem EXCEPT ![w].snapshot = Torn]
          PROVE  mem' \in [Worker -> Memory \cup {None}]
                 /\ \A v \in Worker : Busy(v) => mem'[v].intent = mem[v].intent
      <4>1. mem[w] \in Memory
        BY <3>2 DEF Threads, ThreadOK, LocksOK, Busy
      <4>2. mem'[w] \in Memory /\ mem'[w].intent = mem[w].intent
        BY <3>2, <4>1 DEF Memory
      <4> QED BY <3>2, <4>2
    <3> QED BY <1>4, <3>1, <3>2 DEF Save, Edit
  <2> QED BY <2>1, <2>2 DEF Busy
<1>5. ASSUME NEW c \in Content, Others(c) PROVE TypeOK'
  BY <1>5 DEF Others, agentVars, autoVars, netVars
<1>6. ASSUME NEW r \in net, HandlePublish(r) PROVE TypeOK'
  <2>1. r.from \in Worker /\ r.intent \in Intent /\ r.intent.id \in IntentId /\ r.intent.content \in Content
    BY DEF Request, Intent
  <2>2. UNCHANGED <<agentVars, autoVars, ask, sent>> /\ net' \subseteq Request
    BY <1>6 DEF HandlePublish, Answer
  <2>3. file' \in Content /\ reg' \in [IntentId -> [state : {"not-found", "prepared", "published"},
                                                     intent : Intent \cup {NoIntent}]]
    BY <1>6, <2>1 DEF HandlePublish, serverVars
  <2>4. PICK m \in Intent : Answer(r, m)
    <3>1. Known(r.intent) => reg[r.intent.id].intent \in Intent
      BY <2>1 DEF Record, OriginInv, Known
    <3> QED BY <1>6, <2>1, <3>1 DEF HandlePublish, Known
  <2>5. reply' \in [Worker -> Intent \cup {None}]
    BY <2>4 DEF Answer
  <2> QED BY <2>2, <2>3, <2>5 DEF agentVars, autoVars
<1>7. ASSUME NEW r \in net, Stall(r) \/ Lose(r) PROVE TypeOK'
  <2>1. r.intent \in Intent /\ r.intent.id \in IntentId
    BY DEF Request, Intent
  <2> QED BY <1>7, <2>1 DEF Stall, Lose, agentVars, autoVars, serverVars
<1>8. CASE UNCHANGED vars
  BY <1>8 DEF vars, agentVars, serverVars, autoVars, netVars
<1> QED BY <1>1, <1>2, <1>3, <1>4, <1>5, <1>6, <1>7, <1>8 DEF Next

-------------------------------------------------------------------------------
(* The threads.                                                            *)

\* What thread v holds and remembers is the same, up to the snapshot that an edit can spoil.
SameHands(v) ==
    /\ pc'[v] = pc[v] /\ ask'[v] = ask[v]
    /\ Busy(v) => /\ mem'[v] \in Memory
                  /\ mem'[v].op = mem[v].op
                  /\ mem'[v].intent = mem[v].intent

\* A step of somebody else leaves thread v in order: it may not touch what v guards
\* with upload.lock, and what is published stays so.
LEMMA OtherThread ==
    ASSUME TypeOK, NEW v \in Worker, ThreadOK(v), SameHands(v),
           \/ reply'[v] = reply[v]
           \/ pc[v] = "await" /\ reg'[reply'[v].id] = [state |-> "published", intent |-> reply'[v]],
           Holds(v) => /\ uplock' = uplock
                       /\ journal'.pending = journal.pending
                       /\ journal'.receipt = journal.receipt
                       /\ task' = task
                       /\ sent' = sent,
           \A i \in IntentId : reg[i].state = "published" => reg'[i] = reg[i]
    PROVE  ThreadOK(v)'
<1> USE DEF ThreadOK, SameHands
<1>1. LocksOK(v)'
  BY DEF LocksOK, Busy, Holds
<1>2. IntentOK(v)'
  <2>1. Sends(v) => Holds(v) /\ journal.pending.id \in IntentId
    BY DEF IntentOK, Sends, Holds, TypeOK, AgentTypeOK, Journal, Intent
  <2> QED BY <2>1 DEF IntentOK, Known, Sends, Holds, Busy
<1>3. WaitOK(v)'
  <2>1. reply[v] # None => reply[v].id \in IntentId
    BY DEF TypeOK, Intent
  <2> QED BY <2>1 DEF WaitOK
<1> QED BY <1>1, <1>2, <1>3

\* A step of thread w leaves all threads in order.
LEMMA AllThreads ==
    ASSUME TypeOK, Threads, NEW w \in Worker, ThreadOK(w)',
           \A v \in Worker : v # w => SameHands(v) /\ reply'[v] = reply[v],
           uplock \notin {None, w} => /\ uplock' = uplock
                                     /\ journal'.pending = journal.pending
                                     /\ journal'.receipt = journal.receipt
                                     /\ task' = task
                                     /\ sent' = sent,
           UNCHANGED reg
    PROVE  Threads'
<1> SUFFICES ASSUME NEW v \in Worker, v # w PROVE ThreadOK(v)'
  BY DEF Threads
<1>1. Holds(v) => uplock \notin {None, w}
  BY DEF Threads, ThreadOK, LocksOK
<1> QED BY <1>1, OtherThread DEF Threads

\* A step of thread w that returns, whatever it wrote, leaves all threads in order.
LEMMA ReturnStep ==
    ASSUME TypeOK, Threads, NEW w \in Worker, NEW p \in {"idle", "confirm", "pause"}, Return(w, p),
           ask'[w] = None, reply'[w] = None,
           \A v \in Worker : v # w => ask'[v] = ask[v] /\ reply'[v] = reply[v],
           uplock \notin {None, w} => /\ journal'.pending = journal.pending
                                     /\ journal'.receipt = journal.receipt
                                     /\ task' = task,
           UNCHANGED <<reg, sent>>
    PROVE  Threads'
<1>1. /\ pc'[w] = p /\ uplock' = Without(uplock, w)
      /\ \A v \in Worker : v # w => mem'[v] = mem[v] /\ pc'[v] = pc[v]
  BY DEF Return, Goto, TypeOK, AgentTypeOK
<1>2. ThreadOK(w)'
  BY <1>1 DEF ThreadOK, LocksOK, IntentOK, WaitOK, Busy, Holds, Sends
<1>3. \A v \in Worker : v # w => SameHands(v)
  BY <1>1 DEF SameHands, Threads, ThreadOK, LocksOK
<1> QED BY <1>1, <1>2, <1>3, AllThreads DEF Without

-------------------------------------------------------------------------------
(* The record.                                                             *)

\* What can still be published is filed under a drawn id and not published.
LEMMA OutstandingFacts ==
    ASSUME TypeOK, OriginInv, NEW m \in Outstanding
    PROVE  m \in Intent /\ m.id \in used /\ m.id \in IntentId /\ ~Known(m)
<1>1. CASE \E i \in IntentId : reg[i].state = "prepared" /\ m = reg[i].intent
  BY <1>1 DEF OriginInv, Known, Intent
<1>2. CASE \E r \in net : m = r.intent /\ reg[r.intent.id].state # "published"
  BY <1>2 DEF OriginInv, Known, Intent, TypeOK, Request
<1> QED BY <1>1, <1>2 DEF Outstanding

\* Nothing is on its way while nothing is pending, or after it was published.
LEMMA NothingOutstanding ==
    ASSUME TypeOK, OriginInv, NoForgottenIntent,
           journal.pending = NoIntent \/ Known(journal.pending)
    PROVE  Outstanding = {}
  BY OutstandingFacts DEF NoForgottenIntent

\* A step that changes neither journal nor task, and sends at most the pending intent.
LEMMA QuietRecord ==
    ASSUME TypeOK, Record, UNCHANGED <<journal, task, used, reg>>,
           \A r \in net' : r \in net \/ (r.intent = journal.pending /\ journal.pending # NoIntent),
           sent' \subseteq used
    PROVE  Record'
<1> USE DEF Record
<1>1. OriginInv'
  BY DEF OriginInv, Known
<1>2. \A m \in Outstanding' : m \in Outstanding \/ m = journal.pending
  BY DEF Outstanding
<1>3. NoForgottenIntent'
  BY <1>2 DEF NoForgottenIntent
<1>4. BaselineFollowsReceipt'
  BY DEF BaselineFollowsReceipt
<1> QED BY <1>1, <1>3, <1>4

-------------------------------------------------------------------------------
(* The steps of a thread.                                                  *)

\* Steps of a thread that write neither the journal nor the task and send nothing.
LEMMA QuietStep ==
    ASSUME IInv, TypeOK', NEW w \in Worker,
           \/ \E op \in {"save", "query"} : Begin(w, op)
           \/ SaveNew(w) \/ SaveNothing(w) \/ Capture(w) \/ Changing(w) \/ Retry(w) \/ GiveUp(w)
           \/ Confirmed(w) \/ Pause(w)
           \/ w = Observer /\ (Scan(w) \/ Unreadable(w) \/ Unsettled(w) \/ Settled(w))
    PROVE  Threads' /\ Record'
<1> USE DEF IInv
<1>1. UNCHANGED <<journal, task, used, reg, net, sent>>
  BY DEF Begin, SaveNew, SaveNothing, Capture, CaptureRead, Changing, Retry, GiveUp, Confirmed, Pause,
         Note, Scan, Unreadable, Unsettled, Settled, serverVars, netVars
<1> SUFFICES Threads'
  <2>1. Record'
    BY <1>1, QuietRecord DEF Record, OriginInv
  <2> QED BY <2>1
<1>2. /\ w # None /\ ThreadOK(w)
      /\ \A v \in Worker : Busy(v) => mem[v] \in Memory
      /\ pc \in [Worker -> Point] /\ mem \in [Worker -> Memory \cup {None}]
      /\ ask \in [Worker -> Request \cup {None}] /\ reply \in [Worker -> Intent \cup {None}]
  BY DEF Threads, ThreadOK, LocksOK, TypeOK, AgentTypeOK
<1>3. ASSUME NEW p \in Point, pc' = [pc EXCEPT ![w] = p],
             \A v \in Worker : v # w => mem'[v] = mem[v] /\ ask'[v] = ask[v] /\ reply'[v] = reply[v],
             ThreadOK(w)', uplock \notin {None, w} => uplock' = uplock
      PROVE Threads'
  <2>1. \A v \in Worker : v # w => SameHands(v) /\ reply'[v] = reply[v]
    BY <1>2, <1>3 DEF SameHands
  <2> QED BY <1>1, <1>3, <2>1, AllThreads
<1>4. ASSUME NEW p \in {"idle", "confirm", "pause"}, Return(w, p),
             Quiet(w) \/ (UNCHANGED <<ask, reply>> /\ pc[w] # "await")
      PROVE Threads'
  <2>1. /\ ask'[w] = None /\ reply'[w] = None
        /\ \A v \in Worker : v # w => ask'[v] = ask[v] /\ reply'[v] = reply[v]
    BY <1>2, <1>4 DEF Quiet, ThreadOK, WaitOK
  <2> QED BY <1>1, <1>4, <2>1, ReturnStep
<1> USE DEF ThreadOK, LocksOK, IntentOK, WaitOK, Busy, Holds, Sends, Goto, Point
<1>5. ASSUME NEW op \in {"save", "query"}, Begin(w, op) PROVE Threads'
  <2>1. Local(op) \in Memory /\ Local(op).op = op /\ w # Observer
    BY <1>5 DEF Begin, Window, Local, Memory, Op, TypeOK, AgentTypeOK
  <2>2. /\ pc[w] = "idle" /\ pc' = [pc EXCEPT ![w] = "enter"] /\ mem' = [mem EXCEPT ![w] = Local(op)]
        /\ UNCHANGED <<ask, reply, uplock>>
    BY <1>5 DEF Begin, netVars
  <2>3. ThreadOK(w)'
    BY <1>2, <2>1, <2>2
  <2> QED BY <1>2, <1>3, <2>2, <2>3
<1>6. CASE SaveNew(w)
  <2>1. /\ pc[w] = "enter" /\ pc' = [pc EXCEPT ![w] = "capture"] /\ journal.pending = NoIntent
        /\ uplock = None /\ uplock' = w /\ UNCHANGED <<mem, ask, reply>>
    BY <1>6 DEF SaveNew, netVars
  <2>2. ThreadOK(w)'
    BY <1>1, <1>2, <2>1
  <2> QED BY <1>2, <1>3, <2>1, <2>2
<1>7. CASE SaveNothing(w) \/ Changing(w) \/ GiveUp(w) \/ Unreadable(w) \/ Unsettled(w)
  BY <1>4, <1>7, WhatIsNext DEF SaveNothing, Changing, GiveUp, Unreadable, Unsettled, netVars
<1>8. CASE Capture(w)
  <2>1. /\ pc[w] = "capture" /\ pc' = [pc EXCEPT ![w] = "reading"]
        /\ mem' = [mem EXCEPT ![w].snapshot = copy]
        /\ UNCHANGED <<uplock, ask, reply>>
    BY <1>8 DEF Capture, CaptureRead, netVars
  <2>2. mem[w] \in Memory /\ copy \in Content
    BY <1>2, <2>1 DEF TypeOK, AgentTypeOK
  <2>3. mem'[w] \in Memory /\ mem'[w].op = mem[w].op
    BY <1>2, <2>1, <2>2 DEF Memory
  <2>4. ThreadOK(w)'
    BY <1>1, <1>2, <2>1, <2>3
  <2> QED BY <1>2, <1>3, <2>1, <2>4
<1>9. CASE Retry(w)
  <2> DEFINE m == journal.pending
  <2>1. /\ pc[w] = "enter" /\ mem[w].op \in {"save", "query"} /\ m # NoIntent
        /\ uplock = None /\ uplock' = w /\ UNCHANGED ask
        /\ mem' = [mem EXCEPT ![w].intent = m]
    BY <1>9 DEF Retry
  <2>2. \/ ~Known(m) /\ reply' = reply /\ pc' = [pc EXCEPT ![w] = "send"]
        \/ Known(m) /\ reply' = [reply EXCEPT ![w] = m] /\ pc' = [pc EXCEPT ![w] = "await"]
    BY <1>9 DEF Retry, Known
  <2>3. m \in Intent /\ m.id \in IntentId
    BY <2>1 DEF TypeOK, AgentTypeOK, Journal, Intent
  <2>4. Known(m) => reg[m.id] = [state |-> "published", intent |-> m]
    BY <2>1, <2>3 DEF Record, OriginInv, Known, TypeOK
  <2>5. mem'[w] \in Memory /\ mem'[w].op = mem[w].op /\ mem'[w].intent = m
    BY <1>2, <2>1, <2>3 DEF Memory
  <2>6. w # Observer
    BY <1>2, <2>1
  <2> HIDE DEF m
  <2>7. LocksOK(w)' /\ WaitOK(w)'
    BY <1>1, <1>2, <2>1, <2>2, <2>3, <2>4, <2>5
  <2>8. IntentOK(w)'
    BY <1>1, <1>2, <2>1, <2>2, <2>5, <2>6 DEF m
  <2>9. ThreadOK(w)'
    BY <2>7, <2>8
  <2> QED BY <1>2, <1>3, <2>1, <2>2, <2>9
<1>10. CASE Confirmed(w) \/ Pause(w)
  <2>1. /\ pc' = [pc EXCEPT ![w] = "idle"] /\ pc[w] \in {"confirm", "pause"}
        /\ UNCHANGED <<mem, ask, reply, uplock>>
    BY <1>10 DEF Confirmed, Pause, Note, netVars
  <2>2. ThreadOK(w)'
    BY <1>2, <2>1
  <2> QED BY <1>2, <1>3, <2>1, <2>2
<1>11. CASE w = Observer /\ Scan(w)
  <2> DEFINE x == [Local("auto") EXCEPT !.baseline = task]
  <2>1. /\ pc[w] = "idle" /\ UNCHANGED <<ask, reply, uplock>>
        /\ \/ mem' = [mem EXCEPT ![w] = x] /\ pc' = [pc EXCEPT ![w] = "look"]
           \/ UNCHANGED <<mem, pc>>
    BY <1>11 DEF Scan, netVars
  <2>2. x \in Memory /\ x.op = "auto"
    BY DEF Local, Memory, Op, TypeOK, AgentTypeOK
  <2> HIDE DEF x
  <2>3. CASE mem' = [mem EXCEPT ![w] = x] /\ pc' = [pc EXCEPT ![w] = "look"]
    <3>1. ThreadOK(w)'
      BY <1>2, <1>11, <2>1, <2>2, <2>3
    <3> QED BY <1>2, <1>3, <2>1, <2>3, <3>1
  <2>4. CASE UNCHANGED <<mem, pc>>
    <3>1. ThreadOK(w)' /\ pc' = [pc EXCEPT ![w] = "idle"]
      BY <1>2, <2>1, <2>4
    <3> QED BY <1>2, <1>3, <2>1, <2>4, <3>1
  <2> QED BY <2>1, <2>3, <2>4
<1>12. CASE w = Observer /\ Settled(w)
  <2>1. /\ pc[w] = "look" /\ pc' = [pc EXCEPT ![w] = "enter"]
        /\ mem' = [mem EXCEPT ![w].baseline = None, ![w].observed = copy]
        /\ UNCHANGED <<uplock, ask, reply>>
    BY <1>12 DEF Settled, netVars
  <2>2. mem[w] \in Memory /\ copy \in Content
    BY <1>2, <2>1 DEF TypeOK, AgentTypeOK
  <2>3. mem'[w] \in Memory /\ mem'[w].op = mem[w].op
    BY <1>2, <2>1, <2>2 DEF Memory
  <2>4. ThreadOK(w)'
    BY <1>2, <1>12, <2>1, <2>3
  <2> QED BY <1>2, <1>3, <2>1, <2>4
<1> QED BY <1>5, <1>6, <1>7, <1>8, <1>9, <1>10, <1>11, <1>12

\* The request carries the pending intent; an observer's has not been sent before.
LEMMA PublishStep ==
    ASSUME IInv, TypeOK', NEW w \in Worker, Publish(w)
    PROVE  /\ Threads' /\ Record'
           /\ \A r \in net' \ net : r.from = Observer => r.intent.id \notin sent
<1> USE DEF IInv
<1> DEFINE m == mem[w].intent
           r == [from |-> w, intent |-> m]
<1>1. /\ pc[w] = "send" /\ pc' = [pc EXCEPT ![w] = "await"]
      /\ net' = net \cup {r} /\ sent' = sent \cup {m.id} /\ ask' = [ask EXCEPT ![w] = r]
      /\ UNCHANGED <<journal, task, uplock, mem, used, reg, reply>>
  BY DEF Publish, Goto, serverVars
<1>2. /\ w # None /\ ThreadOK(w) /\ uplock = w
      /\ m = journal.pending /\ journal.pending # NoIntent
      /\ w = Observer => journal.pending.id \notin sent
  BY <1>1 DEF Threads, ThreadOK, LocksOK, IntentOK, Holds, Sends
<1>3. Record'
  BY <1>1, <1>2, QuietRecord DEF Record, OriginInv
<1>4. ThreadOK(w)'
  BY <1>1, <1>2 DEF ThreadOK, LocksOK, IntentOK, WaitOK, Busy, Holds, Sends, TypeOK, AgentTypeOK
<1>5. \A v \in Worker : v # w => SameHands(v) /\ reply'[v] = reply[v]
  BY <1>1 DEF SameHands, Threads, ThreadOK, LocksOK, TypeOK, AgentTypeOK
<1>6. Threads'
  BY <1>1, <1>2, <1>4, <1>5, AllThreads
<1>7. \A q \in net' \ net : q.from = Observer => q.intent.id \notin sent
  BY <1>1, <1>2
<1> QED BY <1>3, <1>6, <1>7

\* A thread that writes holds upload.lock and waits for nothing, but for its receipt.
LEMMA HolderFacts ==
    ASSUME TypeOK, Threads, NEW w \in Worker, Holds(w)
    PROVE  /\ ThreadOK(w) /\ uplock = w /\ w # None /\ mem[w] \in Memory
           /\ pc[w] # "await" => ask[w] = None /\ reply[w] = None
           /\ Sends(w) => mem[w].intent = journal.pending /\ journal.pending \in Intent
                           /\ journal.pending # NoIntent
  BY DEF Threads, ThreadOK, LocksOK, IntentOK, WaitOK, Busy, Holds, TypeOK, AgentTypeOK, Journal

\* The intent is saved: nothing was pending, and its id is new.
LEMMA CapturedStep ==
    ASSUME IInv, TypeOK', NEW w \in Worker, NEW i \in IntentId, Captured(w, i)
    PROVE  Threads' /\ Record'
<1> USE DEF IInv
<1> DEFINE m == [id |-> i, content |-> mem[w].snapshot, expected |-> task,
                 action |-> "optimistic-update"]
           j == [journal EXCEPT !.pending = m]
<1>1. /\ pc[w] = "reading" /\ mem[w].snapshot = copy /\ i \notin used /\ used' = used \cup {i}
      /\ UNCHANGED <<task, reg, ask, reply, net, sent>>
  BY DEF Captured, CaptureSave, serverVars, netVars
<1>2. /\ ThreadOK(w) /\ uplock = w /\ w # None /\ mem[w] \in Memory
      /\ ask[w] = None /\ reply[w] = None
  BY <1>1, HolderFacts DEF Holds
<1>3. journal.pending = NoIntent
  BY <1>1, <1>2 DEF ThreadOK, IntentOK, Holds, Sends
<1>4. m \in Intent /\ m.id = i
  BY <1>1 DEF Intent, TypeOK, AgentTypeOK
<1>5. j.pending = m /\ j.receipt = journal.receipt
  <2> HIDE DEF m
  <2> QED BY DEF TypeOK, AgentTypeOK, Journal
<1>6. \/ journal' \in {j, journal} /\ Return(w, Fail(w))
      \/ /\ journal' = j /\ mem' = [mem EXCEPT ![w].intent = m, ![w].snapshot = None]
         /\ Goto(w, "send") /\ UNCHANGED uplock
  BY DEF Captured, CaptureSave, Failed
<1>7. reg[i].state = "not-found" /\ (\A r \in net : r.intent.id # i) /\ i \notin sent
  BY <1>1 DEF Record, OriginInv
<1> HIDE DEF m, j
<1>8. journal' \in {j, journal} /\ journal'.receipt = journal.receipt
  BY <1>5, <1>6
<1>9. Record'
  <2>1. OriginInv'
    BY <1>1, <1>4, <1>5, <1>7, <1>8 DEF Record, OriginInv, Known
  <2>2. NoForgottenIntent'
    <3>1. Outstanding' = Outstanding
      BY <1>1 DEF Outstanding
    <3> QED BY <1>3, <3>1, NothingOutstanding DEF Record, NoForgottenIntent
  <2>3. BaselineFollowsReceipt'
    BY <1>1, <1>3, <1>8 DEF Record, BaselineFollowsReceipt
  <2> QED BY <2>1, <2>2, <2>3 DEF Record
<1>10. CASE Return(w, Fail(w))
  BY <1>1, <1>2, <1>9, <1>10, ReturnStep, WhatIsNext
<1>11. CASE /\ journal' = j /\ mem' = [mem EXCEPT ![w].intent = m, ![w].snapshot = None]
            /\ Goto(w, "send") /\ UNCHANGED uplock
  <2>1. /\ pc'[w] = "send" /\ \A v \in Worker : v # w => mem'[v] = mem[v] /\ pc'[v] = pc[v]
    BY <1>11 DEF Goto, TypeOK, AgentTypeOK
  <2>2. mem'[w] \in Memory /\ mem'[w].op = mem[w].op /\ mem'[w].intent = m
    <3> DEFINE x == [mem[w] EXCEPT !.intent = m, !.snapshot = None]
    <3>1. x \in Memory /\ x.op = mem[w].op /\ x.intent = m
      BY <1>2, <1>4 DEF Memory
    <3>2. mem'[w] = x
      BY <1>11 DEF TypeOK, AgentTypeOK
    <3> QED BY <3>1, <3>2
  <2>3. LocksOK(w)'
    BY <1>1, <1>2, <1>11, <2>1, <2>2 DEF ThreadOK, LocksOK, Busy, Holds
  <2>4. IntentOK(w)' /\ WaitOK(w)'
    BY <1>1, <1>2, <1>4, <1>5, <1>7, <1>11, <2>1, <2>2 DEF IntentOK, WaitOK, Holds, Sends
  <2>5. \A v \in Worker : v # w => SameHands(v) /\ reply'[v] = reply[v]
    BY <1>1, <2>1 DEF SameHands, Threads, ThreadOK, LocksOK
  <2>6. Threads'
    BY <1>1, <1>2, <2>3, <2>4, <2>5, AllThreads DEF ThreadOK
  <2> QED BY <1>9, <2>6
<1> QED BY <1>6, <1>10, <1>11

\* The receipt is written: it names the pending intent, which is published.
LEMMA PublishedStep ==
    ASSUME IInv, TypeOK', NEW w \in Worker, Published(w)
    PROVE  Threads' /\ Record'
<1> USE DEF IInv
<1> DEFINE m == reply[w]
           j == [journal EXCEPT !.receipt = m]
<1>1. /\ pc[w] = "await" /\ m # None /\ journal.pending = m /\ m # NoIntent
      /\ ask' = [ask EXCEPT ![w] = None] /\ reply' = [reply EXCEPT ![w] = None]
      /\ UNCHANGED <<task, used, reg, net, sent>>
  BY DEF Published, AcceptReceipt, Quiet, serverVars
<1>2. /\ ThreadOK(w) /\ uplock = w /\ w # None /\ mem[w] \in Memory /\ mem[w].intent = m
  BY <1>1, HolderFacts DEF Holds, Sends
<1>3. m \in Intent /\ reg[m.id] = [state |-> "published", intent |-> m]
  BY <1>1, <1>2 DEF ThreadOK, WaitOK, TypeOK
<1>4. j.pending = m /\ j.receipt = m
  BY <1>1 DEF TypeOK, AgentTypeOK, Journal
<1>5. \/ journal' \in {j, journal} /\ Return(w, Fail(w))
      \/ /\ journal' = j /\ mem' = [mem EXCEPT ![w].intent = m]
         /\ Goto(w, "baseline") /\ UNCHANGED uplock
  BY DEF Published, AcceptReceipt, Failed
<1> HIDE DEF j
<1>6. journal' \in {j, journal} /\ journal'.pending = m
  BY <1>1, <1>4, <1>5
<1>7. Record'
  <2>1. OriginInv'
    BY <1>1, <1>6 DEF Record, OriginInv, Known
  <2>2. NoForgottenIntent'
    BY <1>1, <1>6 DEF Record, NoForgottenIntent, Outstanding
  <2>3. BaselineFollowsReceipt'
    BY <1>1, <1>3, <1>4, <1>6 DEF Record, BaselineFollowsReceipt
  <2> QED BY <2>1, <2>2, <2>3 DEF Record
<1>8. /\ ask'[w] = None /\ reply'[w] = None
      /\ \A v \in Worker : v # w => ask'[v] = ask[v] /\ reply'[v] = reply[v]
  BY <1>1 DEF TypeOK
<1>9. CASE Return(w, Fail(w))
  BY <1>1, <1>2, <1>7, <1>8, <1>9, ReturnStep, WhatIsNext
<1>10. CASE /\ journal' = j /\ mem' = [mem EXCEPT ![w].intent = m]
            /\ Goto(w, "baseline") /\ UNCHANGED uplock
  <2>1. pc'[w] = "baseline" /\ \A v \in Worker : v # w => mem'[v] = mem[v] /\ pc'[v] = pc[v]
    BY <1>10 DEF Goto, TypeOK, AgentTypeOK
  <2>2. mem'[w] \in Memory /\ mem'[w].op = mem[w].op /\ mem'[w].intent = m
    BY <1>2, <1>3, <1>10 DEF Memory, TypeOK, AgentTypeOK
  <2>3. LocksOK(w)'
    BY <1>1, <1>2, <1>10, <2>1, <2>2 DEF ThreadOK, LocksOK, Busy, Holds
  <2>4. IntentOK(w)' /\ WaitOK(w)'
    BY <1>1, <1>3, <1>4, <1>8, <1>10, <2>1, <2>2 DEF IntentOK, WaitOK, Holds, Sends, Known
  <2>5. \A v \in Worker : v # w => SameHands(v) /\ reply'[v] = reply[v]
    BY <1>8, <2>1 DEF SameHands, Threads, ThreadOK, LocksOK
  <2>6. Threads'
    BY <1>1, <1>2, <2>3, <2>4, <2>5, AllThreads DEF ThreadOK
  <2> QED BY <1>7, <2>6
<1> QED BY <1>5, <1>9, <1>10

\* The baseline is moved to the published version.
LEMMA BaselineStep ==
    ASSUME IInv, TypeOK', NEW w \in Worker, Baseline(w)
    PROVE  Threads' /\ Record'
<1> USE DEF IInv
<1>1. /\ pc[w] = "baseline" /\ UNCHANGED <<journal, used, reg, ask, reply, net, sent>>
      /\ \/ task' \in {task, mem[w].intent.content} /\ Return(w, Fail(w))
         \/ task' = mem[w].intent.content /\ Goto(w, "clear") /\ UNCHANGED <<mem, uplock>>
  BY DEF Baseline, AcceptBaseline, Failed, serverVars, netVars
<1>2. /\ ThreadOK(w) /\ uplock = w /\ w # None /\ mem[w].intent = journal.pending
      /\ ask[w] = None /\ reply[w] = None /\ journal.pending # NoIntent
      /\ journal.receipt = journal.pending /\ Known(journal.pending)
  BY <1>1, HolderFacts DEF ThreadOK, IntentOK, Holds, Sends
<1>3. Record'
  BY <1>1, <1>2 DEF Record, OriginInv, Known, NoForgottenIntent, Outstanding, BaselineFollowsReceipt
<1>4. CASE Return(w, Fail(w))
  BY <1>1, <1>2, <1>3, <1>4, ReturnStep, WhatIsNext
<1>5. CASE task' = mem[w].intent.content /\ Goto(w, "clear") /\ UNCHANGED <<mem, uplock>>
  <2>1. pc'[w] = "clear" /\ \A v \in Worker : v # w => pc'[v] = pc[v]
    BY <1>5 DEF Goto, TypeOK, AgentTypeOK
  <2>2. LocksOK(w)'
    BY <1>1, <1>2, <1>5, <2>1 DEF ThreadOK, LocksOK, Busy, Holds
  <2>3. IntentOK(w)' /\ WaitOK(w)'
    BY <1>1, <1>2, <1>5, <2>1 DEF IntentOK, WaitOK, Holds, Sends, Known
  <2>4. \A v \in Worker : v # w => SameHands(v) /\ reply'[v] = reply[v]
    BY <1>1, <1>5, <2>1 DEF SameHands, Threads, ThreadOK, LocksOK
  <2>5. Threads'
    BY <1>1, <1>2, <2>2, <2>3, <2>4, AllThreads DEF ThreadOK
  <2> QED BY <1>3, <2>5
<1> QED BY <1>1, <1>4, <1>5

\* The intent is cleared: it was published, and the baseline is its version.
LEMMA ClearStep ==
    ASSUME IInv, TypeOK', NEW w \in Worker, Clear(w)
    PROVE  Threads' /\ Record'
<1> USE DEF IInv
<1>1. /\ pc[w] = "clear" /\ UNCHANGED <<task, used, reg, ask, reply, net, sent>>
      /\ \E p \in {"idle", "confirm", "pause"} : Return(w, p)
  BY WhatIsNext DEF Clear, AcceptClear, Failed, serverVars, netVars
<1>2. /\ ThreadOK(w) /\ uplock = w /\ w # None
      /\ ask[w] = None /\ reply[w] = None
      /\ journal.receipt = journal.pending /\ Known(journal.pending) /\ task = journal.pending.content
  BY <1>1, HolderFacts DEF ThreadOK, IntentOK, Holds
<1>3. journal' = journal \/ (journal'.pending = NoIntent /\ journal'.receipt = journal.receipt)
  <2> DEFINE in == mem[w].intent.action = "checkin"
             a == IF in THEN FALSE ELSE journal.ack
             l == IF in \/ journal.lease = None THEN None ELSE mem[w].intent.content
             j == [journal EXCEPT !.pending = NoIntent, !.closed = in, !.ack = a, !.lease = l]
  <2>1. journal' \in {j, journal}
    BY DEF Clear, AcceptClear, Failed
  <2> HIDE DEF in, a, l
  <2>2. j.pending = NoIntent /\ j.receipt = journal.receipt
    BY DEF TypeOK, AgentTypeOK, Journal
  <2> QED BY <2>1, <2>2
<1>4. Record'
  <2>1. OriginInv'
    BY <1>1, <1>3 DEF Record, OriginInv, Known
  <2>2. NoForgottenIntent'
    <3>1. Outstanding' = Outstanding
      BY <1>1 DEF Outstanding
    <3> QED BY <1>2, <3>1, NothingOutstanding DEF Record, NoForgottenIntent
  <2>3. BaselineFollowsReceipt'
    BY <1>1, <1>2, <1>3 DEF Record, BaselineFollowsReceipt
  <2> QED BY <2>1, <2>2, <2>3 DEF Record
<1>5. Threads'
  BY <1>1, <1>2, ReturnStep
<1> QED BY <1>4, <1>5

-------------------------------------------------------------------------------
(* The server, the process and the editor.                                 *)

\* The server moves intent m, which is not published yet, to state st.
Decides(m, st) == reg' = [reg EXCEPT ![m.id] = [state |-> st, intent |-> m]]

\* Only the pending intent can be decided, and the record still fits afterwards.
LEMMA DecisionStep ==
    ASSUME TypeOK, Record, NEW m \in Outstanding, NEW st \in {"prepared", "published"}, Decides(m, st),
           UNCHANGED <<journal, task, used, sent>>, net' \subseteq net
    PROVE  Record' /\ \A i \in IntentId : reg[i].state = "published" => reg'[i] = reg[i]
<1> USE DEF Record
<1>1. m \in Intent /\ m.id \in used /\ m.id \in IntentId /\ ~Known(m) /\ journal.pending = m
  BY OutstandingFacts DEF NoForgottenIntent
<1>2. /\ reg'[m.id] = [state |-> st, intent |-> m]
      /\ \A i \in IntentId : i # m.id => reg'[i] = reg[i]
  BY <1>1 DEF Decides, TypeOK
\* Whatever bears the id of m is m: while it was not published it was outstanding.
<1>3. ASSUME NEW r \in net
      PROVE  /\ r.intent.id \in IntentId
             /\ r.intent.id = m.id => r.intent = m
             /\ reg[r.intent.id].state # "published" => r.intent = m
  <2>1. r.intent.id \in IntentId
    BY DEF TypeOK, Request, Intent
  <2>2. reg[r.intent.id].state # "published" => r.intent = m
    BY <1>1 DEF Outstanding, NoForgottenIntent
  <2> QED BY <1>1, <2>1, <2>2 DEF Known
<1>4. OriginInv'
  BY <1>1, <1>2, <1>3 DEF OriginInv, Known
<1>5. Outstanding' \subseteq {m}
  <2>1. \A i \in IntentId : reg'[i].state = "prepared" => reg'[i].intent = m
    <3>1. \A i \in IntentId : reg[i].state = "prepared" => reg[i].intent \in Outstanding
      BY DEF Outstanding
    <3> QED BY <1>1, <1>2, <3>1 DEF NoForgottenIntent
  <2>2. \A r \in net' : reg'[r.intent.id].state # "published" => r.intent = m
    BY <1>2, <1>3
  <2> QED BY <2>1, <2>2 DEF Outstanding
<1>6. NoForgottenIntent'
  BY <1>1, <1>5 DEF NoForgottenIntent
<1>7. \A i \in IntentId : reg[i].state = "published" => reg'[i] = reg[i]
  BY <1>1, <1>2 DEF Known
<1>8. BaselineFollowsReceipt'
  <2>1. journal.receipt # NoIntent => journal.receipt.id \in IntentId
    BY DEF TypeOK, AgentTypeOK, Journal, Intent
  <2> QED BY <1>7, <2>1 DEF BaselineFollowsReceipt
<1> QED BY <1>4, <1>6, <1>7, <1>8

\* A request is answered with what was published, and only to a thread that waits.
LEMMA AnswerStep ==
    ASSUME TypeOK, Threads, NEW r \in net, NEW m \in Intent, Answer(r, m),
           reg'[m.id] = [state |-> "published", intent |-> m],
           \A i \in IntentId : reg[i].state = "published" => reg'[i] = reg[i]
    PROVE  Threads'
<1> SUFFICES ASSUME NEW v \in Worker PROVE ThreadOK(v)'
  BY DEF Threads
<1>1. UNCHANGED <<journal, task, uplock, pc, mem, ask, sent>> /\ ThreadOK(v)
  BY DEF Answer, agentVars, Threads
<1>2. SameHands(v)
  BY <1>1 DEF SameHands, ThreadOK, LocksOK
<1>3. reply'[v] = reply[v] \/ (pc[v] = "await" /\ reply'[v] = m)
  <2>1. CASE ask[r.from] = r /\ r.from = v
    <3>1. ask[v] # None
      BY <2>1 DEF TypeOK
    <3> QED BY <1>1, <2>1, <3>1 DEF Answer, TypeOK, ThreadOK, WaitOK
  <2>2. CASE ~(ask[r.from] = r /\ r.from = v)
    BY <2>2 DEF Answer, TypeOK
  <2> QED BY <2>1, <2>2
<1> QED BY <1>1, <1>2, <1>3, OtherThread

\* The server takes a version, or the bytes of an authorised one do not arrive.
LEMMA ServerStep ==
    ASSUME IInv, TypeOK', NEW r \in net, HandlePublish(r) \/ Stall(r)
    PROVE  Threads' /\ Record'
<1> USE DEF IInv
<1> DEFINE m == r.intent
<1>1. m \in Intent /\ m.id \in IntentId
  BY DEF TypeOK, Request, Intent
<1>2. UNCHANGED <<journal, task, uplock, pc, mem, used, ask, sent>> /\ net' \subseteq net
  BY DEF HandlePublish, Stall, Answer, agentVars
<1>3. ASSUME NEW st \in {"prepared", "published"}, reg[m.id].state # "published", Decides(m, st),
             IF st = "published" THEN Answer(r, m) ELSE UNCHANGED reply
      PROVE Threads' /\ Record'
  <2>1. m \in Outstanding
    BY <1>3 DEF Outstanding
  <2>2. Record' /\ \A i \in IntentId : reg[i].state = "published" => reg'[i] = reg[i]
    BY <1>2, <1>3, <2>1, DecisionStep
  <2>3. reg'[m.id] = [state |-> st, intent |-> m]
    BY <1>1, <1>3 DEF Decides, TypeOK
  <2>4. CASE st = "published"
    BY <1>1, <1>3, <2>2, <2>3, <2>4, AnswerStep
  <2>5. CASE st # "published"
    BY <1>2, <1>3, <2>2, <2>5, OtherThread DEF SameHands, Threads, ThreadOK, LocksOK
  <2> QED BY <2>2, <2>4, <2>5
<1>4. CASE /\ reg[m.id].state = "published" /\ Answer(r, reg[m.id].intent) /\ UNCHANGED serverVars
  <2>1. reg' = reg /\ reg[m.id].intent = m
    BY <1>4 DEF serverVars, Record, OriginInv, Known
  <2>2. reg[m.id] = [state |-> "published", intent |-> m]
    BY <1>1, <1>4, <2>1 DEF TypeOK
  <2>3. Threads'
    BY <1>1, <1>4, <2>1, <2>2, AnswerStep
  <2>4. Record'
    BY <1>2, <2>1, QuietRecord DEF Record, OriginInv
  <2> QED BY <2>3, <2>4
<1> QED BY <1>3, <1>4 DEF HandlePublish, Stall, Decides

\* Lost requests, other users, settings, the end of the process and a save in the editor.
LEMMA EnvironmentStep ==
    ASSUME IInv, TypeOK',
           \/ \E r \in net : Lose(r)
           \/ \E c \in Content : Save(c) \/ Others(c)
           \/ \E b \in BOOLEAN : SetEnabled(b)
           \/ Crash
           \/ UNCHANGED vars
    PROVE  Threads' /\ Record'
<1> USE DEF IInv
<1>1. UNCHANGED <<journal, task, used, reg, sent>> /\ net' \subseteq net
  BY DEF Lose, Save, Edit, Others, SetEnabled, Crash, AgentCrash, vars, agentVars, serverVars, netVars
<1>2. Record'
  BY <1>1, QuietRecord DEF Record, OriginInv
<1>3. CASE Crash
  <2>1. \A v \in Worker : pc'[v] = "idle" /\ ask'[v] = None /\ reply'[v] = None
    BY <1>3 DEF Crash, AgentCrash
  <2>2. Threads'
    BY <2>1 DEF Threads, ThreadOK, LocksOK, IntentOK, WaitOK, Busy, Holds, Sends
  <2> QED BY <1>2, <2>2
<1>4. CASE ~Crash
  <2>1. UNCHANGED <<uplock, pc, ask, reply>>
    BY <1>4 DEF Lose, Save, Edit, Others, SetEnabled, vars, agentVars, netVars
  <2>2. mem' = mem \/ \E w \in Worker : mem' = [mem EXCEPT ![w].snapshot = Torn]
    BY <1>4 DEF Lose, Save, Edit, Others, SetEnabled, vars, agentVars
  <2>3. ASSUME NEW v \in Worker, Busy(v)
        PROVE  mem'[v] \in Memory /\ mem'[v].op = mem[v].op /\ mem'[v].intent = mem[v].intent
    <3>1. mem[v] \in Memory /\ mem \in [Worker -> Memory \cup {None}]
      BY <2>3 DEF Threads, ThreadOK, LocksOK, TypeOK, AgentTypeOK
    <3> QED BY <2>2, <3>1 DEF Memory
  <2>4. Threads'
    BY <1>1, <2>1, <2>3, OtherThread DEF SameHands, Threads
  <2> QED BY <1>2, <2>4
<1> QED BY <1>3, <1>4

-------------------------------------------------------------------------------
(* Theorems.                                                               *)

\* Nothing has begun: the record is empty and every thread is idle.
LEMMA InitInv ==
    ASSUME Init
    PROVE  IInv
<1> USE DEF Init, AgentInit
<1>1. TypeOK
  BY DEF TypeOK, AgentTypeOK, Journal, Point
<1>2. \A w \in Worker : ThreadOK(w)
  BY DEF ThreadOK, LocksOK, IntentOK, WaitOK, Busy, Holds, Sends
<1>3. OriginInv /\ BaselineFollowsReceipt
  BY DEF OriginInv, BaselineFollowsReceipt
<1>4. NoForgottenIntent
  BY DEF NoForgottenIntent, Outstanding
<1> QED BY <1>1, <1>2, <1>3, <1>4 DEF IInv, Record, Threads

\* Every step keeps the threads and the record in order.
LEMMA InvStep ==
    ASSUME IInv, [Next]_vars
    PROVE  IInv'
<1>1. TypeOK'
  BY TypeStep
<1> SUFFICES Threads' /\ Record'
  BY <1>1 DEF IInv
<1>2. ASSUME NEW w \in Worker, Operation(w) \/ GiveUp(w) PROVE Threads' /\ Record'
  BY <1>1, <1>2, QuietStep, PublishStep, CapturedStep, PublishedStep, BaselineStep, ClearStep
     DEF Operation
<1>3. CASE Observe
  BY <1>1, <1>3, QuietStep DEF Observe
<1>4. ASSUME NEW r \in net, HandlePublish(r) \/ Stall(r) PROVE Threads' /\ Record'
  BY <1>1, <1>4, ServerStep
<1>5. CASE \/ \E r \in net : Lose(r)
           \/ \E c \in Content : Save(c) \/ Others(c)
           \/ \E b \in BOOLEAN : SetEnabled(b)
           \/ Crash
           \/ UNCHANGED vars
  BY <1>1, <1>5, EnvironmentStep
<1> QED BY <1>2, <1>3, <1>4, <1>5 DEF Next

\* The inductive invariant holds in every reachable state: each thread's memory,
\* lock and answer agree with the journal, and the journal with the server.
THEOREM InductiveInvariant == Spec => []IInv
<1>1. Init => IInv
  BY InitInv
<1>2. IInv /\ [Next]_vars => IInv'
  BY InvStep
<1> QED BY <1>1, <1>2, PTL DEF Spec

\* Every variable keeps its type.
THEOREM TypeCorrect == Spec => []TypeOK
<1>1. IInv => TypeOK
  BY DEF IInv
<1> QED BY <1>1, InductiveInvariant, PTL

\* What the task has on record of its uploads agrees with the server: nothing it may
\* still publish is unknown here, what is confirmed is the baseline, and no version
\* that mixes two states of the working copy was sent.
THEOREM UploadsTrue == Spec => []UploadsAreTrue
<1>1. IInv => UploadsAreTrue
  <2> SUFFICES ASSUME IInv PROVE UploadsAreTrue
    OBVIOUS
  <2>1. NoTornUpload
    <3> SUFFICES ASSUME NEW i \in IntentId, reg[i].intent # NoIntent
                 PROVE  reg[i].intent.content # Torn
      BY DEF NoTornUpload
    <3>1. reg[i].intent \in Intent
      BY DEF IInv, TypeOK
    <3> QED BY <3>1, AgentAssumption DEF Intent
  <2> QED BY <2>1 DEF UploadsAreTrue, IInv, Record
<1> QED BY <1>1, InductiveInvariant, PTL

\* The observer sends no intent that was sent before, by itself or by a window.
THEOREM AutoSendsOnce == Spec => AutoNeverResends
<1>1. IInv /\ [Next]_vars
      => [\A r \in net' \ net : r.from = Observer => r.intent.id \notin sent]_vars
  <2> SUFFICES ASSUME IInv, Next
               PROVE  \A r \in net' \ net : r.from = Observer => r.intent.id \notin sent
    OBVIOUS
  <2>1. ASSUME NEW w \in Worker, Publish(w)
        PROVE  \A r \in net' \ net : r.from = Observer => r.intent.id \notin sent
    <3>1. TypeOK'
      BY InvStep DEF IInv
    <3> QED BY <2>1, <3>1, PublishStep
  <2>2. net' \subseteq net \/ \E w \in Worker : Publish(w)
    BY ZenonT(60)
       DEF Next, Operation, GiveUp, Begin, SaveNew, SaveNothing, Capture, Changing, Captured, Retry,
           Published, Baseline, Clear, Confirmed, Pause, Note, Observe, Scan, Unreadable, Unsettled,
           Settled, SetEnabled, Crash, Save, Others, HandlePublish, Stall, Lose, Answer, netVars
  <2> QED BY <2>1, <2>2
<1> QED BY <1>1, InductiveInvariant, PTL DEF Spec, AutoNeverResends

-------------------------------------------------------------------------------
(* Refinement.  Captured is Approve, the server's publication is Publish,   *)
(* and Clear is Settle; every other step leaves both variables alone.       *)

PublishedSet == {reg[i].intent : i \in {j \in IntentId : reg[j].state = "published"}}

pubVars == <<journal.pending, PublishedSet>>

\* What is published is filed under its own drawn id.
LEMMA PublishedFacts ==
    ASSUME OriginInv, NEW m \in PublishedSet
    PROVE  m \in Intent /\ m.id \in used /\ Known(m)
<1>1. PICK i \in IntentId : reg[i].state = "published" /\ m = reg[i].intent
  BY DEF PublishedSet
<1> QED BY <1>1 DEF OriginInv, Known

\* A thread records an intent, or clears one, or leaves the record alone.
LEMMA RefineThread ==
    ASSUME IInv, NEW w \in Worker, Operation(w) \/ GiveUp(w)
    PROVE  [Pub!Next]_pubVars
<1> USE DEF IInv, pubVars, TypeOK, AgentTypeOK
<1>1. PublishedSet' = PublishedSet
  <2>1. UNCHANGED reg
    BY ZenonT(60)
       DEF Operation, GiveUp, Begin, SaveNew, SaveNothing, Capture, Changing, Captured, Retry,
           Publish, Published, Baseline, Clear, Confirmed, Pause, Note, serverVars
  <2> QED BY <2>1 DEF PublishedSet
<1>2. CASE journal'.pending = journal.pending
  BY <1>1, <1>2
<1>3. ASSUME NEW i \in IntentId, Captured(w, i) PROVE [Pub!Next]_pubVars
  <2> DEFINE m == [id |-> i, content |-> mem[w].snapshot, expected |-> task,
                   action |-> "optimistic-update"]
             j == [journal EXCEPT !.pending = m]
  <2>1. pc[w] = "reading" /\ mem[w].snapshot = copy /\ i \notin used /\ journal' \in {j, journal}
    BY <1>3 DEF Captured, CaptureSave, Failed
  <2>2. journal.pending = NoIntent
    BY <2>1 DEF Threads, ThreadOK, IntentOK, Holds, Sends
  <2>3. m \in Intent /\ m.id = i
    BY <2>1 DEF Intent
  <2>4. j.pending = m
    <3> HIDE DEF m
    <3> QED BY DEF Journal
  <2> HIDE DEF m, j
  <2>5. journal.pending \notin PublishedSet /\ \A b \in PublishedSet : b.id # m.id
    BY <2>1, <2>2, <2>3, PublishedFacts DEF Record
  <2>6. CASE journal' = j
    <3>1. Pub!Approve(m)
      BY <1>1, <2>4, <2>5, <2>6 DEF Pub!Approve, PublishedSet
    <3> QED BY <2>3, <3>1 DEF Pub!Next
  <2> QED BY <1>2, <2>1, <2>6
<1>4. CASE Clear(w)
  <2> DEFINE in == mem[w].intent.action = "checkin"
             a == IF in THEN FALSE ELSE journal.ack
             l == IF in \/ journal.lease = None THEN None ELSE mem[w].intent.content
             j == [journal EXCEPT !.pending = NoIntent, !.closed = in, !.ack = a, !.lease = l]
  <2>1. journal' \in {j, journal}
    BY <1>4 DEF Clear, AcceptClear, Failed
  <2> HIDE DEF in, a, l
  <2>2. j.pending = NoIntent
    BY DEF Journal
  <2>3. CASE journal'.pending = NoIntent /\ journal.pending # NoIntent
    BY <1>1, <2>3 DEF Pub!Next, Pub!Settle, PublishedSet
  <2> QED BY <1>2, <2>1, <2>2, <2>3
<1>5. CASE Published(w)
  <2>1. journal' = journal \/ \E m : journal' = [journal EXCEPT !.receipt = m]
    BY <1>5 DEF Published, AcceptReceipt, Failed
  <2>2. journal'.pending = journal.pending
    BY <2>1 DEF Journal
  <2> QED BY <1>2, <2>2
<1>6. \/ UNCHANGED journal
      \/ \E i \in IntentId : Captured(w, i)
      \/ Clear(w) \/ Published(w)
  BY ZenonT(60)
     DEF Operation, GiveUp, Begin, SaveNew, SaveNothing, Capture, CaptureRead, Changing, Retry,
         Publish, Baseline, AcceptBaseline, Confirmed, Pause, Note
<1> QED BY <1>2, <1>3, <1>4, <1>5, <1>6

\* A decision of the server publishes the intent on record, or changes nothing.
LEMMA RefineDecision ==
    ASSUME IInv, NEW m \in Outstanding, NEW st \in {"prepared", "published"}, Decides(m, st),
           UNCHANGED journal
    PROVE  [Pub!Next]_pubVars
<1> USE DEF IInv, pubVars, Record
<1>1. m \in Intent /\ m.id \in IntentId /\ ~Known(m) /\ journal.pending = m
  BY OutstandingFacts DEF NoForgottenIntent
<1>2. /\ reg'[m.id] = [state |-> st, intent |-> m]
      /\ \A i \in IntentId : i # m.id => reg'[i] = reg[i]
  BY <1>1 DEF Decides, TypeOK
<1>3. PublishedSet' = IF st = "published" THEN PublishedSet \cup {m} ELSE PublishedSet
  <2>1. \A i \in IntentId : reg'[i].state = "published" <=>
            IF i = m.id THEN st = "published" ELSE reg[i].state = "published"
    BY <1>2
  <2> QED BY <1>1, <1>2, <2>1 DEF PublishedSet, Known
<1>4. m \notin PublishedSet
  BY <1>1, PublishedFacts
<1>5. CASE st = "published"
  BY <1>1, <1>3, <1>4, <1>5 DEF Pub!Next, Pub!Publish, PublishedSet
<1>6. CASE st # "published"
  BY <1>3, <1>6
<1> QED BY <1>5, <1>6

\* Every step of the threads, the network and the server is a step of Publication or none.
LEMMA RefineStep ==
    ASSUME IInv, [Next]_vars
    PROVE  [Pub!Next]_pubVars
<1>1. CASE UNCHANGED <<reg, journal>>
  BY <1>1 DEF pubVars, PublishedSet
<1>2. ASSUME NEW r \in net, HandlePublish(r) \/ Stall(r) PROVE [Pub!Next]_pubVars
  <2>1. UNCHANGED journal
    BY <1>2 DEF HandlePublish, Stall, Answer, agentVars
  <2>2. ASSUME NEW st \in {"prepared", "published"}, reg[r.intent.id].state # "published",
               Decides(r.intent, st)
        PROVE [Pub!Next]_pubVars
    <3>1. r.intent \in Outstanding
      BY <2>2 DEF Outstanding
    <3> QED BY <2>1, <2>2, <3>1, RefineDecision
  <2> QED BY <1>1, <1>2, <2>1, <2>2 DEF HandlePublish, Stall, Decides, serverVars
<1>3. ASSUME NEW w \in Worker, Operation(w) \/ GiveUp(w) PROVE [Pub!Next]_pubVars
  BY <1>3, RefineThread
<1>4. \/ UNCHANGED <<reg, journal>>
      \/ \E w \in Worker : Operation(w) \/ GiveUp(w)
      \/ \E r \in net : HandlePublish(r) \/ Stall(r)
  BY ZenonT(60)
     DEF Next, Observe, Scan, Unreadable, Unsettled, Settled, SetEnabled, Crash, AgentCrash, Save,
         Edit, Others, Lose, vars, agentVars, serverVars
<1> QED BY <1>1, <1>2, <1>3, <1>4

\* An optimistic task implements Publication: a captured version is published at most
\* once, unchanged, and only while the journal has it on record.
THEOREM RefinesPublication == Spec => ImplementsPublication
<1>1. Init => Pub!Init
  BY DEF Init, AgentInit, Pub!Init
<1>2. IInv /\ [Next]_vars => [Pub!Next]_<<journal.pending, {reg[i].intent : i \in {j \in IntentId : reg[j].state = "published"}}>>
  BY RefineStep DEF pubVars, PublishedSet
<1> QED BY <1>1, <1>2, InductiveInvariant, PTL DEF Spec, ImplementsPublication, Pub!Spec
================================================================================
