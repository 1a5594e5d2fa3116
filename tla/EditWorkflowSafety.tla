--------------------------- MODULE EditWorkflowSafety ---------------------------
(***************************************************************************)
(* The safety of EditWorkflow: IInv is an invariant, and with it the four  *)
(* safety properties and the refinement of Publication.  The steps of Next *)
(* fall into four kinds (a worker step that saves nothing, a save, a       *)
(* decision of the Hub on an intent, any other step of the Hub), each with *)
(* one lemma for what it keeps.                                            *)
(***************************************************************************)
EXTENDS EditWorkflowProofs

USE HubAssumption, WorkerAssumption, NoneAssumption

\* The part of IInv that speaks of the journal, the Hub and the workers' memories.
Agreement ==
    /\ OriginInv /\ NoForgottenIntent /\ MemoryInv
    /\ ReleaseInv /\ BaseInv /\ ReceiptInv

-------------------------------------------------------------------------------
(* Facts about one state.                                                  *)

\* What can still be published is filed under a drawn id and not settled.
LEMMA OutstandingFacts ==
    ASSUME TypeOK, OriginInv, NEW m \in Outstanding
    PROVE  m \in Intent /\ m.id \in used /\ reg[m.id].state \notin Settled
<1>1. CASE \E i \in IntentId : reg[i].state = "prepared" /\ m = reg[i].intent
  BY <1>1 DEF OriginInv, Settled
<1>2. CASE \E r \in net : r.kind = "publish" /\ reg[r.intent.id].state \notin Settled
                           /\ m = r.intent
  BY <1>2 DEF TypeOK, Request, OriginInv
<1> QED BY <1>1, <1>2 DEF Outstanding

\* A worker that knows of nothing unsettled is right: nothing is on its way.
LEMMA NothingOutstanding ==
    ASSUME TypeOK, OriginInv, NoForgottenIntent, MemoryInv, NEW w \in Worker, Up(w),
           mem[w].pending = NoIntent \/ reg[mem[w].pending.id].state \in Settled
    PROVE  Outstanding = {}
<1>1. CASE mem[w].pending = NoIntent
  BY <1>1 DEF MemoryInv
<1>2. CASE mem[w].pending # NoIntent
  <2> SUFFICES ASSUME NEW m \in Outstanding PROVE FALSE
    OBVIOUS
  <2>1. journal.pending = m /\ m \in Intent /\ reg[m.id].state \notin Settled
    BY OutstandingFacts DEF NoForgottenIntent
  <2>2. mem[w].pending = m
    BY <1>2, <2>1 DEF MemoryInv
  <2> QED BY <1>2, <2>1, <2>2
<1> QED BY <1>1, <1>2

\* Sending a request that publishes nothing, or losing one, adds nothing.
LEMMA OutstandingShrinks ==
    ASSUME UNCHANGED reg, \A r \in net' : r \in net \/ r.kind # "publish"
    PROVE  Outstanding' \subseteq Outstanding
  BY DEF Outstanding

-------------------------------------------------------------------------------
(* The four kinds of steps.                                                *)

\* A worker step that neither saves nor asks for a publication.
LEMMA QuietStep ==
    ASSUME TypeOK, Agreement,
           UNCHANGED <<guard, file, reg, journal, used>>,
           Outstanding' \subseteq Outstanding,
           \A r \in net' : r \in net \/ (r.kind \in {"publish", "cancel"} => r.intent.id \in used),
           \A v \in Worker : Up(v)' => \/ Up(v) /\ mem'[v] = mem[v]
                                       \/ mem'[v] = journal
    PROVE  Agreement'
<1> USE DEF Agreement
<1>1. OriginInv'
  BY DEF OriginInv
<1>2. NoForgottenIntent'
  BY DEF NoForgottenIntent
<1>3. MemoryInv'
  <2> SUFFICES ASSUME NEW v \in Worker, Up(v)'
               PROVE  IF mem'[v].pending = NoIntent
                        THEN /\ Outstanding' = {}
                             /\ journal'.pending # NoIntent => reg'[journal'.pending.id].state = "not-found"
                        ELSE \/ journal'.pending = mem'[v].pending
                             \/ /\ journal'.pending = NoIntent
                                /\ reg'[mem'[v].pending.id].state \in Settled
    BY DEF MemoryInv
  <2>1. CASE Up(v) /\ mem'[v] = mem[v]
    BY <2>1 DEF MemoryInv
  <2>2. CASE mem'[v] = journal
    <3>1. ASSUME journal.pending = NoIntent, NEW m \in Outstanding PROVE FALSE
      BY <3>1, OutstandingFacts DEF NoForgottenIntent
    <3> QED BY <2>2, <3>1
  <2> QED BY <2>1, <2>2
<1>4. ReleaseInv'
  BY DEF ReleaseInv, ClosedMeansReleased
<1>5. BaseInv'
  BY DEF BaseInv, Based
<1>6. ReceiptInv'
  BY DEF ReceiptInv, ReceiptIsTrue
<1> QED BY <1>1, <1>2, <1>3, <1>4, <1>5, <1>6

\* A save, complete, torn or refused, of a state s in which the pending intent is
\* settled and removed, or new.
LEMMA SaveStep ==
    ASSUME TypeOK, LockInv, Agreement, NEW w \in Worker, Up(w),
           NEW s \in State, NEW p \in {"ready", "prepare"}, Save(w, s, p),
           UNCHANGED <<guard, file, reg, net, lock>>, used \subseteq used',
           \/ /\ s.pending = NoIntent
              /\ mem[w].pending = NoIntent \/ reg[mem[w].pending.id].state \in Settled
           \/ /\ mem[w].pending = NoIntent
              /\ s.pending \in Intent /\ s.pending.id \in used'
              /\ reg[s.pending.id].state = "not-found",
           s.closed => guard.owner # "us",
           guard.owner = "us" => s.base = file,
           s.receipt # NoIntent => reg[s.receipt].state = "published"
    PROVE  Agreement'
<1> USE DEF Agreement
<1>1. Outstanding = {} /\ Outstanding' = {}
  <2>1. Outstanding = {}
    BY NothingOutstanding
  <2> QED BY <2>1, OutstandingShrinks
<1>2. journal' \in {s, journal} /\ mem'[w] \in {s, mem[w]} /\ (mem'[w] = s => journal' = s \/ mem[w] = s)
  BY DEF Save, TypeOK
<1>3. \A v \in Worker : Up(v)' => v = w
  BY DEF LockInv, Up, Save, Goto, TypeOK
<1>4. s.pending # NoIntent => reg[s.pending.id].state = "not-found"
  OBVIOUS
<1>5. OriginInv'
  BY <1>2 DEF OriginInv
<1>6. NoForgottenIntent'
  BY <1>1 DEF NoForgottenIntent
<1>7. MemoryInv'
  <2> SUFFICES IF mem'[w].pending = NoIntent
                 THEN /\ Outstanding' = {}
                      /\ journal'.pending # NoIntent => reg'[journal'.pending.id].state = "not-found"
                 ELSE \/ journal'.pending = mem'[w].pending
                      \/ /\ journal'.pending = NoIntent
                         /\ reg'[mem'[w].pending.id].state \in Settled
    BY <1>3 DEF MemoryInv
  <2>1. CASE mem'[w] = s /\ journal' = s
    BY <1>1, <1>4, <2>1
  <2>2. CASE mem'[w] = mem[w] /\ journal' = s
    BY <1>1, <1>4, <2>2
  <2>3. CASE mem'[w] = mem[w] /\ journal' = journal
    BY <1>1, <2>3 DEF MemoryInv
  <2> QED BY <1>2, <2>1, <2>2, <2>3
<1>8. ReleaseInv'
  BY <1>2, <1>3 DEF ReleaseInv, ClosedMeansReleased
<1>9. BaseInv'
  <2>1. guard.owner = "us" => Based(s)
    BY <1>4 DEF Based
  <2> QED BY <1>2, <1>3, <2>1 DEF BaseInv, Based
<1>10. ReceiptInv'
  BY <1>2, <1>3 DEF ReceiptInv, ReceiptIsTrue
<1> QED BY <1>5, <1>6, <1>7, <1>8, <1>9, <1>10

\* A publish request is sent: its intent is the one on record, or already settled.
LEMMA PublishStep ==
    ASSUME TypeOK, LockInv, Agreement, NEW w \in Worker, Publish(w)
    PROVE  Agreement'
<1> USE DEF Agreement
<1> DEFINE m == mem[w].pending
<1>1. pc[w] = "publish" /\ Up(w) /\ m \in Intent
  BY DEF Publish, Up, TypeOK
<1>2. UNCHANGED <<guard, file, reg, journal, lock, mem, used>>
  BY DEF Publish, hubVars
<1>3. /\ \A v \in Worker : Up(v)' => v = w
      /\ \A r \in net' : r \in net \/ r.intent = m
      /\ net \subseteq net'
  BY <1>1, <1>2 DEF LockInv, Publish, Send, Goto, Up, TypeOK
<1>4. journal.pending = m \/ (journal.pending = NoIntent /\ reg[m.id].state \in Settled)
  BY <1>1 DEF MemoryInv
<1>5. m.id \in used
  BY <1>1, <1>4 DEF OriginInv, Settled, Intent
<1>6. \A n \in Outstanding' : n \in Outstanding \/ (n = m /\ reg[m.id].state \notin Settled)
  BY <1>2, <1>3 DEF Outstanding
<1>7. OriginInv'
  BY <1>2, <1>3, <1>5 DEF OriginInv
<1>8. NoForgottenIntent'
  BY <1>2, <1>4, <1>6 DEF NoForgottenIntent
<1>9. MemoryInv'
  BY <1>1, <1>2, <1>3, <1>4 DEF MemoryInv
<1>10. ReleaseInv'
  BY <1>1, <1>2, <1>3 DEF ReleaseInv, ClosedMeansReleased
<1>11. BaseInv'
  BY <1>1, <1>2, <1>3 DEF BaseInv, Based
<1>12. ReceiptInv'
  BY <1>1, <1>2, <1>3 DEF ReceiptInv, ReceiptIsTrue
<1> QED BY <1>7, <1>8, <1>9, <1>10, <1>11, <1>12

\* The Hub moves an intent that is still open to state st.
Decides(m, st) ==
    /\ reg' = [reg EXCEPT ![m.id] = [state |-> st, intent |-> m]]
    /\ file' = IF st = "published" THEN m.content ELSE file
    /\ guard.owner = "us"
    /\ guard'.owner = IF st = "published" /\ m.action # "commit" THEN "free" ELSE "us"

\* What the Hub decides is outstanding: a request it carries out, or the intent it has prepared.
LEMMA HubDecides ==
    ASSUME TypeOK, OriginInv, NEW r \in net,
           \/ /\ r.kind = "publish"
              /\ HubPublish(r.intent, r.epoch) \/ HubPrepare(r.intent, r.epoch)
           \/ r.kind = "cancel" /\ HubCancel(r.intent.id, r.epoch)
    PROVE  \E m \in Outstanding, st \in {"prepared", "published", "cancelled"} : Decides(m, st)
<1>1. CASE r.kind = "publish" /\ (HubPublish(r.intent, r.epoch) \/ HubPrepare(r.intent, r.epoch))
  <2>1. r.intent \in Outstanding
    BY <1>1 DEF Outstanding, HubPublish, HubPrepare, Admits
  <2>2. PICK st \in {"prepared", "published"} : Decides(r.intent, st)
    BY <1>1 DEF HubPublish, HubPrepare, Admits, Current, Decides, TypeOK, HubTypeOK
  <2> QED BY <2>1, <2>2
<1>2. CASE r.kind = "cancel" /\ HubCancel(r.intent.id, r.epoch)
  <2> DEFINE i == r.intent.id
             m == reg[i].intent
  <2>1. i \in IntentId /\ reg[i].state = "prepared"
    BY <1>2 DEF HubCancel, TypeOK, Request, Intent
  <2>2. m \in Outstanding /\ m.id = i
    BY <2>1 DEF Outstanding, OriginInv
  <2>3. [reg EXCEPT ![i].state = "cancelled"] = [reg EXCEPT ![i] = [state |-> "cancelled", intent |-> m]]
    <3>1. reg[i] \in [state : IntentState, intent : Intent \cup {NoIntent}]
      BY <2>1 DEF TypeOK, HubTypeOK
    <3>2. [reg[i] EXCEPT !.state = "cancelled"] = [state |-> "cancelled", intent |-> m]
      BY <3>1
    <3> HIDE DEF i, m
    <3> QED BY <3>2
  <2>4. Decides(m, "cancelled")
    BY <1>2, <2>2, <2>3 DEF HubCancel, Current, Decides, TypeOK, HubTypeOK
  <2> HIDE DEF m
  <2> QED BY <2>2, <2>4
<1> QED BY <1>1, <1>2

\* Only the intent on record can be decided, so the journal and the memories,
\* which name it, stay in agreement with the Hub.
LEMMA DecisionStep ==
    ASSUME TypeOK, TypeOK', Agreement, NEW m \in Outstanding,
           NEW st \in {"prepared", "published", "cancelled"}, Decides(m, st),
           UNCHANGED <<journal, pc, mem, used>>, net' \subseteq net
    PROVE  Agreement'
<1> USE DEF Agreement
<1>1. m \in Intent /\ m.id \in used /\ m.id \in IntentId /\ reg[m.id].state \notin Settled
  BY OutstandingFacts DEF Intent
<1>2. journal.pending = m
  BY DEF NoForgottenIntent
<1>3. \A w \in Worker : Up(w) => mem[w].pending = m
  BY <1>1, <1>2 DEF MemoryInv
<1>4. /\ reg'[m.id] = [state |-> st, intent |-> m]
      /\ \A i \in IntentId : i # m.id => reg'[i] = reg[i]
  BY <1>1 DEF Decides, TypeOK, HubTypeOK
<1>5. Outstanding' \subseteq {m}
  <2>1. \A i \in IntentId : reg'[i].state = "prepared" => reg'[i].intent = m
    <3>1. \A i \in IntentId : reg[i].state = "prepared" => reg[i].intent \in Outstanding
      BY DEF Outstanding
    <3> QED BY <1>2, <1>4, <3>1 DEF NoForgottenIntent
  <2>2. \A r \in net' : r.kind = "publish" /\ reg'[r.intent.id].state \notin Settled
                           => r.intent = m
    <3> SUFFICES ASSUME NEW r \in net', r.kind = "publish", reg'[r.intent.id].state \notin Settled
                 PROVE  r.intent = m
      OBVIOUS
    <3>1. r \in net /\ r.intent \in Intent /\ r.intent.id \in IntentId
      BY DEF TypeOK, Request, Intent
    <3>2. reg[r.intent.id].state \notin Settled
      BY <1>1, <1>4, <3>1
    <3>3. r.intent \in Outstanding
      BY <3>1, <3>2 DEF Outstanding
    <3> QED BY <1>2, <3>3 DEF NoForgottenIntent
  <2> QED BY <2>1, <2>2 DEF Outstanding
<1>6. OriginInv'
  BY <1>1, <1>4 DEF OriginInv
<1>7. NoForgottenIntent'
  BY <1>2, <1>5 DEF NoForgottenIntent
<1>8. MemoryInv'
  BY <1>1, <1>2, <1>3 DEF MemoryInv, Up
<1>9. ReleaseInv'
  BY <1>1, <1>4 DEF ReleaseInv, ClosedMeansReleased, Decides, Up
<1>10. BaseInv'
  <2>1. guard'.owner = "us" => journal'.pending = m /\ \A w \in Worker : Up(w)' => mem'[w].pending = m
    BY <1>2, <1>3 DEF Up
  <2>2. st # "published" => file' = file /\ reg[m.id].state # "published"
    BY <1>1 DEF Decides, Settled
  <2>3. st = "published" => file' = m.content
    BY DEF Decides
  <2>4. guard'.owner = "us" => journal.base = file /\ \A w \in Worker : Up(w) => mem[w].base = file
    BY <1>1, <1>2, <1>3, <2>1 DEF BaseInv, Based, Decides, Settled
  <2> QED BY <1>1, <1>4, <2>1, <2>2, <2>3, <2>4 DEF BaseInv, Based, Up
<1>11. ReceiptInv'
  <2>1. \A i \in IntentId : reg[i].state = "published" => reg'[i].state = "published"
    BY <1>1, <1>4 DEF Settled
  <2> QED BY <2>1 DEF ReceiptInv, ReceiptIsTrue, Up, TypeOK, State
<1> QED BY <1>6, <1>7, <1>8, <1>9, <1>10, <1>11

\* A step of the Hub that decides no intent and, while the guard is ours, leaves the file alone.
LEMMA OtherHubStep ==
    ASSUME TypeOK, Agreement,
           guard'.owner = "us" => guard.owner = "us" /\ file' = file,
           UNCHANGED <<reg, journal, pc, mem, used>>, net' \subseteq net
    PROVE  Agreement'
<1> USE DEF Agreement
<1>1. Outstanding' \subseteq Outstanding
  BY OutstandingShrinks
<1>2. OriginInv'
  BY DEF OriginInv
<1>3. NoForgottenIntent'
  BY <1>1 DEF NoForgottenIntent
<1>4. MemoryInv'
  BY <1>1 DEF MemoryInv, Up
<1>5. ReleaseInv'
  BY DEF ReleaseInv, ClosedMeansReleased, Up
<1>6. BaseInv'
  BY DEF BaseInv, Based, Up
<1>7. ReceiptInv'
  BY DEF ReceiptInv, ReceiptIsTrue, Up
<1> QED BY <1>2, <1>3, <1>4, <1>5, <1>6, <1>7

-------------------------------------------------------------------------------
(* Every step of Next is of one of these kinds.                            *)

\* Worker steps that save: the state saved fits the journal it replaces.
LEMMA AgreementSaves ==
    ASSUME IInv, NEW w \in Worker,
           \/ \E i \in IntentId, a \in Action, c \in Content : Submit(w, i, a, c)
           \/ Published(w) \/ Recovered(w) \/ Cancelled(w)
           \/ Resumed(w) \/ AbandonLocal(w) \/ Abandoned(w)
    PROVE  Agreement'
<1> USE DEF IInv
<1>1. TypeOK /\ LockInv /\ Agreement
  BY DEF Agreement
<1>2. Up(w) /\ mem[w] \in State
  BY DEF Up, TypeOK, Submit, Published, Recovered, Cancelled, Resumed, AbandonLocal, Abandoned
<1>3. /\ mem[w].closed => guard.owner # "us"
      /\ mem[w].receipt # NoIntent => reg[mem[w].receipt].state = "published"
      /\ guard.owner = "us" => Based(mem[w])
  BY <1>2 DEF ReleaseInv, ReceiptInv, BaseInv
<1>4. ASSUME NEW i \in IntentId, NEW a \in Action, NEW c \in Content, Submit(w, i, a, c)
      PROVE Agreement'
  <2> DEFINE m == [id |-> i, content |-> c, action |-> a, expected |-> mem[w].base]
             s == [mem[w] EXCEPT !.pending = m]
  <2>1. m \in Intent /\ m.id = i
    BY <1>2 DEF Intent, State
  <2>2. /\ s \in State /\ s.pending = m
        /\ s.closed = mem[w].closed /\ s.base = mem[w].base /\ s.receipt = mem[w].receipt
    <3> HIDE DEF m
    <3> QED BY <1>2, <2>1 DEF State
  <2>3. Save(w, s, "prepare") /\ mem[w].pending = NoIntent /\ i \notin used /\ used' = used \cup {i}
        /\ UNCHANGED <<guard, file, reg, net, lock>>
    BY <1>4 DEF Submit, hubVars
  <2>4. reg[i].state = "not-found"
    BY <2>3 DEF OriginInv
  <2> HIDE DEF m, s
  <2> QED BY <1>1, <1>2, <1>3, <2>1, <2>2, <2>3, <2>4, SaveStep DEF Based
<1>5. CASE Published(w) \/ Recovered(w)
  <2> DEFINE m == mem[w].pending
             d == m.action # "commit"
             s == [mem[w] EXCEPT !.base = m.content, !.closed = d,
                                 !.token = IF d THEN FALSE ELSE @,
                                 !.pending = NoIntent, !.receipt = m.id]
  <2>1. /\ m \in Intent /\ reply[w].state = "published" /\ reply[w].intent = m /\ reply[w] # None
        /\ Save(w, s, "ready")
        /\ UNCHANGED <<guard, file, reg, net, lock, used>>
    <3>1. Accept(w, reply[w]) /\ UNCHANGED <<guard, file, reg, net, lock, used>>
      BY <1>5 DEF Published, Recovered, hubVars
    <3>2. reply[w].state = "published"
      BY <3>1 DEF Accept
    <3>3. m \in Intent
      BY <1>2, <3>1 DEF Accept, State
    <3>4. reply[w] # None
      BY <1>5, <1>2 DEF Published, Recovered, AskInv
    <3> QED BY <3>1, <3>2, <3>3, <3>4 DEF Accept
  <2>2. reg[m.id] = [state |-> "published", intent |-> m]
    BY <2>1 DEF ReplyInv
  <2>3. m.id \in IntentId /\ m.content \in Content /\ d \in BOOLEAN
    BY <2>1 DEF Intent
  <2>4. /\ s \in State /\ s.pending = NoIntent /\ s.base = m.content
        /\ s.receipt = m.id /\ s.closed = d
    <3> HIDE DEF m, d
    <3> QED BY <1>2, <2>3 DEF State
  <2>5. d => guard.owner # "us"
    BY <2>2, <2>3 DEF ReleaseInv
  <2>6. guard.owner = "us" => m.content = file
    BY <1>3, <2>1, <2>2 DEF Based
  <2>7. reg[m.id].state \in Settled /\ reg[s.receipt].state = "published"
    BY <2>2, <2>4 DEF Settled
  <2> HIDE DEF s, d
  <2> QED BY <1>1, <1>2, <2>1, <2>4, <2>5, <2>6, <2>7, SaveStep
<1>6. CASE Cancelled(w)
  <2> DEFINE s == [mem[w] EXCEPT !.pending = NoIntent]
  <2>1. Save(w, s, "ready") /\ UNCHANGED <<guard, file, reg, net, lock, used>>
    BY <1>6 DEF Cancelled, hubVars
  <2>2. /\ s \in State /\ s.pending = NoIntent
        /\ s.closed = mem[w].closed /\ s.base = mem[w].base /\ s.receipt = mem[w].receipt
    BY <1>2 DEF State
  <2>3. reg[mem[w].pending.id].state = "cancelled"
    BY <1>6 DEF Cancelled, ReplyInv
  <2>4. guard.owner = "us" => s.base = file
    BY <1>3, <2>2, <2>3 DEF Based
  <2>5. reg[mem[w].pending.id].state \in Settled
    BY <2>3 DEF Settled
  <2> HIDE DEF s
  <2> QED BY <1>1, <1>2, <1>3, <2>1, <2>2, <2>4, <2>5, SaveStep
<1>7. CASE Resumed(w)
  <2> DEFINE s == [mem[w] EXCEPT !.epoch = reply[w].epoch]
  <2>1. Save(w, s, "ready") /\ UNCHANGED <<guard, file, reg, net, lock, used>>
        /\ mem[w].pending = NoIntent /\ reply[w] \in Reply
    BY <1>7 DEF Resumed, hubVars, AskInv, TypeOK
  <2>2. /\ s \in State /\ s.pending = NoIntent
        /\ s.closed = mem[w].closed /\ s.base = mem[w].base /\ s.receipt = mem[w].receipt
    BY <1>2, <2>1 DEF State, Reply
  <2>3. guard.owner = "us" => s.base = file
    BY <1>3, <2>1, <2>2 DEF Based
  <2> HIDE DEF s
  <2> QED BY <1>1, <1>2, <1>3, <2>1, <2>2, <2>3, SaveStep
<1>8. CASE AbandonLocal(w) \/ Abandoned(w)
  <2> DEFINE s == Closed(mem[w])
  <2>1. Save(w, s, "ready") /\ UNCHANGED <<guard, file, reg, net, lock, used>>
        /\ mem[w].pending = NoIntent /\ guard.owner # "us"
    BY <1>8 DEF AbandonLocal, Abandoned, hubVars, AskInv, ReplyInv
  <2>2. /\ s \in State /\ s.pending = NoIntent
        /\ s.base = mem[w].base /\ s.receipt = mem[w].receipt
    BY <1>2, <2>1 DEF State, Closed
  <2> HIDE DEF s
  <2> QED BY <1>1, <1>2, <1>3, <2>1, <2>2, SaveStep
<1> QED BY <1>4, <1>5, <1>6, <1>7, <1>8

\* Steps of the Hub: a decision on an outstanding intent, or something else.
LEMMA AgreementHub ==
    ASSUME IInv, TypeOK',
           \/ \E r \in net : Handle(r) \/ Stall(r) \/ Lose(r)
           \/ Others
    PROVE  Agreement'
<1> USE DEF IInv
<1>1. TypeOK /\ Agreement
  BY DEF Agreement
<1>2. UNCHANGED <<journal, pc, mem, used>> /\ net' \subseteq net
  BY DEF Handle, HandlePublish, HandleCancel, HandleResume, HandleAbandon, Answer,
         Stall, Lose, Others, local
<1>3. ASSUME NEW m \in Outstanding, NEW st \in {"prepared", "published", "cancelled"}, Decides(m, st)
      PROVE Agreement'
  BY <1>1, <1>2, <1>3, DecisionStep
<1>5. ASSUME guard'.owner = "us" => guard.owner = "us" /\ file' = file, UNCHANGED reg
      PROVE Agreement'
  BY <1>1, <1>2, <1>5, OtherHubStep
<1>6. ASSUME NEW r \in net, Handle(r) \/ Stall(r) \/ Lose(r) PROVE Agreement'
  <2>1. CASE Lose(r) \/ UNCHANGED hubVars
    BY <1>5, <2>1 DEF Lose, hubVars
  <2>2. CASE r.kind = "publish" /\ (HandlePublish(r) \/ Stall(r))
    BY <1>3, <2>1, <2>2, HubDecides DEF HandlePublish, Stall
  <2>3. CASE r.kind = "cancel" /\ HandleCancel(r)
    BY <1>3, <2>3, HubDecides DEF HandleCancel
  <2>4. CASE HandleResume(r) \/ HandleAbandon(r)
    BY <1>5, <2>4 DEF HandleResume, HandleAbandon, HubResume, HubAbandon, TypeOK, HubTypeOK
  <2> QED BY <1>6, <2>1, <2>2, <2>3, <2>4 DEF Handle, Stall
<1>7. CASE Others
  BY <1>5, <1>7 DEF Others, HubExpire, HubOther, TypeOK, HubTypeOK
<1> QED BY <1>6, <1>7

\* The journal, the Hub and the memories agree after every step.
LEMMA AgreementStep ==
    ASSUME IInv, TypeOK', [Next]_vars
    PROVE  Agreement'
<1>1. TypeOK /\ LockInv /\ Agreement
  BY DEF IInv, Agreement
<1>2. ASSUME UNCHANGED <<guard, file, reg, journal, used, net>>,
             \A v \in Worker : Up(v)' => \/ Up(v) /\ mem'[v] = mem[v]
                                         \/ mem'[v] = journal
      PROVE Agreement'
  BY <1>1, <1>2, QuietStep, OutstandingShrinks
<1>3. ASSUME NEW w \in Worker, Open(w) PROVE Agreement'
  BY <1>1, <1>2, <1>3 DEF Open, Goto, Up, hubVars, TypeOK
<1>4. ASSUME NEW w \in Worker, Close(w) \/ Crash(w) PROVE Agreement'
  BY <1>1, <1>2, <1>4 DEF Close, Crash, Exit, Goto, Up, hubVars, TypeOK
<1>5. ASSUME NEW w \in Worker, GiveUp(w) \/ Prepare(w) \/ Resend(w) \/ Recover(w) \/ CancelPrepared(w)
      PROVE Agreement'
  BY <1>1, <1>2, <1>5
     DEF GiveUp, Prepare, Resend, Recover, CancelPrepared, Query, Goto, Up, hubVars, TypeOK
<1>6. ASSUME NEW w \in Worker, CancelCall(w) \/ Resume(w) \/ Abandon(w) PROVE Agreement'
  <2>1. /\ pc' = [pc EXCEPT ![w] = "await"]
        /\ \A r \in net' : \/ r \in net
                           \/ r.kind \in {"resume", "abandon"}
                           \/ r.kind = "cancel" /\ r.intent = mem[w].pending /\ pc[w] = "cancel"
    BY <1>6 DEF CancelCall, Resume, Abandon, Send, Goto
  <2>2. UNCHANGED <<guard, file, reg, journal, used, mem>> /\ pc[w] # "down"
    BY <1>6 DEF CancelCall, Resume, Abandon, hubVars
  <2>3. \A v \in Worker : Up(v)' => Up(v) /\ mem'[v] = mem[v]
    BY <1>1, <2>1, <2>2 DEF Up, TypeOK
  <2>4. pc[w] = "cancel" => mem[w].pending.id \in used
    <3>1. pc[w] = "cancel" => mem[w].pending \in Intent /\ Up(w)
      BY <1>1 DEF TypeOK, Up
    <3> QED BY <1>1, <3>1 DEF Agreement, MemoryInv, OriginInv, Settled, Intent
  <2>5. Outstanding' \subseteq Outstanding
    BY <2>1, <2>2, OutstandingShrinks
  <2> QED BY <1>1, <2>1, <2>2, <2>3, <2>4, <2>5, QuietStep
<1>7. ASSUME NEW w \in Worker, Operation(w) PROVE Agreement'
  BY <1>1, <1>5, <1>6, <1>7, AgreementSaves, PublishStep DEF Operation
<1>8. CASE UNCHANGED vars
  BY <1>2, <1>8 DEF vars, hubVars, local, Up
<1> QED BY <1>3, <1>4, <1>5, <1>7, <1>8, AgreementHub DEF Next

-------------------------------------------------------------------------------
(* What a worker waits for and what it was told.                           *)

\* What the Hub has settled stays so, and a guard that is gone does not come back.
LEMMA Stable ==
    ASSUME IInv, [Next]_vars
    PROVE  /\ \A i \in IntentId : reg[i].state \in Settled => reg'[i] = reg[i]
           /\ guard.owner # "us" => guard'.owner # "us"
<1> USE DEF IInv, TypeOK, HubTypeOK
<1>1. CASE UNCHANGED hubVars
  BY <1>1 DEF hubVars
<1>2. CASE Others
  BY <1>2 DEF Others, HubExpire, HubOther
<1>3. ASSUME NEW r \in net, Handle(r) \/ Stall(r)
      PROVE  /\ \A i \in IntentId : reg[i].state \in Settled => reg'[i] = reg[i]
             /\ guard.owner # "us" => guard'.owner # "us"
  <2>1. CASE HubPublish(r.intent, r.epoch) \/ HubPrepare(r.intent, r.epoch)
    BY <2>1 DEF HubPublish, HubPrepare, Admits, Current
  <2>2. CASE HubCancel(r.intent.id, r.epoch)
    BY <2>2 DEF HubCancel, Current, Settled
  <2>3. CASE HandleResume(r) \/ HandleAbandon(r)
    BY <2>3 DEF HandleResume, HandleAbandon, HubResume, HubAbandon, Current
  <2> QED BY <1>1, <1>3, <2>1, <2>2, <2>3 DEF Handle, HandlePublish, HandleCancel, Stall
<1>4. \/ UNCHANGED hubVars \/ Others \/ \E r \in net : Handle(r) \/ Stall(r)
  BY ZenonT(60)
     DEF Next, Operation, Open, Close, Crash, Exit, GiveUp, Submit, Prepare, Publish, Published,
         Recover, Query, Resend, Recovered, CancelPrepared, CancelCall, Cancelled, Resume, Resumed,
         Abandon, AbandonLocal, Abandoned, Lose, vars
<1> QED BY <1>1, <1>2, <1>3, <1>4

\* What a request of each kind is answered with.
LEMMA Answers ==
    ASSUME IInv, TypeOK', NEW r \in net, Handle(r)
    PROVE  \E a \in Reply :
             /\ Answer(r, a)
             /\ a.state = "published" =>
                    a.intent \in Intent /\ reg'[a.intent.id] = [state |-> "published", intent |-> a.intent]
             /\ a.state = "cancelled" =>
                    a.intent \in Intent /\ reg'[a.intent.id].state = "cancelled"
             /\ a.state = "released" => guard'.owner # "us"
             /\ a.state \in {"resumed", "released"} => r.kind \in {"resume", "abandon"}
<1> USE DEF IInv, TypeOK, HubTypeOK, Reply, IntentState
<1>1. r \in Request /\ r.epoch \in 1..MaxEpoch
  BY DEF Request
<1>2. CASE r.kind = "publish" /\ HandlePublish(r)
  <2>1. r.intent \in Intent /\ r.intent.id \in IntentId
    BY <1>1, <1>2 DEF Request, Intent
  <2>2. CASE /\ HubPublish(r.intent, r.epoch)
             /\ Answer(r, [state |-> "published", intent |-> r.intent, epoch |-> r.epoch])
    <3> DEFINE a == [state |-> "published", intent |-> r.intent, epoch |-> r.epoch]
    <3>1. a \in Reply /\ a.state = "published" /\ a.intent = r.intent
      BY <1>1, <2>1
    <3>2. reg'[r.intent.id] = [state |-> "published", intent |-> r.intent]
      BY <2>1, <2>2 DEF HubPublish
    <3>3. Answer(r, a)
      BY <2>2
    <3> HIDE DEF a
    <3> QED BY <2>1, <3>1, <3>2, <3>3
  <2>3. CASE /\ reg[r.intent.id].state = "published"
             /\ Answer(r, [state |-> "published", intent |-> reg[r.intent.id].intent, epoch |-> r.epoch])
             /\ UNCHANGED hubVars
    <3>1. /\ reg[r.intent.id].intent \in Intent /\ reg[r.intent.id].intent.id = r.intent.id
          /\ reg[r.intent.id] = [state |-> "published", intent |-> reg[r.intent.id].intent]
      BY <2>1, <2>3 DEF OriginInv
    <3> DEFINE a == [state |-> "published", intent |-> reg[r.intent.id].intent, epoch |-> r.epoch]
    <3>2. a \in Reply /\ a.state = "published" /\ a.intent = reg[r.intent.id].intent
      BY <1>1, <3>1
    <3>3. Answer(r, a) /\ reg' = reg
      BY <2>3 DEF hubVars
    <3> HIDE DEF a
    <3> QED BY <3>1, <3>2, <3>3
  <2> QED BY <1>2, <2>2, <2>3 DEF HandlePublish
<1>3. CASE r.kind = "cancel" /\ HandleCancel(r)
  <2>1. r.intent \in Intent /\ r.intent.id \in IntentId
    BY <1>1, <1>3 DEF Request, Intent
  <2> DEFINE a == [state |-> "cancelled", intent |-> r.intent, epoch |-> r.epoch]
  <2>2. a \in Reply /\ a.state = "cancelled" /\ a.intent = r.intent
    BY <1>1, <2>1
  <2>3. Answer(r, a) /\ reg'[r.intent.id].state = "cancelled"
    BY <1>3, <2>1 DEF HandleCancel, HubCancel
  <2> HIDE DEF a
  <2> QED BY <2>1, <2>2, <2>3
<1>4. CASE r.kind = "resume" /\ HandleResume(r)
  BY <1>1, <1>4 DEF HandleResume, HubResume
<1>5. CASE r.kind = "abandon" /\ HandleAbandon(r)
  BY <1>1, <1>5 DEF HandleAbandon, HubAbandon
<1> QED BY <1>2, <1>3, <1>4, <1>5 DEF Handle

\* AskInv and ReplyInv after a step that gives no worker a new answer.
LEMMA NoAnswerStep ==
    ASSUME IInv, TypeOK', [Next]_vars,
           \A v \in Worker : reply'[v] = None \/ reply'[v] = reply[v]
    PROVE  ReplyInv'
<1> SUFFICES ASSUME NEW v \in Worker, reply'[v] # None
             PROVE  /\ reply'[v].state = "published" =>
                          /\ reply'[v].intent \in Intent
                          /\ reg'[reply'[v].intent.id] = [state |-> "published", intent |-> reply'[v].intent]
                    /\ reply'[v].state = "cancelled" =>
                          /\ reply'[v].intent \in Intent
                          /\ reg'[reply'[v].intent.id].state = "cancelled"
                    /\ reply'[v].state = "released" => guard'.owner # "us"
  BY DEF ReplyInv
<1>1. reply'[v] = reply[v]
  OBVIOUS
<1>2. \A m \in Intent : m.id \in IntentId
  BY DEF Intent
<1> QED BY <1>1, <1>2, Stable DEF IInv, ReplyInv, Settled

\* The answers that workers hold are true after every step.
LEMMA ReplyStep ==
    ASSUME IInv, TypeOK', [Next]_vars
    PROVE  ReplyInv'
<1> USE DEF IInv, TypeOK
<1>1. ASSUME NEW w \in Worker, Recover(w) \/ CancelPrepared(w) PROVE ReplyInv'
  <2>1. mem[w].pending \in Intent /\ reply' = [reply EXCEPT ![w] = Receipt(mem[w].pending, mem[w].epoch)]
        /\ UNCHANGED <<guard, reg>>
    BY <1>1 DEF Recover, CancelPrepared, Query, State, hubVars
  <2>2. mem[w].pending.id \in IntentId
    BY <2>1 DEF Intent
  <2> DEFINE i == mem[w].pending.id
             a == Receipt(mem[w].pending, mem[w].epoch)
  <2>3. a.state = reg[i].state /\ a.intent = reg[i].intent
    BY DEF Receipt
  <2>4. a.state # "not-found" => a.intent \in Intent /\ a.intent.id = i
    BY <2>2, <2>3 DEF OriginInv
  <2>5. reg[i] = [state |-> reg[i].state, intent |-> reg[i].intent]
    BY <2>2 DEF HubTypeOK
  <2>6. a.state \in IntentState
    BY <2>2, <2>3 DEF HubTypeOK
  <2> HIDE DEF a, i
  <2> QED BY <2>1, <2>3, <2>4, <2>5, <2>6 DEF ReplyInv, IntentState, a
<1>2. ASSUME NEW r \in net, Handle(r) PROVE ReplyInv'
  <2>1. PICK a \in Reply :
             /\ Answer(r, a)
             /\ a.state = "published" =>
                    a.intent \in Intent /\ reg'[a.intent.id] = [state |-> "published", intent |-> a.intent]
             /\ a.state = "cancelled" =>
                    a.intent \in Intent /\ reg'[a.intent.id].state = "cancelled"
             /\ a.state = "released" => guard'.owner # "us"
    BY <1>2, Answers
  <2>2. \A v \in Worker : reply'[v] \in {reply[v], a}
    BY <2>1 DEF Answer
  <2>3. \A m \in Intent : m.id \in IntentId
    BY DEF Intent
  <2> QED BY <2>1, <2>2, <2>3, Stable DEF ReplyInv, Settled
<1>3. ASSUME NEW w \in Worker, reply' = [reply EXCEPT ![w] = None] \/ reply' = reply PROVE ReplyInv'
  BY <1>3, NoAnswerStep
<1>4. CASE reply' = reply
  BY <1>4, NoAnswerStep
<1>5. \/ reply' = reply
      \/ \E w \in Worker : reply' = [reply EXCEPT ![w] = None] \/ Recover(w) \/ CancelPrepared(w)
      \/ \E r \in net : Handle(r)
  BY ZenonT(60)
     DEF Next, Operation, Open, Close, Crash, Exit, GiveUp, Submit, Prepare, Publish, Published,
         Resend, Recovered, CancelCall, Cancelled, Resume, Resumed, Send,
         Abandon, AbandonLocal, Abandoned, Stall, Lose, Others, vars, local
<1> QED BY <1>1, <1>2, <1>3, <1>4, <1>5

\* A worker holds a request or an answer only inside the operation it is for.
LEMMA AskStep ==
    ASSUME IInv, TypeOK', [Next]_vars
    PROVE  AskInv'
<1> USE DEF IInv, TypeOK
\* The worker's own step: what it leaves behind fits, the others are not touched.
<1>1. ASSUME NEW w \in Worker,
             \A v \in Worker : v # w => pc'[v] = pc[v] /\ mem'[v] = mem[v]
                                         /\ ask'[v] = ask[v] /\ reply'[v] = reply[v],
             ask'[w] # None => pc'[w] = "await"
                /\ (ask'[w].kind \in {"resume", "abandon"} => mem'[w].pending = NoIntent),
             reply'[w] # None => pc'[w] \in {"recover", "cancel"}
                /\ reply'[w].state \notin {"resumed", "released"},
             pc'[w] \in {"recover", "cancel"} => reply'[w] # None
      PROVE AskInv'
  BY <1>1 DEF AskInv
<1>2. ASSUME NEW w \in Worker, NEW s, NEW p \in {"ready", "prepare"}, Save(w, s, p)
      PROVE  /\ pc'[w] \in {"ready", "prepare"}
             /\ \A v \in Worker : v # w => pc'[v] = pc[v] /\ mem'[v] = mem[v]
  BY <1>2 DEF Save, Goto
<1>3. ASSUME NEW w \in Worker, Open(w) \/ Close(w) \/ Crash(w) \/ GiveUp(w) PROVE AskInv'
  <2>1. CASE Open(w)
    BY <1>1, <2>1 DEF Open, Goto, AskInv
  <2>2. CASE Close(w) \/ Crash(w) \/ GiveUp(w)
    BY <1>1, <2>2 DEF Close, Crash, Exit, GiveUp, Goto
  <2> QED BY <1>3, <2>1, <2>2
<1>4. ASSUME NEW w \in Worker, Operation(w) PROVE AskInv'
  <2>1. ASSUME NEW i \in IntentId, NEW a \in Action, NEW c \in Content, Submit(w, i, a, c)
        PROVE AskInv'
    BY <1>1, <1>2, <2>1 DEF Submit, AskInv
  <2>2. CASE Prepare(w) \/ Resend(w)
    BY <1>1, <2>2 DEF Prepare, Resend, Goto, AskInv
  <2>3. CASE Recover(w) \/ CancelPrepared(w)
    <3>1. PICK p \in {"recover", "cancel"} : Query(w, p)
      BY <2>3 DEF Recover, CancelPrepared
    <3>2. mem[w].pending \in Intent /\ mem[w].pending.id \in IntentId
      BY <3>1 DEF Query, State, Intent
    <3>3. Receipt(mem[w].pending, mem[w].epoch).state \in IntentState
      BY <3>2 DEF Receipt, HubTypeOK
    <3>4. ask[w] = None
      BY <3>1 DEF Query, AskInv
    <3>5. reply'[w] # None
      BY <3>1, <3>2, NoneAssumption DEF Query, Receipt, Reply, HubTypeOK, State
    <3> QED BY <1>1, <3>1, <3>3, <3>4, <3>5 DEF Query, Goto, IntentState
  <2>4. CASE Publish(w) \/ CancelCall(w)
    BY <1>1, <2>4 DEF Publish, CancelCall, Send, Goto
  <2>5. CASE Resume(w) \/ Abandon(w)
    BY <1>1, <2>5 DEF Resume, Abandon, Send, Goto
  <2>6. CASE Published(w) \/ Cancelled(w) \/ Resumed(w) \/ Abandoned(w)
    BY <1>1, <1>2, <2>6 DEF Published, Accept, Cancelled, Resumed, Abandoned
  <2>7. CASE Recovered(w)
    BY <1>1, <1>2, <2>7 DEF Recovered, Accept, AskInv
  <2>8. CASE AbandonLocal(w)
    BY <1>1, <1>2, <2>8 DEF AbandonLocal, AskInv
  <2> QED BY <1>4, <2>1, <2>2, <2>3, <2>4, <2>5, <2>6, <2>7, <2>8 DEF Operation
<1>5. ASSUME NEW r \in net, Handle(r) PROVE AskInv'
  <2>1. PICK a \in Reply : Answer(r, a)
             /\ (a.state \in {"resumed", "released"} => r.kind \in {"resume", "abandon"})
    BY <1>5, Answers
  <2>2. r \in Request /\ r # None
    BY DEF AskInv
  <2> QED BY <2>1, <2>2 DEF Answer, AskInv
<1>6. CASE Others \/ UNCHANGED vars \/ \E r \in net : Stall(r) \/ Lose(r)
  BY <1>6 DEF Others, vars, local, Stall, Lose, AskInv
<1> QED BY <1>3, <1>4, <1>5, <1>6 DEF Next

-------------------------------------------------------------------------------
(* Theorems.                                                               *)

\* The inductive invariant holds in every reachable state: workers are exclusive,
\* and journal, memories, answers and Hub agree about the pending intent, the
\* base, the receipt and the release.
THEOREM InductiveInvariant == Spec => []IInv
<1>1. Init => IInv
  <2> SUFFICES ASSUME Init PROVE IInv
    OBVIOUS
  <2>1. TypeOK
    BY DEF Init, TypeOK, HubInit, HubTypeOK, State, Point, IntentState
  <2>2. Outstanding = {}
    BY DEF Init, HubInit, Outstanding
  <2>3. LockInv /\ OriginInv /\ NoForgottenIntent /\ MemoryInv /\ AskInv
    BY <2>2 DEF Init, HubInit, LockInv, Up, OriginInv, NoForgottenIntent, MemoryInv, AskInv
  <2>4. ReplyInv /\ ReleaseInv /\ BaseInv /\ ReceiptInv
    BY DEF Init, HubInit, ReplyInv, ReleaseInv, ClosedMeansReleased, BaseInv, Based, Up,
           ReceiptInv, ReceiptIsTrue
  <2> QED BY <2>1, <2>3, <2>4 DEF IInv
<1>2. IInv /\ [Next]_vars => IInv'
  <2> SUFFICES ASSUME IInv, [Next]_vars PROVE IInv'
    OBVIOUS
  <2>1. TypeOK'
    BY TypeStep DEF IInv
  <2> QED BY <2>1, LockStep, AgreementStep, AskStep, ReplyStep DEF IInv, Agreement
<1> QED BY <1>1, <1>2, PTL DEF Spec

\* Whatever may still be published is the journal's pending intent: no crash,
\* lost answer, late request or torn save makes the agent forget an upload.
THEOREM NothingForgotten == Spec => []NoForgottenIntent
<1>1. IInv => NoForgottenIntent
  BY DEF IInv
<1> QED BY <1>1, InductiveInvariant, PTL

\* A journal says that its checkout is closed only after the Hub has released it.
THEOREM ReleasedBeforeClosed == Spec => []ClosedMeansReleased
<1>1. IInv => ClosedMeansReleased
  BY DEF IInv, ReleaseInv
<1> QED BY <1>1, InductiveInvariant, PTL

\* The base of the next commit is the current version, while the checkout is ours.
THEOREM BaseStaysCurrent == Spec => []BaseIsCurrent
<1>1. IInv => BaseIsCurrent
  BY DEF IInv, BaseInv, Based, BaseIsCurrent
<1> QED BY <1>1, InductiveInvariant, PTL

\* The receipt that is shown as saved belongs to a published version.
THEOREM ReceiptsAreTrue == Spec => []ReceiptIsTrue
<1>1. IInv => ReceiptIsTrue
  BY DEF IInv, ReceiptInv
<1> QED BY <1>1, InductiveInvariant, PTL

-------------------------------------------------------------------------------
(* Refinement.  Publish is the Hub's publication of the intent on record,   *)
(* Approve a save with a new intent, Settle a save that removes it.         *)

PublishedSet == {reg[i].intent : i \in {j \in IntentId : reg[j].state = "published"}}

pubVars == <<journal.pending, PublishedSet>>

\* What is published is filed under its own drawn id.
LEMMA PublishedFacts ==
    ASSUME TypeOK, OriginInv, NEW m \in PublishedSet
    PROVE  m \in Intent /\ m.id \in used /\ reg[m.id].state = "published"
<1>1. PICK i \in IntentId : reg[i].state = "published" /\ m = reg[i].intent
  BY DEF PublishedSet
<1> QED BY <1>1 DEF OriginInv

\* A save keeps the promise: it records a new intent, or settles one.
LEMMA RefineSave ==
    ASSUME IInv, NEW w \in Worker, Operation(w)
    PROVE  [Pub!Next]_pubVars
<1> USE DEF IInv, pubVars
<1>1. PublishedSet' = PublishedSet
  <2>1. UNCHANGED reg
    BY DEF Operation, Submit, Prepare, Publish, Published,
           Recover, Query, Resend, Recovered, CancelPrepared, CancelCall, Cancelled, Resume, Resumed,
           Abandon, AbandonLocal, Abandoned, hubVars
  <2> QED BY <2>1 DEF PublishedSet
<1>2. CASE journal'.pending = journal.pending
  BY <1>1, <1>2
<1>3. CASE journal'.pending = NoIntent
  BY <1>1, <1>2, <1>3 DEF Pub!Next, Pub!Settle, PublishedSet
<1>4. ASSUME NEW i \in IntentId, NEW a \in Action, NEW c \in Content, Submit(w, i, a, c)
      PROVE [Pub!Next]_pubVars
  <2> DEFINE m == [id |-> i, content |-> c, action |-> a, expected |-> mem[w].base]
             s == [mem[w] EXCEPT !.pending = m]
  <2>1. mem[w] \in State /\ Up(w) /\ mem[w].pending = NoIntent /\ i \notin used
    BY <1>4 DEF Submit, TypeOK, Up
  <2>2. m \in Intent /\ m.id = i
    BY <2>1 DEF Intent, State
  <2>3. s.pending = m
    <3> HIDE DEF m
    <3> QED BY <2>1 DEF State
  <2>4. journal' = s \/ journal' = journal
    BY <1>4 DEF Submit, Save
  <2>5. journal.pending \notin PublishedSet
    <3>1. journal.pending # NoIntent => reg[journal.pending.id].state = "not-found"
      BY <2>1 DEF MemoryInv
    <3>2. ASSUME journal.pending \in PublishedSet PROVE FALSE
      <4>1. journal.pending \in Intent /\ reg[journal.pending.id].state = "published"
        BY <3>2, PublishedFacts
      <4> QED BY <3>1, <4>1
    <3> QED BY <3>2
  <2>6. \A b \in PublishedSet : b.id # m.id
    BY <2>1, <2>2, PublishedFacts
  <2>7. CASE journal' = s
    <3> HIDE DEF m, s
    <3>1. Pub!Approve(m)
      BY <1>1, <2>3, <2>5, <2>6, <2>7 DEF Pub!Approve, PublishedSet
    <3> QED BY <2>2, <3>1 DEF Pub!Next
  <2> QED BY <1>2, <2>4, <2>7
<1>5. CASE ~\E i \in IntentId, a \in Action, c \in Content : Submit(w, i, a, c)
  <2>1. ASSUME NEW s \in State, s.pending = NoIntent, NEW p, Save(w, s, p) PROVE [Pub!Next]_pubVars
    BY <1>2, <1>3, <2>1 DEF Save
  <2>2. CASE UNCHANGED journal
    BY <1>2, <2>2
  <2>3. CASE Published(w) \/ Recovered(w)
    <3>1. mem[w] \in State /\ Accept(w, reply[w])
      BY <2>3 DEF Published, Recovered, TypeOK
    <3>2. journal' = journal \/ journal'.pending = NoIntent
      BY <3>1 DEF Accept, Save, State
    <3> QED BY <1>2, <1>3, <3>2
  <2>4. CASE Cancelled(w)
    BY <1>2, <1>3, <2>4 DEF Cancelled, Save, TypeOK, State
  <2>5. CASE Resumed(w) \/ AbandonLocal(w) \/ Abandoned(w)
    <3>1. mem[w] \in State /\ mem[w].pending = NoIntent
      BY <2>5 DEF Resumed, AbandonLocal, Abandoned, TypeOK, AskInv
    <3>2. journal' = journal \/ journal'.pending = NoIntent
      BY <2>5, <3>1 DEF Resumed, AbandonLocal, Abandoned, Closed, Save, State
    <3> QED BY <1>2, <1>3, <3>2
  <2> QED BY <1>5, <2>2, <2>3, <2>4, <2>5
       DEF Operation, Prepare, Publish, Recover, Query, Resend, CancelPrepared, CancelCall,
           Resume, Abandon, Send
<1> QED BY <1>4, <1>5

\* A decision of the Hub publishes the intent on record, or changes nothing.
LEMMA RefineDecision ==
    ASSUME IInv, NEW m \in Outstanding,
           NEW st \in {"prepared", "published", "cancelled"}, Decides(m, st), UNCHANGED journal
    PROVE  [Pub!Next]_pubVars
<1> USE DEF IInv, pubVars
<1>1. m \in Intent /\ m.id \in IntentId /\ reg[m.id].state \notin Settled /\ journal.pending = m
  BY OutstandingFacts DEF Intent, NoForgottenIntent
<1>2. /\ reg'[m.id] = [state |-> st, intent |-> m]
      /\ \A i \in IntentId : i # m.id => reg'[i] = reg[i]
  BY <1>1 DEF Decides, TypeOK, HubTypeOK
<1>3. PublishedSet' = IF st = "published" THEN PublishedSet \cup {m} ELSE PublishedSet
  <2>1. \A i \in IntentId : reg'[i].state = "published" <=>
            IF i = m.id THEN st = "published" ELSE reg[i].state = "published"
    BY <1>2
  <2>2. reg[m.id].state # "published"
    BY <1>1 DEF Settled
  <2> QED BY <1>1, <1>2, <2>1, <2>2 DEF PublishedSet
<1>4. ASSUME m \in PublishedSet PROVE FALSE
  <2>1. reg[m.id].state = "published"
    BY <1>4, PublishedFacts
  <2> QED BY <1>1, <2>1 DEF Settled
<1>5. CASE st = "published"
  BY <1>1, <1>3, <1>4, <1>5 DEF Pub!Next, Pub!Publish, PublishedSet
<1>6. CASE st # "published"
  BY <1>3, <1>6
<1> QED BY <1>5, <1>6

\* Every step of the processes, the network and the Hub is a step of Publication or none.
LEMMA RefineStep ==
    ASSUME IInv, [Next]_vars
    PROVE  [Pub!Next]_pubVars
<1> USE DEF IInv
<1>1. CASE UNCHANGED <<reg, journal>>
  BY <1>1 DEF pubVars, PublishedSet
<1>2. ASSUME NEW r \in net, Handle(r) \/ Stall(r) PROVE [Pub!Next]_pubVars
  <2>1. UNCHANGED journal
    BY <1>2 DEF Handle, HandlePublish, HandleCancel, HandleResume, HandleAbandon, Answer, Stall
  <2>2. ASSUME NEW m \in Outstanding, NEW st \in {"prepared", "published", "cancelled"}, Decides(m, st)
        PROVE [Pub!Next]_pubVars
    BY <2>1, <2>2, RefineDecision
  <2>3. CASE \/ /\ r.kind = "publish"
                /\ HubPublish(r.intent, r.epoch) \/ HubPrepare(r.intent, r.epoch)
             \/ r.kind = "cancel" /\ HubCancel(r.intent.id, r.epoch)
    BY <2>2, <2>3, HubDecides
  <2>4. CASE UNCHANGED reg
    BY <1>1, <2>1, <2>4
  <2>5. \/ UNCHANGED reg
        \/ /\ r.kind = "publish"
           /\ HubPublish(r.intent, r.epoch) \/ HubPrepare(r.intent, r.epoch)
        \/ r.kind = "cancel" /\ HubCancel(r.intent.id, r.epoch)
    BY <1>2 DEF Handle, HandlePublish, HandleCancel, HandleResume, HandleAbandon, HubResume,
                HubAbandon, Stall, hubVars
  <2> QED BY <2>3, <2>4, <2>5
<1>3. ASSUME NEW w \in Worker, Operation(w) PROVE [Pub!Next]_pubVars
  BY <1>3, RefineSave
<1>4. \/ UNCHANGED <<reg, journal>>
      \/ \E w \in Worker : Operation(w)
      \/ \E r \in net : Handle(r) \/ Stall(r)
  BY DEF Next, Open, Close, Crash, Exit, GiveUp, Lose, Others, HubExpire, HubOther,
         vars, local, hubVars
<1> QED BY <1>1, <1>2, <1>3, <1>4

\* The workflow implements Publication: every published version is one the user
\* approved, published once, while its approval was on record.
THEOREM RefinesPublication == Spec => ImplementsPublication
<1>1. Init => Pub!Init
  BY DEF Init, HubInit, Pub!Init
<1>2. IInv /\ [Next]_vars => [Pub!Next]_<<journal.pending, {reg[i].intent : i \in {j \in IntentId : reg[j].state = "published"}}>>
  BY RefineStep DEF pubVars, PublishedSet
<1> QED BY <1>1, <1>2, InductiveInvariant, PTL DEF Spec, ImplementsPublication, Pub!Spec
================================================================================
