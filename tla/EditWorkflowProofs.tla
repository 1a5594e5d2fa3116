--------------------------- MODULE EditWorkflowProofs ---------------------------
(***************************************************************************)
(* Type correctness of EditWorkflow, and the exclusive session lock.       *)
(***************************************************************************)
EXTENDS EditWorkflow, TLAPS

USE HubAssumption, WorkerAssumption

\* Complete, torn or refused, a save of a well-typed state leaves well-typed variables.
LEMMA SaveType ==
    ASSUME TypeOK, NEW w \in Worker, NEW s \in State, NEW p \in {"ready", "prepare"},
           p = "prepare" => s.pending \in Intent,
           pc[w] # "down", Save(w, s, p)
    PROVE  /\ journal' \in State
           /\ pc' \in [Worker -> Point]
           /\ mem' \in [Worker -> State \cup {None}]
           /\ \A v \in Worker :
                /\ pc'[v] # "down" => mem'[v] \in State
                /\ pc'[v] \in {"prepare", "publish", "recover", "cancel"} => mem'[v].pending \in Intent
<1> USE DEF TypeOK, Point, Goto
<1>1. CASE /\ journal' = s
           /\ mem' = [mem EXCEPT ![w] = s]
           /\ Goto(w, p)
  BY <1>1
<1>2. CASE /\ journal' = s
           /\ Goto(w, "ready")
           /\ UNCHANGED mem
  BY <1>2
<1>3. CASE /\ Goto(w, "ready")
           /\ UNCHANGED <<journal, mem>>
  BY <1>3
<1> QED BY <1>1, <1>2, <1>3 DEF Save

\* Next, one line per kind of step.
LEMMA NextCases ==
    ASSUME [Next]_vars
    PROVE  \/ \E w \in Worker : Open(w)
           \/ \E w \in Worker : Close(w) \/ Crash(w)
           \/ \E w \in Worker : GiveUp(w)
           \/ \E w \in Worker, i \in IntentId, a \in Action, c \in Content : Submit(w, i, a, c)
           \/ \E w \in Worker : Prepare(w) \/ Resend(w)
           \/ \E w \in Worker : Recover(w) \/ CancelPrepared(w)
           \/ \E w \in Worker : Publish(w) \/ CancelCall(w)
           \/ \E w \in Worker : Resume(w) \/ Abandon(w)
           \/ \E w \in Worker : Published(w) \/ Recovered(w)
           \/ \E w \in Worker : Cancelled(w)
           \/ \E w \in Worker : Resumed(w)
           \/ \E w \in Worker : AbandonLocal(w) \/ Abandoned(w)
           \/ \E r \in net : Handle(r) \/ Stall(r)
           \/ \E r \in net : Lose(r)
           \/ Others
           \/ UNCHANGED vars
  BY Zenon DEF Next, Operation

\* Sending a well-typed request leaves well-typed variables.
LEMMA SendType ==
    ASSUME TypeOK, NEW w \in Worker, pc[w] # "down", NEW m, NEW k, NEW e \in 1..MaxEpoch,
           \/ k \in {"publish", "cancel"} /\ m \in Intent
           \/ k \in {"resume", "abandon"} /\ m = NoIntent,
           Send(w, k, e, m)
    PROVE  /\ pc' \in [Worker -> Point]
           /\ \A v \in Worker : pc'[v] # "await" => pc'[v] = pc[v]
           /\ \A v \in Worker : pc'[v] = "await" => pc[v] # "down"
           /\ ask' \in [Worker -> Request \cup {None}]
           /\ reply' \in [Worker -> Reply \cup {None}]
           /\ net' \subseteq Request
<1> DEFINE r == [kind |-> k, from |-> w, epoch |-> e, intent |-> m]
<1>1. r \in Request
  BY DEF Request
<1>2. net' = net \cup {r} /\ ask' = [ask EXCEPT ![w] = r]
      /\ reply' = [reply EXCEPT ![w] = None] /\ pc' = [pc EXCEPT ![w] = "await"]
  BY DEF Send, Goto
<1> HIDE DEF r
<1> QED BY <1>1, <1>2 DEF TypeOK, Point

\* A well-typed answer leaves well-typed variables.
LEMMA AnswerType ==
    ASSUME TypeOK, NEW r \in net, NEW a \in Reply, Answer(r, a)
    PROVE  /\ reply' \in [Worker -> Reply \cup {None}]
           /\ net' \subseteq Request
           /\ UNCHANGED <<journal, lock, pc, mem, ask, used>>
  BY DEF TypeOK, Answer, Request

\* What the Hub does with an intent keeps the types of its state.
LEMMA HubType ==
    ASSUME HubTypeOK, NEW m \in Intent, NEW e \in 1..MaxEpoch,
           HubPrepare(m, e) \/ HubPublish(m, e) \/ HubCancel(m.id, e)
    PROVE  HubTypeOK'
<1> USE DEF HubTypeOK, Intent, IntentState
<1>1. CASE HubPrepare(m, e)
  BY <1>1 DEF HubPrepare
<1>2. CASE HubPublish(m, e)
  BY <1>2 DEF HubPublish
<1>3. CASE HubCancel(m.id, e)
  BY <1>3 DEF HubCancel
<1> QED BY <1>1, <1>2, <1>3

\* Every step keeps the types.
LEMMA TypeStep ==
    ASSUME TypeOK, [Next]_vars
    PROVE  TypeOK'
<1> USE DEF TypeOK
<1>1. ASSUME NEW w \in Worker, Open(w) PROVE TypeOK'
  BY <1>1 DEF Open, Goto, Point, hubVars, HubTypeOK
<1>2. ASSUME NEW w \in Worker, Close(w) \/ Crash(w) PROVE TypeOK'
  BY <1>2 DEF Close, Crash, Exit, Goto, Point, hubVars, HubTypeOK
<1>3. ASSUME NEW w \in Worker, GiveUp(w) PROVE TypeOK'
  BY <1>3 DEF GiveUp, Goto, Point, hubVars, HubTypeOK
<1>4. ASSUME NEW w \in Worker, NEW i \in IntentId, NEW a \in Action, NEW c \in Content,
             Submit(w, i, a, c)
      PROVE TypeOK'
  <2> DEFINE m == [id |-> i, content |-> c, action |-> a, expected |-> mem[w].base]
             s == [mem[w] EXCEPT !.pending = m]
  <2>1. mem[w] \in State /\ pc[w] # "down"
    BY <1>4 DEF Submit
  <2>2. m \in Intent
    BY <2>1 DEF Intent, State
  <2>3. s \in State
    <3> HIDE DEF m
    <3> QED BY <2>1, <2>2 DEF State
  <2>4. Save(w, s, "prepare")
    BY <1>4 DEF Submit
  <2>5. s.pending \in Intent
    BY <2>1, <2>2 DEF State
  <2> HIDE DEF m, s
  <2> QED BY <1>4, <2>1, <2>3, <2>4, <2>5, SaveType DEF Submit, hubVars, HubTypeOK
<1>5. ASSUME NEW w \in Worker, Prepare(w) \/ Resend(w) PROVE TypeOK'
  BY <1>5 DEF Prepare, Resend, Goto, Point, hubVars, HubTypeOK
<1>6. ASSUME NEW w \in Worker, Recover(w) \/ CancelPrepared(w) PROVE TypeOK'
  <2>1. PICK p \in {"recover", "cancel"} : Query(w, p)
    BY <1>6 DEF Recover, CancelPrepared
  <2>2. mem[w] \in State /\ mem[w].pending \in Intent
    BY <2>1 DEF Query, State
  <2>3. Receipt(mem[w].pending, mem[w].epoch) \in Reply
    BY <2>2 DEF Receipt, Reply, State, Intent, HubTypeOK
  <2> QED BY <2>1, <2>2, <2>3 DEF Query, Goto, Point, hubVars, HubTypeOK
<1>7. ASSUME NEW w \in Worker, Publish(w) \/ CancelCall(w) PROVE TypeOK'
  <2>1. mem[w] \in State /\ pc[w] # "down"
    BY <1>7 DEF Publish, CancelCall
  <2>2. mem[w].pending \in Intent /\ mem[w].epoch \in 1..MaxEpoch
    BY <1>7, <2>1 DEF State, Publish, CancelCall
  <2>3. PICK k \in {"publish", "cancel"} : Send(w, k, mem[w].epoch, mem[w].pending)
    BY <1>7 DEF Publish, CancelCall
  <2> QED BY <1>7, <2>1, <2>2, <2>3, SendType DEF Publish, CancelCall, hubVars, HubTypeOK
<1>8. ASSUME NEW w \in Worker, Resume(w) \/ Abandon(w) PROVE TypeOK'
  <2>1. mem[w] \in State /\ pc[w] # "down"
    BY <1>8 DEF Resume, Abandon
  <2>2. PICK k \in {"resume", "abandon"}, e \in 1..MaxEpoch : Send(w, k, e, NoIntent)
    BY <1>8, <2>1 DEF Resume, Abandon, State, HubTypeOK
  <2> QED BY <1>8, <2>1, <2>2, SendType DEF Resume, Abandon, hubVars, HubTypeOK
<1>9. ASSUME NEW w \in Worker, Published(w) \/ Recovered(w) PROVE TypeOK'
  <2> DEFINE m == mem[w].pending
             d == m.action # "commit"
             s == [mem[w] EXCEPT !.base = m.content, !.closed = d,
                                 !.token = IF d THEN FALSE ELSE @,
                                 !.pending = NoIntent, !.receipt = m.id]
  <2>1. mem[w] \in State /\ pc[w] # "down"
    BY <1>9 DEF Published, Recovered
  <2>2. Accept(w, reply[w])
    BY <1>9 DEF Published, Recovered
  <2>3. Save(w, s, "ready")
    BY <2>2 DEF Accept
  <2>4. s \in State
    <3>1. m \in Intent
      BY <2>1, <2>2 DEF Accept, State
    <3>2. m.content \in Content /\ m.id \in IntentId
      BY <3>1 DEF Intent
    <3> HIDE DEF m, d
    <3>3. d \in BOOLEAN
      BY DEF d
    <3> QED BY <2>1, <3>2, <3>3 DEF State
  <2> HIDE DEF m, s
  <2> QED BY <1>9, <2>1, <2>3, <2>4, SaveType DEF Published, Recovered, hubVars, HubTypeOK
<1>10. ASSUME NEW w \in Worker, Cancelled(w) PROVE TypeOK'
  <2> DEFINE s == [mem[w] EXCEPT !.pending = NoIntent]
  <2>1. mem[w] \in State /\ pc[w] # "down" /\ Save(w, s, "ready")
    BY <1>10 DEF Cancelled
  <2>2. s \in State
    BY <2>1 DEF State
  <2> HIDE DEF s
  <2> QED BY <1>10, <2>1, <2>2, SaveType DEF Cancelled, hubVars, HubTypeOK
<1>11. ASSUME NEW w \in Worker, Resumed(w) PROVE TypeOK'
  <2> DEFINE s == [mem[w] EXCEPT !.epoch = reply[w].epoch]
  <2>1. mem[w] \in State /\ pc[w] # "down" /\ Save(w, s, "ready")
    BY <1>11 DEF Resumed
  <2>2. s \in State
    BY <1>11, <2>1 DEF Resumed, State, Reply
  <2> HIDE DEF s
  <2> QED BY <1>11, <2>1, <2>2, SaveType DEF Resumed, hubVars, HubTypeOK
<1>12. ASSUME NEW w \in Worker, AbandonLocal(w) \/ Abandoned(w) PROVE TypeOK'
  <2>1. mem[w] \in State /\ pc[w] # "down" /\ Save(w, Closed(mem[w]), "ready")
    BY <1>12 DEF AbandonLocal, Abandoned
  <2>2. Closed(mem[w]) \in State
    BY <2>1 DEF Closed, State
  <2> QED BY <1>12, <2>1, <2>2, SaveType DEF AbandonLocal, Abandoned, hubVars, HubTypeOK
<1>13. ASSUME NEW r \in net, Handle(r) \/ Stall(r)
       PROVE TypeOK'
  <2>1. r \in Request /\ r.epoch \in 1..MaxEpoch
    BY DEF Request
  <2>2. CASE r.kind = "publish" /\ HandlePublish(r)
    <3>1. r.intent \in Intent
      BY <2>1, <2>2 DEF Request
    <3>2. PICK a \in Reply : Answer(r, a)
      BY <2>1, <2>2, <3>1 DEF HandlePublish, Reply, IntentState, HubTypeOK, Intent
    <3>3. HubTypeOK'
      BY <2>1, <2>2, <3>1, HubType DEF HandlePublish, hubVars, HubTypeOK
    <3> QED BY <3>2, <3>3, AnswerType
  <2>3. CASE r.kind = "cancel" /\ HandleCancel(r)
    <3>1. r.intent \in Intent
      BY <2>1, <2>3 DEF Request
    <3>2. PICK a \in Reply : Answer(r, a)
      BY <2>1, <2>3, <3>1 DEF HandleCancel, Reply, IntentState
    <3>3. HubTypeOK'
      BY <2>1, <2>3, <3>1, HubType DEF HandleCancel
    <3> QED BY <3>2, <3>3, AnswerType
  <2>4. CASE HandleResume(r)
    <3>1. PICK a \in Reply : Answer(r, a)
      BY <2>1, <2>4 DEF HandleResume, HubResume, Reply
    <3>2. HubTypeOK'
      BY <2>1, <2>4 DEF HandleResume, HubResume, HubTypeOK
    <3> QED BY <3>1, <3>2, AnswerType
  <2>5. CASE HandleAbandon(r)
    <3>1. PICK a \in Reply : Answer(r, a)
      BY <2>1, <2>5 DEF HandleAbandon, Reply
    <3>2. HubTypeOK'
      BY <2>1, <2>5 DEF HandleAbandon, HubAbandon, HubTypeOK
    <3> QED BY <3>1, <3>2, AnswerType
  <2>6. CASE Stall(r)
    <3>1. r.intent \in Intent
      BY <2>1, <2>6 DEF Request, Stall
    <3>2. HubTypeOK'
      BY <2>1, <2>6, <3>1, HubType DEF Stall
    <3> QED BY <2>6, <3>2 DEF Stall
  <2> QED BY <1>13, <2>2, <2>3, <2>4, <2>5, <2>6 DEF Handle
<1>14. ASSUME NEW r \in net, Lose(r) PROVE TypeOK'
  BY <1>14 DEF Lose, hubVars, HubTypeOK
<1>15. CASE Others
  BY <1>15 DEF Others, local, HubExpire, HubOther, HubTypeOK
<1>16. CASE UNCHANGED vars
  BY <1>16 DEF vars, hubVars, local, HubTypeOK
<1> HIDE DEF TypeOK
<1> QED BY NextCases, <1>1, <1>2, <1>3, <1>4, <1>5, <1>6, <1>7, <1>8, <1>9, <1>10,
           <1>11, <1>12, <1>13, <1>14, <1>15, <1>16

\* Every component keeps its type, in every step of the specification.
THEOREM TypeInvariant == Spec => []TypeOK
<1>1. Init => TypeOK
  BY DEF Init, TypeOK, HubInit, HubTypeOK, State, Point, IntentState
<1> QED BY <1>1, TypeStep, PTL DEF Spec

-------------------------------------------------------------------------------
(* The inductive invariant.                                                *)

\* Every step leaves at most the holder of .operation.lock in an operation.
LEMMA LockStep ==
    ASSUME IInv, [Next]_vars
    PROVE  LockInv'
<1> USE DEF IInv, TypeOK, LockInv, Up, Goto
<1>1. ASSUME NEW w \in Worker, Open(w) PROVE LockInv'
  BY <1>1 DEF Open
<1>2. ASSUME NEW w \in Worker, Close(w) \/ Crash(w) PROVE LockInv'
  BY <1>2 DEF Close, Crash, Exit
<1>3. ASSUME NEW w \in Worker, pc[w] # "down", NEW p, pc' = [pc EXCEPT ![w] = p], lock' = lock
      PROVE LockInv'
  BY <1>3
<1>4. ASSUME NEW w \in Worker, NEW s, NEW p, Save(w, s, p)
      PROVE \E q : pc' = [pc EXCEPT ![w] = q]
  BY <1>4 DEF Save
<1>5. ASSUME NEW w \in Worker, Operation(w) \/ GiveUp(w) PROVE LockInv'
  <2>1. ASSUME NEW i \in IntentId, NEW a \in Action, NEW c \in Content, Submit(w, i, a, c)
        PROVE LockInv'
    BY <2>1, <1>3, <1>4 DEF Submit
  <2>2. CASE Prepare(w) \/ Resend(w) \/ Recover(w) \/ CancelPrepared(w) \/ GiveUp(w)
    BY <2>2, <1>3 DEF Prepare, Resend, Recover, CancelPrepared, Query, GiveUp
  <2>3. CASE Publish(w) \/ CancelCall(w) \/ Resume(w) \/ Abandon(w)
    BY <2>3, <1>3 DEF Publish, CancelCall, Resume, Abandon, Send
  <2>4. CASE Published(w) \/ Recovered(w)
    BY <2>4, <1>3, <1>4 DEF Published, Recovered, Accept
  <2>5. CASE Cancelled(w) \/ Resumed(w) \/ AbandonLocal(w) \/ Abandoned(w)
    BY <2>5, <1>3, <1>4 DEF Cancelled, Resumed, AbandonLocal, Abandoned
  <2> QED BY <1>5, <2>1, <2>2, <2>3, <2>4, <2>5 DEF Operation
<1>6. ASSUME NEW r \in net, Handle(r) \/ Stall(r) \/ Lose(r) PROVE LockInv'
  BY <1>6 DEF Handle, HandlePublish, HandleCancel, HandleResume, HandleAbandon, Answer, Stall, Lose
<1>7. CASE Others \/ UNCHANGED vars
  BY <1>7 DEF Others, local, vars
<1> QED BY <1>1, <1>2, <1>5, <1>6, <1>7 DEF Next
================================================================================
