-------------------------- MODULE TaskCenterProofs ---------------------------
(***************************************************************************)
(* Safety of the task center, for any number of processes, sessions,       *)
(* checkouts, leases and ticks: records of the index, leases, quitting,    *)
(* notices, types, and what the window shows.                              *)
(***************************************************************************)
EXTENDS TaskCenter, FiniteSetTheorems, TLAPS

-------------------------------------------------------------------------------
(* The index                                                               *)

RegOK ==
    /\ DOMAIN index = Edit
    /\ DOMAIN reg = Registrar
    /\ \A r \in Registrar : reg[r] # Idle => reg[r].edit \in Edit /\ reg[r].fact \in Fact

IndexInv == RegOK /\ FirstRecordStays

\* A record is not the mark of its absence, and says the facts it was made of.
LEMMA RecordFacts ==
    ASSUME NEW r, reg[r].fact \in Fact
    PROVE  RecordOf(r) # NoRecord /\ FactOf(RecordOf(r)) = reg[r].fact
<1>1. reg[r].fact = [mode |-> reg[r].fact.mode, base |-> reg[r].fact.base]
  BY DEF Fact
<1>2. FactOf(RecordOf(r)) = reg[r].fact
  BY <1>1 DEF FactOf, RecordOf
<1>3. "base" \in DOMAIN RecordOf(r) /\ "base" \notin DOMAIN NoRecord
  BY DEF RecordOf, NoRecord
<1> QED BY <1>2, <1>3

\* Who finds a record with the same facts is told of them; nobody else is.
LEMMA CompareKeeps ==
    ASSUME IndexInv, NEW r \in Registrar, reg[r] # Idle, NEW next, Compare(r, next),
           next \in {"temp", "idle"}, UNCHANGED index
    PROVE  IndexInv'
<1>1. /\ DOMAIN reg' = Registrar
      /\ \A s \in Registrar : reg'[s] # Idle => reg'[s].edit \in Edit /\ reg'[s].fact \in Fact
  <2>1. CASE Leave(r)
    BY <2>1 DEF IndexInv, RegOK, Leave, Idle
  <2>2. CASE reg' = [reg EXCEPT ![r].step = next]
    BY <2>2 DEF IndexInv, RegOK, Idle
  <2> QED BY <2>1, <2>2 DEF Compare
<1> QED BY <1>1 DEF IndexInv, RegOK, FirstRecordStays, Compare, Give

\* No record is given before the first is written.
LEMMA IndexStart == IndexInit => IndexInv
  BY DEF IndexInit, IndexInv, RegOK, FirstRecordStays, Idle

\* A process that registers keeps the first record, and agrees with it when it is told.
LEMMA RegisterKeeps ==
    ASSUME IndexInv, NEW r \in Registrar, RegisterStep(r)
    PROVE  IndexInv'
<1> USE DEF IndexInv, RegOK
<1>1. CASE BeginRegister(r)
  <2>1. PICK e \in Edit, f \in Fact :
          reg' = [reg EXCEPT ![r] = [step |-> "read", edit |-> e, fact |-> f]]
    BY <1>1 DEF BeginRegister
  <2> QED BY <1>1, <2>1 DEF BeginRegister, FirstRecordStays
<1>2. CASE ReadRecord(r)
  <2>1. reg[r] # Idle /\ Compare(r, "temp") /\ UNCHANGED index
    BY <1>2 DEF ReadRecord, Idle
  <2> QED BY <2>1, CompareKeeps
<1>3. CASE WriteTemp(r)
  <2>1. reg[r] # Idle
    BY <1>3 DEF WriteTemp, Idle
  <2> QED BY <1>3, <2>1 DEF WriteTemp, Leave, FirstRecordStays
<1>4. CASE LinkRecord(r)
  <2>1. reg[r] # Idle
    BY <1>4 DEF LinkRecord, Idle
  <2>2. CASE index[reg[r].edit] = NoRecord
    <3>1. /\ index' = [index EXCEPT ![reg[r].edit] = RecordOf(r)]
          /\ told' = told \cup {[edit |-> reg[r].edit, fact |-> reg[r].fact]}
          /\ reg' = [reg EXCEPT ![r] = Idle]
      BY <1>4, <2>2 DEF LinkRecord, Give, Leave
    <3>2. RecordOf(r) # NoRecord /\ FactOf(RecordOf(r)) = reg[r].fact
      BY <2>1, RecordFacts
    <3>3. FirstRecordStays'
      BY <2>1, <2>2, <3>1, <3>2 DEF FirstRecordStays
    <3> QED BY <3>1, <3>3
  <2>3. CASE index[reg[r].edit] # NoRecord
    <3>1. UNCHANGED <<index, told>> /\ reg' = [reg EXCEPT ![r].step = "reread"]
      BY <1>4, <2>3 DEF LinkRecord
    <3>2. \A s \in Registrar : reg'[s] # Idle => reg'[s].edit \in Edit /\ reg'[s].fact \in Fact
      BY <2>1, <3>1
    <3> QED BY <3>1, <3>2 DEF FirstRecordStays
  <2> QED BY <2>2, <2>3
<1>5. CASE RereadRecord(r)
  <2>1. reg[r] # Idle /\ Compare(r, "idle") /\ UNCHANGED index
    BY <1>5 DEF RereadRecord, Idle
  <2> QED BY <2>1, CompareKeeps
<1>6. CASE EndRegister(r)
  BY <1>6 DEF EndRegister, Leave, FirstRecordStays
<1> QED BY <1>1, <1>2, <1>3, <1>4, <1>5, <1>6 DEF RegisterStep

\* Monitor, focus requests and users leave the records and who was told of them alone.
LEMMA OthersKeep ==
    ASSUME IndexNext
    PROVE  (\E r \in Registrar : RegisterStep(r)) \/ UNCHANGED regVars
<1>1. ASSUME NEW e \in Edit, Review(e) \/ Clean(e) \/ Look(e)
      PROVE  UNCHANGED regVars
  BY <1>1 DEF Review, Clean, Look
<1>2. ASSUME NEW e \in Edit, RequestFocus(e)
      PROVE  UNCHANGED regVars
  BY <1>2 DEF RequestFocus
<1>3. ASSUME NEW e \in Edit, BeginSave(e) \/ EndSave(e) \/ Touch(e) \/ Vanish(e)
      PROVE  UNCHANGED regVars
  BY <1>3 DEF BeginSave, EndSave, Touch, Vanish
<1>4. ASSUME EndMonitor \/ Hash \/ Restart \/ PollFocus \/ TakeFocus \/ Spoil \/ Tick
      PROVE  UNCHANGED regVars
  BY <1>4 DEF EndMonitor, Hash, Restart, PollFocus, TakeFocus, Spoil, Tick
<1> QED BY <1>1, <1>2, <1>3, <1>4 DEF IndexNext

\* Every step of the index keeps what is said of the records.
LEMMA IndexKeeps == IndexInv /\ [IndexNext]_regVars => IndexInv'
<1>1. ASSUME IndexInv, UNCHANGED regVars
      PROVE  IndexInv'
  BY <1>1 DEF regVars, IndexInv, RegOK, FirstRecordStays
<1> QED BY <1>1, OthersKeep, RegisterKeeps

\* A session that has been indexed keeps its first record, for any number of processes
\* that register any sessions with any facts while copies are watched and changed.
THEOREM RecordsAreKept == DeskSpec => []FirstRecordStays
<1>1. DeskInit => IndexInv
  BY IndexStart DEF DeskInit
<1>2. IndexInv /\ [Desk]_<<parts, indexVars, gateVars, windowVars>> => IndexInv'
  <2>1. [Desk]_<<parts, indexVars, gateVars, windowVars>> => [IndexNext]_regVars
    BY DEF Desk, indexVars, regVars
  <2> QED BY <2>1, IndexKeeps
<1>3. IndexInv => FirstRecordStays
  BY DEF IndexInv
<1> QED BY <1>1, <1>2, <1>3, PTL DEF DeskSpec

-------------------------------------------------------------------------------
(* The lease.  ReusedIsRecent is not inductive: what a process is told comes *)
(* from the record or from an answer, and the record from an earlier answer. *)

JournalRecord == [lease : 1..MaxLease, closed : BOOLEAN]
Ack == [key : 1..MaxLease, at : Nat]

LeaseTypes ==
    /\ guard \in [lease : 1..MaxLease, live : BOOLEAN]
    /\ lease \in JournalRecord \cup {NoJournal}
    /\ ack \in Ack \cup {NoAck}
    /\ clock \in Nat
    /\ confirmed \in [1..MaxLease -> Int]
    /\ \A l \in 1..MaxLease : -1 <= confirmed[l] /\ confirmed[l] <= clock
    /\ DOMAIN renewing = Renewer

\* The agent is never ahead of the server, and the copy of the server outlives the
\* journal's absence.
JournalInv ==
    /\ lease # NoJournal => lease.lease <= guard.lease
    /\ escrow = "erased" => lease # NoJournal
    /\ \A p \in Renewer :
          /\ renewing[p].step = "confirm" => lease # NoJournal
          /\ renewing[p].step \in {"save", "lock", "check", "send", "answered", "told"} =>
                renewing[p].lease \in 1..MaxLease /\ renewing[p].lease <= guard.lease
          /\ renewing[p].step \in {"lock", "check"} => renewing[p].now \in Nat

\* The server has extended lease l, or a newer one, at time t or later.
Extended(l, t) == \E m \in l..MaxLease : confirmed[m] >= t

\* A call ends within its limit, and an answer or a record stands for an extension.
AnswerInv ==
    /\ \A p \in Renewer :
          /\ renewing[p].step \in {"send", "answered"} =>
                /\ renewing[p].sent \in Nat
                /\ renewing[p].sent <= clock /\ clock - renewing[p].sent <= CallLimit
          /\ renewing[p].step = "answered" => Extended(renewing[p].lease, renewing[p].sent)
    /\ ack # NoAck => \E t \in Nat : Extended(ack.key, t) /\ ack.at - t <= CallLimit

\* ReusedIsRecent, by process and in terms of Extended.
ToldInv ==
    \A p \in Renewer : renewing[p].step = "told" =>
       IF renewing[p].reused
       THEN /\ renewing[p].now \in Nat
            /\ \E t \in Nat : /\ Extended(renewing[p].lease, t)
                              /\ renewing[p].now - t < ReuseTime + CallLimit
       ELSE renewing[p].sent \in Nat /\ Extended(renewing[p].lease, renewing[p].sent)

LeaseInv == LeaseTypes /\ JournalInv /\ AnswerInv /\ ToldInv

\* A journal is not the mark of its absence.
LEMMA JournalIsThere == ASSUME NEW j \in JournalRecord PROVE j # NoJournal
<1>1. "closed" \in DOMAIN j /\ "closed" \notin DOMAIN NoJournal
  BY DEF JournalRecord, NoJournal
<1> QED BY <1>1

\* The invariant holds at the start ...
LEMMA LeaseStart == GateInit => LeaseInv
<1> SUFFICES ASSUME GateInit PROVE LeaseInv
  OBVIOUS
<1>1. \A p \in Renewer : renewing[p].step = "away"
  BY DEF GateInit, Away
<1>2. LeaseTypes
  BY GateAssumption DEF GateInit, LeaseTypes
<1>3. JournalInv /\ AnswerInv /\ ToldInv
  BY <1>1 DEF GateInit, JournalInv, AnswerInv, ToldInv
<1> QED BY <1>2, <1>3 DEF LeaseInv

\* ... and says more than the property.
LEMMA LeaseEnd == LeaseInv => LeaseIsKept
<1> SUFFICES ASSUME LeaseInv PROVE LeaseIsKept
  OBVIOUS
<1>1. ErasedIsSaved
  BY DEF LeaseInv, JournalInv, ErasedIsSaved
<1>2. ASSUME NEW p \in Renewer, renewing[p].step = "told"
      PROVE  \E l \in renewing[p].lease..MaxLease :
               IF renewing[p].reused
               THEN renewing[p].now - confirmed[l] < ReuseTime + CallLimit /\ confirmed[l] # -1
               ELSE confirmed[l] >= renewing[p].sent
  <2>1. renewing[p].lease \in 1..MaxLease
    BY <1>2 DEF LeaseInv, JournalInv
  <2>2. \A l \in renewing[p].lease..MaxLease : confirmed[l] \in Int
    BY <2>1, GateAssumption DEF LeaseInv, LeaseTypes
  <2>3. CASE renewing[p].reused
    <3>1. renewing[p].now \in Nat
      BY <1>2, <2>3 DEF LeaseInv, ToldInv
    <3>2. PICK t \in Nat : /\ Extended(renewing[p].lease, t)
                           /\ renewing[p].now - t < ReuseTime + CallLimit
      BY <1>2, <2>3 DEF LeaseInv, ToldInv
    <3>3. PICK l \in renewing[p].lease..MaxLease : confirmed[l] >= t
      BY <3>2 DEF Extended
    <3>4. renewing[p].now - confirmed[l] < ReuseTime + CallLimit /\ confirmed[l] # -1
      BY <2>2, <3>1, <3>2, <3>3 DEF ReuseTime, CallLimit
    <3> QED BY <2>3, <3>4
  <2>4. CASE ~renewing[p].reused
    BY <1>2, <2>4 DEF LeaseInv, ToldInv, Extended
  <2> QED BY <2>3, <2>4
<1> QED BY <1>1, <1>2 DEF LeaseIsKept, ReusedIsRecent

\* Steps of the server, the worker and time.
LEMMA ServerKeepsLease ==
    ASSUME LeaseInv,
           NewLease \/ AcceptLease \/ EndGuard \/ CloseJournal \/ ExpireEscrow \/ Pass
             \/ UNCHANGED gateVars
    PROVE  LeaseInv'
<1> USE GateAssumption DEF LeaseInv
<1>1. CASE NewLease
  <2>1. /\ guard' \in [lease : 1..MaxLease, live : BOOLEAN] /\ guard'.lease = guard.lease + 1
        /\ UNCHANGED <<escrow, lease, ack, renewing, clock, confirmed>>
    BY <1>1 DEF NewLease, LeaseTypes
  <2>2. LeaseTypes'
    BY <2>1 DEF LeaseTypes
  <2>3. JournalInv'
    BY <2>1 DEF JournalInv, LeaseTypes, JournalRecord
  <2>4. AnswerInv' /\ ToldInv'
    BY <2>1 DEF AnswerInv, ToldInv, Extended
  <2> QED BY <2>2, <2>3, <2>4
<1>2. CASE AcceptLease \/ CloseJournal
  <2>1. /\ lease # NoJournal /\ lease' \in JournalRecord /\ lease'.lease <= guard.lease
        /\ UNCHANGED <<guard, escrow, ack, renewing, clock, confirmed>>
    <3>1. lease # NoJournal /\ lease \in JournalRecord /\ lease.lease <= guard.lease
      BY <1>2 DEF AcceptLease, CloseJournal, Open, LeaseTypes, JournalInv
    <3>2. guard.lease \in 1..MaxLease
      BY DEF LeaseTypes
    <3>3. CASE AcceptLease
      <4>1. lease' = [lease EXCEPT !.lease = guard.lease]
        BY <3>3 DEF AcceptLease
      <4> QED BY <3>1, <3>2, <3>3, <4>1 DEF AcceptLease, JournalRecord
    <3>4. CASE CloseJournal
      <4>1. lease' = [lease EXCEPT !.closed = TRUE]
        BY <3>4 DEF CloseJournal
      <4> QED BY <3>1, <3>4, <4>1 DEF CloseJournal, JournalRecord
    <3> QED BY <1>2, <3>3, <3>4
  <2>2. LeaseTypes'
    BY <2>1 DEF LeaseTypes
  <2>3. JournalInv'
    BY <2>1, JournalIsThere DEF JournalInv
  <2>4. AnswerInv' /\ ToldInv'
    BY <2>1 DEF AnswerInv, ToldInv, Extended
  <2> QED BY <2>2, <2>3, <2>4
<1>3. CASE EndGuard \/ ExpireEscrow
  <2>1. /\ guard' \in [lease : 1..MaxLease, live : BOOLEAN] /\ guard'.lease = guard.lease
        /\ escrow' = escrow \/ escrow' # "erased"
        /\ UNCHANGED <<lease, ack, renewing, clock, confirmed>>
    BY <1>3 DEF EndGuard, ExpireEscrow, LeaseTypes
  <2>2. LeaseTypes' /\ JournalInv'
    BY <2>1 DEF LeaseTypes, JournalInv
  <2>3. AnswerInv' /\ ToldInv'
    BY <2>1 DEF AnswerInv, ToldInv, Extended
  <2> QED BY <2>2, <2>3
<1>4. CASE Pass
  <2>1. /\ clock' = clock + 1
        /\ \A p \in Renewer :
              renewing[p].step \in {"send", "answered"} => clock - renewing[p].sent < CallLimit
        /\ UNCHANGED <<guard, escrow, lease, ack, renewing, confirmed>>
    BY <1>4 DEF Pass
  <2>2. LeaseTypes'
    BY <2>1 DEF LeaseTypes
  <2>3. JournalInv' /\ ToldInv'
    BY <2>1 DEF JournalInv, ToldInv, Extended
  <2>4. AnswerInv'
    <3>1. ASSUME NEW p \in Renewer, renewing[p].step \in {"send", "answered"}
          PROVE  renewing[p].sent \in Nat /\ renewing[p].sent <= clock'
                   /\ clock' - renewing[p].sent <= CallLimit
      <4>1. renewing[p].sent \in Nat /\ renewing[p].sent <= clock
        BY <3>1 DEF AnswerInv
      <4>2. clock - renewing[p].sent < CallLimit
        BY <2>1, <3>1
      <4> QED BY <2>1, <4>1, <4>2 DEF LeaseTypes, CallLimit
    <3> QED BY <2>1, <3>1 DEF AnswerInv, Extended
  <2> QED BY <2>2, <2>3, <2>4
<1>5. CASE UNCHANGED gateVars
  BY <1>5 DEF gateVars, LeaseTypes, JournalInv, AnswerInv, ToldInv, Extended
<1> QED BY <1>1, <1>2, <1>3, <1>4, <1>5

\* Whoever goes away, or has not got further than the lock, has been told nothing.
LEMMA OneMoves ==
    ASSUME LeaseInv, NEW p \in Renewer, NEW r, renewing' = [renewing EXCEPT ![p] = r],
           UNCHANGED <<guard, clock, confirmed, ack>>,
           lease' = lease \/ (lease' \in JournalRecord /\ lease'.lease <= guard.lease),
           escrow' = "erased" => lease' # NoJournal,
           r.step = "confirm" => lease' # NoJournal,
           r.step \in {"save", "lock", "check", "send", "answered", "told"} =>
              r.lease \in 1..MaxLease /\ r.lease <= guard.lease,
           r.step \in {"lock", "check"} => r.now \in Nat,
           r.step = "send" => r.sent = clock,
           r.step # "answered", r.step # "told"
    PROVE  LeaseInv'
<1> USE DEF LeaseInv
<1>1. LeaseTypes'
  BY DEF LeaseTypes
<1>2. lease # NoJournal => lease' # NoJournal
  BY JournalIsThere
<1>3. \A q \in Renewer : renewing'[q] = IF q = p THEN r ELSE renewing[q]
  BY DEF LeaseTypes
<1>4. JournalInv'
  BY <1>2, <1>3 DEF JournalInv
<1>5. AnswerInv'
  BY <1>3 DEF AnswerInv, LeaseTypes, Extended, CallLimit
<1>6. ToldInv'
  BY <1>3 DEF ToldInv, Extended
<1> QED BY <1>1, <1>4, <1>5, <1>6

\* Receiving, saving and confirming a lease, and coming to the gate.
LEMMA InitKeepsLease ==
    ASSUME LeaseInv, NEW p \in Renewer,
           BeginInit(p) \/ Receive(p) \/ SaveJournal(p) \/ Confirm(p) \/ BeginRenew(p)
             \/ TakeLock(p) \/ EndRenew(p) \/ DieRenewing(p)
    PROVE  LeaseInv'
<1>1. CASE BeginInit(p) \/ EndRenew(p) \/ DieRenewing(p)
  <2>1. PICK r : /\ renewing' = [renewing EXCEPT ![p] = r] /\ r.step \in {"receive", "away"}
                 /\ UNCHANGED <<guard, escrow, lease, ack, clock, confirmed>>
    BY <1>1 DEF BeginInit, EndRenew, DieRenewing, Stop, Goto, Away
  <2>2. escrow' = "erased" => lease' # NoJournal
    BY <2>1 DEF LeaseInv, JournalInv
  <2> QED BY <2>1, <2>2, OneMoves
<1>2. CASE Receive(p)
  <2> DEFINE r == [step |-> "save", lease |-> guard.lease]
  <2>1. /\ renewing' = [renewing EXCEPT ![p] = r]
        /\ UNCHANGED <<guard, escrow, lease, ack, clock, confirmed>>
    BY <1>2 DEF Receive, Goto
  <2>2. r.step = "save" /\ r.lease \in 1..MaxLease /\ r.lease <= guard.lease
    BY DEF LeaseInv, LeaseTypes
  <2>3. escrow' = "erased" => lease' # NoJournal
    BY <2>1 DEF LeaseInv, JournalInv
  <2> HIDE DEF r
  <2> QED BY <2>1, <2>2, <2>3, OneMoves
<1>3. CASE SaveJournal(p)
  <2> DEFINE new == [lease |-> renewing[p].lease, closed |-> FALSE]
  <2>1. renewing[p].lease \in 1..MaxLease /\ renewing[p].lease <= guard.lease
    BY <1>3 DEF SaveJournal, LeaseInv, JournalInv
  <2>2. new \in JournalRecord /\ new.lease <= guard.lease
    BY <2>1 DEF JournalRecord
  <2>3. PICK r : /\ renewing' = [renewing EXCEPT ![p] = r] /\ r.step \in {"confirm", "away"}
                 /\ UNCHANGED <<guard, escrow, ack, clock, confirmed>>
                 /\ lease' = new \/ (lease' = lease /\ lease # NoJournal)
    BY <1>3 DEF SaveJournal, Goto, Away
  <2>4. lease' # NoJournal
    BY <2>2, <2>3, JournalIsThere
  <2>5. lease' = lease \/ (lease' \in JournalRecord /\ lease'.lease <= guard.lease)
    BY <2>2, <2>3
  <2> QED BY <2>3, <2>4, <2>5, OneMoves
<1>4. CASE Confirm(p)
  <2>1. /\ renewing' = [renewing EXCEPT ![p] = Away] /\ Away.step = "away"
        /\ UNCHANGED <<guard, lease, ack, clock, confirmed>>
    BY <1>4 DEF Confirm, Goto, Away
  <2>2. lease # NoJournal
    BY <1>4 DEF Confirm, LeaseInv, JournalInv
  <2> QED BY <2>1, <2>2, OneMoves
<1>5. CASE BeginRenew(p)
  <2> DEFINE r == [step |-> "lock", lease |-> lease.lease, now |-> clock]
  <2>1. /\ renewing' = [renewing EXCEPT ![p] = r]
        /\ UNCHANGED <<guard, escrow, lease, ack, clock, confirmed>>
    BY <1>5 DEF BeginRenew, Goto
  <2>2. lease # NoJournal /\ lease \in JournalRecord
    BY <1>5 DEF BeginRenew, Open, LeaseInv, LeaseTypes
  <2>3. /\ r.step = "lock" /\ r.now \in Nat
        /\ r.lease \in 1..MaxLease /\ r.lease <= guard.lease
    BY <2>2 DEF LeaseInv, LeaseTypes, JournalInv, JournalRecord
  <2> HIDE DEF r
  <2> QED BY <2>1, <2>2, <2>3, OneMoves
<1>6. CASE TakeLock(p)
  <2>1. /\ renewing[p].step = "lock"
        /\ UNCHANGED <<guard, escrow, lease, ack, clock, confirmed>>
    BY <1>6 DEF TakeLock
  <2>2. escrow' = "erased" => lease' # NoJournal
    BY <2>1 DEF LeaseInv, JournalInv
  <2>3. CASE Goto(p, Away)
    <3>1. renewing' = [renewing EXCEPT ![p] = Away] /\ Away.step = "away"
      BY <2>3 DEF Goto, Away
    <3> QED BY <2>1, <2>2, <3>1, OneMoves
  <2>4. CASE Step(p, "check")
    <3> DEFINE r == [renewing[p] EXCEPT !.step = "check"]
    <3>1. renewing' = [renewing EXCEPT ![p] = r]
      BY <2>4 DEF Step, Goto
    <3>2. \A q \in Renewer : /\ q # p => renewing'[q] = renewing[q]
                             /\ renewing'[p].step = "check"
                             /\ renewing'[p].lease = renewing[p].lease
                             /\ renewing'[p].now = renewing[p].now
      BY <3>1 DEF LeaseInv, LeaseTypes
    <3>3. LeaseTypes'
      BY <2>1, <3>1 DEF LeaseInv, LeaseTypes
    <3>4. JournalInv'
      BY <2>1, <3>2 DEF LeaseInv, JournalInv
    <3>5. AnswerInv' /\ ToldInv'
      BY <2>1, <3>2 DEF LeaseInv, AnswerInv, ToldInv, Extended
    <3> QED BY <3>3, <3>4, <3>5 DEF LeaseInv
  <2> QED BY <1>6, <2>3, <2>4 DEF TakeLock
<1> QED BY <1>1, <1>2, <1>3, <1>4, <1>5, <1>6

\* The record stands in for a renewal, or a call begins, or the journal has changed.
LEMMA CheckKeepsLease ==
    ASSUME LeaseInv, NEW p \in Renewer, CheckAck(p)
    PROVE  LeaseInv'
<1> USE DEF LeaseInv
<1>1. /\ renewing[p].step = "check"
      /\ UNCHANGED <<guard, escrow, lease, ack, clock, confirmed>>
  BY DEF CheckAck
<1>2. /\ renewing[p].lease \in 1..MaxLease /\ renewing[p].lease <= guard.lease
      /\ renewing[p].now \in Nat
  BY <1>1 DEF JournalInv
<1>3. escrow' = "erased" => lease' # NoJournal
  BY <1>1 DEF JournalInv
<1>4. CASE Stop(p)
  <2>1. renewing' = [renewing EXCEPT ![p] = Away] /\ Away.step = "away"
    BY <1>4 DEF Stop, Goto, Away
  <2> QED BY <1>1, <1>3, <2>1, OneMoves
<1>5. CASE Goto(p, [step |-> "send", lease |-> renewing[p].lease, sent |-> clock])
  <2> DEFINE r == [step |-> "send", lease |-> renewing[p].lease, sent |-> clock]
  <2>1. renewing' = [renewing EXCEPT ![p] = r]
    BY <1>5 DEF Goto
  <2>2. r.step = "send" /\ r.sent = clock /\ r.lease = renewing[p].lease
    OBVIOUS
  <2> HIDE DEF r
  <2> QED BY <1>1, <1>2, <1>3, <2>1, <2>2, OneMoves
<1>6. CASE /\ Recent(p)
           /\ Goto(p, [step |-> "told", reused |-> TRUE,
                       lease |-> renewing[p].lease, now |-> renewing[p].now])
  <2> DEFINE r == [step |-> "told", reused |-> TRUE,
                   lease |-> renewing[p].lease, now |-> renewing[p].now]
  <2>1. renewing' = [renewing EXCEPT ![p] = r]
    BY <1>6 DEF Goto
  <2>2. \A q \in Renewer : renewing'[q] = IF q = p THEN r ELSE renewing[q]
    BY <2>1 DEF LeaseTypes
  <2>3. /\ ack.key = renewing[p].lease
        /\ ack.at <= renewing[p].now /\ renewing[p].now - ack.at < ReuseTime
    BY <1>6 DEF Recent
  <2>4. ack # NoAck
    BY <1>2, <2>3, GateAssumption DEF NoAck
  <2>5. ack.at \in Nat
    BY <2>4 DEF LeaseTypes, Ack
  <2>6. PICK t \in Nat : Extended(renewing[p].lease, t) /\ ack.at - t <= CallLimit
    BY <2>3, <2>4 DEF AnswerInv
  <2>7. renewing[p].now - t < ReuseTime + CallLimit
    BY <1>2, <2>3, <2>5, <2>6 DEF ReuseTime, CallLimit
  <2>8. LeaseTypes'
    BY <1>1, <2>1 DEF LeaseTypes
  <2>9. JournalInv'
    BY <1>1, <1>2, <2>2 DEF JournalInv
  <2>10. AnswerInv'
    BY <1>1, <2>2 DEF AnswerInv, Extended
  <2>11. ToldInv'
    <3>1. ASSUME NEW q \in Renewer, renewing'[q].step = "told"
          PROVE  IF renewing'[q].reused
                 THEN /\ renewing'[q].now \in Nat
                      /\ \E u \in Nat : /\ Extended(renewing'[q].lease, u)
                                        /\ renewing'[q].now - u < ReuseTime + CallLimit
                 ELSE renewing'[q].sent \in Nat /\ Extended(renewing'[q].lease, renewing'[q].sent)
      BY <1>2, <2>2, <2>6, <2>7, <3>1 DEF ToldInv
    <3> QED BY <1>1, <3>1 DEF ToldInv, Extended
  <2> QED BY <2>8, <2>9, <2>10, <2>11
<1> QED BY <1>4, <1>5, <1>6 DEF CheckAck

\* What the server has extended stays extended, and later than before.
LEMMA ExtendedStays ==
    ASSUME LeaseTypes, confirmed' = [confirmed EXCEPT ![guard.lease] = clock],
           NEW l \in 1..MaxLease, NEW t \in Int, Extended(l, t)
    PROVE  \E m \in l..MaxLease : confirmed'[m] >= t
<1>1. PICK m \in l..MaxLease : confirmed[m] >= t
  BY DEF Extended
<1>2. m \in 1..MaxLease /\ confirmed[m] \in Int /\ confirmed[m] <= clock /\ clock \in Nat
  BY GateAssumption DEF LeaseTypes
<1>3. confirmed'[m] >= t
  BY <1>1, <1>2 DEF LeaseTypes
<1> QED BY <1>3

\* The server extends its current lease, which is the one that was named or a newer one.
LEMMA ServeKeepsLease ==
    ASSUME LeaseInv, NEW p \in Renewer, HandleRenew(p)
    PROVE  LeaseInv'
<1> USE DEF LeaseInv
<1>1. /\ renewing[p].step = "send"
      /\ confirmed' = [confirmed EXCEPT ![guard.lease] = clock]
      /\ UNCHANGED <<guard, escrow, lease, ack, clock>>
  BY DEF HandleRenew
<1>2. /\ renewing[p].lease \in 1..MaxLease /\ renewing[p].lease <= guard.lease
      /\ guard.lease \in 1..MaxLease /\ clock \in Nat
      /\ renewing[p].sent \in Nat /\ renewing[p].sent <= clock
      /\ clock - renewing[p].sent <= CallLimit
  BY <1>1 DEF JournalInv, LeaseTypes, AnswerInv
<1>3. PICK r : /\ renewing' = [renewing EXCEPT ![p] = r]
               /\ r = Away \/ r = [renewing[p] EXCEPT !.step = "answered"]
  BY DEF HandleRenew, Step, Stop, Goto
<1>4. \A q \in Renewer : renewing'[q] = IF q = p THEN r ELSE renewing[q]
  BY <1>3 DEF LeaseTypes
<1>5. /\ r.step = "away" \/ r.step = "answered"
      /\ r.step = "answered" => r.lease = renewing[p].lease /\ r.sent = renewing[p].sent
  <2>1. CASE r = Away
    BY <2>1 DEF Away
  <2>2. CASE r = [renewing[p] EXCEPT !.step = "answered"]
    <3>1. r.lease = renewing[p].lease /\ r.sent = renewing[p].sent
      BY <2>2
    <3>2. r.step \in {"answered", renewing[p].step}
      BY <2>2
    <3>3. r.step = "answered"
      BY <1>1, <2>2, <3>2
    <3> QED BY <3>1, <3>3
  <2> QED BY <1>3, <2>1, <2>2
<1>6. confirmed'[guard.lease] = clock
  BY <1>1, <1>2 DEF LeaseTypes
<1>7. LeaseTypes'
  <2>1. confirmed' \in [1..MaxLease -> Int]
    BY <1>1, <1>2 DEF LeaseTypes
  <2>2. \A l \in 1..MaxLease : -1 <= confirmed'[l] /\ confirmed'[l] <= clock'
    BY <1>1, <1>2 DEF LeaseTypes
  <2> QED BY <1>1, <1>3, <2>1, <2>2 DEF LeaseTypes
<1>8. JournalInv'
  BY <1>1, <1>2, <1>4, <1>5 DEF JournalInv
<1>9. ASSUME NEW l \in 1..MaxLease, NEW t \in Int, Extended(l, t)
      PROVE  Extended(l, t)'
  BY <1>1, <1>9, ExtendedStays DEF Extended
<1>10. \E m \in renewing[p].lease..MaxLease : confirmed'[m] >= renewing[p].sent
  BY <1>2, <1>6
<1>11. AnswerInv'
  <2>1. ASSUME NEW q \in Renewer, renewing'[q].step \in {"send", "answered"}
        PROVE  /\ renewing'[q].sent \in Nat
               /\ renewing'[q].sent <= clock' /\ clock' - renewing'[q].sent <= CallLimit
    BY <1>1, <1>2, <1>4, <1>5, <2>1 DEF AnswerInv
  <2>2. ASSUME NEW q \in Renewer, renewing'[q].step = "answered"
        PROVE  \E m \in renewing'[q].lease..MaxLease : confirmed'[m] >= renewing'[q].sent
    <3>1. CASE q = p
      BY <1>4, <1>5, <1>10, <2>2, <3>1
    <3>2. CASE q # p
      <4>1. /\ renewing'[q] = renewing[q]
            /\ renewing[q].lease \in 1..MaxLease /\ renewing[q].sent \in Nat
            /\ Extended(renewing[q].lease, renewing[q].sent)
        BY <1>4, <2>2, <3>2 DEF JournalInv, AnswerInv
      <4> QED BY <1>1, <4>1, ExtendedStays
    <3> QED BY <3>1, <3>2
  <2>3. ack # NoAck => \E t \in Nat : /\ \E m \in ack.key..MaxLease : confirmed'[m] >= t
                                      /\ ack.at - t <= CallLimit
    <3> SUFFICES ASSUME ack # NoAck
                 PROVE  \E t \in Nat : /\ \E m \in ack.key..MaxLease : confirmed'[m] >= t
                                       /\ ack.at - t <= CallLimit
      OBVIOUS
    <3>1. ack.key \in 1..MaxLease
      BY DEF LeaseTypes, Ack
    <3>2. PICK t \in Nat : Extended(ack.key, t) /\ ack.at - t <= CallLimit
      BY DEF AnswerInv
    <3>3. \E m \in ack.key..MaxLease : confirmed'[m] >= t
      BY <1>1, <3>1, <3>2, ExtendedStays
    <3> QED BY <3>2, <3>3
  <2> QED BY <1>1, <2>1, <2>2, <2>3 DEF AnswerInv, Extended
<1>12. ToldInv'
  <2>1. ASSUME NEW q \in Renewer, renewing'[q].step = "told"
        PROVE  IF renewing'[q].reused
               THEN /\ renewing'[q].now \in Nat
                    /\ \E u \in Nat : /\ \E m \in renewing'[q].lease..MaxLease : confirmed'[m] >= u
                                      /\ renewing'[q].now - u < ReuseTime + CallLimit
               ELSE /\ renewing'[q].sent \in Nat
                    /\ \E m \in renewing'[q].lease..MaxLease : confirmed'[m] >= renewing'[q].sent
    <3>1. renewing'[q] = renewing[q] /\ renewing[q].step = "told"
      BY <1>4, <1>5, <2>1
    <3>2. renewing[q].lease \in 1..MaxLease
      BY <3>1 DEF JournalInv
    <3>3. CASE renewing[q].reused
      <4>1. renewing[q].now \in Nat
        BY <3>1, <3>3 DEF ToldInv
      <4>2. PICK u \in Nat : /\ Extended(renewing[q].lease, u)
                             /\ renewing[q].now - u < ReuseTime + CallLimit
        BY <3>1, <3>3 DEF ToldInv
      <4>3. \E m \in renewing[q].lease..MaxLease : confirmed'[m] >= u
        BY <1>1, <3>2, <4>2, ExtendedStays
      <4> QED BY <3>1, <3>3, <4>1, <4>2, <4>3
    <3>4. CASE ~renewing[q].reused
      <4>1. renewing[q].sent \in Nat /\ Extended(renewing[q].lease, renewing[q].sent)
        BY <3>1, <3>4 DEF ToldInv
      <4> QED BY <1>1, <3>1, <3>2, <3>4, <4>1, ExtendedStays
    <3> QED BY <3>3, <3>4
  <2> QED BY <2>1 DEF ToldInv, Extended
<1> QED BY <1>7, <1>8, <1>11, <1>12

\* The record is of an extension that is no older than the limit of a call.
LEMMA RecordKeepsLease ==
    ASSUME LeaseInv, NEW p \in Renewer, RecordAck(p)
    PROVE  LeaseInv'
<1> USE DEF LeaseInv
<1> DEFINE r == [step |-> "told", reused |-> FALSE,
                 lease |-> renewing[p].lease, sent |-> renewing[p].sent]
<1>1. /\ renewing[p].step = "answered"
      /\ ack' = [key |-> renewing[p].lease, at |-> clock]
      /\ renewing' = [renewing EXCEPT ![p] = r]
      /\ UNCHANGED <<guard, escrow, lease, clock, confirmed>>
  BY DEF RecordAck, Goto
<1>2. \A q \in Renewer : renewing'[q] = IF q = p THEN r ELSE renewing[q]
  BY <1>1 DEF LeaseTypes
<1>3. /\ renewing[p].lease \in 1..MaxLease /\ renewing[p].lease <= guard.lease
      /\ renewing[p].sent \in Nat /\ clock - renewing[p].sent <= CallLimit
      /\ Extended(renewing[p].lease, renewing[p].sent)
  BY <1>1 DEF JournalInv, AnswerInv
<1>4. LeaseTypes'
  <2>1. ack' \in Ack
    BY <1>1, <1>3 DEF Ack, LeaseTypes
  <2> QED BY <1>1, <2>1 DEF LeaseTypes
<1>5. JournalInv'
  BY <1>1, <1>2, <1>3 DEF JournalInv
<1>6. AnswerInv'
  <2>1. Extended(ack'.key, renewing[p].sent) /\ ack'.at - renewing[p].sent <= CallLimit
    BY <1>1, <1>3
  <2> QED BY <1>1, <1>2, <1>3, <2>1 DEF AnswerInv, Extended
<1>7. ToldInv'
  BY <1>1, <1>2, <1>3 DEF ToldInv, Extended
<1> QED BY <1>4, <1>5, <1>6, <1>7

\* Every step keeps the invariant.
LEMMA LeaseKeeps == LeaseInv /\ [GateNext]_gateVars => LeaseInv'
<1> SUFFICES ASSUME LeaseInv, [GateNext]_gateVars PROVE LeaseInv'
  OBVIOUS
<1>1. ASSUME NEW p \in Renewer, RenewStep(p) PROVE LeaseInv'
  BY <1>1, InitKeepsLease, CheckKeepsLease, ServeKeepsLease, RecordKeepsLease DEF RenewStep
<1> QED BY <1>1, ServerKeepsLease DEF GateNext

\* A renewal that is reported has been made, and the server gives up its copy of a lease
\* only for a journal that holds it, for any number of processes, leases and ticks.
THEOREM LeasesAreKept == DeskSpec => []LeaseIsKept
<1>1. DeskInit => LeaseInv
  BY LeaseStart DEF DeskInit
<1>2. LeaseInv /\ [Desk]_<<parts, indexVars, gateVars, windowVars>> => LeaseInv'
  <2>1. [Desk]_<<parts, indexVars, gateVars, windowVars>> => [GateNext]_gateVars
    BY DEF Desk
  <2> QED BY <2>1, LeaseKeeps
<1>3. LeaseInv => LeaseIsKept
  BY LeaseEnd
<1> QED BY <1>1, <1>2, <1>3, PTL DEF DeskSpec

-------------------------------------------------------------------------------
(* Quitting.  The window asks when the sum of two counts is not zero, so that *)
(* what matters is that every count on its way to the window is a number.     *)

Counted(l) == l.active \in Nat /\ l.uncertain \in Nat

\* Every list is a failure or has counts, wherever it is.
QueueInv ==
    /\ \E S : updates \in Seq(S)
    /\ \A i \in 1..Len(updates) :
          updates[i].do = "list" => updates[i].list = Failed \/ Counted(updates[i].list)

CountInv ==
    /\ Counted(list)
    /\ \A q \in queries : q = Running \/ q = Failed \/ Counted(q)
    /\ QueueInv

\* What was open when the user asked is either open still or forgotten.
OpenInv ==
    /\ listed \subseteq Checkout
    /\ DOMAIN journal = Checkout
    /\ quit \in [step : {"no", "reading", "asking", "asked", "silent"}, open : SUBSET Checkout]
    /\ quit.step = "reading" => quit.open \subseteq OpenNow
    /\ quit.step = "silent" => quit.open = {}

QuitInv == CountInv /\ OpenInv

\* The window begins with an empty list and an empty queue.
LEMMA QuitStart == WindowInit => QuitInv
<1> SUFFICES ASSUME WindowInit PROVE QuitInv
  OBVIOUS
<1>1. updates \in Seq({}) /\ Len(updates) = 0
  BY DEF WindowInit
<1>2. CountInv
  BY <1>1 DEF WindowInit, CountInv, QueueInv, Counted
<1>3. OpenInv
  BY DEF WindowInit, OpenInv, NoQuit
<1> QED BY <1>2, <1>3 DEF QuitInv

\* The counts are of finite sets.
LEMMA StatesAreCounted == ASSUME OpenInv, NEW s PROVE InState(listed, s) \in Nat
<1>1. {c \in listed : journal[c] = s} \subseteq Checkout
  BY DEF OpenInv
<1> QED BY <1>1, WindowAssumption, FS_Subset, FS_CardinalityType DEF InState

\* A list that --list finds has counts.
LEMMA ListIsCounted == ASSUME OpenInv PROVE List = Failed \/ Counted(List)
  BY StatesAreCounted DEF List, Counted

\* A closure that is handed over is the last of the queue, or is dropped.
LEMMA PostKeeps ==
    ASSUME QueueInv, NEW u, Post(u), u.do = "list" => u.list = Failed \/ Counted(u.list)
    PROVE  QueueInv'
<1>1. CASE updates' = updates
  BY <1>1 DEF QueueInv
<1>2. CASE updates' = Append(updates, u)
  <2>1. PICK S : updates \in Seq(S)
    BY DEF QueueInv
  <2> DEFINE T == S \cup {u}
  <2>2. updates \in Seq(T) /\ u \in T
    BY <2>1
  <2> HIDE DEF T
  <2>3. updates' \in Seq(T)
    BY <1>2, <2>2
  <2>4. Len(updates') = Len(updates) + 1 /\ Len(updates) \in Nat
    BY <1>2, <2>2
  <2>5. \A i \in 1..Len(updates') :
          updates'[i] = IF i = Len(updates) + 1 THEN u ELSE updates[i]
    BY <1>2, <2>2
  <2>6. \A i \in 1..Len(updates') : i # Len(updates) + 1 => i \in 1..Len(updates)
    BY <2>4
  <2> QED BY <2>3, <2>5, <2>6 DEF QueueInv
<1> QED BY <1>1, <1>2 DEF Post

\* No list leads to a silent end while something is open.
LEMMA DecideKeeps == ASSUME QuitInv, DecideQuit PROVE OpenInv'
<1> USE DEF QuitInv
<1>1. PICK answer \in {List, Failed} :
        quit' = [quit EXCEPT !.step = IF QuitCount(answer) > 0 THEN "asking" ELSE "silent"]
  BY DEF DecideQuit
<1>2. /\ quit' \in [step : {"asking", "silent"}, open : SUBSET Checkout]
      /\ quit'.open = quit.open /\ quit.open \subseteq OpenNow
      /\ quit'.step = IF QuitCount(answer) > 0 THEN "asking" ELSE "silent"
  BY <1>1 DEF DecideQuit, OpenInv
<1>3. ASSUME ~(QuitCount(answer) > 0) PROVE OpenNow = {}
  <2>1. CASE answer = Failed
    BY <1>3, <2>1 DEF QuitCount, CountInv, Counted
  <2>2. CASE answer # Failed
    <3>1. answer = [rows |-> listed, active |-> InState(listed, "open"),
                    uncertain |-> InState(listed, "unreadable")]
      BY <2>2 DEF List
    <3>2. QuitCount(answer) = InState(listed, "open") + InState(listed, "unreadable")
      BY <2>2, <3>1 DEF QuitCount
    <3>3. InState(listed, "open") = 0
      BY <1>3, <3>2, StatesAreCounted
    <3>4. OpenNow = {c \in listed : journal[c] = "open"} /\ IsFiniteSet(OpenNow)
      BY WindowAssumption, FS_Subset DEF OpenInv, OpenNow
    <3> QED BY <3>3, <3>4, FS_EmptySet DEF InState
  <2> QED BY <2>1, <2>2
<1> QED BY <1>2, <1>3 DEF DecideQuit, OpenInv, OpenNow, sessionVars

\* What is no longer open is no longer asked about.
LEMMA SessionsKeep == ASSUME OpenInv, Sessions PROVE OpenInv'
<1>1. CASE \E c \in Checkout \ listed :
             listed' = listed \cup {c} /\ UNCHANGED <<journal, damaged, quit>>
  BY <1>1 DEF OpenInv, OpenNow
<1>2. ASSUME NEW c \in Checkout, NEW state \in {"open", "closed", "unreadable"},
             Journal(c, state)
      PROVE  OpenInv'
  <2>1. /\ journal' = [journal EXCEPT ![c] = state] /\ UNCHANGED listed
        /\ quit' = IF state = "open" THEN quit ELSE [quit EXCEPT !.open = @ \ {c}]
    BY <1>2 DEF Journal
  <2>2. /\ quit' \in [step : {"no", "reading", "asking", "asked", "silent"}, open : SUBSET Checkout]
        /\ quit'.step = quit.step /\ quit'.open \subseteq quit.open
        /\ state # "open" => c \notin quit'.open
    BY <2>1 DEF OpenInv
  <2>3. \A d \in Checkout : journal'[d] = IF d = c THEN state ELSE journal[d]
    BY <2>1 DEF OpenInv
  <2>4. quit'.open \subseteq OpenNow => quit'.open \subseteq OpenNow'
    BY <2>1, <2>2, <2>3 DEF OpenInv, OpenNow
  <2> QED BY <2>1, <2>2, <2>4 DEF OpenInv
<1>3. CASE damaged' = ~damaged /\ UNCHANGED <<listed, journal, quit>>
  BY <1>3 DEF OpenInv, OpenNow
<1> QED BY <1>1, <1>2, <1>3 DEF Sessions

\* Steps of the threads that hand closures over.
LEMMA PostersKeep ==
    ASSUME QuitInv, HandleEvent \/ PostList \/ PostFocus \/ PostNotification \/ PostTray
    PROVE  QuitInv'
<1> USE DEF QuitInv, CountInv, sessionVars, watchVars, threadVars
<1>1. OpenInv'
  BY DEF HandleEvent, PostList, PostFocus, PostNotification, PostTray, OpenInv, OpenNow
<1>2. PICK u : /\ Post(u)
               /\ u.do = "list" => u.list = Failed \/ Counted(u.list)
               /\ queries' \subseteq queries /\ UNCHANGED list
  <2>1. CASE PostList
    <3>1. PICK q \in queries \ {Running} :
            Post([do |-> "list", list |-> q]) /\ queries' = queries \ {q}
      BY <2>1 DEF PostList
    <3>2. [do |-> "list", list |-> q].list = q /\ (q = Failed \/ Counted(q))
      BY <3>1
    <3> QED BY <2>1, <3>1, <3>2 DEF PostList
  <2>2. CASE HandleEvent
    <3>1. [do |-> "event", event |-> Head(pipe.lines)].do # "list"
      OBVIOUS
    <3> QED BY <2>2, <3>1 DEF HandleEvent
  <2>3. CASE PostFocus
    <3>1. PICK c \in listed : Post([do |-> "focus", task |-> c])
      BY <2>3 DEF PostFocus
    <3>2. [do |-> "focus", task |-> c].do # "list"
      OBVIOUS
    <3> QED BY <2>3, <3>1, <3>2 DEF PostFocus
  <2>4. CASE PostNotification
    <3>1. [do |-> "notice"].do # "list"
      OBVIOUS
    <3> QED BY <2>4, <3>1 DEF PostNotification
  <2>5. CASE PostTray
    <3>1. PICK ok \in BOOLEAN : Post([do |-> "tray", ok |-> ok])
      BY <2>5 DEF PostTray
    <3>2. [do |-> "tray", ok |-> ok].do # "list"
      OBVIOUS
    <3> QED BY <2>5, <3>1, <3>2 DEF PostTray
  <2> QED BY <2>1, <2>2, <2>3, <2>4, <2>5
<1>3. QueueInv'
  BY <1>2, PostKeeps
<1> QED BY <1>1, <1>2, <1>3 DEF Counted

\* The thread of the window takes a list from the queue, or starts another one.
LEMMA DrainKeeps == ASSUME QuitInv, Drain PROVE QuitInv'
<1> USE DEF QuitInv, CountInv, sessionVars, watchVars
<1>1. OpenInv'
  BY DEF Drain, OpenInv, OpenNow
<1>2. QueueInv'
  <2>1. PICK S : updates \in Seq(S)
    BY DEF QueueInv
  <2>2. updates # <<>> /\ updates' = Tail(updates)
    BY DEF Drain
  <2>3. updates' \in Seq(S) /\ Len(updates') = Len(updates) - 1 /\ Len(updates) \in Nat
    BY <2>1, <2>2
  <2>4. \A i \in 1..Len(updates') : i + 1 \in 1..Len(updates) /\ updates'[i] = updates[i + 1]
    BY <2>1, <2>2, <2>3
  <2> QED BY <2>3, <2>4 DEF QueueInv
<1>3. Counted(list)' /\ \A q \in queries' : q = Running \/ q = Failed \/ Counted(q)
  <2> DEFINE u == Head(updates)
  <2>1. u.do = "list" => u.list = Failed \/ Counted(u.list)
    <3>1. PICK S : updates \in Seq(S)
      BY DEF QueueInv
    <3>2. updates # <<>>
      BY DEF Drain
    <3>3. 1 \in 1..Len(updates) /\ u = updates[1]
      BY <3>1, <3>2
    <3> QED BY <3>3 DEF QueueInv
  <2>2. ApplyList(u) \/ ApplyEvent(u) \/ ApplyFocus(u) \/ ApplyTray(u)
    BY DEF Drain
  <2> HIDE DEF u
  <2>3. CASE ApplyList(u)
    BY <2>1, <2>3 DEF ApplyList, Counted
  <2>4. CASE ApplyEvent(u) \/ ApplyFocus(u) \/ ApplyTray(u)
    BY <2>4 DEF ApplyEvent, StartRefresh, ApplyFocus, ApplyTray, Counted
  <2> QED BY <2>2, <2>3, <2>4
<1> QED BY <1>1, <1>2, <1>3

\* Every step of the window, and of what is around it, keeps the invariant.
LEMMA QuitKeeps == QuitInv /\ [WindowNext]_windowVars => QuitInv'
<1> SUFFICES ASSUME QuitInv, [WindowNext]_windowVars PROVE QuitInv'
  OBVIOUS
<1> USE DEF QuitInv
<1>1. CASE RunOneCycle \/ CycleFails \/ Scan \/ EndWatcher \/ LoseTray \/ UNCHANGED windowVars
  <2>1. UNCHANGED <<list, queries, updates, listed, journal, quit>>
    BY <1>1 DEF RunOneCycle, CycleFails, Scan, EndWatcher, LoseTray, windowVars, sessionVars,
                threadVars, watchVars
  <2> QED BY <2>1 DEF CountInv, Counted, QueueInv, OpenInv, OpenNow
<1>2. CASE ReadList \/ Refresh
  <2>1. /\ UNCHANGED <<list, updates, listed, journal, quit>>
        /\ \A q \in queries' : q \in queries \cup {Running, List}
    BY <1>2 DEF ReadList, Refresh, StartRefresh, sessionVars, watchVars, threadVars
  <2>2. \A q \in queries' : q = Running \/ q = Failed \/ Counted(q)
    BY <2>1, ListIsCounted DEF CountInv
  <2> QED BY <2>1, <2>2 DEF CountInv, Counted, QueueInv, OpenInv, OpenNow
<1>3. CASE RequestQuit \/ DecideQuit \/ AnswerQuit
  <2>1. UNCHANGED <<list, queries, updates, listed, journal>>
    BY <1>3 DEF RequestQuit, DecideQuit, AnswerQuit, sessionVars
  <2>2. CountInv'
    BY <2>1 DEF CountInv, Counted, QueueInv
  <2>3. CASE RequestQuit
    <3>1. quit' = [step |-> "reading", open |-> OpenNow] /\ OpenNow \subseteq Checkout
      BY <2>3 DEF RequestQuit, OpenInv, OpenNow
    <3> QED BY <2>1, <2>2, <3>1 DEF OpenInv, OpenNow
  <2>4. CASE AnswerQuit
    <3>1. quit' = NoQuit \/ quit' = [quit EXCEPT !.step = "asked"]
      BY <2>4 DEF AnswerQuit
    <3> QED BY <2>1, <2>2, <3>1 DEF OpenInv, NoQuit
  <2> QED BY <1>3, <2>2, <2>3, <2>4, DecideKeeps
<1>4. CASE Sessions
  <2>1. UNCHANGED <<list, queries, updates>>
    BY <1>4 DEF Sessions
  <2> QED BY <1>4, <2>1, SessionsKeep DEF CountInv, Counted, QueueInv
<1> QED BY <1>1, <1>2, <1>3, <1>4, PostersKeep, DrainKeeps DEF WindowNext

\* The window never ends without a question over a checkout that was open when the user
\* asked it to and still is, for any number of checkouts and any capacity of the queue.
THEOREM QuittingIsAsked == DeskSpec => []QuitIsAsked
<1>1. DeskInit => QuitInv
  BY QuitStart DEF DeskInit
<1>2. QuitInv /\ [Desk]_<<parts, indexVars, gateVars, windowVars>> => QuitInv'
  <2>1. [Desk]_<<parts, indexVars, gateVars, windowVars>> => [WindowNext]_windowVars
    BY DEF Desk
  <2> QED BY <2>1, QuitKeeps
<1>3. QuitInv => QuitIsAsked
  BY DEF QuitInv, OpenInv, QuitIsAsked
<1> QED BY <1>1, <1>2, <1>3, PTL DEF DeskSpec

-------------------------------------------------------------------------------
(* Notices.  A save that is being written is older than what the monitor has   *)
(* seen of it, and is over before the quiet time is, so that what is read then *)
(* is whole; a stamp never returns, so that the same stamp means the same.     *)

WholeBytes == [whole : 0..MaxStamp]
Observation == [age : -1..Quiet, stamp : 0..MaxStamp, digest : WholeBytes \cup [half : 0..MaxStamp],
                warned : BOOLEAN]

NoticeTypes ==
    /\ copy \in [Edit -> File]
    /\ writing \in [Edit -> {-1} \cup 0..(Quiet - 1)]
    /\ seen \in [Edit -> Observation]
    /\ DOMAIN notices = Edit
    /\ scan # NoScan => scan.edit \in Edit

QuietInv ==
    \A e \in Edit :
       /\ writing[e] = -1 => copy[e].bytes \in WholeBytes
       /\ writing[e] # -1 /\ seen[e].stamp = copy[e].stamp => seen[e].age <= writing[e]
       /\ seen[e].stamp <= copy[e].stamp

ScanInv ==
    /\ monitor = "ended" => scan = NoScan
    /\ scan # NoScan =>
          /\ scan.digest \in WholeBytes
          /\ seen[scan.edit].stamp = copy[scan.edit].stamp => scan.digest = copy[scan.edit].bytes

NoticeInv == NoticeTypes /\ QuietInv /\ ScanInv

\* What NoticesAreTrue says of a step.
TrueNotice ==
    \A e \in Edit :
       notices'[e] # notices[e] /\ notices'[e] # Half(0) =>
          /\ notices'[e] \in [whole : 0..MaxStamp]
          /\ copy[e].regular /\ copy[e].bytes = notices'[e]

\* Every copy is whole when it is opened, and nothing has been observed.
LEMMA NoticeStart == IndexInit => NoticeInv
<1> SUFFICES ASSUME IndexInit PROVE NoticeInv
  OBVIOUS
<1>1. Unseen \in Observation /\ Unseen.stamp = 0 /\ 0 \in 0..MaxStamp
  BY IndexAssumption DEF Unseen, Observation, Half, Quiet
<1>2. [stamp |-> 0, bytes |-> Whole(0), regular |-> TRUE] \in File /\ Whole(0) \in WholeBytes
  BY IndexAssumption DEF File, Whole, WholeBytes
<1>3. NoticeTypes
  BY <1>1, <1>2 DEF IndexInit, NoticeTypes, Quiet
<1>4. QuietInv /\ ScanInv
  BY <1>1, <1>2 DEF IndexInit, QuietInv, ScanInv
<1> QED BY <1>3, <1>4 DEF NoticeInv

\* An observation stays one when what it says changes.
LEMMA AgeChanges ==
    ASSUME NEW o \in Observation, NEW w \in BOOLEAN, NEW a \in -1..Quiet
    PROVE  LET new == [o EXCEPT !.warned = w, !.age = a]
           IN new \in Observation /\ new.age = a /\ new.stamp = o.stamp
<1> DEFINE p == [o EXCEPT !.warned = w]
<1>1. p \in Observation /\ p.stamp = o.stamp
  BY DEF Observation
<1>2. [p EXCEPT !.age = a] \in Observation /\ [p EXCEPT !.age = a].age = a
        /\ [p EXCEPT !.age = a].stamp = o.stamp
  BY <1>1 DEF Observation
<1> QED BY <1>2

\* A new change is observed from the beginning.
LEMMA ChangeIsObserved ==
    ASSUME NEW o \in Observation, NEW t \in 0..MaxStamp
    PROVE  LET new == [o EXCEPT !.warned = FALSE, !.stamp = t, !.age = 0]
           IN new \in Observation /\ new.age = 0 /\ new.stamp = t
<1> DEFINE p == [o EXCEPT !.warned = FALSE]
<1> DEFINE q == [p EXCEPT !.stamp = t]
<1>1. p \in Observation
  BY DEF Observation
<1>2. q \in Observation /\ q.stamp = t
  BY <1>1 DEF Observation
<1>3. 0 \in -1..Quiet
  BY DEF Quiet
<1>4. [q EXCEPT !.age = 0] \in Observation /\ [q EXCEPT !.age = 0].age = 0
        /\ [q EXCEPT !.age = 0].stamp = t
  BY <1>2, <1>3 DEF Observation
<1> QED BY <1>4

\* The monitor reads only what has been quiet, and tells only what it has compared.
LEMMA MonitorKeeps ==
    ASSUME NoticeInv,
           \/ \E e \in Edit : Review(e) \/ Clean(e) \/ Look(e)
           \/ EndMonitor \/ Hash \/ Restart
    PROVE  NoticeInv' /\ TrueNotice
<1> USE IndexAssumption DEF NoticeInv, NoticeTypes, QuietInv, ScanInv, fileVars, Quiet
<1>0. Unseen \in Observation /\ Unseen.stamp = 0 /\ Unseen.age = -1
  BY DEF Unseen, Observation, Half
<1>1. ASSUME NEW e \in Edit, Review(e) \/ Clean(e)
      PROVE  NoticeInv' /\ TrueNotice
  <2>1. PICK o \in Observation : /\ seen' = [seen EXCEPT ![e] = o] /\ o.age = -1
                                 /\ o.stamp <= copy[e].stamp
    <3>1. CASE Review(e)
      <4> DEFINE o == [seen[e] EXCEPT !.warned = TRUE, !.age = -1]
      <4>0. seen[e] \in Observation /\ TRUE \in BOOLEAN /\ -1 \in -1..Quiet
        OBVIOUS
      <4>1. o \in Observation /\ o.age = -1 /\ o.stamp = seen[e].stamp
        BY <4>0, AgeChanges, Zenon
      <4> QED BY <3>1, <4>1 DEF Review, Observe
    <3>2. CASE Clean(e)
      <4>1. copy[e] \in File /\ seen' = [seen EXCEPT ![e] = Unseen]
        BY <3>2 DEF Clean, Observe
      <4>2. Unseen.stamp <= copy[e].stamp
        BY <1>0, <4>1 DEF File
      <4> QED BY <1>0, <4>1, <4>2, Zenon
    <3> QED BY <1>1, <3>1, <3>2
  <2>2. UNCHANGED <<copy, writing, scan, monitor, notices>> /\ scan = NoScan
    BY <1>1 DEF Review, Clean
  <2> QED BY <2>1, <2>2 DEF TrueNotice, Observation
<1>2. ASSUME NEW e \in Edit, Look(e)
      PROVE  NoticeInv' /\ TrueNotice
  <2>1. UNCHANGED <<copy, writing, monitor, notices>> /\ scan = NoScan /\ monitor = "running"
    BY <1>2 DEF Look
  <2>2. /\ seen[e] \in Observation /\ copy[e] \in File
        /\ writing[e] = -1 \/ writing[e] \in {0, 1}
    OBVIOUS
  <2>3. CASE seen[e].age = -1 \/ seen[e].stamp # copy[e].stamp
    <3> DEFINE o == [seen[e] EXCEPT !.warned = FALSE, !.stamp = copy[e].stamp, !.age = 0]
    <3>1. o \in Observation /\ o.stamp = copy[e].stamp /\ o.age = 0
      <4>1. copy[e].stamp \in 0..MaxStamp
        BY <2>2 DEF File
      <4> QED BY <2>2, <4>1, ChangeIsObserved, Zenon
    <3>2. seen' = [seen EXCEPT ![e] = o] /\ UNCHANGED scan
      BY <1>2, <2>3 DEF Look, Observe
    <3> HIDE DEF o
    <3> QED BY <2>1, <2>2, <3>1, <3>2 DEF TrueNotice, File
  <2>4. CASE ~(seen[e].age = -1 \/ seen[e].stamp # copy[e].stamp)
    <3> DEFINE o == [seen[e] EXCEPT !.warned = FALSE]
    <3>1. o \in Observation /\ o.stamp = seen[e].stamp /\ o.age = seen[e].age
      BY <2>2 DEF Observation
    <3>2. /\ seen' = [seen EXCEPT ![e] = o]
          /\ scan' = IF seen[e].age >= Quiet
                     THEN [edit |-> e, digest |-> copy[e].bytes] ELSE scan
      BY <1>2, <2>4 DEF Look, Observe
    <3>3. seen[e].age >= Quiet => copy[e].bytes \in WholeBytes
      BY <2>2, <2>4 DEF Observation
    <3> HIDE DEF o
    <3> QED BY <2>1, <3>1, <3>2, <3>3 DEF TrueNotice
  <2> QED BY <2>3, <2>4
<1>3. CASE EndMonitor
  BY <1>3 DEF EndMonitor, TrueNotice
<1>4. CASE Restart
  <2>1. UNCHANGED <<copy, writing, scan>> /\ scan = NoScan
    BY <1>4 DEF Restart
  <2>2. /\ seen' = [e \in Edit |-> Unseen] /\ notices' = [e \in Edit |-> Half(0)]
        /\ monitor' = "running"
    BY <1>4 DEF Restart
  <2> QED BY <1>0, <2>1, <2>2 DEF TrueNotice, File
<1>5. CASE Hash
  <2> DEFINE e == scan.edit
  <2>1. /\ scan # NoScan /\ e \in Edit /\ scan.digest \in WholeBytes
        /\ scan' = NoScan /\ UNCHANGED <<copy, writing, monitor>>
        /\ seen[e] \in Observation
    BY <1>5 DEF Hash
  <2>2. CASE copy[e].regular /\ copy[e].stamp = seen[e].stamp
    <3>1. scan.digest = copy[e].bytes
      BY <2>1, <2>2
    <3>2. CASE seen[e].digest = scan.digest
      BY <1>5, <2>1, <2>2, <3>2 DEF Hash, Notice, TrueNotice
    <3>3. CASE seen[e].digest # scan.digest
      <4> DEFINE o == [seen[e] EXCEPT !.digest = scan.digest]
      <4>1. o \in Observation /\ o.stamp = seen[e].stamp /\ o.age = seen[e].age
        BY <2>1 DEF Observation
      <4>2. /\ seen' = [seen EXCEPT ![e] = o]
            /\ notices' = [notices EXCEPT ![e] = scan.digest]
        BY <1>5, <2>2, <3>3 DEF Hash, Notice, Observe
      <4> HIDE DEF o
      <4>3. TrueNotice
        BY <2>1, <2>2, <3>1, <4>2 DEF TrueNotice, WholeBytes
      <4> QED BY <2>1, <4>1, <4>2, <4>3
    <3> QED BY <3>2, <3>3
  <2>3. CASE ~(copy[e].regular /\ copy[e].stamp = seen[e].stamp)
    <3> DEFINE o == [seen[e] EXCEPT !.age = 0]
    <3>1. o \in Observation /\ o.stamp = seen[e].stamp /\ o.age = 0
      <4>1. seen[e] \in Observation /\ 0 \in -1..2
        BY <2>1
      <4> QED BY <4>1 DEF Observation
    <3>2. seen' = [seen EXCEPT ![e] = o] /\ UNCHANGED notices
      BY <1>5, <2>3 DEF Hash, Observe
    <3> HIDE DEF o
    <3> QED BY <2>1, <3>1, <3>2 DEF TrueNotice
  <2> QED BY <2>2, <2>3
<1> QED BY <1>1, <1>2, <1>3, <1>4, <1>5

\* A change gives a copy a stamp that it never had.
LEMMA ChangeKeeps ==
    ASSUME NoticeInv, NEW e \in Edit, BeginSave(e) \/ EndSave(e) \/ Touch(e) \/ Vanish(e)
    PROVE  NoticeInv' /\ TrueNotice
<1> USE IndexAssumption DEF NoticeInv, NoticeTypes, QuietInv, ScanInv, monitorVars, Quiet
<1>1. copy[e] \in File /\ seen[e] \in Observation
  OBVIOUS
<1>2. CASE Vanish(e)
  BY <1>1, <1>2 DEF Vanish, TrueNotice, File
<1>3. CASE BeginSave(e) \/ EndSave(e) \/ Touch(e)
  <2>1. PICK b, w :
          /\ b \in [whole : 0..MaxStamp] \cup [half : 1..MaxStamp]
          /\ w \in {-1, 0} /\ (w = -1 => b \in WholeBytes)
          /\ copy' = [copy EXCEPT ![e] = [stamp |-> copy[e].stamp + 1, bytes |-> b, regular |-> TRUE]]
          /\ writing' = [writing EXCEPT ![e] = w]
          /\ copy[e].stamp < MaxStamp
    <3>1. CASE BeginSave(e)
      <4>1. Half(copy[e].stamp + 1) \in [half : 1..MaxStamp]
        BY <1>1, <3>1 DEF BeginSave, Change, Half, File
      <4> DEFINE b == Half(copy[e].stamp + 1)
      <4>2. /\ b \in [half : 1..MaxStamp] /\ copy[e].stamp < MaxStamp
            /\ copy' = [copy EXCEPT ![e] = [stamp |-> copy[e].stamp + 1, bytes |-> b, regular |-> TRUE]]
            /\ writing' = [writing EXCEPT ![e] = 0]
        BY <3>1, <4>1 DEF BeginSave, Change
      <4> HIDE DEF b
      <4>3. 0 \in {-1, 0} /\ (0 = -1 => b \in WholeBytes)
        OBVIOUS
      <4>4. b \in [whole : 0..MaxStamp] \cup [half : 1..MaxStamp]
        BY <4>2
      <4> QED BY <4>2, <4>3, <4>4, Zenon
    <3>2. CASE EndSave(e)
      <4>1. Whole(copy[e].stamp + 1) \in WholeBytes
        BY <1>1, <3>2 DEF EndSave, Change, Whole, WholeBytes, File
      <4> QED BY <3>2, <4>1 DEF EndSave, Change, WholeBytes
    <3>3. CASE Touch(e)
      <4>1. copy[e].bytes \in WholeBytes
        BY <3>3 DEF Touch
      <4>2. writing' = [writing EXCEPT ![e] = -1]
        BY <3>3 DEF Touch
      <4> QED BY <3>3, <4>1, <4>2 DEF Touch, Change, WholeBytes
    <3> QED BY <1>3, <3>1, <3>2, <3>3
  <2>2. [stamp |-> copy[e].stamp + 1, bytes |-> b, regular |-> TRUE] \in File
    BY <1>1, <2>1 DEF File
  <2>3. UNCHANGED <<seen, scan, monitor, notices>>
    BY <1>3 DEF BeginSave, EndSave, Touch
  <2>4. seen[e].stamp \in Int /\ copy[e].stamp \in Int /\ seen[e].stamp # copy'[e].stamp
    BY <1>1, <2>1 DEF Observation, File
  <2>5. NoticeTypes'
    BY <2>1, <2>2, <2>3
  <2>6. QuietInv' /\ ScanInv'
    BY <2>1, <2>3, <2>4
  <2> QED BY <2>3, <2>5, <2>6 DEF TrueNotice
<1> QED BY <1>2, <1>3

\* While a save is being written its observation grows no older than it.
LEMMA TickKeeps == ASSUME NoticeInv, Tick PROVE NoticeInv' /\ TrueNotice
<1> USE DEF NoticeInv, NoticeTypes, QuietInv, ScanInv, Quiet
<1>1. UNCHANGED <<copy, scan, monitor, notices>>
  BY DEF Tick
<1>2. ASSUME NEW e \in Edit
      PROVE  /\ seen'[e] \in Observation /\ seen'[e].stamp = seen[e].stamp
             /\ seen'[e].age = Older(seen[e].age, Quiet)
             /\ writing'[e] = Older(writing[e], Quiet)
             /\ writing[e] \in {-1, 0}
  <2>1. seen[e] \in Observation /\ seen'[e] = [seen[e] EXCEPT !.age = Older(seen[e].age, Quiet)]
    BY DEF Tick
  <2>2. Older(seen[e].age, Quiet) \in -1..Quiet
    BY <2>1 DEF Observation, Older
  <2>3. seen'[e] \in Observation /\ seen'[e].stamp = seen[e].stamp
          /\ seen'[e].age = Older(seen[e].age, Quiet)
    BY <2>1, <2>2 DEF Observation
  <2>4. writing'[e] = Older(writing[e], Quiet) /\ writing[e] < 1
    BY DEF Tick
  <2>5. writing[e] \in {-1, 0}
    BY <2>4
  <2> QED BY <2>3, <2>4, <2>5
<1>3. NoticeTypes'
  <2>1. seen' \in [Edit -> Observation]
    BY <1>2 DEF Tick
  <2>2. \A e \in Edit : writing'[e] \in {-1} \cup 0..(Quiet - 1)
    BY <1>2 DEF Older
  <2>3. writing' \in [Edit -> {-1} \cup 0..(Quiet - 1)]
    BY <2>2 DEF Tick
  <2> QED BY <1>1, <2>1, <2>3
<1>4. QuietInv'
  BY <1>1, <1>2 DEF Older, Observation
<1>5. ScanInv'
  BY <1>1, <1>2
<1> QED BY <1>1, <1>3, <1>4, <1>5 DEF TrueNotice

\* Processes that index a session, and focus requests, touch no copy and tell nothing.
LEMMA NoticeKeeps == NoticeInv /\ [IndexNext]_indexVars => NoticeInv' /\ [TrueNotice]_indexVars
<1> SUFFICES ASSUME NoticeInv, [IndexNext]_indexVars
             PROVE  NoticeInv' /\ [TrueNotice]_indexVars
  OBVIOUS
<1>1. ASSUME UNCHANGED <<copy, writing, seen, scan, monitor, notices>>
      PROVE  NoticeInv' /\ TrueNotice
  BY <1>1 DEF NoticeInv, NoticeTypes, QuietInv, ScanInv, TrueNotice
<1>2. ASSUME NEW r \in Registrar, RegisterStep(r)
      PROVE  UNCHANGED <<copy, writing, seen, scan, monitor, notices>>
  BY <1>2 DEF RegisterStep, BeginRegister, ReadRecord, WriteTemp, LinkRecord, RereadRecord,
              EndRegister, fileVars, monitorVars
<1>3. ASSUME NEW e \in Edit, RequestFocus(e)
      PROVE  UNCHANGED <<copy, writing, seen, scan, monitor, notices>>
  BY <1>3 DEF RequestFocus, fileVars, monitorVars
<1>4. ASSUME PollFocus \/ TakeFocus \/ Spoil \/ UNCHANGED indexVars
      PROVE  UNCHANGED <<copy, writing, seen, scan, monitor, notices>>
  BY <1>4 DEF PollFocus, TakeFocus, Spoil, indexVars, fileVars, monitorVars
<1> QED BY <1>1, <1>2, <1>3, <1>4, MonitorKeeps, ChangeKeeps, TickKeeps DEF IndexNext

\* What the user is told has been saved is the whole of the copy at that moment, for any
\* number of copies, saves and processes.
THEOREM NoticesStayTrue == DeskSpec => NoticesAreTrue
<1>1. DeskInit => NoticeInv
  BY NoticeStart DEF DeskInit
<1>2. [Desk]_<<parts, indexVars, gateVars, windowVars>> => [IndexNext]_indexVars
  BY DEF Desk
<1>3. DeskSpec => [][TrueNotice]_indexVars
  BY <1>1, <1>2, NoticeKeeps, PTL DEF DeskSpec
<1> QED BY <1>3 DEF NoticesAreTrue, TrueNotice

-------------------------------------------------------------------------------
(* Types of the three parts, which need more than themselves: the lock is    *)
(* held by who renews, and what is asked for has a record.                   *)

OwnerInv ==
    /\ escrow \in {"held", "erased", "expired"}
    /\ owner \in Renewer \cup {Nobody}
    /\ \A p \in Renewer : Held(p) <=> owner = p
    /\ clock <= MaxClock
    /\ ack # NoAck => ack.at <= clock

\* Who moves on with the lock had it, and who moves on without it has left it.
LEMMA OwnerMoves ==
    ASSUME LeaseInv, OwnerInv, NEW p \in Renewer, NEW r, renewing' = [renewing EXCEPT ![p] = r],
           escrow' \in {"held", "erased", "expired"}, UNCHANGED <<clock, ack>>,
           \/ owner' = owner /\ (r.step \in {"check", "send", "answered"} <=> Held(p))
           \/ Release(p) /\ r.step \notin {"check", "send", "answered"}
    PROVE  OwnerInv'
<1>1. \A q \in Renewer : renewing'[q] = IF q = p THEN r ELSE renewing[q]
  BY DEF LeaseInv, LeaseTypes
<1>2. \A q \in Renewer : Held(q)' <=> IF q = p THEN r.step \in {"check", "send", "answered"} ELSE Held(q)
  BY <1>1 DEF Held
<1>3. \A q \in Renewer : owner' = q <=> IF q = p THEN r.step \in {"check", "send", "answered"} ELSE owner = q
  BY NobodyAssumption DEF OwnerInv, Release
<1>4. owner' \in Renewer \cup {Nobody}
  BY DEF OwnerInv, Release
<1> QED BY <1>2, <1>3, <1>4 DEF OwnerInv

\* The lock changes hands as processes come and go.
LEMMA OwnerKeeps == LeaseInv /\ OwnerInv /\ [GateNext]_gateVars => OwnerInv'
<1> SUFFICES ASSUME LeaseInv, OwnerInv, [GateNext]_gateVars PROVE OwnerInv'
  OBVIOUS
<1>1. ASSUME NEW p \in Renewer, RenewStep(p) PROVE OwnerInv'
  <2>0. DOMAIN renewing = Renewer /\ clock \in Nat /\ p # Nobody
    BY NobodyAssumption DEF LeaseInv, LeaseTypes
  <2>1. CASE BeginInit(p) \/ Receive(p) \/ SaveJournal(p) \/ Confirm(p) \/ BeginRenew(p)
    <3>1. PICK r : /\ renewing' = [renewing EXCEPT ![p] = r]
                   /\ r.step \in {"receive", "save", "confirm", "lock", "away"}
                   /\ renewing[p].step \in {"away", "receive", "save", "confirm"}
                   /\ escrow' \in {escrow, "erased"} /\ UNCHANGED <<owner, clock, ack>>
      BY <2>1 DEF BeginInit, Receive, SaveJournal, Confirm, BeginRenew, Goto, Away
    <3> QED BY <3>1, OwnerMoves DEF Held, OwnerInv
  <2>2. CASE TakeLock(p)
    <3>1. CASE owner # Nobody
      <4>1. renewing' = [renewing EXCEPT ![p] = Away] /\ Away.step = "away" /\ ~Held(p)
            /\ UNCHANGED <<escrow, owner, clock, ack>>
        BY <2>2, <3>1 DEF TakeLock, Goto, Away, Held
      <4> QED BY <4>1, OwnerMoves DEF OwnerInv
    <3>2. CASE owner = Nobody
      <4> DEFINE r == [renewing[p] EXCEPT !.step = "check"]
      <4>1. owner' = p /\ renewing' = [renewing EXCEPT ![p] = r] /\ UNCHANGED <<escrow, clock, ack>>
        BY <2>2, <3>2 DEF TakeLock, Step, Goto
      <4>2. r.step = "check"
        <5>1. renewing[p].step = "lock" /\ renewing[p].now \in Nat
          BY <2>2 DEF TakeLock, LeaseInv, JournalInv
        <5> QED BY <5>1
      <4> HIDE DEF r
      <4>3. \A q \in Renewer : renewing'[q] = IF q = p THEN r ELSE renewing[q]
        BY <2>0, <4>1
      <4>4. \A q \in Renewer : Held(q)' <=> q = p
        BY <2>0, <3>2, <4>2, <4>3, NobodyAssumption DEF OwnerInv, Held
      <4> QED BY <2>0, <4>1, <4>4 DEF OwnerInv
    <3> QED BY <3>1, <3>2
  <2>3. CASE EndRenew(p) \/ DieRenewing(p)
    <3>1. /\ renewing' = [renewing EXCEPT ![p] = Away] /\ Release(p) /\ Away.step = "away"
          /\ UNCHANGED <<escrow, clock, ack>>
      BY <2>3 DEF EndRenew, DieRenewing, Stop, Goto, Away
    <3> QED BY <3>1, OwnerMoves DEF OwnerInv
  <2>4. CASE CheckAck(p)
    <3>1. Held(p) /\ UNCHANGED <<escrow, clock, ack>>
      BY <2>4 DEF CheckAck, Held
    <3>2. CASE renewing' = [renewing EXCEPT ![p] = Away] /\ Release(p)
      BY <3>1, <3>2, OwnerMoves DEF OwnerInv, Away
    <3>3. CASE /\ renewing' = [renewing EXCEPT ![p] =
                    [step |-> "told", reused |-> TRUE,
                     lease |-> renewing[p].lease, now |-> renewing[p].now]]
               /\ Release(p)
      <4> DEFINE r == [step |-> "told", reused |-> TRUE,
                       lease |-> renewing[p].lease, now |-> renewing[p].now]
      <4>1. r.step = "told" /\ renewing' = [renewing EXCEPT ![p] = r]
        BY <3>3
      <4> HIDE DEF r
      <4> QED BY <3>1, <3>3, <4>1, OwnerMoves DEF OwnerInv
    <3>4. CASE /\ renewing' = [renewing EXCEPT ![p] =
                    [step |-> "send", lease |-> renewing[p].lease, sent |-> clock]]
               /\ UNCHANGED owner
      <4> DEFINE r == [step |-> "send", lease |-> renewing[p].lease, sent |-> clock]
      <4>1. r.step = "send" /\ renewing' = [renewing EXCEPT ![p] = r]
        BY <3>4
      <4> HIDE DEF r
      <4> QED BY <3>1, <3>4, <4>1, OwnerMoves DEF OwnerInv
    <3> QED BY <2>4, <3>2, <3>3, <3>4 DEF CheckAck, Stop, Goto
  <2>5. CASE HandleRenew(p)
    <3> DEFINE r == [renewing[p] EXCEPT !.step = "answered"]
    <3>1. Held(p) /\ UNCHANGED <<escrow, clock, ack>>
      BY <2>5 DEF HandleRenew, Held
    <3>2. CASE renewing' = [renewing EXCEPT ![p] = r] /\ UNCHANGED owner
      <4>1. r.step = "answered"
        <5>1. renewing[p].step = "send"
          BY <2>5 DEF HandleRenew
        <5>2. r.step \in {"answered", renewing[p].step}
          OBVIOUS
        <5>3. r.step = "answered"
          BY <5>1, <5>2
        <5> QED BY <5>3
      <4> HIDE DEF r
      <4> QED BY <3>1, <3>2, <4>1, OwnerMoves DEF OwnerInv
    <3>3. CASE renewing' = [renewing EXCEPT ![p] = Away] /\ Release(p)
      BY <3>1, <3>3, OwnerMoves DEF OwnerInv, Away
    <3> QED BY <2>5, <3>2, <3>3 DEF HandleRenew, Step, Stop, Goto
  <2>6. CASE RecordAck(p)
    <3> DEFINE r == [step |-> "told", reused |-> FALSE, lease |-> renewing[p].lease, sent |-> renewing[p].sent]
    <3>1. /\ renewing' = [renewing EXCEPT ![p] = r] /\ r.step = "told" /\ Release(p)
          /\ ack'.at = clock /\ UNCHANGED <<escrow, clock>>
      BY <2>6 DEF RecordAck, Goto
    <3>2. \A q \in Renewer : renewing'[q] = IF q = p THEN r ELSE renewing[q]
      BY <2>0, <3>1
    <3> HIDE DEF r
    <3>3. \A q \in Renewer : Held(q)' <=> q # p /\ Held(q)
      BY <3>1, <3>2 DEF Held
    <3>4. owner' \in Renewer \cup {Nobody} /\ \A q \in Renewer : owner' = q <=> q # p /\ owner = q
      BY <3>1, NobodyAssumption DEF OwnerInv, Release
    <3> QED BY <2>0, <3>1, <3>3, <3>4 DEF OwnerInv
  <2> QED BY <1>1, <2>1, <2>2, <2>3, <2>4, <2>5, <2>6 DEF RenewStep
<1>2. CASE NewLease \/ AcceptLease \/ EndGuard \/ CloseJournal \/ ExpireEscrow \/ UNCHANGED gateVars
  <2>1. UNCHANGED <<owner, renewing, clock, ack>> /\ escrow' \in {escrow, "expired"}
    BY <1>2 DEF NewLease, AcceptLease, EndGuard, CloseJournal, ExpireEscrow, gateVars
  <2> QED BY <2>1 DEF OwnerInv, Held
<1>3. CASE Pass
  <2>1. clock \in Nat /\ (ack # NoAck => ack.at \in Nat)
    BY DEF LeaseInv, LeaseTypes, Ack
  <2> QED BY <1>3, <2>1, GateAssumption DEF Pass, OwnerInv, Held
<1> QED BY <1>1, <1>2, <1>3 DEF GateNext

\* The types of the lease follow.
LEMMA GateTypes == LeaseInv /\ OwnerInv => GateTypeOK
<1> SUFFICES ASSUME LeaseInv, OwnerInv PROVE GateTypeOK
  OBVIOUS
<1>1. lease = NoJournal \/ (lease.lease \in 1..MaxLease /\ lease.closed \in BOOLEAN)
  BY DEF LeaseInv, LeaseTypes, JournalRecord
<1>2. ack = NoAck \/ (ack.key \in 1..MaxLease /\ ack.at \in 0..MaxClock)
  <2>1. clock \in Nat /\ (ack # NoAck => ack.key \in 1..MaxLease /\ ack.at \in Nat)
    BY DEF LeaseInv, LeaseTypes, Ack
  <2> QED BY <2>1, GateAssumption DEF OwnerInv
<1>3. \A l \in 1..MaxLease : confirmed[l] \in -1..MaxClock
  <2>1. \A l \in 1..MaxLease : confirmed[l] \in Int /\ -1 <= confirmed[l] /\ confirmed[l] <= clock
    BY DEF LeaseInv, LeaseTypes
  <2> QED BY <2>1, GateAssumption DEF OwnerInv, LeaseInv, LeaseTypes
<1>4. confirmed \in [1..MaxLease -> -1..MaxClock]
  BY <1>3 DEF LeaseInv, LeaseTypes
<1>5. guard.lease \in 1..MaxLease /\ guard.live \in BOOLEAN
  BY DEF LeaseInv, LeaseTypes
<1> QED BY <1>1, <1>2, <1>4, <1>5 DEF GateTypeOK, OwnerInv

\* What a process is about to index: its copy is known once it has been looked at.
Registering ==
    [step : {"read", "temp"}, edit : Edit, fact : Fact]
      \cup [step : {"link", "reread"}, edit : Edit, fact : Fact, stamp : 0..MaxStamp]

IndexTypes ==
    /\ index \in [Edit -> Record \cup {NoRecord}]
    /\ reg \in [Registrar -> Registering \cup {Idle}]
    /\ \A r \in Registrar : reg[r].step = "reread" => index[reg[r].edit] # NoRecord
    /\ told \subseteq [edit : Edit, fact : Fact]

FocusRequest == [edit : Edit, age : 0..(FocusTTL + 1)]
HasRecord(e) == e \in Edit /\ index[e] # NoRecord

\* The window is sent only to tasks that have a record.
FocusTypes ==
    /\ spoiled \in BOOLEAN /\ monitor \in {"running", "ended"}
    /\ beat \in -1..FocusTTL
    /\ request \in FocusRequest \cup {NoFocus} /\ polled \in FocusRequest \cup {NoFocus}
    /\ request # NoFocus => HasRecord(request.edit)
    /\ polled # NoFocus => HasRecord(polled.edit)
    /\ focused # NoFocus => HasRecord(focused.edit)

\* Who finds no record goes on only when it has looked for the first time.
LEMMA CompareTypes ==
    ASSUME IndexTypes, NEW r \in Registrar, NEW next, Compare(r, next), UNCHANGED index,
           reg[r] # Idle,
           \/ reg[r].step = "read" /\ next = "temp"
           \/ reg[r].step = "reread"
    PROVE  IndexTypes'
<1> USE DEF IndexTypes
<1>1. reg[r] \in Registering /\ reg[r].edit \in Edit /\ reg[r].fact \in Fact
  BY DEF Registering
<1>2. told' \subseteq [edit : Edit, fact : Fact]
  <2>1. [edit |-> reg[r].edit, fact |-> reg[r].fact] \in [edit : Edit, fact : Fact]
    BY <1>1
  <2>2. told' = told \/ told' = told \cup {[edit |-> reg[r].edit, fact |-> reg[r].fact]}
    BY DEF Compare, Give
  <2> QED BY <2>1, <2>2
<1>3. CASE Leave(r)
  <2>1. reg' = [reg EXCEPT ![r] = Idle] /\ Idle.step = "idle"
    BY <1>3 DEF Leave, Idle
  <2>2. \A s \in Registrar : reg'[s] = IF s = r THEN Idle ELSE reg[s]
    BY <2>1
  <2> QED BY <1>2, <2>1, <2>2
<1>4. CASE index[reg[r].edit] = NoRecord /\ reg' = [reg EXCEPT ![r].step = next]
  <2> DEFINE n == [reg[r] EXCEPT !.step = "temp"]
  <2>1. reg[r] \in [step : {"read", "temp"}, edit : Edit, fact : Fact] /\ next = "temp"
    BY <1>1, <1>4 DEF Registering
  <2>2. n \in [step : {"read", "temp"}, edit : Edit, fact : Fact]
    BY <2>1
  <2>3. reg' = [reg EXCEPT ![r] = n]
    BY <1>4, <2>1
  <2> HIDE DEF n
  <2>4. n \in Registering /\ n.step # "reread"
    BY <2>2 DEF Registering
  <2>5. \A s \in Registrar : reg'[s] = IF s = r THEN n ELSE reg[s]
    BY <2>3
  <2> QED BY <1>2, <2>3, <2>4, <2>5
<1> QED BY <1>3, <1>4 DEF Compare

RecordsStay == \A e \in Edit : index[e] # NoRecord => index'[e] # NoRecord

\* Registering indexes records of the facts that were asked for, and removes none.
LEMMA RegisterTypes ==
    ASSUME IndexTypes, NoticeTypes, NEW r \in Registrar, RegisterStep(r)
    PROVE  IndexTypes' /\ RecordsStay
<1> USE DEF IndexTypes
<1>1. CASE BeginRegister(r)
  <2>1. PICK e \in Edit, f \in Fact :
          /\ reg' = [reg EXCEPT ![r] = [step |-> "read", edit |-> e, fact |-> f]]
          /\ UNCHANGED <<index, told>>
    BY <1>1 DEF BeginRegister
  <2> DEFINE n == [step |-> "read", edit |-> e, fact |-> f]
  <2>2. n \in Registering /\ n.step = "read" /\ reg' = [reg EXCEPT ![r] = n]
    BY <2>1 DEF Registering
  <2> HIDE DEF n
  <2>3. \A s \in Registrar : reg'[s] = IF s = r THEN n ELSE reg[s]
    BY <2>2
  <2> QED BY <2>1, <2>2, <2>3 DEF RecordsStay
<1>2. CASE ReadRecord(r) \/ RereadRecord(r)
  <2>1. /\ reg[r] # Idle /\ UNCHANGED index
        /\ \/ reg[r].step = "read" /\ Compare(r, "temp")
           \/ reg[r].step = "reread" /\ Compare(r, "idle")
    BY <1>2 DEF ReadRecord, RereadRecord, Idle
  <2>2. IndexTypes'
    BY <2>1, CompareTypes
  <2> QED BY <2>1, <2>2 DEF RecordsStay
<1>3. CASE WriteTemp(r) \/ EndRegister(r)
  <2>0. UNCHANGED <<index, told>>
    BY <1>3 DEF WriteTemp, EndRegister
  <2>1. CASE Leave(r)
    <3>1. \A s \in Registrar : reg'[s] = IF s = r THEN Idle ELSE reg[s]
      BY <2>1 DEF Leave
    <3>2. reg' \in [Registrar -> Registering \cup {Idle}] /\ Idle.step # "reread"
      BY <2>1 DEF Leave, Idle
    <3> QED BY <2>0, <3>1, <3>2 DEF RecordsStay
  <2>2. CASE WriteTemp(r) /\ ~Leave(r)
    <3>1. reg[r] \in Registering /\ reg[r].edit \in Edit /\ reg[r].fact \in Fact
      <4>1. reg[r].step = "temp"
        BY <2>2 DEF WriteTemp
      <4> QED BY <4>1 DEF Registering, Idle
    <3> DEFINE n == [step |-> "link", edit |-> reg[r].edit, fact |-> reg[r].fact,
                     stamp |-> copy[reg[r].edit].stamp]
    <3>2. reg' = [reg EXCEPT ![r] = n]
      BY <2>2 DEF WriteTemp
    <3>3. copy[reg[r].edit].stamp \in 0..MaxStamp
      BY <3>1 DEF NoticeTypes, File
    <3>4. n \in Registering /\ n.step = "link"
      BY <3>1, <3>3 DEF Registering
    <3> HIDE DEF n
    <3>5. \A s \in Registrar : reg'[s] = IF s = r THEN n ELSE reg[s]
      BY <3>2
    <3> QED BY <2>0, <3>2, <3>4, <3>5 DEF RecordsStay
  <2> QED BY <1>3, <2>1, <2>2 DEF EndRegister
<1>4. CASE LinkRecord(r)
  <2>1. reg[r] \in [step : {"link", "reread"}, edit : Edit, fact : Fact, stamp : 0..MaxStamp]
    BY <1>4 DEF LinkRecord, Registering, Idle
  <2>2. reg[r].edit \in Edit /\ reg[r].fact \in Fact
    BY <2>1
  <2>3. CASE index[reg[r].edit] = NoRecord
    <3>1. /\ index' = [index EXCEPT ![reg[r].edit] = RecordOf(r)]
          /\ told' = told \cup {[edit |-> reg[r].edit, fact |-> reg[r].fact]}
          /\ reg' = [reg EXCEPT ![r] = Idle]
      BY <1>4, <2>3 DEF LinkRecord, Give, Leave
    <3>2. RecordOf(r) # NoRecord /\ RecordOf(r) \in Record
      <4>1. RecordOf(r) # NoRecord
        BY <2>2, RecordFacts
      <4>2. reg[r].fact.mode \in Mode /\ reg[r].fact.base \in Base /\ reg[r].stamp \in 0..MaxStamp
        BY <2>1 DEF Fact
      <4> QED BY <4>1, <4>2 DEF RecordOf, Record
    <3> HIDE DEF RecordOf
    <3>3. \A e \in Edit : index'[e] = IF e = reg[r].edit THEN RecordOf(r) ELSE index[e]
      BY <2>2, <3>1
    <3>4. RecordsStay
      BY <3>2, <3>3 DEF RecordsStay
    <3>5. index' \in [Edit -> Record \cup {NoRecord}]
      BY <2>2, <3>1, <3>2
    <3>6. told' \subseteq [edit : Edit, fact : Fact]
      BY <2>2, <3>1
    <3>7. reg' \in [Registrar -> Registering \cup {Idle}] /\ Idle.step # "reread"
      BY <3>1 DEF Idle
    <3>8. \A s \in Registrar : reg'[s].step = "reread" => s # r /\ reg'[s] = reg[s]
      BY <3>1, <3>7
    <3>9. \A s \in Registrar : reg'[s].step = "reread" => index'[reg'[s].edit] # NoRecord
      BY <3>2, <3>3, <3>8 DEF Registering, Idle
    <3> QED BY <3>4, <3>5, <3>6, <3>7, <3>9
  <2>4. CASE index[reg[r].edit] # NoRecord
    <3> DEFINE n == [reg[r] EXCEPT !.step = "reread"]
    <3>1. reg' = [reg EXCEPT ![r] = n] /\ UNCHANGED <<index, told>>
      BY <1>4, <2>4 DEF LinkRecord
    <3>2. n \in Registering /\ n.edit = reg[r].edit
      BY <2>1 DEF Registering
    <3> HIDE DEF n
    <3>3. \A s \in Registrar : reg'[s] = IF s = r THEN n ELSE reg[s]
      BY <3>1
    <3> QED BY <2>4, <3>1, <3>2, <3>3 DEF RecordsStay
  <2> QED BY <2>3, <2>4
<1> QED BY <1>1, <1>2, <1>3, <1>4 DEF RegisterStep

\* Requests for a task, and answers to them, are about tasks that have a record.
LEMMA FocusMoves ==
    ASSUME FocusTypes, UNCHANGED <<index, spoiled, monitor>>,
           PollFocus \/ TakeFocus \/ Tick \/ \E e \in Edit : RequestFocus(e)
    PROVE  FocusTypes'
<1> USE DEF FocusTypes
<1>1. CASE \E e \in Edit : RequestFocus(e)
  <2>1. PICK e \in Edit : RequestFocus(e)
    BY <1>1
  <2> DEFINE n == [edit |-> e, age |-> 0]
  <2>2. /\ request' = n /\ UNCHANGED <<beat, polled, focused>> /\ HasRecord(e)
    BY <2>1 DEF RequestFocus, Listed, HasRecord
  <2>3. n \in FocusRequest /\ n.edit = e
    BY DEF FocusRequest, FocusTTL
  <2> HIDE DEF n
  <2> QED BY <2>2, <2>3 DEF HasRecord
<1>2. CASE PollFocus
  BY <1>2 DEF PollFocus, FocusTTL, HasRecord
<1>3. CASE TakeFocus
  <2>1. /\ polled # NoFocus /\ polled' = NoFocus /\ request' = NoFocus /\ UNCHANGED beat
        /\ focused' \in {[edit |-> polled.edit], NoFocus}
    BY <1>3 DEF TakeFocus
  <2>2. [edit |-> polled.edit].edit = polled.edit
    OBVIOUS
  <2> QED BY <2>1, <2>2 DEF HasRecord
<1>4. CASE Tick
  <2>1. beat' \in -1..FocusTTL
    BY <1>4 DEF Tick, Older, FocusTTL
  <2>2. UNCHANGED <<polled, focused>>
    BY <1>4 DEF Tick
  <2>3. CASE request = NoFocus
    BY <1>4, <2>1, <2>2, <2>3 DEF Tick, HasRecord
  <2>4. CASE request # NoFocus
    <3> DEFINE n == [request EXCEPT !.age = Older(request.age, FocusTTL + 1)]
    <3>1. Older(request.age, FocusTTL + 1) \in 0..(FocusTTL + 1)
      BY <2>4 DEF FocusRequest, Older, FocusTTL
    <3>2. n \in FocusRequest /\ n.edit = request.edit
      BY <2>4, <3>1 DEF FocusRequest
    <3>3. request' = n
      BY <1>4, <2>4 DEF Tick
    <3> HIDE DEF n
    <3> QED BY <2>1, <2>2, <2>4, <3>2, <3>3 DEF HasRecord
  <2> QED BY <2>3, <2>4
<1> QED BY <1>1, <1>2, <1>3, <1>4

IndexTyped == IndexTypes /\ FocusTypes /\ NoticeInv

\* Nothing is indexed at the start, and the window has been sent nowhere.
LEMMA IndexTypedStart == IndexInit => IndexTyped
<1> SUFFICES ASSUME IndexInit PROVE IndexTyped
  OBVIOUS
<1>1. IndexTypes
  BY DEF IndexInit, IndexTypes, Idle
<1>2. FocusTypes
  <2>1. beat \in -1..FocusTTL
    BY DEF IndexInit, FocusTTL
  <2>2. spoiled \in BOOLEAN /\ monitor \in {"running", "ended"}
    BY DEF IndexInit
  <2>3. request = NoFocus /\ polled = NoFocus /\ focused = NoFocus
    BY DEF IndexInit
  <2> QED BY <2>1, <2>2, <2>3 DEF FocusTypes
<1> QED BY <1>1, <1>2, NoticeStart DEF IndexTyped

\* Registering leaves copies and requests alone, and everything else leaves the index.
LEMMA IndexTypedKeeps == IndexTyped /\ [IndexNext]_indexVars => IndexTyped'
<1> SUFFICES ASSUME IndexTyped, [IndexNext]_indexVars PROVE IndexTyped'
  OBVIOUS
<1> USE DEF IndexTyped
<1>1. NoticeInv'
  BY NoticeKeeps
<1>2. ASSUME NEW r \in Registrar, RegisterStep(r) PROVE IndexTypes' /\ FocusTypes'
  <2>1. IndexTypes' /\ RecordsStay
    BY <1>2, RegisterTypes DEF NoticeInv
  <2>2. UNCHANGED <<spoiled, monitor, focusVars>>
    BY <1>2 DEF RegisterStep, BeginRegister, ReadRecord, WriteTemp, LinkRecord, RereadRecord,
                EndRegister, monitorVars
  <2> QED BY <2>1, <2>2 DEF FocusTypes, focusVars, HasRecord, RecordsStay
<1>3. ASSUME UNCHANGED regVars PROVE IndexTypes'
  BY <1>3 DEF regVars, IndexTypes
<1>4. ASSUME UNCHANGED <<index, focusVars>>, spoiled' \in BOOLEAN, monitor' \in {"running", "ended"}
      PROVE  FocusTypes'
  BY <1>4 DEF FocusTypes, focusVars, HasRecord
<1>5. CASE \E e \in Edit : Review(e) \/ Clean(e) \/ Look(e)
  <2>1. UNCHANGED <<regVars, spoiled, monitor, focusVars>>
    BY <1>5 DEF Review, Clean, Look
  <2> QED BY <1>1, <1>3, <1>4, <2>1 DEF regVars, FocusTypes
<1>6. CASE \E e \in Edit : BeginSave(e) \/ EndSave(e) \/ Touch(e) \/ Vanish(e)
  <2>1. UNCHANGED <<regVars, spoiled, monitor, focusVars>>
    BY <1>6 DEF BeginSave, EndSave, Touch, Vanish, monitorVars
  <2> QED BY <1>1, <1>3, <1>4, <2>1 DEF regVars, FocusTypes
<1>7. CASE EndMonitor \/ Hash \/ Restart \/ Spoil \/ UNCHANGED indexVars
  <2>1. UNCHANGED <<regVars, focusVars>>
    BY <1>7 DEF EndMonitor, Hash, Restart, Spoil, indexVars, regVars, focusVars
  <2>2. spoiled' \in BOOLEAN /\ monitor' \in {"running", "ended"}
    BY <1>7 DEF EndMonitor, Hash, Restart, Spoil, indexVars, FocusTypes, monitorVars
  <2> QED BY <1>1, <1>3, <1>4, <2>1, <2>2 DEF regVars
<1>8. CASE PollFocus \/ TakeFocus \/ Tick \/ \E e \in Edit : RequestFocus(e)
  <2>1. UNCHANGED <<regVars, spoiled, monitor>>
    BY <1>8 DEF PollFocus, TakeFocus, Tick, RequestFocus, monitorVars
  <2> QED BY <1>1, <1>3, <1>8, <2>1, FocusMoves DEF regVars
<1> QED BY <1>1, <1>2, <1>5, <1>6, <1>7, <1>8 DEF IndexNext

\* The types of the index follow.
LEMMA TypesOfIndex == IndexTyped => IndexTypeOK
<1> SUFFICES ASSUME IndexTyped PROVE IndexTypeOK
  OBVIOUS
<1> USE DEF IndexTyped, NoticeInv, NoticeTypes
<1>1. \A r \in Registrar :
        reg[r] # Idle => reg[r].edit \in Edit /\ reg[r].fact \in Fact
                         /\ reg[r].step \in {"read", "temp", "link", "reread"}
  BY DEF IndexTypes, Registering
<1>2. \A e \in Edit : seen[e].age \in -1..Quiet /\ seen[e].warned \in BOOLEAN
  BY DEF Observation
<1>3. request # NoFocus => request.edit \in Edit /\ request.age \in 0..(FocusTTL + 1)
  BY DEF FocusTypes, FocusRequest
<1>4. writing \in [Edit -> {-1} \cup 0..Quiet]
  BY DEF Quiet
<1>5. focused = NoFocus \/ (focused.edit \in Edit /\ index[focused.edit] # NoRecord)
  BY DEF FocusTypes, HasRecord
<1> QED BY <1>1, <1>2, <1>3, <1>4, <1>5 DEF IndexTypeOK, IndexTypes, FocusTypes

-------------------------------------------------------------------------------
(* The window.  What it shows lags behind what has been found, by what is on  *)
(* its way; nothing else comes between them while the queue has room.         *)

Event == [task : Checkout \cup {Nothing}, kind : LeaseKind \cup {"local"}]
Closure ==
    [do : {"list"}, list : Listing \cup {Failed}] \cup [do : {"event"}, event : Event]
      \cup [do : {"focus"}, task : Checkout] \cup [do : {"notice"}]
      \cup [do : {"tray"}, ok : BOOLEAN]

SessionTypes ==
    /\ journal \in [Checkout -> {"open", "closed", "unreadable"}]
    /\ damaged \in BOOLEAN /\ core \in BOOLEAN
    /\ tells \in 0..MaxTell /\ asks \in 0..MaxPoll

WatchTypes ==
    /\ last \in [Checkout -> LeaseKind \cup {Nothing}]
    /\ pipe \in [state : {"running", "ended"}, lines : Seq(Event)]

ThreadTypes ==
    /\ querying \in BOOLEAN /\ list \in Listing /\ warned \subseteq Checkout \cup {Nothing}
    /\ pending \in Checkout \cup {Nothing} /\ tray \in {"adding", "ready", "failed"}
    /\ queries \subseteq Listing \cup {Running, Failed}

QueueTypes == updates \in Seq(Closure) /\ Len(updates) <= QueueSize /\ dropped \in BOOLEAN

WindowTypes == SessionTypes /\ WatchTypes /\ ThreadTypes /\ QueueTypes

\* A closure is appended unless there is no room, and that is remembered.
LEMMA PostAppends ==
    ASSUME QueueTypes, NEW u \in Closure, Post(u)
    PROVE  /\ QueueTypes'
           /\ dropped => dropped'
           /\ \/ dropped' /\ updates' = updates
              \/ /\ dropped' = dropped /\ Len(updates') = Len(updates) + 1
                 /\ updates'[Len(updates) + 1] = u
                 /\ \A i \in 1..Len(updates) : i \in 1..Len(updates') /\ updates'[i] = updates[i]
<1> USE DEF QueueTypes
<1>1. CASE ~(Len(updates) < QueueSize)
  BY <1>1 DEF Post
<1>2. CASE Len(updates) < QueueSize
  <2>1. updates' = Append(updates, u) /\ dropped' = dropped
    BY <1>2 DEF Post
  <2>2. Len(updates) \in Nat /\ updates' \in Seq(Closure) /\ Len(updates') = Len(updates) + 1
    BY <2>1
  <2>3. /\ updates'[Len(updates) + 1] = u
        /\ \A i \in 1..Len(updates) : i \in 1..Len(updates') /\ updates'[i] = updates[i]
    BY <2>1, <2>2
  <2>4. Len(updates') <= QueueSize
    BY <1>2, <2>2, WindowAssumption
  <2> QED BY <2>1, <2>2, <2>3, <2>4
<1> QED BY <1>1, <1>2

\* The head of a sequence is its first element, and the others follow.
LEMMA TailShifts ==
    ASSUME NEW S, NEW s \in Seq(S), s # <<>>
    PROVE  /\ Head(s) \in S /\ Head(s) = s[1] /\ 1 \in 1..Len(s)
           /\ Tail(s) \in Seq(S) /\ Len(Tail(s)) = Len(s) - 1 /\ Len(s) \in Nat
           /\ \A i \in 1..Len(Tail(s)) : i + 1 \in 1..Len(s) /\ Tail(s)[i] = s[i + 1]
           /\ \A i \in 1..Len(s) : i = 1 \/ (i - 1 \in 1..Len(Tail(s)) /\ s[i] = Tail(s)[i - 1])
<1>1. Len(s) \in Nat /\ Len(s) > 0
  OBVIOUS
<1>2. Head(s) = s[1] /\ s[1] \in S /\ 1 \in 1..Len(s)
  BY <1>1
<1>3. Tail(s) \in Seq(S) /\ Len(Tail(s)) = Len(s) - 1
  BY <1>1
<1>4. \A i \in 1..Len(Tail(s)) : i + 1 \in 1..Len(s) /\ Tail(s)[i] = s[i + 1]
  BY <1>1, <1>3
<1>5. \A i \in 1..Len(s) : i = 1 \/ (i - 1 \in 1..Len(Tail(s)) /\ s[i] = Tail(s)[i - 1])
  BY <1>1, <1>3
<1> QED BY <1>1, <1>2, <1>3, <1>4, <1>5

\* Every element of a finite set is in its sequence.
LEMMA SetInSeq ==
    ASSUME NEW S, IsFiniteSet(S)
    PROVE  SetToSeq(S) \in Seq(S) /\ \A s \in S : \E i \in 1..Len(SetToSeq(S)) : SetToSeq(S)[i] = s
<1> DEFINE f == SetToSeq(S)
<1>1. f \in [1..Cardinality(S) -> S] /\ IsInjective(f)
  <2>1. \E g \in [1..Cardinality(S) -> S] : IsInjective(g)
    BY FS_CardinalityType DEF ExistsBijection, Bijection, Injection
  <2> QED BY <2>1 DEF SetToSeq
<1>2. f \in Injection(1..Cardinality(S), S) /\ Cardinality(S) \in Nat
  BY <1>1, FS_CardinalityType DEF Injection
<1>3. IsFiniteSet(1..Cardinality(S)) /\ Cardinality(1..Cardinality(S)) = Cardinality(S)
  BY <1>2, FS_Interval
<1>4. f \in Surjection(1..Cardinality(S), S)
  BY <1>2, <1>3, FS_Injection
<1>5. f \in Seq(S) /\ Len(f) = Cardinality(S)
  BY <1>1, <1>2
<1> QED BY <1>2, <1>4, <1>5 DEF Surjection

\* A list that --list finds counts no more sessions than there are.
LEMMA ListIsTyped ==
    ASSUME OpenInv
    PROVE  List \in Listing \cup {Failed} /\ (List = Failed \/ List.rows = listed)
<1>1. ASSUME NEW s PROVE InState(listed, s) \in Count
  <2>1. {c \in listed : journal[c] = s} \subseteq Checkout
    BY DEF OpenInv
  <2>2. /\ Cardinality({c \in listed : journal[c] = s}) <= Cardinality(Checkout)
        /\ Cardinality({c \in listed : journal[c] = s}) \in Nat /\ Cardinality(Checkout) \in Nat
    BY <2>1, WindowAssumption, FS_Subset, FS_CardinalityType
  <2> QED BY <2>2 DEF InState, Count
<1>2. listed \subseteq Checkout
  BY DEF OpenInv
<1> QED BY <1>1, <1>2 DEF List, Listing

\* Closures of every kind.
LEMMA ClosuresAreTyped ==
    ASSUME WindowTypes, OpenInv
    PROVE  /\ \A q \in queries \ {Running} : [do |-> "list", list |-> q] \in Closure
           /\ \A e \in Event : [do |-> "event", event |-> e] \in Closure
           /\ \A c \in listed : [do |-> "focus", task |-> c] \in Closure
           /\ [do |-> "notice"] \in Closure
           /\ \A b \in BOOLEAN : [do |-> "tray", ok |-> b] \in Closure
<1>1. \A q \in queries \ {Running} : q \in Listing \cup {Failed}
  BY DEF WindowTypes, ThreadTypes
<1>2. listed \subseteq Checkout
  BY DEF OpenInv
<1>3. \A q \in queries \ {Running} : [do |-> "list", list |-> q] \in Closure
  BY <1>1 DEF Closure
<1>4. /\ \A e \in Event : [do |-> "event", event |-> e] \in Closure
      /\ [do |-> "notice"] \in Closure
      /\ \A b \in BOOLEAN : [do |-> "tray", ok |-> b] \in Closure
  BY DEF Closure
<1>5. \A c \in listed : [do |-> "focus", task |-> c] \in Closure
  BY <1>2 DEF Closure
<1> QED BY <1>3, <1>4, <1>5

\* Who hands something over: the reader of the watcher's output hands over its first
\* line, the others something else, of which a list is one that was asked for.
LEMMA PostersPost ==
    ASSUME WindowTypes, OpenInv,
           HandleEvent \/ PostList \/ PostFocus \/ PostNotification \/ PostTray
    PROVE  \E u \in Closure :
             /\ Post(u)
             /\ \/ /\ u.do = "event" /\ u.event = Head(pipe.lines) /\ pipe.lines # <<>>
                   /\ pipe' = [pipe EXCEPT !.lines = Tail(pipe.lines)] /\ UNCHANGED queries
                \/ /\ u.do = "list" /\ u.list \in queries \ {Running}
                   /\ queries' = queries \ {u.list} /\ UNCHANGED pipe
                \/ u.do \notin {"event", "list"} /\ UNCHANGED <<pipe, queries>>
             /\ UNCHANGED <<listed, journal, damaged, tells, core, last, threadVars>>
             /\ asks' = asks \/ (asks < MaxPoll /\ asks' = asks + 1)
<1> USE ClosuresAreTyped DEF sessionVars, watchVars
<1>1. CASE HandleEvent
  <2> DEFINE u == [do |-> "event", event |-> Head(pipe.lines)]
  <2>1. pipe.lines # <<>> /\ pipe.lines \in Seq(Event) /\ Head(pipe.lines) \in Event
    <3>1. pipe.lines # <<>> /\ pipe.lines \in Seq(Event)
      BY <1>1 DEF HandleEvent, WindowTypes, WatchTypes
    <3> QED BY <3>1, TailShifts
  <2>2. u \in Closure /\ u.do = "event" /\ u.event = Head(pipe.lines)
    BY <2>1
  <2>3. /\ Post(u) /\ pipe' = [pipe EXCEPT !.lines = Tail(pipe.lines)]
        /\ UNCHANGED <<queries, listed, journal, damaged, tells, asks, core, last, threadVars>>
    BY <1>1 DEF HandleEvent
  <2> HIDE DEF u
  <2> QED BY <2>1, <2>2, <2>3
<1>2. CASE PostList
  <2>1. PICK q \in queries \ {Running} :
          Post([do |-> "list", list |-> q]) /\ queries' = queries \ {q}
    BY <1>2 DEF PostList
  <2> DEFINE u == [do |-> "list", list |-> q]
  <2>2. u \in Closure /\ u.do = "list" /\ u.list = q /\ Post(u)
    BY <2>1
  <2>3. UNCHANGED <<pipe, listed, journal, damaged, tells, asks, core, last, threadVars>>
    BY <1>2 DEF PostList
  <2> HIDE DEF u
  <2> QED BY <2>1, <2>2, <2>3
<1>3. CASE PostFocus \/ PostNotification \/ PostTray
  <2>1. PICK u \in Closure : Post(u) /\ u.do \notin {"event", "list"}
    <3>1. CASE PostFocus
      <4>1. PICK c \in listed : Post([do |-> "focus", task |-> c])
        BY <3>1 DEF PostFocus
      <4>2. [do |-> "focus", task |-> c].do = "focus"
        OBVIOUS
      <4> QED BY <4>1, <4>2
    <3>2. CASE PostNotification
      <4>1. Post([do |-> "notice"]) /\ [do |-> "notice"].do = "notice"
        BY <3>2 DEF PostNotification
      <4> QED BY <4>1
    <3>3. CASE PostTray
      <4>1. PICK b \in BOOLEAN : Post([do |-> "tray", ok |-> b])
        BY <3>3 DEF PostTray
      <4>2. [do |-> "tray", ok |-> b].do = "tray"
        OBVIOUS
      <4> QED BY <4>1, <4>2
    <3> QED BY <1>3, <3>1, <3>2, <3>3
  <2>2. /\ UNCHANGED <<pipe, queries, listed, journal, damaged, tells, core, last, threadVars>>
        /\ asks' = asks \/ (asks < MaxPoll /\ asks' = asks + 1)
    BY <1>3 DEF PostFocus, PostNotification, PostTray
  <2> QED BY <2>1, <2>2
<1> QED BY <1>1, <1>2, <1>3

\* What a step of the thread does with a closure.
LEMMA AppliesTyped ==
    ASSUME WindowTypes, NEW u \in Closure,
           ApplyList(u) \/ ApplyEvent(u) \/ ApplyFocus(u) \/ ApplyTray(u)
    PROVE  ThreadTypes'
<1> USE DEF WindowTypes, ThreadTypes
<1>1. CASE ApplyList(u)
  <2>1. u.list \in Listing \cup {Failed}
    BY <1>1 DEF ApplyList, Closure
  <2> QED BY <1>1, <2>1 DEF ApplyList, Highlight
<1>2. CASE ApplyEvent(u)
  <2>1. u.event.task \in Checkout \cup {Nothing}
    BY <1>2 DEF ApplyEvent, Closure, Event
  <2>2. warned' \subseteq Checkout \cup {Nothing} /\ UNCHANGED <<list, pending, tray>>
    BY <1>2, <2>1 DEF ApplyEvent
  <2>3. querying' \in BOOLEAN /\ queries' \subseteq Listing \cup {Running, Failed}
    <3>1. CASE querying \/ Quitting
      BY <1>2, <3>1 DEF ApplyEvent, StartRefresh
    <3>2. CASE ~(querying \/ Quitting)
      <4>1. querying' = TRUE /\ queries' = queries \cup {Running}
        BY <1>2, <3>2 DEF ApplyEvent, StartRefresh
      <4> QED BY <4>1
    <3> QED BY <3>1, <3>2
  <2> QED BY <2>2, <2>3
<1>3. CASE ApplyFocus(u)
  <2>1. u.task \in Checkout
    BY <1>3 DEF ApplyFocus, Closure
  <2> QED BY <1>3, <2>1 DEF ApplyFocus, Highlight
<1>4. CASE ApplyTray(u)
  BY <1>4 DEF ApplyTray
<1> QED BY <1>1, <1>2, <1>3, <1>4

\* What the watcher tells: one line for every change, with what it has found.
LEMMA CycleTells ==
    ASSUME WindowTypes, OpenInv, RunOneCycle
    PROVE  /\ pipe.lines = <<>> /\ last' \in [Checkout -> LeaseKind \cup {Nothing}]
           /\ pipe' \in [state : {"running", "ended"}, lines : Seq(Event)]
           /\ \A i \in 1..Len(pipe'.lines) : pipe'.lines[i].kind = last'[pipe'.lines[i].task]
           /\ \A c \in Checkout :
                 \/ \E i \in 1..Len(pipe'.lines) : About(pipe'.lines[i], c)
                 \/ last'[c] \in Warning <=> last[c] \in Warning
           /\ UNCHANGED <<sessionVars, threadVars, updates, queries, dropped>>
<1>1. PICK found \in [listed -> LeaseKind] :
        /\ last' = [c \in Checkout |-> IF c \in listed THEN found[c] ELSE last[c]]
        /\ Tell(SetToSeq({[task |-> c, kind |-> found[c]] : c \in Changed(found)}))
  BY DEF RunOneCycle
<1> DEFINE E == {[task |-> c, kind |-> found[c]] : c \in Changed(found)}
           s == SetToSeq(E)
<1>2. /\ pipe.lines = <<>> /\ UNCHANGED <<sessionVars, threadVars, updates, queries, dropped>>
      /\ listed \subseteq Checkout /\ last \in [Checkout -> LeaseKind \cup {Nothing}]
      /\ pipe \in [state : {"running", "ended"}, lines : Seq(Event)]
  BY DEF RunOneCycle, OpenInv, WindowTypes, WatchTypes
<1>3. \A c \in Checkout : last'[c] = IF c \in listed THEN found[c] ELSE last[c]
  BY <1>1
<1>4. last' \in [Checkout -> LeaseKind \cup {Nothing}]
  BY <1>1, <1>2
<1>5. Changed(found) \subseteq Checkout /\ IsFiniteSet(Changed(found)) /\ Changed(found) \subseteq listed
  BY <1>2, WindowAssumption, FS_Subset DEF Changed
<1>6. IsFiniteSet(E)
  <2> DEFINE line == [c \in Changed(found) |-> [task |-> c, kind |-> found[c]]]
  <2>1. line \in Surjection(Changed(found), E)
    BY DEF Surjection
  <2> HIDE DEF line, E
  <2> QED BY <1>5, <2>1, FS_Surjection
<1>7. E \subseteq Event
  BY <1>2, <1>5 DEF Event
<1>8. /\ s \in Seq(E) /\ s \in Seq(Event)
      /\ \A e \in E : \E i \in 1..Len(s) : s[i] = e
  <2> HIDE DEF E
  <2>1. /\ s \in Seq(E)
        /\ \A e \in E : \E i \in 1..Len(s) : s[i] = e
    BY <1>6, SetInSeq
  <2> QED BY <1>7, <2>1
<1> HIDE DEF s
<1>9. pipe' = [pipe EXCEPT !.lines = s]
  <2>1. <<>> \o s = s
    BY <1>8
  <2> QED BY <1>1, <1>2, <2>1 DEF Tell, s
<1>10. /\ pipe' \in [state : {"running", "ended"}, lines : Seq(Event)]
       /\ pipe'.lines = s
  BY <1>2, <1>8, <1>9
<1>11. \A i \in 1..Len(s) : s[i].kind = last'[s[i].task]
  <2> SUFFICES ASSUME NEW i \in 1..Len(s) PROVE s[i].kind = last'[s[i].task]
    OBVIOUS
  <2>1. PICK c \in Changed(found) : s[i] = [task |-> c, kind |-> found[c]]
    BY <1>8
  <2>2. s[i].task = c /\ s[i].kind = found[c]
    BY <2>1
  <2> QED BY <1>3, <1>5, <2>2
<1>12. ASSUME NEW c \in Checkout
       PROVE  \/ \E i \in 1..Len(s) : About(s[i], c)
              \/ last'[c] \in Warning <=> last[c] \in Warning
  <2>1. CASE c \in Changed(found)
    <3>1. [task |-> c, kind |-> found[c]] \in E
      BY <2>1
    <3>2. PICK i \in 1..Len(s) : s[i] = [task |-> c, kind |-> found[c]]
      BY <1>8, <3>1
    <3>3. s[i].task = c /\ s[i].kind \in LeaseKind
      BY <1>5, <2>1, <3>2
    <3> QED BY <3>3 DEF About, LeaseKind, Warning
  <2>2. CASE c \notin listed
    BY <1>3, <2>2
  <2>3. CASE c \in listed /\ c \notin Changed(found)
    <3>1. found[c] = last[c] \/ (found[c] \notin Warning /\ last[c] = Nothing)
      BY <2>3 DEF Changed
    <3>2. Nothing \notin Warning
      BY DEF Nothing, Warning
    <3> QED BY <1>3, <2>3, <3>1, <3>2
  <2> QED BY <2>1, <2>2, <2>3
<1> QED BY <1>2, <1>4, <1>10, <1>11, <1>12

\* What the monitor tells, or a cycle that fails, is appended and is of no renewal.
LEMMA OthersTell ==
    ASSUME WindowTypes, OpenInv, CycleFails \/ Scan
    PROVE  /\ pipe' \in [state : {"running", "ended"}, lines : Seq(Event)]
           /\ \A i \in 1..Len(pipe.lines) :
                 i \in 1..Len(pipe'.lines) /\ pipe'.lines[i] = pipe.lines[i]
           /\ \A i \in 1..Len(pipe'.lines), c \in Checkout :
                 About(pipe'.lines[i], c) =>
                    i \in 1..Len(pipe.lines) /\ pipe'.lines[i] = pipe.lines[i]
           /\ UNCHANGED <<listed, journal, damaged, tells, core, last, threadVars, updates,
                          queries, dropped>>
           /\ asks' = asks \/ (asks < MaxPoll /\ asks' = asks + 1)
<1>1. PICK e \in Event : Tell(<<e>>) /\ \A c \in Checkout : ~About(e, c)
  <2>1. CASE CycleFails
    <3> DEFINE e == [task |-> Nothing, kind |-> "needs-review"]
    <3>1. e \in Event /\ e.task = Nothing
      BY DEF Event, LeaseKind, Warning
    <3>2. Tell(<<e>>)
      BY <2>1 DEF CycleFails
    <3> HIDE DEF e
    <3> QED BY <3>1, <3>2, WindowAssumption DEF About
  <2>2. CASE Scan
    <3>1. PICK c \in listed : Tell(<<[task |-> c, kind |-> "local"]>>)
      BY <2>2 DEF Scan
    <3> DEFINE e == [task |-> c, kind |-> "local"]
    <3>2. e \in Event /\ e.kind = "local"
      BY <3>1 DEF Event, OpenInv
    <3>3. Tell(<<e>>)
      BY <3>1
    <3> HIDE DEF e
    <3> QED BY <3>2, <3>3 DEF About
  <2> QED BY <2>1, <2>2
<1> DEFINE s == pipe.lines
<1>2. pipe \in [state : {"running", "ended"}, lines : Seq(Event)] /\ s \in Seq(Event)
  BY DEF WindowTypes, WatchTypes
<1>3. pipe' = [pipe EXCEPT !.lines = s \o <<e>>]
  BY <1>1 DEF Tell
<1>4. /\ s \o <<e>> \in Seq(Event) /\ Len(s) \in Nat /\ Len(s \o <<e>>) = Len(s) + 1
      /\ (s \o <<e>>)[Len(s) + 1] = e
      /\ \A i \in 1..Len(s) : (s \o <<e>>)[i] = s[i]
  BY <1>2
<1>5. pipe'.lines = s \o <<e>> /\ pipe' \in [state : {"running", "ended"}, lines : Seq(Event)]
  BY <1>2, <1>3, <1>4
<1>6. \A i \in 1..Len(pipe'.lines) : i \in 1..Len(s) \/ i = Len(s) + 1
  BY <1>4, <1>5
<1>7. \A i \in 1..Len(s) : i \in 1..Len(pipe'.lines) /\ pipe'.lines[i] = s[i]
  BY <1>4, <1>5
<1>8. pipe'.lines[Len(s) + 1] = e
  BY <1>4, <1>5
<1>9. /\ UNCHANGED <<listed, journal, damaged, tells, core, last, threadVars, updates,
                     queries, dropped>>
      /\ asks' = asks \/ (asks < MaxPoll /\ asks' = asks + 1)
  BY DEF CycleFails, Scan, sessionVars
<1> HIDE DEF s
<1>10. \A i \in 1..Len(pipe'.lines), c \in Checkout :
         About(pipe'.lines[i], c) => i \in 1..Len(s) /\ pipe'.lines[i] = s[i]
  BY <1>1, <1>6, <1>7, <1>8
<1> QED BY <1>5, <1>7, <1>9, <1>10 DEF s

\* Steps of the watcher, of the threads that hand over, and of the queue.
LEMMA WindowTypesKeep ==
    ASSUME WindowTypes, OpenInv, [WindowNext]_windowVars
    PROVE  WindowTypes'
<1>0. SessionTypes /\ WatchTypes /\ ThreadTypes /\ QueueTypes
  BY DEF WindowTypes
<1>1. ASSUME UNCHANGED sessionVars PROVE SessionTypes'
  BY <1>0, <1>1 DEF sessionVars, SessionTypes
<1>2. ASSUME UNCHANGED watchVars PROVE WatchTypes'
  BY <1>0, <1>2 DEF watchVars, WatchTypes
<1>3. ASSUME UNCHANGED threadVars, queries' \subseteq Listing \cup {Running, Failed}
      PROVE  ThreadTypes'
  BY <1>0, <1>3 DEF threadVars, ThreadTypes
<1>4. ASSUME UNCHANGED <<updates, dropped>> PROVE QueueTypes'
  BY <1>0, <1>4 DEF QueueTypes
<1>5. queries \subseteq Listing \cup {Running, Failed}
  BY <1>0 DEF ThreadTypes
<1>6. CASE RunOneCycle
  <2>1. WatchTypes' /\ UNCHANGED <<sessionVars, threadVars, updates, queries, dropped>>
    BY <1>6, CycleTells DEF WatchTypes
  <2> QED BY <1>1, <1>3, <1>4, <1>5, <2>1 DEF WindowTypes
<1>7. CASE EndWatcher
  <2>1. UNCHANGED <<sessionVars, threadVars, last, updates, queries, dropped>>
    BY <1>7 DEF EndWatcher
  <2>2. pipe' = [pipe EXCEPT !.state = "ended"]
    BY <1>7 DEF EndWatcher
  <2>3. WatchTypes'
    BY <1>0, <2>1, <2>2 DEF WatchTypes
  <2> QED BY <1>1, <1>3, <1>4, <1>5, <2>1, <2>3 DEF WindowTypes
<1>8. CASE HandleEvent \/ PostList \/ PostFocus \/ PostNotification \/ PostTray
  <2>1. PICK u \in Closure :
             /\ Post(u)
             /\ \/ /\ u.do = "event" /\ u.event = Head(pipe.lines) /\ pipe.lines # <<>>
                   /\ pipe' = [pipe EXCEPT !.lines = Tail(pipe.lines)] /\ UNCHANGED queries
                \/ /\ u.do = "list" /\ u.list \in queries \ {Running}
                   /\ queries' = queries \ {u.list} /\ UNCHANGED pipe
                \/ u.do \notin {"event", "list"} /\ UNCHANGED <<pipe, queries>>
             /\ UNCHANGED <<listed, journal, damaged, tells, core, last, threadVars>>
             /\ asks' = asks \/ (asks < MaxPoll /\ asks' = asks + 1)
    BY <1>8, PostersPost
  <2>2. QueueTypes'
    BY <1>0, <2>1, PostAppends
  <2>3. SessionTypes'
    BY <1>0, <2>1, WindowAssumption DEF SessionTypes
  <2>4. WatchTypes'
    <3>1. CASE pipe.lines # <<>> /\ pipe' = [pipe EXCEPT !.lines = Tail(pipe.lines)]
      <4>1. pipe.lines \in Seq(Event)
        BY <1>0 DEF WatchTypes
      <4>2. Tail(pipe.lines) \in Seq(Event)
        BY <3>1, <4>1, TailShifts
      <4> QED BY <1>0, <2>1, <3>1, <4>2 DEF WatchTypes
    <3>2. CASE UNCHANGED pipe
      BY <1>0, <2>1, <3>2 DEF WatchTypes
    <3> QED BY <2>1, <3>1, <3>2
  <2>5. queries' \subseteq queries /\ UNCHANGED threadVars
    BY <2>1
  <2> QED BY <1>3, <1>5, <2>2, <2>3, <2>4, <2>5 DEF WindowTypes
<1>9. CASE ReadList
  <2>1. UNCHANGED <<sessionVars, watchVars, threadVars, updates, dropped>>
    BY <1>9 DEF ReadList
  <2>2. queries' \subseteq Listing \cup {Running, Failed}
    BY <1>5, <1>9, ListIsTyped DEF ReadList
  <2> QED BY <1>1, <1>2, <1>3, <1>4, <2>1, <2>2 DEF WindowTypes
<1>10. CASE Refresh
  <2>1. /\ UNCHANGED <<sessionVars, watchVars, updates, list, warned, pending, tray, dropped>>
        /\ querying' \in {querying, TRUE} /\ queries' \subseteq queries \cup {Running}
    BY <1>10 DEF Refresh, StartRefresh
  <2>2. ThreadTypes'
    BY <1>0, <2>1 DEF ThreadTypes
  <2> QED BY <1>1, <1>2, <1>4, <2>1, <2>2 DEF WindowTypes
<1>11. CASE LoseTray
  <2>1. UNCHANGED <<listed, journal, damaged, tells, core, watchVars, querying, list, warned,
                    pending, updates, queries, dropped>>
    BY <1>11 DEF LoseTray
  <2>2. SessionTypes' /\ ThreadTypes'
    BY <1>0, <1>11, <2>1, WindowAssumption DEF LoseTray, SessionTypes, ThreadTypes
  <2> QED BY <1>2, <1>4, <2>1, <2>2 DEF WindowTypes
<1>12. CASE Drain
  <2>1. /\ updates # <<>> /\ updates' = Tail(updates)
        /\ UNCHANGED <<sessionVars, watchVars, dropped>>
    BY <1>12 DEF Drain
  <2>2. updates \in Seq(Closure) /\ Len(updates) <= QueueSize
    BY <1>0 DEF QueueTypes
  <2>3. Head(updates) \in Closure /\ updates' \in Seq(Closure) /\ Len(updates') <= QueueSize
    <3>1. /\ Head(updates) \in Closure /\ Tail(updates) \in Seq(Closure)
          /\ Len(Tail(updates)) = Len(updates) - 1 /\ Len(updates) \in Nat
      BY <2>1, <2>2, TailShifts
    <3> QED BY <2>1, <2>2, <3>1, WindowAssumption
  <2>4. ThreadTypes'
    BY <1>12, <2>3, AppliesTyped DEF Drain
  <2> QED BY <1>0, <1>1, <1>2, <2>1, <2>3, <2>4 DEF WindowTypes, QueueTypes
<1>13. CASE RequestQuit \/ DecideQuit \/ AnswerQuit
  <2>1. UNCHANGED <<sessionVars, watchVars, querying, list, warned, pending, tray, queries,
                    updates, dropped>>
    BY <1>13 DEF RequestQuit, DecideQuit, AnswerQuit
  <2> QED BY <1>0, <1>1, <1>2, <1>4, <2>1 DEF WindowTypes, ThreadTypes
<1>14. CASE Sessions
  <2>1. UNCHANGED <<asks, core, watchVars, updates, querying, queries, list, warned, pending,
                    tray, dropped>>
    BY <1>14 DEF Sessions
  <2>2. journal' \in [Checkout -> {"open", "closed", "unreadable"}] /\ damaged' \in BOOLEAN
    BY <1>0, <1>14 DEF Sessions, Journal, SessionTypes
  <2>3. tells' \in 0..MaxTell
    BY <1>0, <1>14, WindowAssumption DEF Sessions, SessionTypes
  <2> QED BY <1>0, <1>2, <1>4, <2>1, <2>2, <2>3 DEF WindowTypes, SessionTypes, ThreadTypes
<1>15. CASE UNCHANGED windowVars
  BY <1>1, <1>2, <1>3, <1>4, <1>5, <1>15
     DEF windowVars, sessionVars, watchVars, threadVars, WindowTypes
<1>16. CASE CycleFails \/ Scan
  <2>1. /\ pipe' \in [state : {"running", "ended"}, lines : Seq(Event)]
        /\ UNCHANGED <<listed, journal, damaged, tells, core, last, threadVars, updates,
                       queries, dropped>>
        /\ asks' = asks \/ (asks < MaxPoll /\ asks' = asks + 1)
    BY <1>16, OthersTell
  <2>2. SessionTypes' /\ WatchTypes'
    BY <1>0, <2>1, WindowAssumption DEF SessionTypes, WatchTypes
  <2> QED BY <1>3, <1>4, <1>5, <2>1, <2>2 DEF WindowTypes
<1> QED BY <1>6, <1>7, <1>8, <1>9, <1>10, <1>11, <1>12, <1>13, <1>14, <1>15, <1>16
        DEF WindowNext

Said(c, k) ==
    \/ \E i \in 1..Len(pipe.lines) : About(pipe.lines[i], c)
    \/ \E i \in k..Len(updates) : updates[i].do = "event" /\ About(updates[i].event, c)

\* The latest report on its way, or the window when there is none, agrees with what has
\* been found last.
ReportInv ==
    /\ \A i \in 1..Len(pipe.lines), c \in Checkout :
          About(pipe.lines[i], c) => pipe.lines[i].kind = last[c]
    /\ dropped \/
         /\ \A i \in 1..Len(updates), c \in Checkout :
               updates[i].do = "event" /\ About(updates[i].event, c) =>
                  \/ Said(c, i + 1)
                  \/ updates[i].event.kind \in Warning <=> last[c] \in Warning
         /\ \A c \in Checkout : Said(c, 1) \/ (c \in warned <=> last[c] \in Warning)

\* A report that is handed over is still on its way, behind all others.
LEMMA ReportsMove ==
    ASSUME WindowTypes, ReportInv, NEW u \in Closure, Post(u), UNCHANGED <<last, warned>>,
           \/ /\ u.do = "event" /\ u.event = Head(pipe.lines) /\ pipe.lines # <<>>
              /\ pipe' = [pipe EXCEPT !.lines = Tail(pipe.lines)]
           \/ u.do # "event" /\ UNCHANGED pipe
    PROVE  ReportInv'
<1> DEFINE n == Len(updates)
<1>1. /\ QueueTypes /\ pipe.lines \in Seq(Event) /\ n \in Nat
      /\ pipe \in [state : {"running", "ended"}, lines : Seq(Event)]
  BY DEF WindowTypes, WatchTypes, QueueTypes
<1>2. /\ \A i \in 1..Len(pipe'.lines) : \E j \in 1..Len(pipe.lines) : pipe'.lines[i] = pipe.lines[j]
      /\ \A i \in 1..Len(pipe.lines) :
            \/ u.do = "event" /\ u.event = pipe.lines[i]
            \/ \E j \in 1..Len(pipe'.lines) : pipe'.lines[j] = pipe.lines[i]
      /\ u.do = "event" => \E i \in 1..Len(pipe.lines) : u.event = pipe.lines[i]
  <2>1. CASE /\ u.do = "event" /\ u.event = Head(pipe.lines) /\ pipe.lines # <<>>
             /\ pipe' = [pipe EXCEPT !.lines = Tail(pipe.lines)]
    <3> DEFINE s == pipe.lines
    <3>1. pipe'.lines = Tail(s)
      BY <1>1, <2>1
    <3>2. /\ Head(s) = s[1] /\ 1 \in 1..Len(s)
          /\ \A i \in 1..Len(Tail(s)) : i + 1 \in 1..Len(s) /\ Tail(s)[i] = s[i + 1]
          /\ \A i \in 1..Len(s) : i = 1 \/ (i - 1 \in 1..Len(Tail(s)) /\ s[i] = Tail(s)[i - 1])
      BY <1>1, <2>1, TailShifts
    <3>3. \A i \in 1..Len(pipe'.lines) : \E j \in 1..Len(s) : pipe'.lines[i] = s[j]
      BY <3>1, <3>2
    <3>4. u.do = "event" /\ u.event = s[1]
      BY <2>1, <3>2
    <3>5. \A i \in 1..Len(s) : i = 1 \/ \E j \in 1..Len(pipe'.lines) : pipe'.lines[j] = s[i]
      BY <3>1, <3>2
    <3> QED BY <3>2, <3>3, <3>4, <3>5
  <2>2. CASE u.do # "event" /\ UNCHANGED pipe
    BY <2>2
  <2> QED BY <2>1, <2>2
<1>3. \A i \in 1..Len(pipe'.lines), c \in Checkout :
        About(pipe'.lines[i], c) => pipe'.lines[i].kind = last'[c]
  <2> SUFFICES ASSUME NEW i \in 1..Len(pipe'.lines), NEW c \in Checkout, About(pipe'.lines[i], c)
               PROVE  pipe'.lines[i].kind = last'[c]
    OBVIOUS
  <2>1. PICK j \in 1..Len(pipe.lines) : pipe'.lines[i] = pipe.lines[j]
    BY <1>2
  <2>2. pipe.lines[j].kind = last[c]
    BY <2>1 DEF ReportInv
  <2> QED BY <2>1, <2>2
<1>4. CASE dropped'
  BY <1>3, <1>4 DEF ReportInv
<1>5. CASE ~dropped'
  <2>1. /\ ~dropped /\ Len(updates') = n + 1 /\ updates'[n + 1] = u
        /\ \A i \in 1..n : i \in 1..Len(updates') /\ updates'[i] = updates[i]
    BY <1>1, <1>5, PostAppends
  <2> HIDE DEF n
  <2>2. ASSUME NEW c, NEW k \in 1..(n + 1), Said(c, k) PROVE Said(c, k)'
    <3>1. CASE \E i \in 1..Len(pipe.lines) : About(pipe.lines[i], c)
      <4>1. PICK i \in 1..Len(pipe.lines) : About(pipe.lines[i], c)
        BY <3>1
      <4>2. CASE u.do = "event" /\ u.event = pipe.lines[i]
        <5>1. n + 1 \in k..Len(updates')
          BY <1>1, <2>1
        <5> QED BY <2>1, <4>1, <4>2, <5>1 DEF Said
      <4>3. CASE \E j \in 1..Len(pipe'.lines) : pipe'.lines[j] = pipe.lines[i]
        BY <4>1, <4>3 DEF Said
      <4> QED BY <1>2, <4>2, <4>3
    <3>2. CASE \E i \in k..n : updates[i].do = "event" /\ About(updates[i].event, c)
      <4>1. PICK i \in k..n : updates[i].do = "event" /\ About(updates[i].event, c)
        BY <3>2
      <4>2. i \in 1..n /\ i \in k..Len(updates')
        BY <1>1, <2>1
      <4> QED BY <2>1, <4>1, <4>2 DEF Said
    <3> QED BY <2>2, <3>1, <3>2 DEF Said, n
  <2>3. ASSUME NEW i \in 1..Len(updates'), NEW c \in Checkout,
               updates'[i].do = "event", About(updates'[i].event, c)
        PROVE  Said(c, i + 1)' \/ (updates'[i].event.kind \in Warning <=> last'[c] \in Warning)
    <3>1. CASE i = n + 1
      <4>1. u.do = "event" /\ updates'[i] = u
        BY <2>1, <2>3, <3>1
      <4>2. u.event.kind = last[c]
        BY <1>2, <2>3, <4>1 DEF ReportInv
      <4> QED BY <2>3, <4>1, <4>2
    <3>2. CASE i # n + 1
      <4>1. i \in 1..n /\ i + 1 \in 1..(n + 1) /\ updates'[i] = updates[i]
        BY <1>1, <2>1, <3>2
      <4>2. Said(c, i + 1) \/ (updates[i].event.kind \in Warning <=> last[c] \in Warning)
        BY <2>1, <2>3, <4>1 DEF ReportInv, n
      <4> QED BY <2>2, <4>1, <4>2
    <3> QED BY <3>1, <3>2
  <2>4. ASSUME NEW c \in Checkout PROVE Said(c, 1)' \/ (c \in warned' <=> last'[c] \in Warning)
    <3>1. Said(c, 1) \/ (c \in warned <=> last[c] \in Warning)
      BY <2>1 DEF ReportInv
    <3>2. 1 \in 1..(n + 1)
      BY <1>1
    <3> QED BY <2>2, <3>1, <3>2
  <2> QED BY <1>3, <2>3, <2>4 DEF ReportInv, Said
<1> QED BY <1>4, <1>5

\* A report arrives: a later one is still on its way, or the window agrees with it.
LEMMA ReportsArrive == ASSUME WindowTypes, ReportInv, Drain PROVE ReportInv'
<1> DEFINE u == Head(updates)
<1>1. /\ updates \in Seq(Closure) /\ updates # <<>> /\ updates' = Tail(updates)
      /\ UNCHANGED <<last, pipe, dropped>>
  BY DEF Drain, WindowTypes, QueueTypes, watchVars
<1>2. /\ u \in Closure /\ u = updates[1] /\ 1 \in 1..Len(updates) /\ Len(updates) \in Nat
      /\ Len(updates') = Len(updates) - 1
      /\ \A i \in 1..Len(updates') : i + 1 \in 1..Len(updates) /\ updates'[i] = updates[i + 1]
      /\ \A i \in 1..Len(updates) : i = 1 \/ (i - 1 \in 1..Len(updates') /\ updates[i] = updates'[i - 1])
  BY <1>1, TailShifts
<1>3. \/ /\ u.do = "event" /\ u.event.kind # "local"
         /\ warned' = IF u.event.kind \in {"renewed", "ended"}
                      THEN warned \ {u.event.task} ELSE warned \cup {u.event.task}
      \/ (u.do = "event" => u.event.kind = "local") /\ warned' = warned
  <2>1. ApplyList(u) \/ ApplyEvent(u) \/ ApplyFocus(u) \/ ApplyTray(u)
    BY DEF Drain
  <2> HIDE DEF u
  <2> QED BY <2>1 DEF ApplyList, ApplyEvent, ApplyFocus, ApplyTray
<1>4. \A i \in 1..Len(pipe'.lines), c \in Checkout :
        About(pipe'.lines[i], c) => pipe'.lines[i].kind = last'[c]
  BY <1>1 DEF ReportInv
<1> HIDE DEF u
<1>5. CASE dropped
  BY <1>1, <1>4, <1>5 DEF ReportInv
<1>6. CASE ~dropped
  <2>1. ASSUME NEW c, NEW k \in Nat, k >= 1, Said(c, k + 1) PROVE Said(c, k)'
    <3>1. CASE \E i \in 1..Len(pipe.lines) : About(pipe.lines[i], c)
      BY <1>1, <3>1 DEF Said
    <3>2. CASE \E i \in (k + 1)..Len(updates) : updates[i].do = "event" /\ About(updates[i].event, c)
      <4>1. PICK i \in (k + 1)..Len(updates) : updates[i].do = "event" /\ About(updates[i].event, c)
        BY <3>2
      <4>2. i \in 1..Len(updates) /\ i # 1 /\ i - 1 \in k..Len(updates')
        BY <1>2, <2>1
      <4>3. updates'[i - 1] = updates[i]
        BY <1>2, <4>2
      <4> QED BY <4>1, <4>2, <4>3 DEF Said
    <3> QED BY <2>1, <3>1, <3>2 DEF Said
  <2>2. ASSUME NEW i \in 1..Len(updates'), NEW c \in Checkout,
               updates'[i].do = "event", About(updates'[i].event, c)
        PROVE  Said(c, i + 1)' \/ (updates'[i].event.kind \in Warning <=> last'[c] \in Warning)
    <3>1. i + 1 \in 1..Len(updates) /\ updates'[i] = updates[i + 1] /\ i + 1 \in Nat /\ i + 1 >= 1
      BY <1>2
    <3>2. \/ Said(c, (i + 1) + 1)
          \/ updates[i + 1].event.kind \in Warning <=> last[c] \in Warning
      BY <1>6, <2>2, <3>1 DEF ReportInv
    <3> QED BY <1>1, <2>1, <3>1, <3>2
  <2>3. ASSUME NEW c \in Checkout PROVE Said(c, 1)' \/ (c \in warned' <=> last'[c] \in Warning)
    <3>1. CASE Said(c, 1 + 1)
      BY <2>1, <3>1
    <3>2. CASE ~Said(c, 1 + 1) /\ u.do = "event" /\ About(u.event, c)
      <4>1. u.event.kind \in Warning <=> last[c] \in Warning
        BY <1>2, <1>6, <3>2 DEF ReportInv
      <4>2. u.event.task = c /\ u.event.kind # "local" /\ u.event.kind \in LeaseKind
        BY <1>2, <3>2 DEF Closure, Event, About
      <4>3. u.event.kind \in Warning <=> u.event.kind \notin {"renewed", "ended"}
        BY <4>2 DEF Warning, LeaseKind
      <4> QED BY <1>1, <1>3, <3>2, <4>1, <4>2, <4>3
    <3>3. CASE ~Said(c, 1 + 1) /\ ~(u.do = "event" /\ About(u.event, c))
      <4>1. ~Said(c, 1)
        <5>1. \A i \in 1..Len(updates) : i = 1 \/ i \in (1 + 1)..Len(updates)
          BY <1>2
        <5> QED BY <1>2, <3>3, <5>1 DEF Said
      <4>2. c \in warned <=> last[c] \in Warning
        BY <1>6, <4>1 DEF ReportInv
      <4>3. c \in warned' <=> c \in warned
        BY <1>3, <3>3 DEF About
      <4> QED BY <1>1, <4>2, <4>3
    <3> QED BY <3>1, <3>2, <3>3
  <2> QED BY <1>4, <2>2, <2>3 DEF ReportInv, Said
<1> QED BY <1>5, <1>6

\* What is found anew is told, behind everything that is on its way.
LEMMA ReportsBegin == ASSUME WindowTypes, OpenInv, ReportInv, RunOneCycle PROVE ReportInv'
<1>1. /\ pipe.lines = <<>>
      /\ \A i \in 1..Len(pipe'.lines) : pipe'.lines[i].kind = last'[pipe'.lines[i].task]
      /\ \A c \in Checkout :
            \/ \E i \in 1..Len(pipe'.lines) : About(pipe'.lines[i], c)
            \/ last'[c] \in Warning <=> last[c] \in Warning
      /\ UNCHANGED <<threadVars, updates, dropped>>
  BY CycleTells
<1>2. warned' = warned
  BY <1>1 DEF threadVars
<1>3. ASSUME NEW c, NEW k, Said(c, k) PROVE Said(c, k)'
  <2>1. ~\E i \in 1..Len(pipe.lines) : About(pipe.lines[i], c)
    BY <1>1
  <2> QED BY <1>1, <1>3, <2>1 DEF Said
<1>4. CASE dropped
  BY <1>1, <1>4 DEF ReportInv, About
<1>5. CASE ~dropped
  <2>1. ASSUME NEW i \in 1..Len(updates), NEW c \in Checkout,
               updates[i].do = "event", About(updates[i].event, c)
        PROVE  Said(c, i + 1)' \/ (updates[i].event.kind \in Warning <=> last'[c] \in Warning)
    <3>1. Said(c, i + 1) \/ (updates[i].event.kind \in Warning <=> last[c] \in Warning)
      BY <1>5, <2>1 DEF ReportInv
    <3>2. CASE \E j \in 1..Len(pipe'.lines) : About(pipe'.lines[j], c)
      BY <3>2 DEF Said
    <3>3. CASE last'[c] \in Warning <=> last[c] \in Warning
      BY <1>3, <3>1, <3>3
    <3> QED BY <1>1, <3>2, <3>3
  <2>2. ASSUME NEW c \in Checkout PROVE Said(c, 1)' \/ (c \in warned' <=> last'[c] \in Warning)
    <3>1. Said(c, 1) \/ (c \in warned <=> last[c] \in Warning)
      BY <1>5 DEF ReportInv
    <3>2. CASE \E j \in 1..Len(pipe'.lines) : About(pipe'.lines[j], c)
      BY <3>2 DEF Said
    <3>3. CASE last'[c] \in Warning <=> last[c] \in Warning
      BY <1>2, <1>3, <3>1, <3>3
    <3> QED BY <1>1, <3>2, <3>3
  <2>3. \A i \in 1..Len(pipe'.lines), c \in Checkout :
          About(pipe'.lines[i], c) => pipe'.lines[i].kind = last'[c]
    BY <1>1 DEF About
  <2> QED BY <1>1, <2>1, <2>2, <2>3 DEF ReportInv, Said
<1> QED BY <1>4, <1>5

\* Nothing else comes between what has been found and what is shown.
LEMMA ReportsKeep ==
    ASSUME WindowTypes, OpenInv, ReportInv, [WindowNext]_windowVars
    PROVE  ReportInv'
<1>1. CASE HandleEvent \/ PostList \/ PostFocus \/ PostNotification \/ PostTray
  <2>1. PICK u \in Closure :
             /\ Post(u)
             /\ \/ /\ u.do = "event" /\ u.event = Head(pipe.lines) /\ pipe.lines # <<>>
                   /\ pipe' = [pipe EXCEPT !.lines = Tail(pipe.lines)] /\ UNCHANGED queries
                \/ /\ u.do = "list" /\ u.list \in queries \ {Running}
                   /\ queries' = queries \ {u.list} /\ UNCHANGED pipe
                \/ u.do \notin {"event", "list"} /\ UNCHANGED <<pipe, queries>>
             /\ UNCHANGED <<listed, journal, damaged, tells, core, last, threadVars>>
             /\ asks' = asks \/ (asks < MaxPoll /\ asks' = asks + 1)
    BY <1>1, PostersPost
  <2>2. UNCHANGED <<last, warned>>
    BY <2>1 DEF threadVars
  <2>3. \/ /\ u.do = "event" /\ u.event = Head(pipe.lines) /\ pipe.lines # <<>>
           /\ pipe' = [pipe EXCEPT !.lines = Tail(pipe.lines)]
        \/ u.do # "event" /\ UNCHANGED pipe
    BY <2>1
  <2> QED BY <2>1, <2>2, <2>3, ReportsMove
<1>2. ASSUME UNCHANGED <<last, updates, warned, dropped>>, pipe'.lines = pipe.lines
      PROVE  ReportInv'
  BY <1>2 DEF ReportInv, Said
<1>3. CASE EndWatcher
  <2>1. pipe' = [pipe EXCEPT !.state = "ended"] /\ UNCHANGED <<last, updates, warned, dropped>>
    BY <1>3 DEF EndWatcher, threadVars
  <2>2. pipe'.lines = pipe.lines
    BY <2>1 DEF WindowTypes, WatchTypes
  <2> QED BY <1>2, <2>1, <2>2
<1>4. CASE ReadList \/ Refresh \/ LoseTray \/ RequestQuit \/ DecideQuit \/ AnswerQuit \/ Sessions
             \/ UNCHANGED windowVars
  <2>1. UNCHANGED <<last, pipe, updates, warned, dropped>>
    BY <1>4 DEF ReadList, Refresh, LoseTray, RequestQuit, DecideQuit, AnswerQuit, Sessions,
                windowVars, threadVars, watchVars
  <2> QED BY <1>2, <2>1
<1>5. CASE CycleFails \/ Scan
  <2>1. /\ \A i \in 1..Len(pipe.lines) :
              i \in 1..Len(pipe'.lines) /\ pipe'.lines[i] = pipe.lines[i]
        /\ \A i \in 1..Len(pipe'.lines), c \in Checkout :
              About(pipe'.lines[i], c) =>
                 i \in 1..Len(pipe.lines) /\ pipe'.lines[i] = pipe.lines[i]
        /\ UNCHANGED <<last, threadVars, updates, dropped>>
    BY <1>5, OthersTell
  <2>2. UNCHANGED warned
    BY <2>1 DEF threadVars
  <2>3. \A c \in Checkout : \A k : Said(c, k) => Said(c, k)'
    BY <2>1 DEF Said
  <2>4. \A i \in 1..Len(pipe'.lines), c \in Checkout :
          About(pipe'.lines[i], c) => pipe'.lines[i].kind = last'[c]
    BY <2>1 DEF ReportInv
  <2> QED BY <2>1, <2>2, <2>3, <2>4 DEF ReportInv
<1> QED BY <1>1, <1>3, <1>4, <1>5, ReportsArrive, ReportsBegin DEF WindowNext

\* A list that is on its way, as long as nothing has been shown since.
Shown(l) == l = Failed \/ (list.rows \subseteq l.rows /\ l.rows \subseteq listed)
IsList(i) == updates[i].do = "list"

\* There is one query at a time, or one result of it, until it has been applied.
QueryInv ==
    /\ \A q, r \in queries : q = r
    /\ \A i, j \in 1..Len(updates) : IsList(i) /\ IsList(j) => i = j
    /\ \A i \in 1..Len(updates) : IsList(i) => querying /\ queries = {} /\ Shown(updates[i].list)
    /\ queries # {} => querying
    /\ \A q \in queries : q = Running \/ Shown(q)
    /\ list.rows \subseteq listed
    /\ dropped \/ (querying => queries # {} \/ \E i \in 1..Len(updates) : IsList(i))

\* A list that is handed over is the result of the only query.
LEMMA QueriesMove ==
    ASSUME QueueTypes, QueryInv, NEW u \in Closure, Post(u), UNCHANGED <<listed, list, querying>>,
           \/ u.do = "list" /\ u.list \in queries \ {Running} /\ queries' = queries \ {u.list}
           \/ u.do # "list" /\ UNCHANGED queries
    PROVE  QueryInv'
<1>1. CASE dropped' /\ updates' = updates
  <2>1. queries' \subseteq queries
    OBVIOUS
  <2> QED BY <1>1, <2>1 DEF QueryInv, IsList, Shown
<1>2. CASE /\ dropped' = dropped /\ Len(updates') = Len(updates) + 1
           /\ updates'[Len(updates) + 1] = u
           /\ \A i \in 1..Len(updates) : i \in 1..Len(updates') /\ updates'[i] = updates[i]
  <2>1. /\ Len(updates) \in Nat
        /\ \A i \in 1..Len(updates') : i \in 1..Len(updates) \/ i = Len(updates) + 1
        /\ Len(updates) + 1 \in 1..Len(updates')
    BY <1>2 DEF QueueTypes
  <2>2. CASE u.do = "list" /\ u.list \in queries \ {Running} /\ queries' = queries \ {u.list}
    <3>1. queries' = {} /\ querying' /\ Shown(u.list)'
      BY <2>2 DEF QueryInv, Shown
    <3>2. \A i \in 1..Len(updates) : ~IsList(i)
      BY <2>2 DEF QueryInv
    <3>3. \A i \in 1..Len(updates') : IsList(i)' <=> i = Len(updates) + 1
      BY <1>2, <2>1, <2>2, <3>2 DEF IsList
    <3> QED BY <1>2, <2>1, <3>1, <3>3 DEF QueryInv, Shown
  <2>3. CASE u.do # "list" /\ UNCHANGED queries
    <3>1. \A i \in 1..Len(updates') : IsList(i)' <=> i \in 1..Len(updates) /\ IsList(i)
      BY <1>2, <2>1, <2>3 DEF IsList
    <3> QED BY <1>2, <2>1, <2>3, <3>1 DEF QueryInv, Shown
  <2> QED BY <2>2, <2>3
<1> QED BY <1>1, <1>2, PostAppends

\* A list is applied, and then there is none on its way; and another query begins only
\* when there is none.
LEMMA QueriesArrive ==
    ASSUME WindowTypes, QueryInv, Drain
    PROVE  QueryInv' /\ ListNeverGoesBack
<1> DEFINE u == Head(updates)
<1>1. /\ updates \in Seq(Closure) /\ updates # <<>> /\ updates' = Tail(updates)
      /\ UNCHANGED <<listed, dropped>>
  BY DEF Drain, WindowTypes, QueueTypes, sessionVars
<1>2. /\ u \in Closure /\ u = updates[1] /\ 1 \in 1..Len(updates) /\ Len(updates) \in Nat
      /\ Len(updates') = Len(updates) - 1
      /\ \A i \in 1..Len(updates') : i + 1 \in 1..Len(updates) /\ updates'[i] = updates[i + 1]
      /\ \A i \in 1..Len(updates) : i = 1 \/ (i - 1 \in 1..Len(updates') /\ updates[i] = updates'[i - 1])
  BY <1>1, TailShifts
<1>3. \A i \in 1..Len(updates') : IsList(i)' <=> IsList(i + 1)
  BY <1>2 DEF IsList
<1>4. ApplyList(u) \/ ApplyEvent(u) \/ ApplyFocus(u) \/ ApplyTray(u)
  BY DEF Drain
<1> HIDE DEF u
<1>5. CASE ApplyList(u)
  <2>1. /\ u.do = "list" /\ ~querying' /\ UNCHANGED queries
        /\ (u.list = Failed /\ list' = list) \/ (u.list # Failed /\ list' = u.list)
    BY <1>5 DEF ApplyList
  <2>2. queries = {} /\ Shown(u.list) /\ IsList(1)
    BY <1>2, <2>1 DEF QueryInv, IsList
  <2>3. \A i \in 1..Len(updates') : ~IsList(i)'
    <3>1. \A i \in 1..Len(updates') : i + 1 # 1 /\ i + 1 \in 1..Len(updates)
      BY <1>2
    <3> QED BY <1>2, <1>3, <2>2, <3>1 DEF QueryInv
  <2>4. list.rows \subseteq list'.rows /\ list'.rows \subseteq listed
    BY <2>1, <2>2 DEF Shown, QueryInv
  <2> QED BY <1>1, <2>1, <2>2, <2>3, <2>4 DEF QueryInv, ListNeverGoesBack
<1>6. CASE ApplyEvent(u) \/ ApplyFocus(u) \/ ApplyTray(u)
  <2>1. u.do # "list" /\ list' = list
    BY <1>6 DEF ApplyEvent, ApplyFocus, ApplyTray
  <2>2. \A i \in 1..Len(updates) : IsList(i) => i - 1 \in 1..Len(updates') /\ IsList(i - 1)'
    BY <1>2, <2>1 DEF IsList
  <2>3. CASE UNCHANGED <<querying, queries>>
    <3>1. \A i \in 1..Len(updates') : IsList(i)' => querying' /\ queries' = {} /\ Shown(updates[i].list)'
      <4> SUFFICES ASSUME NEW i \in 1..Len(updates'), IsList(i)'
                   PROVE  querying' /\ queries' = {} /\ Shown(updates[i].list)'
        OBVIOUS
      <4>1. i + 1 \in 1..Len(updates) /\ IsList(i + 1) /\ updates'[i] = updates[i + 1]
        BY <1>2, <1>3
      <4>2. querying /\ queries = {} /\ Shown(updates[i + 1].list)
        BY <4>1 DEF QueryInv
      <4> QED BY <1>1, <2>1, <2>3, <4>1, <4>2 DEF Shown
    <3>2. \A i, j \in 1..Len(updates') : IsList(i)' /\ IsList(j)' => i = j
      <4> SUFFICES ASSUME NEW i \in 1..Len(updates'), NEW j \in 1..Len(updates'), IsList(i)', IsList(j)'
                   PROVE  i = j
        OBVIOUS
      <4>1. i + 1 \in 1..Len(updates) /\ j + 1 \in 1..Len(updates) /\ IsList(i + 1) /\ IsList(j + 1)
        BY <1>2, <1>3
      <4>2. i + 1 = j + 1
        BY <4>1 DEF QueryInv
      <4> QED BY <1>2, <4>2
    <3>3. \A q \in queries' : q = Running \/ Shown(q)'
      BY <1>1, <2>1, <2>3 DEF QueryInv, Shown
    <3>4. dropped' \/ (querying' => queries' # {} \/ \E i \in 1..Len(updates') : IsList(i)')
      BY <1>1, <2>2, <2>3 DEF QueryInv
    <3>5. (queries' # {} => querying') /\ \A q, r \in queries' : q = r
      BY <2>3 DEF QueryInv
    <3>6. list'.rows \subseteq listed' /\ list.rows \subseteq list'.rows
      BY <1>1, <2>1 DEF QueryInv
    <3>7. QueryInv'
      BY <3>1, <3>2, <3>3, <3>4, <3>5, <3>6 DEF QueryInv
    <3> QED BY <3>6, <3>7 DEF ListNeverGoesBack
  <2>4. CASE ~querying /\ querying' = TRUE /\ queries' = queries \cup {Running}
    <3>1. queries = {} /\ \A i \in 1..Len(updates) : ~IsList(i)
      BY <2>4 DEF QueryInv
    <3>2. queries' = {Running} /\ \A i \in 1..Len(updates') : ~IsList(i)'
      BY <1>2, <1>3, <2>4, <3>1
    <3>3. list'.rows \subseteq listed' /\ list.rows \subseteq list'.rows
      BY <1>1, <2>1 DEF QueryInv
    <3> QED BY <2>4, <3>2, <3>3 DEF QueryInv, ListNeverGoesBack
  <2> QED BY <1>6, <2>3, <2>4 DEF ApplyEvent, ApplyFocus, ApplyTray, StartRefresh
<1> QED BY <1>4, <1>5, <1>6

\* Nothing else touches the list that is shown.
LEMMA QueriesKeep ==
    ASSUME WindowTypes, OpenInv, QueryInv, [WindowNext]_windowVars
    PROVE  QueryInv' /\ ListNeverGoesBack
<1>0. ASSUME list' = list PROVE ListNeverGoesBack
  BY <1>0 DEF ListNeverGoesBack
<1>1. CASE HandleEvent \/ PostList \/ PostFocus \/ PostNotification \/ PostTray
  <2>1. PICK u \in Closure :
             /\ Post(u)
             /\ \/ /\ u.do = "event" /\ u.event = Head(pipe.lines) /\ pipe.lines # <<>>
                   /\ pipe' = [pipe EXCEPT !.lines = Tail(pipe.lines)] /\ UNCHANGED queries
                \/ /\ u.do = "list" /\ u.list \in queries \ {Running}
                   /\ queries' = queries \ {u.list} /\ UNCHANGED pipe
                \/ u.do \notin {"event", "list"} /\ UNCHANGED <<pipe, queries>>
             /\ UNCHANGED <<listed, journal, damaged, tells, core, last, threadVars>>
             /\ asks' = asks \/ (asks < MaxPoll /\ asks' = asks + 1)
    BY <1>1, PostersPost
  <2>2. UNCHANGED <<listed, list, querying>>
    BY <2>1 DEF threadVars
  <2>3. \/ u.do = "list" /\ u.list \in queries \ {Running} /\ queries' = queries \ {u.list}
        \/ u.do # "list" /\ UNCHANGED queries
    BY <2>1
  <2>4. QueryInv'
    BY <2>1, <2>2, <2>3, QueriesMove DEF WindowTypes
  <2> QED BY <1>0, <2>2, <2>4
<1>2. CASE ReadList
  <2>1. /\ Running \in queries /\ queries' = (queries \ {Running}) \cup {List}
        /\ UNCHANGED <<listed, updates, list, querying, dropped>>
    BY <1>2 DEF ReadList, sessionVars, threadVars
  <2>2. /\ queries' = {List}
        /\ \A q \in queries' : q = Failed \/ (list'.rows \subseteq q.rows /\ q.rows \subseteq listed')
    <3>1. queries = {Running}
      BY <2>1 DEF QueryInv
    <3>2. List = Failed \/ (list'.rows \subseteq List.rows /\ List.rows \subseteq listed')
      BY <2>1, ListIsTyped DEF QueryInv
    <3> QED BY <2>1, <3>1, <3>2
  <2> QED BY <1>0, <2>1, <2>2 DEF QueryInv, IsList, Shown
<1>3. CASE Refresh
  <2>1. /\ ~querying /\ UNCHANGED <<listed, updates, list, dropped>>
        /\ \/ UNCHANGED <<querying, queries>>
           \/ querying' = TRUE /\ queries' = queries \cup {Running}
    BY <1>3 DEF Refresh, StartRefresh, sessionVars
  <2> QED BY <1>0, <2>1 DEF QueryInv, IsList, Shown
<1>4. CASE RunOneCycle \/ CycleFails \/ Scan \/ EndWatcher \/ LoseTray \/ RequestQuit \/ DecideQuit \/ AnswerQuit
             \/ UNCHANGED windowVars
  <2>1. UNCHANGED <<listed, updates, querying, queries, list, dropped>>
    BY <1>4 DEF RunOneCycle, CycleFails, Scan, EndWatcher, LoseTray, RequestQuit, DecideQuit, AnswerQuit,
                windowVars, sessionVars, threadVars
  <2> QED BY <1>0, <2>1 DEF QueryInv, IsList, Shown
<1>5. CASE Sessions
  <2>1. listed \subseteq listed' /\ UNCHANGED <<updates, querying, queries, list, dropped>>
    BY <1>5 DEF Sessions, Journal
  <2>2. \A l : Shown(l) => Shown(l)'
    BY <2>1 DEF Shown
  <2> QED BY <1>0, <2>1, <2>2 DEF QueryInv, IsList
<1> QED BY <1>1, <1>2, <1>3, <1>4, <1>5, QueriesArrive DEF WindowNext

WindowInv == WindowTypes /\ QuitInv /\ ReportInv /\ QueryInv

\* Nothing has been found, shown or asked for.
LEMMA WindowStart == WindowInit => WindowInv
<1> SUFFICES ASSUME WindowInit PROVE WindowInv
  OBVIOUS
<1>1. QuitInv
  BY QuitStart
<1>2. /\ updates = <<>> /\ pipe = [state |-> "running", lines |-> <<>>]
      /\ <<>> \in Seq(Closure) /\ <<>> \in Seq(Event) /\ Len(updates) = 0
  BY DEF WindowInit
<1>3. QueueTypes /\ SessionTypes /\ WatchTypes
  <2>1. QueueTypes
    <3>1. dropped = FALSE /\ updates \in Seq(Closure) /\ Len(updates) <= QueueSize
      BY <1>2, WindowAssumption DEF WindowInit
    <3> QED BY <3>1 DEF QueueTypes
  <2>2. SessionTypes
    <3>1. damaged = FALSE /\ core \in BOOLEAN /\ tells = 0 /\ asks = 0
      BY DEF WindowInit
    <3>2. journal \in [Checkout -> {"open", "closed", "unreadable"}]
      BY DEF WindowInit
    <3>3. 0 \in 0..MaxTell /\ 0 \in 0..MaxPoll
      BY WindowAssumption
    <3>4. damaged \in BOOLEAN
      BY <3>1
    <3> QED BY <3>1, <3>2, <3>3, <3>4, Zenon DEF SessionTypes
  <2>3. pipe \in [state : {"running", "ended"}, lines : Seq(Event)]
    BY <1>2
  <2>4. last \in [Checkout -> LeaseKind \cup {Nothing}]
    BY DEF WindowInit
  <2> QED BY <2>1, <2>2, <2>3, <2>4 DEF WatchTypes
<1>4. ThreadTypes
  <2>1. Cardinality(Checkout) \in Nat
    BY WindowAssumption, FS_CardinalityType
  <2>2. [rows |-> {}, active |-> 0, uncertain |-> 0] \in Listing
    BY <2>1 DEF Listing, Count
  <2> QED BY <2>2 DEF WindowInit, ThreadTypes
<1>5. ReportInv
  <2>1. Nothing \notin Warning /\ Len(pipe.lines) = 0
    BY <1>2 DEF Nothing, Warning
  <2> QED BY <1>2, <2>1 DEF WindowInit, ReportInv
<1>6. QueryInv
  BY <1>2 DEF WindowInit, QueryInv
<1> QED BY <1>1, <1>3, <1>4, <1>5, <1>6 DEF WindowInv, WindowTypes

\* Every step of the window keeps its invariant, and shows nothing older.
LEMMA WindowKeeps ==
    WindowInv /\ [WindowNext]_windowVars => WindowInv' /\ ListNeverGoesBack
  BY QuitKeeps, WindowTypesKeep, ReportsKeep, QueriesKeep DEF WindowInv, QuitInv

\* The warnings shown are those that have been found, but for what is on its way.
LEMMA WarningsFollow == WindowInv => WarningsStay
<1> SUFFICES ASSUME WindowInv, ~dropped PROVE WarningsStay
  BY DEF WarningsStay
<1>1. ASSUME NEW c \in Checkout PROVE OnTheWay(c) \/ (c \in warned <=> last[c] \in Warning)
  BY DEF WindowInv, ReportInv, Said, OnTheWay
<1>2. querying => queries # {} \/ \E i \in 1..Len(updates) : updates[i].do = "list"
  BY DEF WindowInv, QueryInv, IsList
<1> QED BY <1>1, <1>2 DEF WarningsStay

\* The types of the window follow.
LEMMA TypesOfWindow == WindowInv => WindowTypeOK
<1> SUFFICES ASSUME WindowInv PROVE WindowTypeOK
  OBVIOUS
<1>1. pipe.state \in {"running", "ended"} /\ last \in [Checkout -> LeaseKind \cup {Nothing}]
  BY DEF WindowInv, WindowTypes, WatchTypes
<1>2. listed \subseteq Checkout /\ quit.step \in {"no", "reading", "asking", "asked", "silent"}
  BY DEF WindowInv, QuitInv, OpenInv
<1>3. \A q \in queries : q \in Listing \cup {Running, Failed}
  BY DEF WindowInv, WindowTypes, ThreadTypes
<1> QED BY <1>1, <1>2, <1>3 DEF WindowTypeOK, WindowInv, WindowTypes, SessionTypes, ThreadTypes, QueueTypes

DeskInv == parts \subseteq Part /\ IndexTyped /\ LeaseInv /\ OwnerInv /\ WindowInv

\* Variables of all three parts are of their types, whichever parts act, for any number
\* of processes, sessions, checkouts, leases and ticks.
THEOREM DeskTypes == DeskSpec => []DeskTypeOK
<1> USE DEF DeskInv
<1>1. DeskInit => DeskInv
  <2>1. DeskInit => OwnerInv
    <3> SUFFICES ASSUME GateInit PROVE OwnerInv
      BY DEF DeskInit
    <3>1. \A p \in Renewer : renewing[p].step = "away" /\ p # Nobody
      BY NobodyAssumption DEF GateInit, Away
    <3> QED BY <3>1, GateAssumption DEF GateInit, OwnerInv, Held
  <2>2. DeskInit => parts \subseteq Part
    BY DEF DeskInit
  <2> QED BY <2>1, <2>2, IndexTypedStart, LeaseStart, WindowStart DEF DeskInit
<1>2. DeskInv /\ [Desk]_<<parts, indexVars, gateVars, windowVars>> => DeskInv'
  <2>1. [Desk]_<<parts, indexVars, gateVars, windowVars>> =>
          /\ [IndexNext]_indexVars /\ [GateNext]_gateVars /\ [WindowNext]_windowVars
          /\ UNCHANGED parts
    BY DEF Desk
  <2> QED BY <2>1, IndexTypedKeeps, LeaseKeeps, OwnerKeeps, WindowKeeps
<1>3. DeskInv => DeskTypeOK
  BY TypesOfIndex, GateTypes, TypesOfWindow DEF DeskTypeOK
<1> QED BY <1>1, <1>2, <1>3, PTL DEF DeskSpec

\* The warnings shown are those of the watcher as soon as its reports have arrived, and
\* no list that is shown is followed by an older one, for any number of checkouts, any
\* capacity of the queue and any number of changes.
THEOREM WindowStaysTrue == DeskSpec => WindowIsTrue
<1>1. DeskInit => WindowInv
  BY WindowStart DEF DeskInit
<1>2. [Desk]_<<parts, indexVars, gateVars, windowVars>> => [WindowNext]_windowVars
  BY DEF Desk
<1>3. DeskSpec => [][WarningsStay' /\ ListNeverGoesBack]_windowVars
  BY <1>1, <1>2, WindowKeeps, WarningsFollow, PTL DEF DeskSpec
<1> QED BY <1>3 DEF WindowIsTrue
===============================================================================
