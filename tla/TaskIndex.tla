------------------------------ MODULE TaskIndex ------------------------------
(***************************************************************************)
(* The index of local editing tasks (taskcenter/session.go, store.go), the *)
(* monitor that watches the indexed copies (monitor.go) and the focus      *)
(* requests of the browser (focus.go).                                     *)
(*                                                                         *)
(* A record is written by a process of its own for every session that is   *)
(* opened; the mutex of a Store excludes nothing between processes.  The   *)
(* monitor polls; users save, touch and remove copies while it looks.  A   *)
(* tick of the clock is one period of the monitor, about half of its quiet *)
(* time.                                                                   *)
(***************************************************************************)
EXTENDS Integers, FiniteSets, TLC

CONSTANTS
    Registrar,      \* processes that index a session
    Edit,           \* sessions and tasks, by the identity their record has
    Mode,           \* "local-edit", "exclusive-edit"
    Base,           \* the versions a session may start from
    MaxStamp        \* bound: changes of a copy

ASSUME IndexAssumption == MaxStamp \in Nat

Quiet == 2          \* NewMonitor(store, 3 s), polled every 2 s
FocusTTL == 2       \* focusTTL, 12 s
NoRecord == [mode |-> "none"]
NoFocus == [edit |-> "none"]

VARIABLES
    index,      \* the record of each identity, or NoRecord
    spoiled,    \* a record cannot be read, or is not private
    copy,       \* the working copy of each identity
    writing,    \* copies an application is writing, and for how long
    reg,        \* what each process is about to index
    told,       \* history: the record each successful process was given
    seen,       \* the monitor: what it has observed of each copy
    scan,       \* the copy whose digest is being taken
    monitor,    \* "running", or "ended" by an error
    notices,    \* the digest of the last notice "local-saved"
    beat, request, polled,  \* the heartbeat, the focus request, what was read of it
    focused     \* the task the window was sent to last

indexVars == <<index, spoiled, copy, writing, reg, told, seen, scan, monitor, notices,
               beat, request, polled, focused>>

\* The bytes of a copy are named by the change that wrote them; a stamp stands for
\* its size and modification time.
Half(n) == [half |-> n]
Whole(n) == [whole |-> n]
File == [stamp : 0..MaxStamp, bytes : [whole : 0..MaxStamp] \cup [half : 1..MaxStamp],
         regular : BOOLEAN]

\* What a process asks to be indexed; the working copy follows from the identity
\* and the request, so that another mode or base stands for any other fact.
Fact == [mode : Mode, base : Base]
Record == [mode : Mode, base : Base, stamp : 0..MaxStamp]

Unseen == [age |-> -1, stamp |-> 0, digest |-> Half(0), warned |-> FALSE]
NoScan == [edit |-> "none"]
Idle == [step |-> "idle"]

IndexTypeOK ==
    /\ index \in [Edit -> Record \cup {NoRecord}]
    /\ spoiled \in BOOLEAN
    /\ copy \in [Edit -> File]
    /\ writing \in [Edit -> {-1} \cup 0..Quiet]
    /\ \A r \in Registrar :
          reg[r] # Idle => reg[r].edit \in Edit /\ reg[r].fact \in Fact
                           /\ reg[r].step \in {"read", "temp", "link", "reread"}
    /\ told \subseteq [edit : Edit, fact : Fact]
    /\ \A e \in Edit : seen[e].age \in -1..Quiet /\ seen[e].warned \in BOOLEAN
    /\ scan # NoScan => scan.edit \in Edit
    /\ monitor \in {"running", "ended"}
    /\ beat \in -1..FocusTTL
    /\ request # NoFocus => request.edit \in Edit /\ request.age \in 0..(FocusTTL + 1)
    /\ focused = NoFocus \/ (focused.edit \in Edit /\ index[focused.edit] # NoRecord)

IndexInit ==
    /\ index = [e \in Edit |-> NoRecord]
    /\ spoiled = FALSE
    /\ copy = [e \in Edit |-> [stamp |-> 0, bytes |-> Whole(0), regular |-> TRUE]]
    /\ writing = [e \in Edit |-> -1]
    /\ reg = [r \in Registrar |-> Idle]
    /\ told = {}
    /\ seen = [e \in Edit |-> Unseen]
    /\ scan = NoScan
    /\ monitor = "running"
    /\ notices = [e \in Edit |-> Half(0)]
    /\ beat = -1 /\ request = NoFocus /\ polled = NoFocus
    /\ focused = NoFocus

fileVars == <<copy, writing>>
monitorVars == <<seen, scan, monitor, notices>>
focusVars == <<beat, request, polled, focused>>
regVars == <<index, reg, told>>

-------------------------------------------------------------------------------
(* RegisterVerifiedSession                                                 *)

FactOf(record) == [mode |-> record.mode, base |-> record.base]
Leave(r) == reg' = [reg EXCEPT ![r] = Idle]
Give(r, fact) == told' = told \cup {[edit |-> reg[r].edit, fact |-> fact]}

\* indexLocalSession, registerPairedMacTask: a session that has been authorised.
BeginRegister(r) ==
    /\ reg[r] = Idle
    /\ \E e \in Edit, f \in Fact :
         reg' = [reg EXCEPT ![r] = [step |-> "read", edit |-> e, fact |-> f]]
    /\ UNCHANGED <<index, told, spoiled, fileVars, monitorVars, focusVars>>

\* readVerifiedSession: the same facts are the same session, others a conflict, and
\* what cannot be read is an error.
Compare(r, next) ==
    LET e == reg[r].edit
    IN IF spoiled THEN Leave(r) /\ UNCHANGED told
       ELSE IF index[e] = NoRecord
       THEN reg' = [reg EXCEPT ![r].step = next] /\ UNCHANGED told
       ELSE /\ Leave(r)
            /\ IF FactOf(index[e]) = reg[r].fact
               THEN Give(r, reg[r].fact) ELSE UNCHANGED told

ReadRecord(r) ==
    /\ reg[r].step = "read"
    /\ Compare(r, "temp")
    /\ UNCHANGED <<index, spoiled, fileVars, monitorVars, focusVars>>

\* The baseline is what the copy is now; the record is written beside the index.
WriteTemp(r) ==
    /\ reg[r].step = "temp"
    /\ LET e == reg[r].edit
       IN IF copy[e].regular
          THEN reg' = [reg EXCEPT ![r] = [step |-> "link", edit |-> e, fact |-> @.fact,
                                          stamp |-> copy[e].stamp]]
          ELSE Leave(r)
    /\ UNCHANGED <<index, told, spoiled, fileVars, monitorVars, focusVars>>

RecordOf(r) == [mode |-> reg[r].fact.mode, base |-> reg[r].fact.base, stamp |-> reg[r].stamp]

\* Mutant: the record is renamed into its place.
RenameRecord(r) ==
    /\ reg[r].step = "link"
    /\ index' = [index EXCEPT ![reg[r].edit] = RecordOf(r)]
    /\ Give(r, reg[r].fact) /\ Leave(r)
    /\ UNCHANGED <<spoiled, fileVars, monitorVars, focusVars>>

\* A link publishes a whole record and replaces none.
LinkRecord(r) ==
    /\ reg[r].step = "link"
    /\ LET e == reg[r].edit
       IN IF index[e] = NoRecord
          THEN /\ index' = [index EXCEPT ![e] = RecordOf(r)]
               /\ Give(r, reg[r].fact) /\ Leave(r)
          ELSE reg' = [reg EXCEPT ![r].step = "reread"] /\ UNCHANGED <<index, told>>
    /\ UNCHANGED <<spoiled, fileVars, monitorVars, focusVars>>

RereadRecord(r) ==
    /\ reg[r].step = "reread"
    /\ Compare(r, "idle")
    /\ UNCHANGED <<index, spoiled, fileVars, monitorVars, focusVars>>

\* The process ends; a file with another name may stay behind.
EndRegister(r) ==
    /\ reg[r] # Idle
    /\ Leave(r)
    /\ UNCHANGED <<index, told, spoiled, fileVars, monitorVars, focusVars>>

-------------------------------------------------------------------------------
(* Monitor.Scan, one copy at a time                                        *)

Listed == {e \in Edit : index[e] # NoRecord}

Observe(e, o) == seen' = [seen EXCEPT ![e] = o]

\* List fails as a whole on one record, and so do the scan and its process.
EndMonitor ==
    /\ monitor = "running" /\ spoiled
    /\ monitor' = "ended" /\ scan' = NoScan
    /\ UNCHANGED <<seen, notices, regVars, spoiled, fileVars, focusVars>>

\* Needs review: told once, and the observation of a stable copy begins anew.
Review(e) ==
    /\ monitor = "running" /\ ~spoiled /\ scan = NoScan
    /\ e \in Listed /\ ~copy[e].regular
    /\ Observe(e, [seen[e] EXCEPT !.warned = TRUE, !.age = -1])
    /\ UNCHANGED <<scan, monitor, notices, regVars, spoiled, fileVars, focusVars>>

\* A copy that is as it was when it was indexed ends the episode.
Clean(e) ==
    /\ monitor = "running" /\ ~spoiled /\ scan = NoScan
    /\ e \in Listed /\ copy[e].regular /\ copy[e].stamp = index[e].stamp
    /\ Observe(e, Unseen)
    /\ UNCHANGED <<scan, monitor, notices, regVars, spoiled, fileVars, focusVars>>

\* A change that is new starts the quiet time; one that has been there for that long
\* is read.
Look(e) ==
    /\ monitor = "running" /\ ~spoiled /\ scan = NoScan
    /\ e \in Listed /\ copy[e].regular /\ copy[e].stamp # index[e].stamp
    /\ IF seen[e].age = -1 \/ seen[e].stamp # copy[e].stamp
       THEN /\ Observe(e, [seen[e] EXCEPT !.warned = FALSE, !.stamp = copy[e].stamp, !.age = 0])
            /\ UNCHANGED scan
       ELSE /\ Observe(e, [seen[e] EXCEPT !.warned = FALSE])
            /\ scan' = IF seen[e].age >= Quiet
                       THEN [edit |-> e, digest |-> copy[e].bytes] ELSE scan
    /\ UNCHANGED <<monitor, notices, regVars, spoiled, fileVars, focusVars>>

\* The notice of a version that was not the last one noticed.
Notice(e, d) ==
    IF seen[e].digest = d THEN UNCHANGED <<seen, notices>>
    ELSE /\ notices' = [notices EXCEPT ![e] = d]
         /\ Observe(e, [seen[e] EXCEPT !.digest = d])

\* Mutant: nothing is compared once the digest is taken.
HashUnchecked ==
    /\ scan # NoScan
    /\ Notice(scan.edit, scan.digest)
    /\ scan' = NoScan
    /\ UNCHANGED <<monitor, regVars, spoiled, fileVars, focusVars>>

\* stableSHA256: size and time are compared once more when the digest is taken.
Hash ==
    /\ scan # NoScan
    /\ LET e == scan.edit
       IN IF copy[e].regular /\ copy[e].stamp = seen[e].stamp
          THEN Notice(e, scan.digest)
          ELSE /\ Observe(e, [seen[e] EXCEPT !.age = 0])
               /\ UNCHANGED notices
    /\ scan' = NoScan
    /\ UNCHANGED <<monitor, regVars, spoiled, fileVars, focusVars>>

\* The watcher is started again with nothing observed.
Restart ==
    /\ monitor = "ended" /\ ~spoiled
    /\ monitor' = "running"
    /\ seen' = [e \in Edit |-> Unseen]
    /\ notices' = [e \in Edit |-> Half(0)]
    /\ UNCHANGED <<scan, regVars, spoiled, fileVars, focusVars>>

-------------------------------------------------------------------------------
(* Focus requests                                                          *)

Online == beat \in 0..(FocusTTL - 1)

\* RequestFocus: only for a task that is indexed and a window that is there; an older
\* request is replaced.
RequestFocus(e) ==
    /\ e \in Listed /\ ~spoiled /\ Online
    /\ request' = [edit |-> e, age |-> 0]
    /\ UNCHANGED <<beat, polled, focused, regVars, spoiled, fileVars, monitorVars>>

\* PollFocus writes the heartbeat and reads the request, ...
PollFocus ==
    /\ polled = NoFocus
    /\ beat' = 0
    /\ polled' = request
    /\ UNCHANGED <<request, focused, regVars, spoiled, fileVars, monitorVars>>

\* ... and removes whatever request there is by then.  One that is old leads nowhere.
TakeFocus ==
    /\ polled # NoFocus
    /\ polled' = NoFocus
    /\ request' = NoFocus
    /\ focused' = IF polled.age <= FocusTTL /\ ~spoiled THEN [edit |-> polled.edit] ELSE NoFocus
    /\ UNCHANGED <<beat, regVars, spoiled, fileVars, monitorVars>>

-------------------------------------------------------------------------------
(* Applications, faults and time                                           *)

Change(e, bytes) ==
    /\ copy[e].stamp < MaxStamp
    /\ copy' = [copy EXCEPT ![e] = [stamp |-> @.stamp + 1, bytes |-> bytes, regular |-> TRUE]]

\* A save is made of writes; the copy is whole after the last one.
BeginSave(e) ==
    /\ writing[e] = -1
    /\ Change(e, Half(copy[e].stamp + 1))
    /\ writing' = [writing EXCEPT ![e] = 0]
    /\ UNCHANGED <<regVars, spoiled, monitorVars, focusVars>>

EndSave(e) ==
    /\ writing[e] # -1
    /\ Change(e, Whole(copy[e].stamp + 1))
    /\ writing' = [writing EXCEPT ![e] = -1]
    /\ UNCHANGED <<regVars, spoiled, monitorVars, focusVars>>

\* The same bytes are written once more.
Touch(e) ==
    /\ writing[e] = -1
    /\ Change(e, copy[e].bytes)
    /\ UNCHANGED <<writing, regVars, spoiled, monitorVars, focusVars>>

Vanish(e) ==
    /\ writing[e] = -1 /\ copy[e].regular
    /\ copy' = [copy EXCEPT ![e].regular = FALSE]
    /\ UNCHANGED <<writing, regVars, spoiled, monitorVars, focusVars>>

\* A record that cannot be read any more, until somebody puts it right.
Spoil ==
    /\ Listed # {}
    /\ spoiled' = ~spoiled
    /\ UNCHANGED <<regVars, fileVars, monitorVars, focusVars>>

Older(age, cap) == IF age \in {-1, cap} THEN age ELSE age + 1

\* An application does not pause for the quiet time within a save.
Tick ==
    /\ \A e \in Edit : writing[e] < Quiet - 1
    /\ writing' = [e \in Edit |-> Older(writing[e], Quiet)]
    /\ seen' = [e \in Edit |-> [seen[e] EXCEPT !.age = Older(@, Quiet)]]
    /\ beat' = Older(beat, FocusTTL)
    /\ request' = IF request = NoFocus THEN request
                  ELSE [request EXCEPT !.age = Older(@, FocusTTL + 1)]
    /\ UNCHANGED <<regVars, spoiled, copy, scan, monitor, notices, polled, focused>>

RegisterStep(r) ==
    \/ BeginRegister(r) \/ ReadRecord(r) \/ WriteTemp(r) \/ LinkRecord(r)
    \/ RereadRecord(r) \/ EndRegister(r)

IndexNext ==
    \/ \E r \in Registrar : RegisterStep(r)
    \/ \E e \in Edit : \/ Review(e) \/ Clean(e) \/ Look(e) \/ RequestFocus(e)
                       \/ BeginSave(e) \/ EndSave(e) \/ Touch(e) \/ Vanish(e)
    \/ EndMonitor \/ Hash \/ Restart \/ PollFocus \/ TakeFocus \/ Spoil \/ Tick

IndexSpec == IndexInit /\ [][IndexNext]_indexVars

-------------------------------------------------------------------------------
\* A session that has been indexed keeps its first record, and every process that
\* was told so, in whatever order they came, agrees with it and with the others.
FirstRecordStays ==
    \A t \in told : index[t.edit] # NoRecord /\ FactOf(index[t.edit]) = t.fact

\* The user is told of a saved version only when the whole of it, and nothing newer,
\* is in the copy at that moment.
NoticesAreTrue ==
    [][\A e \in Edit :
         notices'[e] # notices[e] /\ notices'[e] # Half(0) =>
            /\ notices'[e] \in [whole : 0..MaxStamp]
            /\ copy[e].regular /\ copy[e].bytes = notices'[e]]_indexVars
================================================================================
