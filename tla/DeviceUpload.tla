---------------------------- MODULE DeviceUpload ----------------------------
(***************************************************************************)
(* Uploads of one working copy by the command-line entries of the Go       *)
(* agent, each an independent process: edit_upload.go for a checkout (its  *)
(* journal and lock are those of EditWorkflow) and optimistic_upload.go    *)
(* for an ordinary edit, which has no lock and keeps its evidence in two   *)
(* files created exclusively.  Both capture the copy (snapshot.go), prove  *)
(* the device for every request (device_commit_proof.go) and send either   *)
(* the whole file (upload_engine.go) or its missing blocks (device_cdc.go, *)
(* blockdelta).  A request given up may still arrive, once, or never.      *)
(***************************************************************************)
EXTENDS Integers, FiniteSets

CONSTANTS
    Proc,       \* processes
    Intent,     \* intent ids, fresh for every capture
    MaxEdit,    \* bound: saves of the working copy
    None,       \* no intent, no file, no process
    Torn,       \* a file that was created and not written to the end
    Mixed,      \* bytes of a file that changed while it was read
    Live        \* the snapshot is read from disk while it is sent

Version == 0..MaxEdit

ASSUME DeviceUploadAssumption ==
    /\ MaxEdit \in Nat
    /\ None \notin Intent /\ Torn \notin Intent /\ None # Torn
    /\ None \notin Proc /\ None \notin {Mixed, Live} /\ Mixed # Live
    /\ {None, Mixed, Live} \cap Version = {}

VARIABLES
    mode,       \* what the session was opened for
    copy,       \* the working copy
    lock,       \* holder of .operation.lock (checkout)
    closed,     \* the journal says that the checkout has ended
    record,     \* the pending intent of the journal; *-original-intent.json
    receipt,    \* the last receipt of the journal; *-published.json
    snap,       \* the snapshot file of each intent
    digest,     \* the digest in each intent
    checkin,    \* intents that end the checkout
    pc, job,    \* where each process is, and with which intent
    seen,       \* the bytes it has read
    held,       \* the server: the checkout is active
    srv, cloud, \* the server: state of each intent, and the bytes it published
    net,        \* uploads on their way
    sent        \* how often the bytes of each intent were sent

ledger == <<lock, closed, record, receipt>>
files == <<snap, digest, checkin>>
server == <<held, srv, cloud>>
uploadVars == <<mode, copy, ledger, files, pc, job, seen, server, net, sent>>

Point == {"idle", "capture", "record", "write", "prepare", "open", "plan", "full",
          "stage", "grant", "send", "await", "settle", "receipt", "query",
          "release", "close"}
Content == Version \cup {Mixed}

UploadTypeOK ==
    /\ mode \in {"checkout", "optimistic"}
    /\ copy \in Version
    /\ lock \in Proc \cup {None}
    /\ closed \in BOOLEAN /\ held \in BOOLEAN
    /\ record \in Intent \cup {None, Torn} /\ receipt \in Intent \cup {None, Torn}
    /\ snap \in [Intent -> Content \cup {None}]
    /\ digest \in [Intent -> Content \cup {None}]
    /\ cloud \in [Intent -> Content \cup {None}]
    /\ checkin \subseteq Intent
    /\ pc \in [Proc -> Point]
    /\ job \in [Proc -> Intent \cup {None}]
    /\ seen \in [Proc -> Content \cup {None, Live}]
    /\ srv \in [Intent -> {"none", "prepared", "published"}]
    /\ net \subseteq [intent : Intent, bytes : Content]
    /\ sent \in [Intent -> Nat]
    /\ \A p \in Proc : pc[p] \in {"record", "write", "prepare", "open", "plan", "full", "stage",
                                  "grant", "send", "await", "settle", "receipt", "query"}
                       => job[p] \in Intent /\ digest[job[p]] # None

UploadInit ==
    /\ mode \in {"checkout", "optimistic"}
    /\ copy = 0
    /\ lock = None /\ closed = FALSE /\ record = None /\ receipt = None
    /\ snap = [i \in Intent |-> None]
    /\ digest = [i \in Intent |-> None]
    /\ checkin = {}
    /\ pc = [p \in Proc |-> "idle"]
    /\ job = [p \in Proc |-> None]
    /\ seen = [p \in Proc |-> None]
    /\ held = (mode = "checkout")
    /\ srv = [i \in Intent |-> "none"]
    /\ cloud = [i \in Intent |-> None]
    /\ net = {}
    /\ sent = [i \in Intent |-> 0]

Goto(p, l) == pc' = [pc EXCEPT ![p] = l]
Done(p) == /\ Goto(p, "idle")
           /\ job' = [job EXCEPT ![p] = None] /\ seen' = [seen EXCEPT ![p] = None]

-------------------------------------------------------------------------------
(* Proofs and grants.                                                      *)

\* A challenge that a server may answer with.
Challenge == [operation : {"commit", "lease", "claim", "read"}, ours : BOOLEAN, current : BOOLEAN]

\* validateFor: of this device and session, for this operation, and in time.
Valid(c, operation) == c.ours /\ c.current /\ c.operation = operation

\* The key of the device signs everything that the challenge says.
Proof(c) == [signed |-> c]
Verified(q, c) == q.signed = c

\* Every privileged request asks for a challenge of its own and sends the proof.
Signed(operation) ==
    \E c \in Challenge : Valid(c, operation) /\ Verified(Proof(c), c)

ProvedCommit == Signed("commit")

\* What the server lets pass: a checkout that is active and has prepared this
\* intent, or an ordinary edit, whose intent it then prepares.
MayUpload(i) ==
    IF mode = "checkout" THEN held /\ srv[i] = "prepared" ELSE srv[i] # "published"

-------------------------------------------------------------------------------
(* Capture and the record of the intent.                                   *)

Begin(p) ==
    /\ pc[p] = "idle" /\ record = None
    /\ seen' = [seen EXCEPT ![p] = copy]
    /\ Goto(p, "capture")
    /\ UNCHANGED <<mode, copy, closed, record, receipt, files, job, server, net, sent>>

\* runEditUpload holds the lock of the session from the first read of the journal.
SubmitCheckout(p) ==
    /\ mode = "checkout" /\ lock = None /\ ~closed
    /\ lock' = p
    /\ Begin(p)

\* runOptimisticUpload only inspects a base that has an intent on record.
SubmitEdit(p) == mode = "optimistic" /\ Begin(p) /\ UNCHANGED lock

Keep(p, i, b) ==
    /\ digest[i] = None
    /\ snap' = [snap EXCEPT ![i] = b]
    /\ digest' = [digest EXCEPT ![i] = b]
    /\ checkin' \in {checkin} \cup (IF mode = "checkout" THEN {checkin \cup {i}} ELSE {})
    /\ job' = [job EXCEPT ![p] = i]
    /\ Goto(p, "record")
    /\ UNCHANGED <<mode, copy, ledger, seen, server, net, sent>>

\* CreateSnapshot: the copy has the size and time it had when it was opened, and
\* a second read finds the same bytes.
Capture(p) ==
    /\ pc[p] = "capture"
    /\ seen[p] = copy
    /\ \E i \in Intent : Keep(p, i, copy)

\* CommitCaptured replaces the journal in one step.
RecordIntent(p) ==
    /\ pc[p] = "record" /\ mode = "checkout"
    /\ record' = job[p]
    /\ Goto(p, "prepare")
    /\ UNCHANGED <<mode, copy, lock, closed, receipt, files, job, seen, server, net, sent>>

\* Mutant: the evidence file is truncated when it exists.
ReplaceEvidence(p) ==
    /\ pc[p] = "record" /\ mode = "optimistic"
    /\ record' = Torn
    /\ Goto(p, "write")
    /\ UNCHANGED <<mode, copy, lock, closed, receipt, files, job, seen, server, net, sent>>

\* The evidence file is created exclusively: one process gets it ...
CreateEvidence(p) ==
    /\ pc[p] = "record" /\ mode = "optimistic"
    /\ record = None
    /\ record' = Torn
    /\ Goto(p, "write")
    /\ UNCHANGED <<mode, copy, lock, closed, receipt, files, job, seen, server, net, sent>>

\* ... and has yet to write it.
WriteEvidence(p) ==
    /\ pc[p] = "write"
    /\ record' = job[p]
    /\ Goto(p, "open")
    /\ UNCHANGED <<mode, copy, lock, closed, receipt, files, job, seen, server, net, sent>>

-------------------------------------------------------------------------------
(* Publication.                                                            *)

\* PrepareIntent; its answer may be lost (Stop).
Prepare(p) ==
    /\ pc[p] = "prepare"
    /\ ProvedCommit /\ held /\ srv[job[p]] # "published"
    /\ srv' = [srv EXCEPT ![job[p]] = "prepared"]
    /\ Goto(p, "open")
    /\ UNCHANGED <<mode, copy, ledger, files, job, seen, held, cloud, net, sent>>

\* Mutant: what is read from the snapshot is not compared with the digest.
ReadUnchecked(p) == snap[job[p]]

\* The snapshot, when it still has the bytes that the user confirmed.
ReadVerified(p) == IF snap[job[p]] = digest[job[p]] THEN snap[job[p]] ELSE None

Take(p, b, l) ==
    /\ ReadVerified(p) # None
    /\ seen' = [seen EXCEPT ![p] = b]
    /\ Goto(p, l)
    /\ UNCHANGED <<mode, copy, ledger, files, job, server, net, sent>>

\* A checkout freezes a verified copy of the snapshot before it is sent.
FullCheckout(p) ==
    pc[p] \in {"open", "full"} /\ mode = "checkout" /\ Take(p, ReadVerified(p), "grant")

\* An ordinary edit sends the file that it has verified and keeps open.
FullEdit(p) == pc[p] \in {"open", "full"} /\ mode = "optimistic" /\ Take(p, Live, "grant")

\* The blocks of a file, each with the digest of its bytes, and of the whole.
Scan(p) == ReadVerified(p)

\* A large file is scanned into a manifest of blocks first, when that is enabled.
OpenBlocks(p) == pc[p] = "open" /\ Take(p, Scan(p), "plan")

\* Each request with blocks has a grant of its own.
GrantBlocks(p) == ProvedCommit /\ MayUpload(job[p])

\* The server's plan names missing blocks; when too little is saved the whole
\* file is sent after all, before any block has been staged.
Plan(p) ==
    /\ pc[p] = "plan"
    /\ GrantBlocks(p)
    /\ srv' = [srv EXCEPT ![job[p]] = "prepared"]
    /\ Goto(p, "stage") \/ Goto(p, "full")
    /\ UNCHANGED <<mode, copy, ledger, files, job, seen, held, cloud, net, sent>>

PutBlock(p) == GrantBlocks(p)

\* StageSnapshotOnly scans the file again, checks every block it sends against
\* its id and the whole file at the end.  Blocks are not a publication.
Stage(p) ==
    /\ pc[p] = "stage"
    /\ PutBlock(p)
    /\ Scan(p) = seen[p]
    /\ Goto(p, "grant")
    /\ UNCHANGED <<mode, copy, ledger, files, job, seen, server, net, sent>>

\* A grant for this intent, digest and size; its answer may be lost (Stop).
Grant(p) ==
    /\ pc[p] = "grant"
    /\ ProvedCommit /\ MayUpload(job[p])
    /\ srv' = [srv EXCEPT ![job[p]] = "prepared"]
    /\ Goto(p, "send")
    /\ UNCHANGED <<mode, copy, ledger, files, job, seen, held, cloud, net, sent>>

Post(i, b) ==
    /\ net' = net \cup {[intent |-> i, bytes |-> b]}
    /\ sent' = [sent EXCEPT ![i] = @ + 1]

Send(p) ==
    /\ pc[p] = "send"
    /\ Post(job[p], IF seen[p] = Live THEN snap[job[p]] ELSE seen[p])
    /\ Goto(p, "await")
    /\ UNCHANGED <<mode, copy, ledger, files, job, seen, server>>

\* A receipt names the intent, its digest, its base and the file id.
Answer(p) ==
    /\ pc[p] = "await"
    /\ srv[job[p]] = "published"
    /\ Goto(p, "settle")
    /\ UNCHANGED <<mode, copy, ledger, files, job, seen, server, net, sent>>

\* A checkout goes on where it was.
QueryCheckout(p) ==
    /\ pc[p] = "query" /\ mode = "checkout"
    /\ ProvedCommit
    /\ \/ srv[job[p]] = "published" /\ Goto(p, "settle")
       \/ srv[job[p]] = "none" /\ Goto(p, "prepare")
       \/ srv[job[p]] = "prepared" /\ Goto(p, "open")
    /\ UNCHANGED <<mode, copy, ledger, files, job, seen, server, net, sent>>

\* Mutant: an intent that the server has prepared counts as published.
QueryLenient(p) ==
    /\ pc[p] = "query" /\ mode = "optimistic"
    /\ srv[job[p]] # "none" /\ Goto(p, "settle")
    /\ UNCHANGED <<mode, copy, ledger, files, job, seen, server, net, sent>>

\* An ordinary edit that is not published stays pending and is never sent again.
QueryEdit(p) ==
    /\ pc[p] = "query" /\ mode = "optimistic"
    /\ Signed("commit")
    /\ srv[job[p]] = "published" /\ Goto(p, "settle")
    /\ UNCHANGED <<mode, copy, ledger, files, job, seen, server, net, sent>>

\* Workflow.accept saves the journal.
SettleCheckout(p) ==
    /\ pc[p] = "settle" /\ mode = "checkout"
    /\ record' = None /\ receipt' = job[p]
    /\ closed' = (job[p] \in checkin)
    /\ lock' = None
    /\ Done(p)
    /\ UNCHANGED <<mode, copy, files, server, net, sent>>

\* An ordinary edit creates its receipt file exclusively, too, ...
CreateReceipt(p) ==
    /\ pc[p] = "settle" /\ mode = "optimistic"
    /\ receipt = None /\ receipt' = Torn
    /\ Goto(p, "receipt")
    /\ UNCHANGED <<mode, copy, lock, closed, record, files, job, seen, server, net, sent>>

\* ... and writes it.
WriteReceipt(p) ==
    /\ pc[p] = "receipt"
    /\ receipt' = job[p]
    /\ Done(p)
    /\ UNCHANGED <<mode, copy, lock, closed, record, files, server, net, sent>>

-------------------------------------------------------------------------------
(* Recovery and release.                                                   *)

\* Mutant: the state is queried before the intent on record is known.
ResumeUnread(p) ==
    /\ pc[p] = "idle" /\ record # None
    /\ Goto(p, "query")
    /\ UNCHANGED <<mode, copy, closed, record, receipt, files, job, seen, server, net, sent>>

Resume(p) ==
    /\ pc[p] = "idle" /\ record \in Intent
    /\ job' = [job EXCEPT ![p] = record]
    /\ Goto(p, "query")
    /\ UNCHANGED <<mode, copy, closed, record, receipt, files, seen, server, net, sent>>

RecoverCheckout(p) == mode = "checkout" /\ lock = None /\ lock' = p /\ Resume(p)

\* A receipt that cannot be read counts as none.
RecoverEdit(p) == mode = "optimistic" /\ receipt \notin Intent /\ Resume(p) /\ UNCHANGED lock

Abandon(p) ==
    /\ pc[p] = "idle"
    /\ mode = "checkout" /\ lock = None /\ record = None /\ ~closed
    /\ lock' = p
    /\ Goto(p, "release")
    /\ UNCHANGED <<mode, copy, closed, record, receipt, files, job, seen, server, net, sent>>

\* AbandonCheckout; its answer may be lost, and the journal then stays open.
Release(p) ==
    /\ pc[p] = "release"
    /\ Signed("lease") /\ held
    /\ held' = FALSE
    /\ Goto(p, "close")
    /\ UNCHANGED <<mode, copy, ledger, files, job, seen, srv, cloud, net, sent>>

Close(p) ==
    /\ pc[p] = "close"
    /\ closed' = TRUE
    /\ lock' = None
    /\ Done(p)
    /\ UNCHANGED <<mode, copy, record, receipt, files, server, net, sent>>

\* A refusal, a timeout, an error of a file, or the end of the process.
Stop(p) ==
    /\ pc[p] # "idle"
    /\ Done(p)
    /\ lock' = IF lock = p THEN None ELSE lock
    /\ UNCHANGED <<mode, copy, closed, record, receipt, files, server, net, sent>>

-------------------------------------------------------------------------------
(* The server and the user.                                                *)

\* The server publishes an upload once, and checks the checkout, not the bytes.
Publish(m) ==
    /\ net' = net \ {m}
    /\ IF MayUpload(m.intent)
       THEN /\ srv' = [srv EXCEPT ![m.intent] = "published"]
            /\ cloud' = [cloud EXCEPT ![m.intent] = m.bytes]
            /\ held' = (held /\ m.intent \notin checkin)
       ELSE UNCHANGED server
    /\ UNCHANGED <<mode, copy, ledger, files, pc, job, seen, sent>>

Lose(m) ==
    /\ net' = net \ {m}
    /\ UNCHANGED <<mode, copy, ledger, files, pc, job, seen, server, sent>>

Edit ==
    /\ copy < MaxEdit
    /\ copy' = copy + 1
    /\ UNCHANGED <<mode, ledger, files, pc, job, seen, server, net, sent>>

\* Something writes to a snapshot in the session directory.
Damage(i) ==
    /\ snap[i] \notin {None, Mixed}
    /\ snap' = [snap EXCEPT ![i] = Mixed]
    /\ UNCHANGED <<mode, copy, ledger, digest, checkin, pc, job, seen, server, net, sent>>

UploadStep(p) ==
    \/ SubmitCheckout(p) \/ SubmitEdit(p) \/ Capture(p)
    \/ RecordIntent(p) \/ CreateEvidence(p) \/ WriteEvidence(p)
    \/ Prepare(p) \/ FullCheckout(p) \/ FullEdit(p) \/ OpenBlocks(p)
    \/ Plan(p) \/ Stage(p) \/ Grant(p) \/ Send(p) \/ Answer(p)
    \/ QueryCheckout(p) \/ QueryEdit(p)
    \/ SettleCheckout(p) \/ CreateReceipt(p) \/ WriteReceipt(p)
    \/ RecoverCheckout(p) \/ RecoverEdit(p)
    \/ Abandon(p) \/ Release(p) \/ Close(p) \/ Stop(p)

UploadNext ==
    \/ \E p \in Proc : UploadStep(p)
    \/ \E m \in net : Publish(m) \/ Lose(m)
    \/ Edit
    \/ \E i \in Intent : Damage(i)

UploadSpec == UploadInit /\ [][UploadNext]_uploadVars

-------------------------------------------------------------------------------

\* What a checkout publishes for an intent are the bytes the intent was made for,
\* although the snapshot may change between the comparison with its digest and the
\* upload (publishDeviceFull, executeSharedCDC).  An ordinary edit sends the open file,
\* and its bytes rest on the digest that the server compares.
OnlyConfirmedBytes ==
    mode = "checkout" => \A i \in Intent : cloud[i] \in {None, digest[i]}

\* Two processes that upload the same base at once, crash and are started again
\* send the bytes of one intent, once: "Each original File ID owns ONE immutable
\* upload Intent" and "Unknown results are inspected, NOT resent".
OneUploadPerBase ==
    mode = "optimistic" =>
       /\ \A i \in Intent : sent[i] <= 1
       /\ \A i, j \in Intent : srv[i] # "none" /\ srv[j] # "none" => i = j

\* What is on disk is what a user can act on: an intent that the server may still
\* publish is on record, a record that was not written to the end was never sent,
\* a receipt, whole or not, stands for a publication, and a closed journal for a
\* checkout that has been released.
EvidenceIsTrue ==
    /\ \A i \in Intent : srv[i] = "prepared" => record = i
    /\ record = Torn => \A i \in Intent : sent[i] = 0
    /\ receipt = Torn => \E i \in Intent : srv[i] = "published"
    /\ receipt \in Intent => srv[receipt] = "published"
    /\ closed => ~held
================================================================================
