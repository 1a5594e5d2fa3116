# Verification of the CloudFile local agents

This directory holds TLA+ specifications of the programs in this repository, the
TLC configurations that check them on small instances, and proofs of the most
important results that TLAPS checks for every value of the constants.

## 1. The system

The repository contains two generations of a desktop agent that lets a user open
a cloud file in a local application and, on request, puts the edited file back:

* the **Go agent** (`cmd/`, `internal/`): a native-messaging helper, a task
  center and a command line; and
* the **Rust agent** (`agent22/`): one resident desktop process, a native host
  that the browser starts, and a core library.

The server (the *Hub*, a Seafile extension) is not part of the repository.
Where a module needs it, its behaviour is read off the requests, answers and
refusals the clients rely on and marked external.

### Inventory

| component | state it keeps | operations | what is hard | what makes it correct |
|---|---|---|---|---|
| checkout editing workflow (Go), `internal/editing/{workflow,journal,worker,manual,snapshot,http}.go` | `journal.json` (lease, pending intent, last receipt, closed), `.operation.lock`, `Workflow.state` in memory | commit, check in, recover, cancel, resume, abandon, heartbeat | several processes on one session; crash between save, prepare, publish and accept; lost, late answers; a save that fails after its rename | no intent is forgotten or published twice; a closed journal never covers a held guard; the base follows the cloud; a pending intent comes to an end |
| device-bound transport (Go), `internal/editing/device_*.go`, `upload_engine.go`, `edit_upload.go` | same journal, snapshots; challenges, grants and blocks on the server | commit, check in, recover, abandon, each one process | the snapshot is read twice, once to check it and once to send it; plan, stage and upload are separate requests | only bytes that were compared with the confirmed digest are published |
| optimistic upload (Go), `optimistic_upload.go` | `*-original-intent.json`, `*-published.json` | upload once, query, recover | no lock; files created exclusively and written later; lost answer | never sent twice; what is on disk is true of the server |
| checkout renewal (Go), `renewal_guard.go`, `checkout_{init,renew}.go`, `cloudfile-taskcenter/lease.go` | `renew-confirmed.json`, `renew-owner.lock`, the journal's lease | receive a lease, one signed renewal per quiet period | several renewers; crash between answer and record; lease changed under way | a reused confirmation is of this lease and recent; no answer, no record; the server's copy goes only when the agent has its own |
| task index (Go), `internal/taskcenter` | one JSON file per task, focus request and heartbeat, observations of working copies | register, list, watch, focus | two processes register; scan while the application saves | one record per identity; an announced change is a whole one |
| task center window (Go, Windows), `cmd/cloudfile-taskcenter-ui` | rows, counts, warnings, a queue of closures, an icon | refresh, warn, highlight, quit | one thread, fed by a watcher and several workers through a queue that drops when it is full | warnings stay; the window never quits silently over an open checkout |
| runner and session store (Go), `internal/runner`, `internal/session`, `internal/workspace` | files of the mirror and their records, single-use tickets | claim, choose a name, download, open | two sessions choose the same name; an old record beside new bytes | a record vouches only for what was served; no download costs saved work |
| workspace adoption (Go), `internal/workspace/adopt.go` | old and new mirror, marker | copy, verify, remove | edit or crash in the middle; drives that come and go | the source goes only when the copy is complete |
| self-update (Go), `internal/update` | manifest and its predecessor, versioned binaries, extension directory, `.install-lock` | update agent, update extension, roll back | crash between two steps; two updates at once | what the browser starts was verified and works; an extension is there or set aside |
| task journal (Rust), `journal.rs`, `storage.rs` | `journal.json`, `task.json`, `*.snapshot`, `operation.lock` | capture, accept, set lease, acknowledge, close | three writes per accept; torn writes; readers without the lock | a crash anywhere leaves a state that can go on |
| exclusive checkout (Rust), `exclusive.rs` | the journal's lease, `upload.lock` | receive lease, commit, check in, recover, release, renew | lease read before the lock; release and close are two steps | the lease is never lost; recovery can always proceed |
| optimistic upload and observer (Rust), `upload.rs`, `auto_upload.rs` | journal, `auto-upload.json`, observations in memory | save, recover, scan, enable | scan against window, editor and network | only settled versions go up, they do go up, and nothing is sent twice |
| mailbox (Rust), `ipc.rs` | request, processing and response files | call, drain, recover | crash at each rename; timeout against a late answer | each request is handled at most once |
| exit guard (Rust), `guard.rs` | none (reads the store) | assess | store changes, unreadable store | never "safe" with something at risk |
| sessions and downloads (Rust), `session.rs`, `paired_session.rs` | `task.json`, working copy | claim, download | crash between two writes | an opened task can be opened again |
| blocks, pairing, notifications, settings, front ends, platform access, entry points, scripts | a plan of blocks, a key, settings | - | - | section 7 |

`PROJECT.json` lists every component with its files and what is modelled of it,
and every hazard with the line where it bites and the properties that would
notice it.

## 2. Modules

| module | models | abstract specification |
|---|---|---|
| `Publication` | what the agents promise about the uploads of one file | is one |
| `Hub` | the server, as the clients rely on it (external) | |
| `EditWorkflow` | `internal/editing`: `Workflow`, `FileJournal`, `SessionWorker`, `ManualSubmitter`, `SessionHTTPTransport` | `Publication` |
| `DeviceUpload` | the upload entries of the Go command line and the device transport below them | |
| `LocalMirror` | `session.go`, `config.go` (roots), `adopt.go`, `runner.go`, `workspace.go` | |
| `SelfUpdate` | `internal/update` and the entries that run it | |
| `LocalAgent` | the Go binary: `DeviceUpload`, `LocalMirror` and `SelfUpdate` composed | |
| `TaskIndex` | `taskcenter/{session,store,monitor,focus}.go` | |
| `RenewalGate` | `checkout_init.go`, `checkout_renew.go`, `renewal_guard.go`, `device_lease_broker.go`, `lease.go` | |
| `TaskWindow` | `cloudfile-taskcenter-ui` and the program it runs | |
| `TaskCenter` | `TaskIndex`, `RenewalGate` and `TaskWindow` composed | |
| `AgentJournal` | `journal.rs` with the locks and writes of `storage.rs` | |
| `ExclusiveCheckout` | `exclusive.rs` over `AgentJournal` and `Hub` | `Publication` |
| `OptimisticUpload` | `upload.rs` and `auto_upload.rs` over `AgentJournal` | `Publication` |
| `SessionOpen` | `session::open_session` and `paired_session::open_with`, by any process | |
| `Mailbox` | `ipc.rs`, and `forward` of the native host, over `SessionOpen` | |
| `ExitGuard` | `guard.rs` and the ways to quit that act on it | |

An `MC...` module adds the symmetry sets and constraints of the runs and nothing
else; a `...Proofs` or `...Safety` module holds the theorems of the module it
extends. Definitions that begin with the comment "Mutant" are not part of any
specification: each is the wrong version of the definition that follows it, and
`PROJECT.json` names the property that notices the exchange.

### How the modules correspond to the code

**EditWorkflow.** `journal` is `journal.json`, `lock` is `.operation.lock`, and
`mem[w]` is `Workflow.state` of process `w`. A worker opens the session (lock,
load), runs operations and closes or crashes. Each public method is a chain of
actions cut where the code gives other processes a chance: the saves of the
journal, the requests, the answers. `Save` is `FileJournal.Save`: it can fail
before or after the rename, and then memory and disk differ, as in the code.
A request stays in `net` until the Hub handles it or it is lost; `GiveUp` is a
caller whose context ends, and its request may still arrive. The guard id and
the generation of the lease are left out, since one session has one; the
credential epoch is kept because `Resume` moves it.

**DeviceUpload.** Every entry of the command line is a process; `pc[p]` is how
far it has come and `job[p]` the intent it works on. `mode` says for what the
session was opened. A checkout holds `.operation.lock` from the first read of the
journal to the end; an ordinary edit has no lock, and its two evidence files are
created with `O_EXCL` (`CreateEvidence`, `CreateReceipt`) and written later, so
that a process that ends in between leaves `Torn`. `seen[p]` is what a process
has read: a frozen, verified copy for a checkout and for blocks, and `Live` for
an ordinary edit, which sends the open file. A challenge, its checks and the
signature over it are `Signed`; what the server lets pass is `MayUpload`. The
protocol of the journal itself is that of `EditWorkflow`, and is here a single
value, `record`.

**LocalMirror.** `disk[r]` is what a root holds: copies, records and the report
of an adoption. A process claims a ticket, resolves the root (`SelectRoot`),
adopts an older mirror when there is one (`Adopt` to `Mark`), chooses the local
name and either launches what is there or downloads (`Choose` to `Launch`);
nothing locks the mirror, and every process may end at every step (`EndOpen`).
`Doc` are library paths with one base name: only those compete. Of bytes it
keeps where they came from (`served`, `saved`, `Partial`) and one of two sizes,
because `verifyMirror` compares sizes.

**SelfUpdate.** A version is a number. `bin[v]` is the versioned binary, which
may be there with other bytes; `registered` is what the manifest names and
`previous` what a rollback would register. `Newer` allows any verified binary as
the one that runs, since a process that was started before an update goes on
with the old one. `pruneOld` has no caller outside the tests and is no action.
`Rollback` is `--rollback` of the installation script: under `.install-lock`, with
the ownership check of both manifests and the health check of the previous
binary; a script that is killed leaves the lock behind.

**LocalAgent, TaskCenter.** The parts share no variable. The entries of the Go
agent keep their files in different directories; the three parts of the task
center meet in the index and the journals, and each has actions for what the
others do there (`Sessions`, `NewLease`, `Spoil`). What holds of every behaviour
of one part therefore holds of the whole, and TLC explores one part at a time
(`MaxEntry`, `MaxPart`), while the theorems of section 5 are about the
composition for every value of these constants.

**TaskIndex.** `RegisterVerifiedSession` is read, write beside, link, and read
again when the link is there already. `copy[e].stamp` stands for size and time
of a working copy, `bytes` for its content; a save is two changes, `Half` and
`Whole`. `Monitor.Scan` visits one copy at a time, and the digest it takes
(`Look`) is compared once more after that (`Hash`). A tick is one period of the
monitor; `Tick` says that an application does not pause for the quiet time
within one save, the assumption the code makes, too.

**RenewalGate.** A lease is a number; `guard` is the server's, `lease` the
journal's, `ack` is `renew-confirmed.json`. The journal and the time are read
before `renew-owner.lock` is tried and the journal again under it; the request
names the session alone, so the server extends whatever lease is current by then.

**TaskWindow.** `updates` is the channel of closures and `Drain` one of them;
`Post` drops when it is full. The watcher is a process whose output (`pipe`) a
thread reads; `last` is what it has said of each session, because it tells of
changes only. A cycle of renewals that fails after the scan has succeeded is told
without a task (`CycleFails`): its warning is kept and belongs to no row. What the
monitor tells (`Scan`) is shown in a balloon and makes the window refresh.
`requestQuit` runs `--list` itself while the window is blocked, and then asks or
not.

**AgentJournal, ExclusiveCheckout, OptimisticUpload.** The Rust agent has no
state in memory that outlives an operation: threads of one process read and
write files under `operation.lock` and hold `upload.lock` while they may send.
`capture_observed` is two actions (copy and first hash, second hash and save),
because the user's application may save between them; `accept` is three, because
it writes three times; an operation that reads the journal or the task before it
takes `upload.lock` keeps what it has read in `mem`. `Failed` is a write that
returns an error with or without having replaced the file; a crash ends all
threads at once. `handoff` is the server's copy of the device lease, erased when
the agent confirms it. The observer remembers in `seen` the version that it saw
at the previous scan, which stands for a hash that is old enough (`SETTLE_MS`).

**SessionOpen, Mailbox.** A message is `<id>.request`, then `<id>.processing`,
then gone: variable `mail`; its answer is `<id>.response`: variable `response`.
The native host is a process per message. `late[r]` is the moment, 330 seconds
after the message was written, from which `drain` no longer accepts it and the
caller stops polling; one clock is assumed for the two, which run on one
machine (`expires_at` is wall-clock time in whole seconds, the deadline of the
caller a monotonic one). `forward` opens a link itself after *any* error of the
call, so opening a file is a module of its own which the desktop and the native
hosts both run, `operation.lock` of the task between them. That lock is only
tried: who finds it taken fails (`Refuse`).

**ExitGuard.** `assess` lists the task directories and reads them one by one
while other threads change them; only what it looks at is kept of a task. A
failing directory entry is skipped and a failing listing is an empty answer, as
in the code.

## 3. Runs

| run | instance | what it shows |
|---|---|---|
| `commits` | 2 workers, 2 intents, 2 contents, 2 epochs, 2 requests under way | in every interleaving of two processes, the Hub and another user: no intent that can still be published is unknown to the journal, a closed journal never covers a held guard, base and receipt are true, and the session implements `Publication` |
| `commits_live` | 1 worker that is restarted, 1 intent | a prepared or published intent does not stay pending, and the session lock is let go |
| `lost_resume` | 1 worker, 2 epochs, every save intact | *violation*, see section 6 |
| `exclusive` | 2 threads, 2 intents, 2 requests under way | the exclusive task: as for `commits`, and the lease is never lost, the journal is true of the server (`JournalIsTrue`), and recovery can always proceed |
| `optimistic` | a window and the observer, 2 intents, 2 requests | no mixed version is published and the baseline follows the receipt after every crash (`UploadsAreTrue`), nothing is sent again by the observer, `Publication` is implemented, and an edit that the user leaves alone is uploaded |
| `mailbox` | 2 messages, 2 tickets, by session or by link | no message is handled twice or late, an answer is replaced only by the "interrupted" of a desktop that starts, answers are true, a polling caller is never forgotten, an edited working copy is never replaced by either process |
| `mailbox_live` | 2 messages, sessions | no message waits for ever while the desktop is up |
| `mailbox_timeout` | 1 message | *violation*, see section 6 |
| `exit_guard` | 2 tasks | a process that stops without a warning has missed no task that was at risk during the whole assessment |
| `exit_unlisted` | 1 task | *violation*, see section 6 |
| `agent` | uploads: 2 processes, 2 intents, 1 save; mirror: 2 processes, 2 paths with one name, 2 names, 2 versions, 1 save, 2 sessions; updates: 2 processes, 2 releases | only confirmed bytes are published, an ordinary edit is sent once by the agent, evidence is true; what a record vouches for was served, saved work is not lost; a verified binary and an extension stay installed, and an update never takes back a newer one on darwin |
| `desk` | index: 2 processes, 1 identity, 2 bases, 4 changes; renewal: 2 processes, 2 leases, 4 ticks; window: 2 checkouts, a queue of 2, 3 changes, 1 request | the first record of a session stays; notices are of whole versions; a reported renewal has been made and a lease is never lost; warnings stay, lists do not go back, and the window does not close over an open checkout without a question |

### Bounds, and why they are enough

* **Two workers, threads, messages or processes.** The code has no operation
  that involves three: locks are exclusive, and what a third actor finds is what
  the second has left. Two are needed for every hazard of the list (a stale read
  before a lock, a take-over after a crash, two processes that open one file).
* **Two intents.** The invariants relate the pending intent to one that was
  there before: a late request or answer of the first one meets the second. The
  proofs of section 5 hold for any number.
* **Two contents** tell "the version we know" from "another version", which is
  all that base, digest and compare-and-swap look at.
* **MaxEpoch** bounds the credential epoch, `MaxNet` the requests under way at
  one time. Two at a time let a late publish meet a fresh prepare or query.
  `OneLateSender` (run `exclusive`) keeps to two requests of one thread while the
  other rests and the handoff is over; `QuietObserver` (run `optimistic`) to two
  requests of the window while the observer has nothing in hand, and
  `OnAtTheEnd` to an observer that is not switched off for good.
* `lost_resume` is about a lost answer and nothing else: `OnlyAnswersAreLost` keeps
  out saves that reach the disk and report an error, and commits while a request
  is still on its way.
* `mailbox_live` keeps to sessions and to a working copy that is not edited
  (constraint `SessionsUnedited`): `drain`, of which it speaks, looks at neither.
* `agent`: `MaxEdit`, `MaxSave`, `MaxVersion`, `MaxSuffix`, `MaxTicket` and
  `MaxRelease` bound what users, server and feed do. The constraints of
  `MCLocalAgent` leave parts that are not used in one state (`Unused`), take
  interchangeable ids in order (`InOrder`), do not mix an update of the agent with
  one of the extension, which share only the result file (`OneUpdate`), and bound
  repeated sends (`FewSends`, two: one more than `OneUploadPerBase` allows),
  faulty releases (`FewFaults`) and drives that change while two processes are
  under way (`FewDrives`). Two sessions are too few for one hazard of the mirror:
  that an opening has chosen its copy, a second one carries the mirror over with
  work that an earlier, third one has left, and the first truncates it. Instances
  with four sessions (3.2 million states) contain it, and `MirrorInvariant` is
  proved for any number.
* `desk`: `MaxStamp`, `MaxLease`, `MaxClock`, `MaxTell` and `MaxPoll` bound
  changes of a copy, leases, ticks and events of the window; 4 changes are two
  saves of two writes, and 4 ticks are the reuse time and the limit of a call
  together, the age that a reported renewal must not reach. `QueueSize` is 2 instead
  of 32 so that the queue does overflow. The constraints of `MCTaskCenter` do not
  mix focus requests with the monitor (`IndexBound`), start the clock with the
  first lease and once the sealed copy of it is used or lost, and end a checkout
  early if at all (`GateBound`), and stop exploring the window a step after a
  closure was dropped, keep requests to quit apart from the icon and from
  queued events, and allow fewer changes where the icon, the second checkout or
  a failed cycle come into play (`WindowBound`). There is one mode, as another base is another
  fact.

Deadlock is checked in every run but two. In `agent` and `desk` it is not,
because there the system may stop: once saves, tickets, releases, ticks and
changes are used up there need be nothing left to do. (The limits on the number
of releases, leases and ticks are those of the instance; that a user stops
working is real.)

## 4. Fairness

* `commits_live`: `GiveUp` and `Close` are fair because every request of the code
  has a timeout and every command ends. Strong fairness of the operations and of
  the delivery of requests says that the user runs recovery again and again until
  the network and the disk work: an assumption on the environment, without which
  nothing can be promised.
* `optimistic` (`FairSpec`, for `EditsAreUploaded`): the observer's thread loops
  for ever (`auto_upload.rs`, desktop `main.rs`), so its scans are fair; locks,
  disk, network and file are usable again and again; and from some time on the
  process is not killed and no window starts a new operation on the task.
* `mailbox_live`: the drain thread loops for ever, and each pass visits every
  message (strong fairness of `Take(r)`, since other work comes between). The
  property is conditional on a desktop that stays up; nothing is assumed of the
  native hosts, the user or the browser.

The commands of `LocalAgent` and `TaskCenter` are started by users and promise
nothing about what eventually happens, so no liveness is stated of them.

## 5. Proofs

TLAPS checks the proofs for every value of the constants, under the named
assumptions of the modules: the marks for "none" (of an intent, a request, a
holder of a lock) are not members of the sets they are used with and differ from
each other, bounds are natural numbers, the set of checkouts in the window is
finite, and `Actions` of the two Rust uploads are those of the code ("commit" and
"checkin"; "optimistic-update"). Every safety property that a passing run checks
is stated by a theorem. The inductive invariants were checked by TLC on the
instances of the runs before they were proved.

**`EditWorkflowProofs`** proves `TypeInvariant`. **`EditWorkflowSafety`** proves
`InductiveInvariant` (`Spec => []IInv`) and from it `NothingForgotten`,
`ReleasedBeforeClosed`, `BaseStaysCurrent`, `ReceiptsAreTrue` and
`RefinesPublication`. `NoForgottenIntent` is not inductive: it speaks of the disk,
and a worker acts on its memory. The strengthening says that a worker that is up
holds the lock; that memory and disk differ in the pending intent only after a
save that failed after its rename, and then the intent on disk has never been
sent or the one in memory is settled (`MemoryInv`); that whatever the Hub or the
network knows comes from a drawn id (`OriginInv`); and that an answer which
settles an intent stays true (`ReplyInv`). Steps fall into four kinds (nothing
saved, a save, a decision of the Hub, any other step of the Hub) with one lemma
for each.

**`ExclusiveCheckoutProofs`** proves `InductiveInvariant` and from it
`TypeCorrect`, `NothingForgotten`, `JournalTrue`, `RecoverProceeds` and
`RefinesPublication`. One half of the invariant is about each thread (`ThreadOK`):
at which points an operation can be, and that all but its first one are under
`upload.lock` (`LocksOK`); that the intent in hand is the pending one (`IntentOK`);
that the lease it read before the lock is kept or can still be stored
(`LeaseOK`); that what it asked for and was told fits, and stays true (`AskOK`,
`ReplyOK`). The other half is about the record and the server: where ids come from
(`OriginInv`), what journal, task and guard say of each other with and without a
pending intent (`RecordInv`), and that nobody confirms a lease that is not stored
(`LeaseInv`). The halves carry each other: a thread's step keeps the record because
of what the thread knows, and the lock keeps every other thread's knowledge true
(`OtherThread`). That recovery can proceed is a conjunct of `RecordInv`: capture takes
the base of an intent from the task, under the lock, and while nothing is pending
the stored lease is that of the task.

**`OptimisticUploadProofs`** proves `InductiveInvariant` and from it `TypeCorrect`,
`UploadsTrue`, `AutoSendsOnce` and `RefinesPublication`, in the same two halves.
The record half is that no intent is forgotten and that a receipt stands for what
the server has published and, once nothing is pending, for the task's baseline
(`BaselineFollowsReceipt`); while an intent is pending, the point the thread has
reached in `accept` says which of its writes may still be missing (`IntentOK`). `AutoNeverResends` needs that what the
observer is about to send is the pending intent and has never been sent
(`IntentOK`): the observer takes no intent over, and a window that recovers one
holds `upload.lock`.

**`MailboxProofs`** proves `MailInvariant` and from it `MailTypes` and the five
other properties of the run `mailbox` (`AnswersAreTrue`, `NoCallerIsForgotten`,
`AtMostOnce`, `NeverLate`, `EditsSurvive`). What opening a file does, whichever
process does it, is one lemma (`OpenStep`). The strengthening says what each
state of the message file means: taken, answered or told "expired" implies it is
a request no more, and the message in hand has no answer yet (`OnceInv`); only the native host of a message opens it besides
the desktop, and only once its call has failed (`HostInv`); and a message is
about to be removed only when its answer is there or its caller is gone
(`WaitingInv`).

**`LocalAgentProofs`** proves of the composed agent:

* `InstallationIsKept`. `InstallInv` says that only one process is past
  `.install-lock` (`LockInv`), that what such a process works on is accepted,
  right and healthy in this order, and that `registered` and `previous` are
  (`ReleaseInv`), and that the extension is in place or set aside unless a process
  is between the two renames (`ExtensionInv`).
* `UploadInvariant`, and from it `BytesAreConfirmed`, `EditIsSentOnce` and
  `EvidenceStaysTrue`. The invariant says which points a process of each mode can
  be at and that a checkout's process holds the lock (`ModeInv`), that the record
  is the intent of whoever publishes (`RecordInv`), that what is on record has a
  digest and a snapshot (`ReadInv`), that what the server and the network know of
  is on record and how often it was sent (`SendInv`), what a receipt stands for
  (`ReceiptInv`), and that what a checkout has read, sends and publishes has the
  digest of its intent (`BytesInv`).
* `MirrorInvariant`, and from it `TrustIsEarned` and `WorkStays`. Whoever works on
  a copy at which no two have met works on it alone, and nobody carries the mirror
  over meanwhile (`MeetInv`); so what was truncated, written and hashed step by
  step is still there at the next (`DownloadInv`), a record is of a download
  (`RecordsInv`), and where the old and the new mirror differ in saved work the
  comparison of sizes will see it, so that the source is removed only where they
  do not (`CarryInv`). A session that adopts has a source other than its root
  (`SessionInv`).
* `AgentTypes`, from the invariants of the three parts.

**`TaskCenterProofs`** proves of the composed task center:

* `RecordsAreKept`: a process past its first read works on its identity and
  facts, and what was told agrees with the record (`IndexInv`); a link never
  replaces.
* `LeasesAreKept`: types and the lock (`LeaseTypes`), what a process that is
  about to save or confirm knows of the journal (`JournalInv`), what an answered
  request has confirmed (`AnswerInv`), and how old the confirmation behind a told
  renewal can be (`ToldInv`). Leases only grow, which is why an answer for the
  session stands for this lease or a newer one.
* `QuittingIsAsked`: every list, wherever it is on its way, is a failure or has
  counts (`CountInv`), so that no answer counts as one uncertain session at
  least; and what was open at the request and is still remembered is open now,
  so that a list that is read now counts it (`OpenInv`).
* `NoticesStayTrue`: a copy being written is younger than the quiet time
  (`QuietInv`), so that a copy whose stamp was seen for that long is whole when
  its digest is taken, and still is if the stamp is the same afterwards
  (`ScanInv`). This is the argument for the second comparison in
  `stableSHA256`; without it the property fails.
* `WindowStaysTrue`: the latest report on a checkout that is still on its way, and
  the window when there is none, agrees with what the watcher found last
  (`ReportInv`); pipe and queue keep the order, so an earlier report cannot undo a
  later one. There is one query at a time, or one result of it in the queue, and
  it is never older than what is shown (`QueryInv`). Both hold until a closure has
  been dropped, as the property does.
* `DeskTypes`: the type invariant of the whole. It needs more than types: the
  owner of `renew-owner.lock` is who renews (`OwnerInv`), and what the window is
  asked to show, or a process is about to show, has a record (`IndexTyped`).

**`ExitGuardProofs`** proves `GuardTypes` and `QuietExitIsHonest`: during an
assessment without a failure, a task that has been at risk all the time is found
or still to be looked at (`FoundInv`).

Model-checked only: the four liveness properties `LockIsFreed` and
`PendingIsResolved` (run `commits_live`), `EditsAreUploaded` (`optimistic`) and
`RequestsAreTaken` (`mailbox_live`), because the prover has no support for
fairness and `ENABLED`; and the three counterexamples, which are about what does
not hold.

## 6. Where the code and its comments disagree

With a run:

* **`lost_resume`**, `internal/editing/workflow.go:254`. The comment on `Resume`
  promises that a lost answer "can be recovered by an explicit fresh Resume". In
  the trace the Hub carries a Resume out, its epoch moves, and the caller gives up
  without the answer; the next commit saves its intent with the old epoch (line
  140) and its prepare fails (line 143). There the run ends: every save was intact,
  the worker is ready, and an intent is pending. By the code `Resume` now answers
  `ErrPending` (line 260), `Recover` repeats the failing prepare, and
  `CancelPrepared` and `Abandon` answer `ErrPending`.
* **`mailbox_timeout`**, `cloudfile-native-host/src/main.rs:351`. `ipc.rs:69` says
  "Do not re-submit after timeout: claim may already have consumed the ticket";
  `forward` treats the timeout like every other error and opens the link with the
  same ticket while the desktop may be at it. The other properties of the
  mailbox hold nevertheless: the ticket is accepted once, and the working copy
  and its task are protected by `operation.lock`.
* **`exit_unlisted`**, `guard.rs:100`. "Any failure raises `uncertain`"; a task
  directory that cannot be listed is assessed as safe, whatever the error.

Met while modelling; the models contain the behaviour and the properties name it
as an exception:

* `internal/runner/runner.go:107` says that local work is only discarded on an
  explicit decision. Choosing a name (line 140) and truncating the file (line 201)
  are two steps, so a second opening, a save in an application that the first one has
  started, or an adoption can come between: what a process has chosen while the
  mirror was empty may be somebody's work once the old mirror has been carried
  over. Likewise two adoptions in opposite directions may each remove what the
  other has copied. `WorkIsKept` and `TrustedIsServed` except the copies at which
  two processes, or a process and a save, have met (`raced`), and no others.
* `internal/workspace/adopt.go:102` calls its copy "Verified byte-for-byte"; it
  compares sizes (line 256), does not see a save of equal size or one that comes after the
  comparison, and takes a source on a drive that is gone for one without files.
  `WorkIsKept` excepts exactly these (`Unnoticed`, `Drive`).
* `internal/update/update.go:121` says that `Apply` "lazily prunes old versions";
  `pruneOld` is called by tests only, and binaries stay. A `.install-lock` that a
  killed process leaves is for the user to remove (`Inspect`).
* `internal/taskcenter/monitor.go` speaks of saved changes; a copy that was
  touched without a change of its bytes is announced once as "local-saved".
* `ipc.rs:78` writes "interrupted; inspect task center before retry" for every
  `.processing` file, also where the answer of the previous desktop is there and
  was a success that nobody has read. The file has been opened then, and the
  caller is told to look. `HandledOnce` allows this replacement of an answer and no
  other.

What two properties do not say: `OnlyConfirmedBytes` makes its claim for checkouts
only, since an ordinary edit sends the open file and relies on the server
comparing the digest; and `OneUploadPerBase` counts what the agent sends, not what
Go's HTTP client may repeat on a connection that was closed.

## 7. Not modelled, and why

* **Data.** The layout and validation of JSON, URLs and file names; cryptography
  (a signed request is one the server can attribute); sizes, block boundaries and
  block ids of content-defined blocks, which the Go agent computes from the bytes
  that it reads (`Scan` and `Stage` of `DeviceUpload` keep that the file is read
  twice and compared each time); clocks, apart from the order of the events they
  cause.
* **Content-defined blocks of the Rust agent** (`cdc.rs`), an opt-in
  (`CLOUDFILE_AGENT2_CDC_ENABLED`) way to send the snapshot of an intent. Its input
  is more than the bytes of a file: `freeze` reads the snapshot once between two
  looks at its metadata and fails when they differ, the switch, the size limits
  and the server's plan decide whether blocks are used at all, and the result is
  computed from that one image and tables that never change. `publish` answers
  `None`, and the full transfer is used, only while nothing has been published.
  `ExclusiveCheckout` and `OptimisticUpload` model the full transfer; the grants,
  the plan and the staged blocks before a publish request are left out.
* **Device pairing and signing** (Go and Rust): one request and one file written
  by one process. What a signature promises is `Signed` in `DeviceUpload`.
* **User-interface notifications** (`uinotify`): lines appended to a file that is
  cut when it is long, best effort by design; that a notice reaches the window is
  an action of `TaskWindow`.
* **Self-update and host registration (Rust)**: the protocol of `SelfUpdate` as
  a command that a user runs: stage, one rename of the host manifest, roll back.
  Of `scripts/register-agent2-macos.sh` only `--rollback` is modelled; its
  installation from a given binary and `--unregister` are not.
* **Task center window**: drawing, menus, dialogs and the commands that only start
  another program; **task index**: `Store.Open` and `Get`, which only tests call,
  and the preferences file.
* **Native messaging and entry points**: framing and argument checks; the choice
  of an entry is `Entry` of `LocalAgent`.
* `renew_checkout` of the Rust agent, which changes nothing on the agent; the
  size limits and block lists of its uploads; its settings of trusted servers,
  applications and autostart; the desktop shell, whose threads are the actors of
  the journal modules; preview clients and packaging scripts.

## 8. Plan

1. `Hub`, `EditWorkflow`, `Publication`, with proofs: **done**.
2. `AgentJournal`, `ExclusiveCheckout`, `OptimisticUpload`, with proofs: **done**.
3. `SessionOpen`, `Mailbox`, `ExitGuard`, with proofs: **done**.
4. `DeviceUpload`, `SelfUpdate`, `LocalMirror`, with proofs: **done**.
5. `TaskIndex`, `RenewalGate`, `TaskWindow`, with proofs: **done**.
6. The Rust self-update as a second instance of `SelfUpdate`.
7. Abstract specifications of the mirror (a store of files that keeps work) and of
   the lease (held by the server, the agent or both), with `LocalMirror` and
   `RenewalGate` shown to implement them as the uploads implement `Publication`.
