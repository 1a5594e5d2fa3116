-------------------------- MODULE LocalAgentProofs --------------------------
(***************************************************************************)
(* Safety of the Go agent, for any number of processes, intents, releases  *)
(* and saves: installations, ordinary edits and confirmed bytes.           *)
(***************************************************************************)
EXTENDS LocalAgent, TLAPS

-------------------------------------------------------------------------------
(* The installation.  It works because the lock lets one process at a time *)
(* install, and a backup of the extension lets one process at a time use it. *)

Installing == AgentPhase \ {"lock"}
SettingAside == {"rename", "restore", "clean"}

LockInv ==
    /\ \A u \in Updater : phase[u] \in Installing => locked
    /\ \A u, v \in Updater : phase[u] \in Installing /\ phase[v] \in Installing => u = v

\* What a process on its way to the manifest has made sure of.
ReleaseInv ==
    /\ Usable(registered) /\ Usable(previous)
    /\ \A u \in Updater :
          /\ phase[u] \in AgentPhase /\ platform = "darwin" => want[u] \in genuine
          /\ phase[u] \in {"health", "swap"} => bin[want[u]] = "right"
          /\ phase[u] = "swap" => want[u] \in healthy
          /\ phase[u] \in {"remember", "download", "health", "swap"} /\ platform = "darwin" =>
                want[u] > registered

ExtensionInv ==
    /\ ext # NoExt \/ prior # NoExt
    /\ \A u \in Updater : phase[u] \in SettingAside => prior # NoExt
    /\ \A u, v \in Updater : phase[u] \in SettingAside /\ phase[v] \in SettingAside => u = v
    /\ \A u \in Updater : phase[u] = "clean" => ext # NoExt

InstallInv == UpdateTypeOK /\ LockInv /\ ReleaseInv /\ ExtensionInv

\* The installer leaves a verified version and its extension.
LEMMA InstallStart == UpdateInit => InstallInv
<1> SUFFICES ASSUME UpdateInit PROVE InstallInv
  OBVIOUS
<1>1. 0 \in Number /\ NoExt # 0
  BY SelfUpdateAssumption DEF Number, NoExt
<1>2. UpdateTypeOK
  <2>1. \A S \in SUBSET (1..MaxRelease) : S \cup {0} \subseteq Number
    BY <1>1 DEF Number
  <2>2. PICK S \in SUBSET (1..MaxRelease), T \in SUBSET (1..MaxRelease) :
          genuine = S \cup {0} /\ healthy = T \cup {0}
    BY DEF UpdateInit
  <2>3. genuine \subseteq Number /\ healthy \subseteq Number
    BY <2>1, <2>2
  <2> QED BY <1>1, <2>3 DEF UpdateInit, UpdateTypeOK
<1>3. LockInv
  BY DEF UpdateInit, LockInv, Installing, AgentPhase
<1>4. ReleaseInv
  <2>1. 0 \in genuine /\ 0 \in healthy
    BY DEF UpdateInit
  <2> QED BY <2>1 DEF UpdateInit, ReleaseInv, Usable, AgentPhase
<1>5. ExtensionInv
  BY <1>1 DEF UpdateInit, ExtensionInv, SettingAside
<1> QED BY <1>2, <1>3, <1>4, <1>5 DEF InstallInv

\* Types are kept by every step of a process.
LEMMA UpdateTypes ==
    ASSUME UpdateTypeOK, UpdateNext
    PROVE  UpdateTypeOK'
<1> USE DEF UpdateTypeOK, fixed, agent, extension, AgentPhase, ExtPhase
<1>1. ASSUME NEW u \in Updater, UpdateStep(u)
      PROVE  UpdateTypeOK'
  <2> USE DEF Enter, Leave, Tell
  <2>0. 0 \in Number
    BY SelfUpdateAssumption DEF Number
  <2>1. CASE StartUpdate(u)
    BY <2>1 DEF StartUpdate, Fetched
  <2>2. CASE InstallLock(u)
    BY <2>2 DEF InstallLock
  <2>3. CASE CheckActive(u)
    BY <2>3 DEF CheckActive
  <2>4. CASE RememberPrevious(u)
    BY <2>4 DEF RememberPrevious
  <2>5. CASE DownloadBinary(u)
    BY <2>5 DEF DownloadBinary
  <2>6. CASE CheckExecutable(u)
    BY <2>6 DEF CheckExecutable
  <2>7. CASE SwapManifest(u)
    BY <2>7 DEF SwapManifest
  <2>8. CASE Unlock(u)
    BY <2>0, <2>8 DEF Unlock
  <2>9. CASE StartExtension(u)
    BY <2>9 DEF StartExtension, Fetched
  <2>10. CASE NothingNewer(u)
    BY <2>10 DEF NothingNewer
  <2>11. CASE UnpackExtension(u)
    BY <2>11 DEF UnpackExtension
  <2>12. CASE MoveAside(u)
    BY <2>12 DEF MoveAside
  <2>13. CASE RenameNew(u)
    BY <2>13 DEF RenameNew
  <2>14. CASE RenameFirst(u)
    BY <2>0, <2>14 DEF RenameFirst
  <2>15. CASE RestoreOld(u)
    BY <2>0, <2>15 DEF RestoreOld
  <2>16. CASE RemovePrior(u)
    BY <2>0, <2>16 DEF RemovePrior
  <2>17. CASE UpdateFails(u)
    BY <2>0, <2>17 DEF UpdateFails
  <2>18. CASE UpdateDies(u)
    BY <2>0, <2>18 DEF UpdateDies
  <2> QED BY <1>1, <2>1, <2>2, <2>3, <2>4, <2>5, <2>6, <2>7, <2>8, <2>9, <2>10, <2>11,
             <2>12, <2>13, <2>14, <2>15, <2>16, <2>17, <2>18 DEF UpdateStep
<1>2. CASE Offer
  BY <1>2 DEF Offer
<1>3. CASE Rollback
  BY <1>3 DEF Rollback
<1>4. CASE Inspect
  BY <1>4 DEF Inspect
<1> QED BY <1>1, <1>2, <1>3, <1>4 DEF UpdateNext

\* Whoever is in one step alone is there alone when only one process moves into it.
LEMMA LockKeeps ==
    ASSUME UpdateTypeOK, LockInv, UpdateNext
    PROVE  LockInv'
<1> USE DEF UpdateTypeOK, LockInv, Installing, AgentPhase, ExtPhase, agent, extension, fixed
<1>1. ASSUME NEW u \in Updater, UpdateStep(u)
      PROVE  LockInv'
  <2> USE DEF Enter, Leave
  <2>1. CASE StartUpdate(u) \/ StartExtension(u)
    BY <2>1 DEF StartUpdate, StartExtension
  <2>2. CASE InstallLock(u)
    BY <2>2 DEF InstallLock
  <2>3. CASE CheckActive(u) \/ RememberPrevious(u) \/ DownloadBinary(u)
    BY <2>3 DEF CheckActive, RememberPrevious, DownloadBinary
  <2>4. CASE CheckExecutable(u) \/ SwapManifest(u) \/ Unlock(u)
    BY <2>4 DEF CheckExecutable, SwapManifest, Unlock
  <2>5. CASE UnpackExtension(u) \/ MoveAside(u) \/ RenameNew(u)
    BY <2>5 DEF UnpackExtension, MoveAside, RenameNew
  <2>6. CASE RenameFirst(u) \/ RestoreOld(u) \/ RemovePrior(u)
    BY <2>6 DEF RenameFirst, RestoreOld, RemovePrior
  <2>7. CASE NothingNewer(u)
    BY <2>7 DEF NothingNewer
  <2>8. CASE UpdateFails(u)
    BY <2>8 DEF UpdateFails
  <2>9. CASE UpdateDies(u)
    BY <2>9 DEF UpdateDies
  <2> QED BY <1>1, <2>1, <2>2, <2>3, <2>4, <2>5, <2>6, <2>7, <2>8, <2>9 DEF UpdateStep
<1>2. CASE Offer \/ Rollback \/ Inspect
  BY <1>2 DEF Offer, Rollback, Inspect
<1> QED BY <1>1, <1>2 DEF UpdateNext

\* Binaries that were verified stay, and the manifest moves to one of them only, up
\* on darwin, because nobody else installs meanwhile.
LEMMA ReleaseKeeps ==
    ASSUME UpdateTypeOK, LockInv, ReleaseInv, UpdateNext
    PROVE  /\ ReleaseInv'
           /\ platform = "darwin" /\ registered' < registered => registered' = previous
<1> DEFINE Higher == platform = "darwin" /\ registered' < registered => registered' = previous
<1> USE DEF UpdateTypeOK, ReleaseInv, Usable, AgentPhase, ExtPhase, agent, extension, fixed
<1>0. Number \subseteq Int /\ \A v \in Number : ~(v < v)
  BY DEF Number
<1>1. ASSUME NEW u \in Updater, UpdateStep(u)
      PROVE  ReleaseInv' /\ Higher
  <2> USE DEF Enter, Leave
  <2>1. CASE StartUpdate(u)
    <3>1. PICK v \in Fetched : want' = [want EXCEPT ![u] = v]
      BY <2>1 DEF StartUpdate
    <3>2. platform = "darwin" => v \in genuine
      BY <3>1 DEF Fetched, VerifyRelease
    <3> QED BY <1>0, <2>1, <3>1, <3>2 DEF StartUpdate
  <2>2. CASE StartExtension(u)
    BY <1>0, <2>2 DEF StartExtension
  <2>3. CASE InstallLock(u)
    BY <1>0, <2>3 DEF InstallLock
  <2>4. CASE CheckActive(u)
    BY <1>0, <2>4 DEF CheckActive
  <2>5. CASE RememberPrevious(u)
    BY <1>0, <2>5 DEF RememberPrevious
  <2>6. CASE DownloadBinary(u)
    BY <1>0, <2>6 DEF DownloadBinary
  <2>7. CASE CheckExecutable(u)
    BY <1>0, <2>7 DEF CheckExecutable
  <2>8. CASE SwapManifest(u)
    <3>1. \A v \in Updater : v # u => phase[v] \notin Installing
      BY <2>8 DEF SwapManifest, LockInv, Installing
    <3>2. registered' = want[u] /\ want[u] \in Number
      BY <2>8 DEF SwapManifest
    <3>3. platform = "darwin" => want[u] > registered /\ want[u] \in genuine
      BY <2>8 DEF SwapManifest
    <3>4. Higher
      BY <1>0, <3>2, <3>3
    <3>5. Usable(registered)' /\ Usable(previous)'
      BY <2>8, <3>2, <3>3 DEF SwapManifest
    <3>6. \A v \in Updater : v # u => phase'[v] = phase[v]
      BY <2>8 DEF SwapManifest
    <3>7. phase'[u] = "unlock"
      BY <2>8 DEF SwapManifest
    <3> QED BY <2>8, <3>1, <3>4, <3>5, <3>6, <3>7 DEF SwapManifest, Installing
  <2>9. CASE Unlock(u)
    BY <1>0, <2>9 DEF Unlock
  <2>10. CASE UnpackExtension(u) \/ MoveAside(u) \/ RenameNew(u)
    BY <1>0, <2>10 DEF UnpackExtension, MoveAside, RenameNew
  <2>11. CASE RenameFirst(u) \/ RestoreOld(u) \/ RemovePrior(u)
    BY <1>0, <2>11 DEF RenameFirst, RestoreOld, RemovePrior
  <2>12. CASE NothingNewer(u)
    BY <1>0, <2>12 DEF NothingNewer
  <2>13. CASE UpdateFails(u)
    BY <1>0, <2>13 DEF UpdateFails
  <2>14. CASE UpdateDies(u)
    BY <1>0, <2>14 DEF UpdateDies
  <2> QED BY <1>1, <2>1, <2>2, <2>3, <2>4, <2>5, <2>6, <2>7, <2>8, <2>9, <2>10, <2>11,
             <2>12, <2>13, <2>14 DEF UpdateStep
<1>2. CASE Offer \/ Inspect
  BY <1>0, <1>2 DEF Offer, Inspect
<1>3. CASE Rollback
  <2>1. \A u \in Updater : phase[u] \notin Installing
    BY <1>3 DEF Rollback, LockInv
  <2>2. registered' \in {registered, previous} /\ UNCHANGED <<platform, genuine, healthy, bin, previous, phase, want>>
    BY <1>3 DEF Rollback
  <2>3. Higher
    BY <1>0, <2>2
  <2>4. \A u \in Updater : phase[u] \notin {"remember", "download", "health", "swap"}
    BY <2>1 DEF Installing
  <2>5. ReleaseInv'
    BY <2>2, <2>4
  <2> QED BY <2>3, <2>5
<1> QED BY <1>1, <1>2, <1>3 DEF UpdateNext

\* An extension is set aside only when none is there; only who has done so uses it.
LEMMA ExtensionKeeps ==
    ASSUME UpdateTypeOK, ExtensionInv, UpdateNext
    PROVE  ExtensionInv'
<1> USE DEF UpdateTypeOK, ExtensionInv, SettingAside, AgentPhase, ExtPhase, agent, extension, fixed
<1>0. NoExt \notin Number
  BY DEF NoExt, Number
<1>1. ASSUME NEW u \in Updater, UpdateStep(u)
      PROVE  ExtensionInv'
  <2> USE DEF Enter, Leave
  <2>1. CASE StartUpdate(u) \/ StartExtension(u) \/ InstallLock(u) \/ CheckActive(u)
    BY <2>1 DEF StartUpdate, StartExtension, InstallLock, CheckActive
  <2>2. CASE RememberPrevious(u) \/ DownloadBinary(u) \/ CheckExecutable(u)
    BY <2>2 DEF RememberPrevious, DownloadBinary, CheckExecutable
  <2>3. CASE SwapManifest(u) \/ Unlock(u) \/ UnpackExtension(u)
    BY <2>3 DEF SwapManifest, Unlock, UnpackExtension
  <2>4. CASE MoveAside(u)
    BY <2>4 DEF MoveAside
  <2>5. CASE RenameNew(u)
    BY <1>0, <2>5 DEF RenameNew
  <2>6. CASE RenameFirst(u)
    BY <1>0, <2>6 DEF RenameFirst
  <2>7. CASE RestoreOld(u)
    BY <2>7 DEF RestoreOld
  <2>8. CASE RemovePrior(u)
    BY <2>8 DEF RemovePrior
  <2>9. CASE NothingNewer(u)
    BY <2>9 DEF NothingNewer
  <2>10. CASE UpdateFails(u)
    BY <2>10 DEF UpdateFails
  <2>11. CASE UpdateDies(u)
    BY <2>11 DEF UpdateDies
  <2> QED BY <1>1, <2>1, <2>2, <2>3, <2>4, <2>5, <2>6, <2>7, <2>8, <2>9, <2>10, <2>11
          DEF UpdateStep
<1>2. CASE Offer \/ Rollback \/ Inspect
  BY <1>2 DEF Offer, Rollback, Inspect
<1> QED BY <1>1, <1>2 DEF UpdateNext

\* What InstallationWorks says of states, and of steps.
Installed == Usable(registered) /\ Usable(previous) /\ (ext # NoExt \/ prior # NoExt)
NeverBack == platform = "darwin" /\ registered' < registered => registered' = previous

\* Wherever updates end, what is registered, what a rollback registers and the extension
\* work, and on darwin only a rollback leads to an older version.
THEOREM InstallationIsKept == AgentSpec => InstallationWorks
<1>1. AgentInit => InstallInv
  BY InstallStart DEF AgentInit
<1>2. [Entry]_<<used, uploadVars, mirrorVars, updateVars>> => [UpdateNext]_updateVars
  BY DEF Entry
<1>3. InstallInv /\ [UpdateNext]_updateVars => InstallInv'
  <2>1. ASSUME InstallInv, UpdateNext PROVE InstallInv'
    BY <2>1, UpdateTypes, LockKeeps, ReleaseKeeps, ExtensionKeeps DEF InstallInv
  <2>2. ASSUME InstallInv, UNCHANGED updateVars PROVE InstallInv'
    BY <2>2 DEF InstallInv, updateVars, UpdateTypeOK, LockInv, ReleaseInv, Usable, ExtensionInv,
                fixed, agent, extension
  <2> QED BY <2>1, <2>2
<1>4. InstallInv => Installed
  BY DEF InstallInv, ReleaseInv, ExtensionInv, Installed
<1>5. InstallInv /\ [UpdateNext]_updateVars => [NeverBack]_updateVars
  BY ReleaseKeeps DEF InstallInv, NeverBack
<1>6. AgentSpec => []Installed /\ [][NeverBack]_updateVars
  BY <1>1, <1>2, <1>3, <1>4, <1>5, PTL DEF AgentSpec
<1> QED BY <1>6 DEF InstallationWorks, Installed, NeverBack

-------------------------------------------------------------------------------
(* Uploads.  The properties speak of the disk, the server and the network; *)
(* what ties them together is what each step of a process has established. *)

Publishing == {"prepare", "open", "plan", "full", "stage", "grant", "send"}

\* A process of a checkout holds the lock, and none is in a step of the other mode.
ModeInv ==
    /\ mode = "checkout" =>
          /\ record # Torn /\ receipt # Torn
          /\ \A p \in Proc : /\ pc[p] \notin {"write", "receipt"}
                             /\ pc[p] # "idle" => lock = p
    /\ mode = "optimistic" =>
          /\ ~held /\ ~closed
          /\ \A p \in Proc : pc[p] \notin {"prepare", "release", "close"}

\* The record names the intent that is being published.
RecordInv ==
    /\ \A p \in Proc :
          /\ pc[p] = "write" => record = Torn
          /\ pc[p] \in Publishing => record = job[p]
          /\ mode = "checkout" /\ pc[p] \in {"await", "settle", "query"} => record = job[p]
          /\ mode = "checkout" /\ pc[p] \in {"capture", "record"} => record = None
    /\ \A p, q \in Proc : pc[p] = "write" /\ pc[q] = "write" => p = q

\* An intent that is on record, and bytes that are going to be sent, are there.
ReadInv ==
    /\ record \in Intent => digest[record] # None
    /\ \A i \in Intent : digest[i] # None => snap[i] # None
    /\ \A p \in Proc : pc[p] \in {"plan", "stage", "grant", "send"} => seen[p] # None

UploadBase == UploadTypeOK /\ ModeInv /\ RecordInv /\ ReadInv

\* A session begins with nothing on record.
LEMMA UploadStart == UploadInit => UploadBase
<1> SUFFICES ASSUME UploadInit PROVE UploadBase
  OBVIOUS
<1>1. UploadTypeOK
  <2>1. 0 \in Version /\ held \in BOOLEAN
    BY DeviceUploadAssumption DEF UploadInit, Version
  <2> QED BY <2>1 DEF UploadInit, UploadTypeOK, Content, Point
<1>2. ModeInv
  BY DeviceUploadAssumption DEF UploadInit, ModeInv
<1>3. RecordInv /\ ReadInv
  BY DeviceUploadAssumption DEF UploadInit, RecordInv, ReadInv, Publishing
<1> QED BY <1>1, <1>2, <1>3 DEF UploadBase

\* Types are kept; a process that works with an intent has one, with a digest.
LEMMA UploadTypes ==
    ASSUME UploadTypeOK, ReadInv, UploadNext
    PROVE  UploadTypeOK'
<1> USE DeviceUploadAssumption DEF UploadTypeOK, ReadInv, Content, Version, Point, ledger, files, server, Goto
<1>1. ASSUME NEW p \in Proc, UploadStep(p)
      PROVE  UploadTypeOK'
  <2>1. CASE SubmitCheckout(p) \/ SubmitEdit(p)
    BY <2>1 DEF SubmitCheckout, SubmitEdit, Begin
  <2>2. CASE Capture(p)
    BY <2>2 DEF Capture, Keep
  <2>3. CASE RecordIntent(p)
    BY <2>3 DEF RecordIntent
  <2>4. CASE CreateEvidence(p) \/ WriteEvidence(p)
    BY <2>4 DEF CreateEvidence, WriteEvidence
  <2>5. CASE Prepare(p)
    BY <2>5 DEF Prepare
  <2>6. CASE FullCheckout(p) \/ FullEdit(p) \/ OpenBlocks(p)
    BY <2>6 DEF FullCheckout, FullEdit, OpenBlocks, Take, Scan, ReadVerified
  <2>7. CASE Plan(p) \/ Stage(p) \/ Grant(p)
    BY <2>7 DEF Plan, Stage, Grant, GrantBlocks, PutBlock
  <2>8. CASE Send(p)
    BY <2>8 DEF Send, Post
  <2>9. CASE Answer(p) \/ QueryCheckout(p) \/ QueryEdit(p)
    BY <2>9 DEF Answer, QueryCheckout, QueryEdit
  <2>10. CASE SettleCheckout(p)
    BY <2>10 DEF SettleCheckout, Done
  <2>11. CASE CreateReceipt(p) \/ WriteReceipt(p)
    BY <2>11 DEF CreateReceipt, WriteReceipt, Done
  <2>12. CASE RecoverCheckout(p) \/ RecoverEdit(p)
    BY <2>12 DEF RecoverCheckout, RecoverEdit, Resume
  <2>13. CASE Abandon(p) \/ Release(p) \/ Close(p)
    <3>1. CASE Abandon(p)
      BY <3>1 DEF Abandon
    <3>2. CASE Release(p)
      BY <3>2 DEF Release
    <3>3. CASE Close(p)
      BY <3>3 DEF Close, Done
    <3> QED BY <2>13, <3>1, <3>2, <3>3
  <2>14. CASE Stop(p)
    BY <2>14 DEF Stop, Done
  <2> QED BY <1>1, <2>1, <2>2, <2>3, <2>4, <2>5, <2>6, <2>7,
             <2>8, <2>9, <2>10, <2>11, <2>12, <2>13, <2>14 DEF UploadStep
<1>2. ASSUME NEW m \in net, Publish(m) \/ Lose(m)
      PROVE  UploadTypeOK'
  <2>1. m \in [intent : Intent, bytes : Content]
    OBVIOUS
  <2>2. m.intent \in Intent /\ m.bytes \in Content
    BY <2>1
  <2>3. UNCHANGED <<mode, copy, ledger, files, pc, job, seen, sent>> /\ net' = net \ {m}
    BY <1>2 DEF Publish, Lose
  <2>4. CASE UNCHANGED server
    BY <2>3, <2>4
  <2>5. CASE /\ srv' = [srv EXCEPT ![m.intent] = "published"]
             /\ cloud' = [cloud EXCEPT ![m.intent] = m.bytes]
             /\ held' = (held /\ m.intent \notin checkin)
    <3>1. srv' \in [Intent -> {"none", "prepared", "published"}]
      BY <2>2, <2>5
    <3>2. cloud' \in [Intent -> Content \cup {None}]
      BY <2>2, <2>5
    <3>3. held' \in BOOLEAN
      BY <2>5
    <3> QED BY <2>3, <3>1, <3>2, <3>3
  <2> QED BY <1>2, <2>4, <2>5 DEF Publish, Lose
<1>3. CASE Edit
  BY <1>3 DEF Edit
<1>4. ASSUME NEW i \in Intent, Damage(i)
      PROVE  UploadTypeOK'
  BY <1>4 DEF Damage
<1> QED BY <1>1, <1>2, <1>3, <1>4 DEF UploadNext

\* The lock and the mode decide where a process can be.
LEMMA ModeKeeps ==
    ASSUME UploadTypeOK, ModeInv, UploadNext
    PROVE  ModeInv'
<1> USE DeviceUploadAssumption DEF UploadTypeOK, ModeInv, Point, ledger, files, server, Goto
<1>1. ASSUME NEW p \in Proc, UploadStep(p)
      PROVE  ModeInv'
  <2>1. CASE SubmitCheckout(p) \/ SubmitEdit(p)
    BY <2>1 DEF SubmitCheckout, SubmitEdit, Begin
  <2>2. CASE Capture(p)
    BY <2>2 DEF Capture, Keep
  <2>3. CASE RecordIntent(p)
    BY <2>3 DEF RecordIntent
  <2>4. CASE CreateEvidence(p) \/ WriteEvidence(p)
    BY <2>4 DEF CreateEvidence, WriteEvidence
  <2>5. CASE Prepare(p)
    BY <2>5 DEF Prepare
  <2>6. CASE FullCheckout(p) \/ FullEdit(p) \/ OpenBlocks(p)
    BY <2>6 DEF FullCheckout, FullEdit, OpenBlocks, Take, Scan, ReadVerified
  <2>7. CASE Plan(p) \/ Stage(p) \/ Grant(p)
    BY <2>7 DEF Plan, Stage, Grant, GrantBlocks, PutBlock
  <2>8. CASE Send(p)
    BY <2>8 DEF Send, Post
  <2>9. CASE Answer(p) \/ QueryCheckout(p) \/ QueryEdit(p)
    BY <2>9 DEF Answer, QueryCheckout, QueryEdit
  <2>10. CASE SettleCheckout(p)
    BY <2>10 DEF SettleCheckout, Done
  <2>11. CASE CreateReceipt(p) \/ WriteReceipt(p)
    BY <2>11 DEF CreateReceipt, WriteReceipt, Done
  <2>12. CASE RecoverCheckout(p) \/ RecoverEdit(p)
    BY <2>12 DEF RecoverCheckout, RecoverEdit, Resume
  <2>13. CASE Abandon(p) \/ Release(p) \/ Close(p)
    BY <2>13 DEF Abandon, Release, Close, Done
  <2>14. CASE Stop(p)
    BY <2>14 DEF Stop, Done
  <2> QED BY <1>1, <2>1, <2>2, <2>3, <2>4, <2>5, <2>6, <2>7,
             <2>8, <2>9, <2>10, <2>11, <2>12, <2>13, <2>14 DEF UploadStep
<1>2. ASSUME NEW m \in net, Publish(m) \/ Lose(m)
      PROVE  ModeInv'
  BY <1>2 DEF Publish, Lose, MayUpload
<1>3. CASE Edit
  BY <1>3 DEF Edit
<1>4. ASSUME NEW i \in Intent, Damage(i)
      PROVE  ModeInv'
  BY <1>4 DEF Damage
<1> QED BY <1>1, <1>2, <1>3, <1>4 DEF UploadNext

\* The record changes only where no other process publishes.
LEMMA RecordKeeps ==
    ASSUME UploadTypeOK, ModeInv, RecordInv, UploadNext
    PROVE  RecordInv'
<1> USE DeviceUploadAssumption DEF UploadTypeOK, ModeInv, RecordInv, Publishing, Point, ledger, files, server, Goto
<1>1. ASSUME NEW p \in Proc, UploadStep(p)
      PROVE  RecordInv'
  <2>1. CASE SubmitCheckout(p) \/ SubmitEdit(p)
    BY <2>1 DEF SubmitCheckout, SubmitEdit, Begin
  <2>2. CASE Capture(p)
    BY <2>2 DEF Capture, Keep
  <2>3. CASE RecordIntent(p)
    BY <2>3 DEF RecordIntent
  <2>4. CASE CreateEvidence(p) \/ WriteEvidence(p)
    BY <2>4 DEF CreateEvidence, WriteEvidence
  <2>5. CASE Prepare(p)
    BY <2>5 DEF Prepare
  <2>6. CASE FullCheckout(p) \/ FullEdit(p) \/ OpenBlocks(p)
    BY <2>6 DEF FullCheckout, FullEdit, OpenBlocks, Take, Scan, ReadVerified
  <2>7. CASE Plan(p) \/ Stage(p) \/ Grant(p)
    BY <2>7 DEF Plan, Stage, Grant, GrantBlocks, PutBlock
  <2>8. CASE Send(p)
    BY <2>8 DEF Send, Post
  <2>9. CASE Answer(p) \/ QueryCheckout(p) \/ QueryEdit(p)
    BY <2>9 DEF Answer, QueryCheckout, QueryEdit
  <2>10. CASE SettleCheckout(p)
    BY <2>10 DEF SettleCheckout, Done
  <2>11. CASE CreateReceipt(p) \/ WriteReceipt(p)
    BY <2>11 DEF CreateReceipt, WriteReceipt, Done
  <2>12. CASE RecoverCheckout(p) \/ RecoverEdit(p)
    BY <2>12 DEF RecoverCheckout, RecoverEdit, Resume
  <2>13. CASE Abandon(p) \/ Release(p) \/ Close(p)
    BY <2>13 DEF Abandon, Release, Close, Done
  <2>14. CASE Stop(p)
    BY <2>14 DEF Stop, Done
  <2> QED BY <1>1, <2>1, <2>2, <2>3, <2>4, <2>5, <2>6, <2>7,
             <2>8, <2>9, <2>10, <2>11, <2>12, <2>13, <2>14 DEF UploadStep
<1>2. ASSUME NEW m \in net, Publish(m) \/ Lose(m)
      PROVE  RecordInv'
  BY <1>2 DEF Publish, Lose, MayUpload
<1>3. CASE Edit
  BY <1>3 DEF Edit
<1>4. ASSUME NEW i \in Intent, Damage(i)
      PROVE  RecordInv'
  BY <1>4 DEF Damage
<1> QED BY <1>1, <1>2, <1>3, <1>4 DEF UploadNext

\* Nothing removes a snapshot.
LEMMA ReadKeeps ==
    ASSUME UploadTypeOK, ReadInv, UploadNext
    PROVE  ReadInv'
<1> USE DeviceUploadAssumption DEF UploadTypeOK, ReadInv, Content, Version, Point, ledger, files, server, Goto
<1>1. ASSUME NEW p \in Proc, UploadStep(p)
      PROVE  ReadInv'
  <2>1. CASE SubmitCheckout(p) \/ SubmitEdit(p)
    BY <2>1 DEF SubmitCheckout, SubmitEdit, Begin
  <2>2. CASE Capture(p)
    BY <2>2 DEF Capture, Keep
  <2>3. CASE RecordIntent(p)
    BY <2>3 DEF RecordIntent
  <2>4. CASE CreateEvidence(p) \/ WriteEvidence(p)
    BY <2>4 DEF CreateEvidence, WriteEvidence
  <2>5. CASE Prepare(p)
    BY <2>5 DEF Prepare
  <2>6. CASE FullCheckout(p) \/ FullEdit(p) \/ OpenBlocks(p)
    BY <2>6 DEF FullCheckout, FullEdit, OpenBlocks, Take, Scan, ReadVerified
  <2>7. CASE Plan(p) \/ Stage(p) \/ Grant(p)
    BY <2>7 DEF Plan, Stage, Grant, GrantBlocks, PutBlock
  <2>8. CASE Send(p)
    BY <2>8 DEF Send, Post
  <2>9. CASE Answer(p) \/ QueryCheckout(p) \/ QueryEdit(p)
    BY <2>9 DEF Answer, QueryCheckout, QueryEdit
  <2>10. CASE SettleCheckout(p)
    BY <2>10 DEF SettleCheckout, Done
  <2>11. CASE CreateReceipt(p) \/ WriteReceipt(p)
    BY <2>11 DEF CreateReceipt, WriteReceipt, Done
  <2>12. CASE RecoverCheckout(p) \/ RecoverEdit(p)
    BY <2>12 DEF RecoverCheckout, RecoverEdit, Resume
  <2>13. CASE Abandon(p) \/ Release(p) \/ Close(p)
    BY <2>13 DEF Abandon, Release, Close, Done
  <2>14. CASE Stop(p)
    BY <2>14 DEF Stop, Done
  <2> QED BY <1>1, <2>1, <2>2, <2>3, <2>4, <2>5, <2>6, <2>7,
             <2>8, <2>9, <2>10, <2>11, <2>12, <2>13, <2>14 DEF UploadStep
<1>2. ASSUME NEW m \in net, Publish(m) \/ Lose(m)
      PROVE  ReadInv'
  BY <1>2 DEF Publish, Lose, MayUpload
<1>3. CASE Edit
  BY <1>3 DEF Edit
<1>4. ASSUME NEW i \in Intent, Damage(i)
      PROVE  ReadInv'
  BY <1>4 DEF Damage
<1> QED BY <1>1, <1>2, <1>3, <1>4 DEF UploadNext

\* UploadBase is kept by every step.
LEMMA BaseKeeps ==
    ASSUME UploadBase, UploadNext
    PROVE  UploadBase'
  BY UploadTypes, ModeKeeps, RecordKeeps, ReadKeeps DEF UploadBase

\* Whatever the network and the server know of is on record; for an ordinary edit at
\* most one process is on its way to send, and only while nothing has been sent.
SendInv ==
    /\ \A m \in net : digest[m.intent] # None
    /\ \A i \in Intent : srv[i] # "none" => digest[i] # None
    /\ \A i \in Intent : srv[i] = "prepared" => record = i
    /\ mode = "optimistic" =>
          /\ \A m \in net : record = m.intent
          /\ \A i \in Intent : srv[i] # "none" \/ sent[i] # 0 => record = i
          /\ \A i \in Intent : sent[i] <= 1
          /\ \A p \in Proc : pc[p] \in Publishing \cup {"write"} => \A i \in Intent : sent[i] = 0
          /\ \A p, q \in Proc :
                pc[p] \in Publishing \cup {"write"} /\ pc[q] \in Publishing \cup {"write"} => p = q

\* Receipts stand for publications, and a checkout that is over has been released.
ReceiptInv ==
    /\ \A p \in Proc : pc[p] \in {"settle", "receipt"} => srv[job[p]] = "published"
    /\ receipt = Torn => \E i \in Intent : srv[i] = "published"
    /\ receipt \in Intent => srv[receipt] = "published"
    /\ \A i \in checkin : srv[i] = "published" => ~held
    /\ \A p \in Proc : pc[p] = "close" => ~held
    /\ closed => ~held

\* What is on record is never replaced while it can be sent, or has been.
LEMMA SendKeeps ==
    ASSUME UploadBase, SendInv, ReceiptInv, UploadNext
    PROVE  SendInv'
<1> USE DeviceUploadAssumption DEF UploadBase, UploadTypeOK, ModeInv, RecordInv, SendInv, ReceiptInv, Publishing, Point, ledger, files, server, Goto, MayUpload
<1>1. ASSUME NEW p \in Proc, UploadStep(p)
      PROVE  SendInv'
  <2>1. CASE SubmitCheckout(p) \/ SubmitEdit(p)
    BY <2>1 DEF SubmitCheckout, SubmitEdit, Begin
  <2>2. CASE Capture(p)
    BY <2>2 DEF Capture, Keep
  <2>3. CASE RecordIntent(p)
    BY <2>3 DEF RecordIntent
  <2>4. CASE CreateEvidence(p) \/ WriteEvidence(p)
    BY <2>4 DEF CreateEvidence, WriteEvidence
  <2>5. CASE Prepare(p)
    BY <2>5 DEF Prepare
  <2>6. CASE FullCheckout(p) \/ FullEdit(p) \/ OpenBlocks(p)
    BY <2>6 DEF FullCheckout, FullEdit, OpenBlocks, Take, Scan, ReadVerified
  <2>7. CASE Plan(p) \/ Stage(p) \/ Grant(p)
    BY <2>7 DEF Plan, Stage, Grant, GrantBlocks, PutBlock
  <2>8. CASE Send(p)
    BY <2>8 DEF Send, Post
  <2>9. CASE Answer(p) \/ QueryCheckout(p) \/ QueryEdit(p)
    BY <2>9 DEF Answer, QueryCheckout, QueryEdit
  <2>10. CASE SettleCheckout(p)
    BY <2>10 DEF SettleCheckout, Done
  <2>11. CASE CreateReceipt(p) \/ WriteReceipt(p)
    BY <2>11 DEF CreateReceipt, WriteReceipt, Done
  <2>12. CASE RecoverCheckout(p) \/ RecoverEdit(p)
    BY <2>12 DEF RecoverCheckout, RecoverEdit, Resume
  <2>13. CASE Abandon(p) \/ Release(p) \/ Close(p)
    BY <2>13 DEF Abandon, Release, Close, Done
  <2>14. CASE Stop(p)
    BY <2>14 DEF Stop, Done
  <2> QED BY <1>1, <2>1, <2>2, <2>3, <2>4, <2>5, <2>6, <2>7,
             <2>8, <2>9, <2>10, <2>11, <2>12, <2>13, <2>14 DEF UploadStep
<1>2. ASSUME NEW m \in net, Publish(m) \/ Lose(m)
      PROVE  SendInv'
  BY <1>2 DEF Publish, Lose, MayUpload
<1>3. CASE Edit
  BY <1>3 DEF Edit
<1>4. ASSUME NEW i \in Intent, Damage(i)
      PROVE  SendInv'
  BY <1>4 DEF Damage
<1> QED BY <1>1, <1>2, <1>3, <1>4 DEF UploadNext

\* A publication is for good, and nobody is given a checkout back.
LEMMA ReceiptKeeps ==
    ASSUME UploadBase, SendInv, ReceiptInv, UploadNext
    PROVE  ReceiptInv'
<1> USE DeviceUploadAssumption DEF UploadBase, UploadTypeOK, ModeInv, RecordInv, SendInv, ReceiptInv, Publishing, Point, ledger, files, server, Goto, MayUpload
<1>1. ASSUME NEW p \in Proc, UploadStep(p)
      PROVE  ReceiptInv'
  <2>1. CASE SubmitCheckout(p) \/ SubmitEdit(p)
    BY <2>1 DEF SubmitCheckout, SubmitEdit, Begin
  <2>2. CASE Capture(p)
    BY <2>2 DEF Capture, Keep
  <2>3. CASE RecordIntent(p)
    BY <2>3 DEF RecordIntent
  <2>4. CASE CreateEvidence(p) \/ WriteEvidence(p)
    BY <2>4 DEF CreateEvidence, WriteEvidence
  <2>5. CASE Prepare(p)
    BY <2>5 DEF Prepare
  <2>6. CASE FullCheckout(p) \/ FullEdit(p) \/ OpenBlocks(p)
    BY <2>6 DEF FullCheckout, FullEdit, OpenBlocks, Take, Scan, ReadVerified
  <2>7. CASE Plan(p) \/ Stage(p) \/ Grant(p)
    BY <2>7 DEF Plan, Stage, Grant, GrantBlocks, PutBlock
  <2>8. CASE Send(p)
    BY <2>8 DEF Send, Post
  <2>9. CASE Answer(p) \/ QueryCheckout(p) \/ QueryEdit(p)
    BY <2>9 DEF Answer, QueryCheckout, QueryEdit
  <2>10. CASE SettleCheckout(p)
    BY <2>10 DEF SettleCheckout, Done
  <2>11. CASE CreateReceipt(p) \/ WriteReceipt(p)
    BY <2>11 DEF CreateReceipt, WriteReceipt, Done
  <2>12. CASE RecoverCheckout(p) \/ RecoverEdit(p)
    BY <2>12 DEF RecoverCheckout, RecoverEdit, Resume
  <2>13. CASE Abandon(p) \/ Release(p) \/ Close(p)
    BY <2>13 DEF Abandon, Release, Close, Done
  <2>14. CASE Stop(p)
    BY <2>14 DEF Stop, Done
  <2> QED BY <1>1, <2>1, <2>2, <2>3, <2>4, <2>5, <2>6, <2>7,
             <2>8, <2>9, <2>10, <2>11, <2>12, <2>13, <2>14 DEF UploadStep
<1>2. ASSUME NEW m \in net, Publish(m) \/ Lose(m)
      PROVE  ReceiptInv'
  BY <1>2 DEF Publish, Lose, MayUpload
<1>3. CASE Edit
  BY <1>3 DEF Edit
<1>4. ASSUME NEW i \in Intent, Damage(i)
      PROVE  ReceiptInv'
  BY <1>4 DEF Damage
<1> QED BY <1>1, <1>2, <1>3, <1>4 DEF UploadNext

\* What a checkout has read, sends and publishes has the digest of its intent.
BytesInv ==
    /\ \A i \in Intent : digest[i] # Mixed
    /\ mode = "checkout" =>
          /\ \A p \in Proc : pc[p] \in {"plan", "stage", "grant", "send"} => seen[p] = digest[job[p]]
          /\ \A m \in net : m.bytes = digest[m.intent]
          /\ \A i \in Intent : cloud[i] # None => digest[i] # None /\ cloud[i] = digest[i]

\* A digest is written once, and what is read later is compared with it.
LEMMA BytesKeep ==
    ASSUME UploadBase, SendInv, BytesInv, UploadNext
    PROVE  BytesInv'
<1> USE DeviceUploadAssumption DEF UploadBase, UploadTypeOK, ReadInv, SendInv, BytesInv, Content, Version, Point, ledger, files, server, Goto
<1>1. ASSUME NEW p \in Proc, UploadStep(p)
      PROVE  BytesInv'
  <2>1. CASE SubmitCheckout(p) \/ SubmitEdit(p)
    BY <2>1 DEF SubmitCheckout, SubmitEdit, Begin
  <2>2. CASE Capture(p)
    BY <2>2 DEF Capture, Keep
  <2>3. CASE RecordIntent(p)
    BY <2>3 DEF RecordIntent
  <2>4. CASE CreateEvidence(p) \/ WriteEvidence(p)
    BY <2>4 DEF CreateEvidence, WriteEvidence
  <2>5. CASE Prepare(p)
    BY <2>5 DEF Prepare
  <2>6. CASE FullCheckout(p) \/ FullEdit(p) \/ OpenBlocks(p)
    BY <2>6 DEF FullCheckout, FullEdit, OpenBlocks, Take, Scan, ReadVerified
  <2>7. CASE Plan(p) \/ Stage(p) \/ Grant(p)
    BY <2>7 DEF Plan, Stage, Grant, GrantBlocks, PutBlock
  <2>8. CASE Send(p)
    BY <2>8 DEF Send, Post
  <2>9. CASE Answer(p) \/ QueryCheckout(p) \/ QueryEdit(p)
    BY <2>9 DEF Answer, QueryCheckout, QueryEdit
  <2>10. CASE SettleCheckout(p)
    BY <2>10 DEF SettleCheckout, Done
  <2>11. CASE CreateReceipt(p) \/ WriteReceipt(p)
    BY <2>11 DEF CreateReceipt, WriteReceipt, Done
  <2>12. CASE RecoverCheckout(p) \/ RecoverEdit(p)
    BY <2>12 DEF RecoverCheckout, RecoverEdit, Resume
  <2>13. CASE Abandon(p) \/ Release(p) \/ Close(p)
    BY <2>13 DEF Abandon, Release, Close, Done
  <2>14. CASE Stop(p)
    BY <2>14 DEF Stop, Done
  <2> QED BY <1>1, <2>1, <2>2, <2>3, <2>4, <2>5, <2>6, <2>7,
             <2>8, <2>9, <2>10, <2>11, <2>12, <2>13, <2>14 DEF UploadStep
<1>2. ASSUME NEW m \in net, Publish(m) \/ Lose(m)
      PROVE  BytesInv'
  BY <1>2 DEF Publish, Lose, MayUpload
<1>3. CASE Edit
  BY <1>3 DEF Edit
<1>4. ASSUME NEW i \in Intent, Damage(i)
      PROVE  BytesInv'
  BY <1>4 DEF Damage
<1> QED BY <1>1, <1>2, <1>3, <1>4 DEF UploadNext

UploadInv == UploadBase /\ SendInv /\ ReceiptInv /\ BytesInv

\* The invariant of the uploads holds in every state of the agent.
THEOREM UploadInvariant == AgentSpec => []UploadInv
<1>1. AgentInit => UploadInv
  <2> SUFFICES ASSUME UploadInit PROVE UploadInv
    BY DEF AgentInit
  <2>1. SendInv /\ ReceiptInv
    BY DeviceUploadAssumption DEF UploadInit, SendInv, ReceiptInv, Publishing
  <2>2. BytesInv
    BY DeviceUploadAssumption DEF UploadInit, BytesInv
  <2> QED BY <2>1, <2>2, UploadStart DEF UploadInv
<1>2. [Entry]_<<used, uploadVars, mirrorVars, updateVars>> => [UploadNext]_uploadVars
  BY DEF Entry
<1>3. UploadInv /\ [UploadNext]_uploadVars => UploadInv'
  <2>1. ASSUME UploadInv, UploadNext PROVE UploadInv'
    BY <2>1, BaseKeeps, SendKeeps, ReceiptKeeps, BytesKeep DEF UploadInv
  <2>2. ASSUME UploadInv, UNCHANGED uploadVars PROVE UploadInv'
    BY <2>2 DEF UploadInv, UploadBase, UploadTypeOK, ModeInv, RecordInv, ReadInv, SendInv,
                ReceiptInv, BytesInv, uploadVars, ledger, files, server
  <2> QED BY <2>1, <2>2
<1> QED BY <1>1, <1>2, <1>3, PTL DEF AgentSpec

\* What a checkout has published for an intent are the bytes it was made for, whatever
\* becomes of the snapshot.
THEOREM BytesAreConfirmed == AgentSpec => []OnlyConfirmedBytes
<1>1. UploadInv => OnlyConfirmedBytes
  BY DEF UploadInv, BytesInv, OnlyConfirmedBytes
<1> QED BY <1>1, UploadInvariant, PTL

\* An ordinary edit is sent once, however many processes upload it or are started again.
THEOREM EditIsSentOnce == AgentSpec => []OneUploadPerBase
<1>1. UploadInv => OneUploadPerBase
  BY DEF UploadInv, SendInv, OneUploadPerBase
<1> QED BY <1>1, UploadInvariant, PTL

\* The files on disk are true of the server, wherever the processes have ended.
THEOREM EvidenceStaysTrue == AgentSpec => []EvidenceIsTrue
<1>1. UploadInv => EvidenceIsTrue
  <2> SUFFICES ASSUME UploadInv PROVE EvidenceIsTrue
    OBVIOUS
  <2>1. record = Torn => \A i \in Intent : sent[i] = 0
    BY DeviceUploadAssumption DEF UploadInv, UploadBase, UploadTypeOK, ModeInv, SendInv
  <2> QED BY <2>1 DEF UploadInv, SendInv, ReceiptInv, EvidenceIsTrue
<1> QED BY <1>1, UploadInvariant, PTL

-------------------------------------------------------------------------------
(* The mirror.  Nothing locks it: what is proved is that a copy at which no *)
(* two processes meet is as safe as if something did.                       *)

\* What the files of a root are.
DiskOK ==
    /\ DOMAIN disk = Root
    /\ \A r \in Root : /\ disk[r] = [i \in Item |-> disk[r][i]]
                       /\ \A c \in Copy : disk[r][c] \in Bytes \cup {Absent}
                       /\ \A i \in Index : disk[r][i] \in Record \cup {Absent}

\* A process that carries a mirror knows from where, one that records has a fingerprint.
SessionInv ==
    \A o \in Opener :
       /\ Adopting(o) => session[o].source \in Root \ {session[o].root}
       /\ at[o] = "record" => session[o].digest \in Bytes

\* Copies, records of copies and the report are different files.
LEMMA FilesDiffer ==
    /\ \A c \in Copy, i \in Index : c # i
    /\ \A c \in Copy : c # Report
    /\ \A i \in Index : i # Report
    /\ Copy \subseteq Item /\ Index \subseteq Item /\ Report \in Item
    /\ Absent \notin Bytes /\ Absent \notin Record
  BY DEF Copy, Index, Report, Item, Absent, Bytes, Served, Saved, Partial, Record

\* One file is replaced.
LEMMA PutFile ==
    ASSUME DiskOK, NEW r \in Root, NEW f \in Item, NEW b, Put(r, f, b),
           f \in Copy => b \in Bytes \cup {Absent}, f \in Index => b \in Record \cup {Absent}
    PROVE  /\ DiskOK'
           /\ disk'[r][f] = b
           /\ \A q \in Root, g \in Item : q # r \/ g # f => disk'[q][g] = disk[q][g]
<1>1. /\ DOMAIN disk' = Root
      /\ disk'[r] = [disk[r] EXCEPT ![f] = b]
      /\ \A q \in Root : q # r => disk'[q] = disk[q]
  BY DEF Put, DiskOK
<1>2. disk'[r] = [i \in Item |-> IF i = f THEN b ELSE disk[r][i]]
  BY <1>1 DEF DiskOK
<1>3. \A q \in Root, g \in Item : disk'[q][g] = IF q = r /\ g = f THEN b ELSE disk[q][g]
  BY <1>1, <1>2
<1>4. \A q \in Root : disk'[q] = [i \in Item |-> disk'[q][i]]
  BY <1>1, <1>2 DEF DiskOK
<1>5. ASSUME NEW q \in Root
      PROVE  /\ \A c \in Copy : disk'[q][c] \in Bytes \cup {Absent}
             /\ \A i \in Index : disk'[q][i] \in Record \cup {Absent}
  BY <1>3, FilesDiffer DEF DiskOK
<1> QED BY <1>1, <1>3, <1>4, <1>5 DEF DiskOK

\* The mirror to adopt is another one.
LEMMA SourceIsOther ==
    ASSUME marker \in Root \cup {"none"}, NEW r \in Root
    PROVE  AdoptSource(r) \in (Root \ {r}) \cup {"none"}
  BY DEF AdoptSource, Root

\* Types of what a process works on.
LEMMA SessionFacts ==
    ASSUME MirrorTypeOK, NEW o \in Opener, at[o] # "idle"
    PROVE  /\ session[o] \in Session
           /\ session[o].root \in Root /\ session[o].ask \in Ask /\ session[o].ask.mode \in {"view", "edit"}
           /\ session[o].version \in 0..MaxVersion /\ session[o].name \in 0..MaxSuffix
           /\ CopyOf(o) \in Copy /\ IndexOf(o) \in Index
           /\ CopyOf(o) \in Item /\ IndexOf(o) \in Item
           /\ session[o].digest \in Bytes \cup {Absent}
<1>1. session[o] \in Session
  BY DEF MirrorTypeOK
<1>2. /\ session[o].root \in Root /\ session[o].ask \in Ask
      /\ session[o].version \in 0..MaxVersion /\ session[o].name \in 0..MaxSuffix
      /\ session[o].digest \in Bytes \cup {Absent}
  BY <1>1 DEF Session
<1>3. session[o].ask \in [doc : Doc, mode : {"view", "edit"}, action : Action]
  BY <1>2, MirrorAssumption
<1>4. session[o].ask.mode \in {"view", "edit"} /\ session[o].ask.doc \in Doc
  BY <1>3
<1>5. CopyOf(o) \in Copy
  BY <1>2, <1>4 DEF CopyOf, Copy
<1>6. IndexOf(o) \in Index
  BY <1>4 DEF IndexOf, Index
<1> QED BY <1>1, <1>2, <1>4, <1>5, <1>6, FilesDiffer

\* Where the processes are, and with what.
PlaceOK ==
    /\ at \in [Opener -> Step]
    /\ session \in [Opener -> Session \cup {NoSession}]
    /\ \A o \in Opener : at[o] # "idle" => session[o] \in Session

\* One process moves on, with a session of the right type.
LEMMA Moves ==
    ASSUME PlaceOK, NEW o \in Opener, NEW s \in Step, NEW x \in Session, Move(o, s),
           session' = [session EXCEPT ![o] = x]
    PROVE  /\ PlaceOK' /\ at'[o] = s /\ session'[o] = x
           /\ \A p \in Opener : p # o => at'[p] = at[p] /\ session'[p] = session[p]
<1>1. /\ at'[o] = s /\ session'[o] = x
      /\ \A p \in Opener : p # o => at'[p] = at[p] /\ session'[p] = session[p]
      /\ at' \in [Opener -> Step] /\ session' \in [Opener -> Session \cup {NoSession}]
  BY DEF PlaceOK, Move
<1> QED BY <1>1 DEF PlaceOK

\* One process moves on, with the session it has.
LEMMA MovesOn ==
    ASSUME PlaceOK, NEW o \in Opener, at[o] # "idle", NEW s \in Step, Move(o, s), UNCHANGED session
    PROVE  /\ PlaceOK' /\ at'[o] = s
           /\ \A p \in Opener : session'[p] = session[p]
           /\ \A p \in Opener : p # o => at'[p] = at[p]
  BY DEF PlaceOK, Move

\* A process ends.
LEMMA Leaves ==
    ASSUME PlaceOK, NEW o \in Opener, LeaveMirror(o)
    PROVE  /\ PlaceOK' /\ at'[o] = "idle"
           /\ \A p \in Opener : p # o => at'[p] = at[p] /\ session'[p] = session[p]
<1>1. /\ at'[o] = "idle"
      /\ \A p \in Opener : p # o => at'[p] = at[p] /\ session'[p] = session[p]
      /\ at' \in [Opener -> Step] /\ session' \in [Opener -> Session \cup {NoSession}]
  BY DEF PlaceOK, Move, LeaveMirror, Step
<1> QED BY <1>1 DEF PlaceOK

\* The types of the rest.
RestOK ==
    /\ drive \in {"usable", "readable", "gone"}
    /\ marker \in Root \cup {"none"}
    /\ version \in 0..MaxVersion /\ tickets \in 0..MaxTicket /\ saves \in 0..MaxSave
    /\ opened \subseteq Root \X Copy
    /\ raced \subseteq Copy

\* The mirror is typed if its three parts are.
LEMMA TypeParts ==
    ASSUME MirrorTypeOK
    PROVE  DiskOK /\ PlaceOK /\ RestOK
  BY DEF MirrorTypeOK, DiskOK, PlaceOK, RestOK

\* And the other way round, after a step.
LEMMA TypesAgain ==
    ASSUME DiskOK', PlaceOK', RestOK'
    PROVE  MirrorTypeOK'
  BY DEF MirrorTypeOK, DiskOK, PlaceOK, RestOK

\* Steps that carry a mirror over.
LEMMA AdoptTypes ==
    ASSUME MirrorTypeOK, SessionInv, NEW o \in Opener,
           Adopt(o) \/ CopyMirror(o) \/ Verify(o) \/ CopyFails(o) \/ RemoveMirror(o) \/ Mark(o)
    PROVE  MirrorTypeOK'
<1>1. DiskOK /\ PlaceOK /\ RestOK /\ at[o] # "idle"
  BY TypeParts DEF Adopt, CopyMirror, Verify, CopyFails, RemoveMirror, Mark, At
<1> DEFINE s == session[o]
<1>2. s \in Session /\ s.root \in Root
  BY <1>1, SessionFacts
<1>3. ASSUME Moved(o), UNCHANGED <<drive, version, tickets, saves, opened, session, raced>> PROVE MirrorTypeOK'
  <2>1. DiskOK'
    BY <1>1, <1>2, <1>3, FilesDiffer, PutFile DEF Moved
  <2>2. PlaceOK'
    BY <1>1, <1>3, MovesOn DEF Moved, Step
  <2>3. RestOK'
    BY <1>1, <1>2, <1>3 DEF Moved, RestOK
  <2> QED BY <2>1, <2>2, <2>3, TypesAgain
<1>4. CASE Adopt(o)
  <2> DEFINE a == AdoptSource(s.root)
             x == [s EXCEPT !.source = a]
  <2>1. a \in (Root \ {s.root}) \cup {"none"}
    BY <1>1, <1>2, SourceIsOther DEF RestOK
  <2>2. x \in Session
    BY <1>2, <2>1 DEF Session
  <2>3. /\ marker' \in {s.root, marker}
        /\ UNCHANGED <<drive, version, tickets, saves, opened>>
        /\ disk' = disk \/ Put(s.root, Report, [report |-> "skipped"])
        /\ \/ Move(o, "choose") /\ UNCHANGED <<session, raced>>
           \/ Move(o, "copy") /\ session' = [session EXCEPT ![o] = x] /\ raced' = raced \cup Disturbed(o)
    BY <1>4 DEF Adopt
  <2>4. DiskOK'
    <3>1. CASE UNCHANGED disk
      BY <1>1, <3>1 DEF DiskOK
    <3>2. CASE Put(s.root, Report, [report |-> "skipped"])
      BY <1>1, <1>2, <3>2, FilesDiffer, PutFile
    <3> QED BY <2>3, <3>1, <3>2
  <2>5. PlaceOK'
    <3> HIDE DEF x
    <3> QED BY <1>1, <2>2, <2>3, Moves, MovesOn DEF Step
  <2>6. Disturbed(o) \subseteq Copy
    <3>1. \A p \in Opener : Working(p) => CopyOf(p) \in Copy
      BY SessionFacts DEF Working
    <3> QED BY <3>1 DEF Disturbed
  <2>7. RestOK'
    BY <1>1, <1>2, <2>3, <2>6 DEF RestOK
  <2> QED BY <2>4, <2>5, <2>7, TypesAgain
<1>5. CASE CopyMirror(o)
  <2>1. s.source \in Root
    BY <1>5 DEF CopyMirror, At, SessionInv, Adopting
  <2>2. /\ UNCHANGED <<drive, marker, version, tickets, saves, opened, session, raced>>
        /\ \/ Move(o, "verify") /\ UNCHANGED disk
           \/ UNCHANGED at /\ \E i \in Item : Put(s.root, i, disk[s.source][i])
    BY <1>5 DEF CopyMirror, Held
  <2>3. DiskOK'
    <3>1. CASE UNCHANGED disk
      BY <1>1, <3>1 DEF DiskOK
    <3>2. ASSUME NEW i \in Item, Put(s.root, i, disk[s.source][i]) PROVE DiskOK'
      <4>1. /\ i \in Copy => disk[s.source][i] \in Bytes \cup {Absent}
            /\ i \in Index => disk[s.source][i] \in Record \cup {Absent}
        BY <1>1, <2>1 DEF DiskOK
      <4> QED BY <1>1, <1>2, <3>2, <4>1, PutFile
    <3> QED BY <2>2, <3>1, <3>2
  <2>4. PlaceOK'
    BY <1>1, <2>2, MovesOn DEF Step, PlaceOK
  <2>5. RestOK'
    BY <1>1, <2>2 DEF RestOK
  <2> QED BY <2>3, <2>4, <2>5, TypesAgain
<1>6. CASE Verify(o)
  <2>1. CASE Move(o, "remove") /\ UNCHANGED <<disk, drive, marker, version, tickets, saves, opened, session, raced>>
    <3>1. PlaceOK'
      BY <1>1, <2>1, MovesOn DEF Step
    <3>2. DiskOK' /\ RestOK'
      BY <1>1, <2>1 DEF DiskOK, RestOK
    <3> QED BY <3>1, <3>2, TypesAgain
  <2> QED BY <1>3, <1>6, <2>1 DEF Verify
<1>7. CASE CopyFails(o) \/ Mark(o)
  BY <1>3, <1>7 DEF CopyFails, Mark
<1>8. CASE RemoveMirror(o)
  <2>1. s.source \in Root
    BY <1>8 DEF RemoveMirror, At, SessionInv, Adopting
  <2>2. PICK kept \in SUBSET Item :
          disk' = [disk EXCEPT ![s.source] = [i \in Item |-> IF i \in kept THEN @[i] ELSE Absent]]
    BY <1>8 DEF RemoveMirror
  <2>3. /\ DOMAIN disk' = Root
        /\ disk'[s.source] = [i \in Item |-> IF i \in kept THEN disk[s.source][i] ELSE Absent]
        /\ \A q \in Root : q # s.source => disk'[q] = disk[q]
    BY <1>1, <2>1, <2>2 DEF DiskOK
  <2>4. DiskOK'
    <3>1. \A q \in Root : disk'[q] = [i \in Item |-> disk'[q][i]]
      BY <1>1, <2>3 DEF DiskOK
    <3>2. \A q \in Root, i \in Item : disk'[q][i] \in {disk[q][i], Absent}
      BY <2>3
    <3> QED BY <1>1, <2>3, <3>1, <3>2, FilesDiffer DEF DiskOK
  <2>5. PlaceOK'
    BY <1>1, <1>8, MovesOn DEF RemoveMirror, Step
  <2>6. RestOK'
    BY <1>1, <1>8 DEF RemoveMirror, RestOK
  <2> QED BY <2>4, <2>5, <2>6, TypesAgain
<1> QED BY <1>4, <1>5, <1>6, <1>7, <1>8

\* Steps that get a local copy and open it.
LEMMA OpenTypes ==
    ASSUME MirrorTypeOK, SessionInv, NEW o \in Opener,
           \/ Claim(o) \/ Choose(o) \/ Truncate(o) \/ Write(o) \/ WriteFails(o) \/ Digest(o)
           \/ WriteRecord(o) \/ Launch(o) \/ EndOpen(o)
    PROVE  MirrorTypeOK'
<1>1. DiskOK /\ PlaceOK /\ RestOK
  BY TypeParts
<1> DEFINE s == session[o]
<1>2. at[o] # "idle" => /\ s \in Session /\ s.root \in Root /\ CopyOf(o) \in Copy /\ IndexOf(o) \in Index
                        /\ CopyOf(o) \in Item /\ IndexOf(o) \in Item /\ s.digest \in Bytes \cup {Absent}
                        /\ s.version \in 0..MaxVersion /\ s.name \in 0..MaxSuffix
                        /\ s.ask.mode \in {"view", "edit"}
  BY SessionFacts
<1>3. UNCHANGED disk => DiskOK'
  BY <1>1 DEF DiskOK
<1>4. CASE Claim(o)
  <2>1. PICK a \in Ask :
          /\ session' = [session EXCEPT ![o] = [ask |-> a, root |-> SelectRoot, version |-> version,
                                                name |-> 0, source |-> "none", digest |-> Absent]]
          /\ Move(o, "adopt") /\ tickets < MaxTicket /\ tickets' = tickets + 1
          /\ UNCHANGED <<disk, drive, marker, version, saves, opened, raced>>
    BY <1>4 DEF Claim
  <2>2. [ask |-> a, root |-> SelectRoot, version |-> version,
         name |-> 0, source |-> "none", digest |-> Absent] \in Session
    BY <1>1, MirrorAssumption DEF Session, SelectRoot, Root, RestOK
  <2>3. PlaceOK'
    BY <1>1, <2>1, <2>2, Moves DEF Step
  <2>4. RestOK'
    BY <1>1, <2>1, MirrorAssumption DEF RestOK
  <2> QED BY <1>3, <2>1, <2>3, <2>4, TypesAgain
<1>5. CASE Choose(o)
  <2>1. PICK n \in 0..MaxSuffix :
          /\ session' = [session EXCEPT ![o] = [s EXCEPT !.name = n]]
          /\ Move(o, "launch") \/ Move(o, "truncate")
          /\ raced' = raced \/ raced' = raced \cup {[mode |-> s.ask.mode, name |-> n]}
          /\ at[o] = "choose"
          /\ UNCHANGED <<disk, drive, marker, version, tickets, saves, opened>>
    <3>1. at[o] = "choose"
      BY <1>5 DEF Choose, At
    <3>2. Here(o)[IndexOf(o)] # Absent => Here(o)[IndexOf(o)].name \in 0..MaxSuffix
      <4>1. Here(o)[IndexOf(o)] \in Record \cup {Absent}
        BY <1>1, <1>2, <3>1 DEF DiskOK, Here
      <4> QED BY <4>1 DEF Record
    <3> QED BY <1>5, <3>1, <3>2 DEF Choose, Free
  <2>2. [s EXCEPT !.name = n] \in Session
    BY <1>2, <2>1 DEF Session
  <2>3. PlaceOK'
    BY <1>1, <2>1, <2>2, Moves DEF Step
  <2>4. [mode |-> s.ask.mode, name |-> n] \in Copy
    BY <1>2, <2>1 DEF Copy
  <2>5. RestOK'
    BY <1>1, <2>1, <2>4 DEF RestOK
  <2> QED BY <1>3, <2>1, <2>3, <2>5, TypesAgain
<1>6. CASE Truncate(o) \/ Write(o) \/ WriteRecord(o)
  <2>1. /\ at[o] # "idle"
        /\ Move(o, "write") \/ Move(o, "digest") \/ Move(o, "launch")
        /\ UNCHANGED <<drive, marker, version, tickets, saves, opened, session, raced>>
    BY <1>6 DEF Truncate, Write, WriteRecord, At
  <2>2. DiskOK'
    <3>1. CASE UNCHANGED disk
      BY <1>3, <3>1
    <3>2. ASSUME NEW b \in Bytes, Put(s.root, CopyOf(o), b) PROVE DiskOK'
      <4>1. CopyOf(o) \notin Index
        BY <1>2, <2>1, FilesDiffer
      <4> QED BY <1>1, <1>2, <2>1, <3>2, <4>1, PutFile
    <3>3. ASSUME NEW b \in Record, Put(s.root, IndexOf(o), b) PROVE DiskOK'
      <4>1. IndexOf(o) \notin Copy
        BY <1>2, <2>1, FilesDiffer
      <4> QED BY <1>1, <1>2, <2>1, <3>3, <4>1, PutFile
    <3>4. Partial \in Bytes /\ [served |-> version, size |-> 0] \in Bytes
      BY <1>1 DEF Bytes, Served, RestOK
    <3>5. CASE WriteRecord(o)
      <4>1. at[o] = "record" /\ s.digest \in Bytes
        BY <3>5 DEF WriteRecord, At, SessionInv
      <4>2. [name |-> s.name, version |-> s.version, digest |-> s.digest] \in Record
        BY <1>2, <4>1 DEF Record
      <4> QED BY <3>1, <3>3, <3>5, <4>2 DEF WriteRecord
    <3> QED BY <1>6, <3>1, <3>2, <3>4, <3>5 DEF Truncate, Write
  <2>3. PlaceOK'
    BY <1>1, <1>2, <2>1, MovesOn DEF Step
  <2>4. RestOK'
    BY <1>1, <2>1 DEF RestOK
  <2> QED BY <2>2, <2>3, <2>4, TypesAgain
<1>7. CASE WriteFails(o)
  <2>1. DiskOK'
    BY <1>1, <1>2, <1>7, FilesDiffer, PutFile DEF WriteFails, At
  <2>2. PlaceOK'
    BY <1>1, <1>7, Leaves DEF WriteFails
  <2>3. RestOK'
    BY <1>1, <1>7 DEF WriteFails, RestOK
  <2> QED BY <2>1, <2>2, <2>3, TypesAgain
<1>8. CASE Digest(o)
  <2> DEFINE b == Here(o)[CopyOf(o)]
  <2>1. at[o] = "digest" /\ b \in Bytes \cup {Absent}
    BY <1>1, <1>2, <1>8 DEF Digest, At, Here, DiskOK
  <2>2. [s EXCEPT !.digest = b] \in Session
    <3> HIDE DEF b
    <3> QED BY <1>2, <2>1 DEF Session
  <2>3. \/ Move(o, "launch") /\ UNCHANGED session
        \/ Move(o, "record") /\ session' = [session EXCEPT ![o] = [s EXCEPT !.digest = b]]
    BY <1>8 DEF Digest
  <2>4. PlaceOK'
    BY <1>1, <2>1, <2>2, <2>3, Moves, MovesOn DEF Step
  <2>5. RestOK' /\ DiskOK'
    BY <1>1, <1>3, <1>8 DEF Digest, RestOK
  <2> QED BY <2>4, <2>5, TypesAgain
<1>9. CASE Launch(o) \/ EndOpen(o)
  <2>1. /\ LeaveMirror(o) /\ at[o] # "idle"
        /\ opened' \in {opened, opened \cup {<<s.root, CopyOf(o)>>}}
        /\ UNCHANGED <<disk, drive, marker, version, tickets, saves, raced>>
    BY <1>9 DEF Launch, EndOpen, At
  <2>2. PlaceOK'
    BY <1>1, <2>1, Leaves
  <2>3. RestOK'
    BY <1>1, <1>2, <2>1 DEF RestOK
  <2> QED BY <1>3, <2>1, <2>2, <2>3, TypesAgain
<1> QED BY <1>4, <1>5, <1>6, <1>7, <1>8, <1>9

\* Users, the server and the drive.
LEMMA OutsideTypes ==
    ASSUME MirrorTypeOK, Save \/ NewVersion \/ Drive
    PROVE  MirrorTypeOK'
<1>1. DiskOK /\ PlaceOK /\ RestOK
  BY TypeParts
<1>2. CASE Save
  <2>1. PICK r \in Root, c \in Copy, size \in {0, 1} :
          /\ Put(r, c, [saved |-> saves + 1, size |-> size])
          /\ raced' \in {raced, raced \cup {c}}
    BY <1>2 DEF Save
  <2>2. saves < MaxSave /\ saves' = saves + 1
        /\ UNCHANGED <<drive, marker, version, tickets, opened, at, session>>
    BY <1>2 DEF Save
  <2>3. [saved |-> saves + 1, size |-> size] \in Bytes /\ saves + 1 \in 0..MaxSave
    BY <1>1, <2>2, MirrorAssumption DEF Bytes, Saved, RestOK
  <2>4. DiskOK'
    BY <1>1, <2>1, <2>3, FilesDiffer, PutFile
  <2>5. RestOK' /\ PlaceOK'
    BY <1>1, <2>1, <2>2, <2>3 DEF RestOK, PlaceOK
  <2> QED BY <2>4, <2>5, TypesAgain
<1>3. CASE NewVersion \/ Drive
  <2>1. DiskOK' /\ PlaceOK'
    BY <1>1, <1>3 DEF NewVersion, Drive, DiskOK, PlaceOK
  <2>2. RestOK'
    BY <1>1, <1>3, MirrorAssumption DEF NewVersion, Drive, RestOK, Held
  <2> QED BY <2>1, <2>2, TypesAgain
<1> QED BY <1>2, <1>3

\* A step of one process is no step of another one.
LEMMA Alone ==
    ASSUME PlaceOK, NEW o \in Opener, OpenStep(o), NEW p \in Opener, p # o
    PROVE  at'[p] = at[p] /\ session'[p] = session[p]
<1>1. CASE Claim(o) \/ Adopt(o) \/ CopyMirror(o) \/ Verify(o) \/ CopyFails(o) \/ RemoveMirror(o) \/ Mark(o)
  BY <1>1 DEF PlaceOK, Claim, Adopt, CopyMirror, Verify, CopyFails, RemoveMirror, Mark, Moved, Move
<1>2. CASE Choose(o) \/ Truncate(o) \/ Write(o) \/ WriteFails(o) \/ Digest(o) \/ WriteRecord(o)
           \/ Launch(o) \/ EndOpen(o)
  BY <1>2 DEF PlaceOK, Choose, Truncate, Write, WriteFails, Digest, WriteRecord, Launch, EndOpen,
              LeaveMirror, Move
<1> QED BY <1>1, <1>2 DEF OpenStep

\* Where a step of a process leads, and what it keeps of the session.
LEMMA Route ==
    ASSUME MirrorTypeOK, NEW o \in Opener, OpenStep(o), at'[o] # "idle"
    PROVE  /\ at[o] = "idle" => at'[o] = "adopt" /\ session'[o].version = version
           /\ at[o] # "idle" => /\ session'[o].root = session[o].root
                                /\ session'[o].ask = session[o].ask
                                /\ session'[o].version = session[o].version
           /\ at'[o] = "copy" => \/ Adopt(o) /\ session'[o].source = AdoptSource(session[o].root)
                                 \/ at[o] = "copy" /\ session'[o] = session[o]
           /\ at'[o] = "verify" => at[o] = "copy" /\ session'[o] = session[o]
           /\ at'[o] = "remove" => Verify(o) /\ session'[o] = session[o]
           /\ at'[o] = "truncate" => Choose(o)
           /\ at'[o] = "write" => Truncate(o) /\ session'[o] = session[o]
           /\ at'[o] = "digest" => Write(o) /\ session'[o] = session[o]
           /\ at'[o] = "record" => /\ Digest(o) /\ CopyOf(o)' = CopyOf(o)
                                   /\ session'[o].digest = Here(o)[CopyOf(o)]
           /\ at'[o] = "launch" => \/ Choose(o)
                                   \/ Digest(o) /\ session'[o] = session[o] /\ Here(o)[CopyOf(o)] = Absent
                                   \/ WriteRecord(o) /\ session'[o] = session[o]
<1> USE DEF PlaceOK, Move
<1>1. PlaceOK
  BY TypeParts
<1>2. at[o] # "idle" => session[o] \in Session
  BY <1>1
<1>3. CASE Claim(o)
  BY <1>1, <1>3 DEF Claim
<1>4. CASE Adopt(o)
  BY <1>1, <1>2, <1>4 DEF Adopt, At, Session
<1>5. CASE CopyMirror(o) \/ Verify(o)
  BY <1>1, <1>2, <1>5 DEF CopyMirror, Verify, At, Moved
<1>6. CASE CopyFails(o) \/ RemoveMirror(o) \/ Mark(o)
  BY <1>1, <1>2, <1>6 DEF CopyFails, RemoveMirror, Mark, At, Moved
<1>7. CASE Choose(o)
  <2>1. PICK n : session' = [session EXCEPT ![o] = [session[o] EXCEPT !.name = n]]
    BY <1>7 DEF Choose
  <2>2. at[o] = "choose" /\ at'[o] \in {"launch", "truncate"}
    BY <1>1, <1>7 DEF Choose, At
  <2>3. session'[o] = [session[o] EXCEPT !.name = n]
    BY <1>1, <2>1
  <2> QED BY <1>2, <1>7, <2>2, <2>3 DEF Session
<1>8. CASE Truncate(o) \/ Write(o) \/ WriteRecord(o)
  BY <1>1, <1>2, <1>8 DEF Truncate, Write, WriteRecord, At
<1>9. CASE Digest(o)
  <2>1. at[o] = "digest"
    BY <1>9 DEF Digest, At
  <2>2. CASE Here(o)[CopyOf(o)] = Absent
    BY <1>1, <1>9, <2>1, <2>2 DEF Digest
  <2>3. CASE Here(o)[CopyOf(o)] # Absent
    <3> DEFINE b == Here(o)[CopyOf(o)]
    <3>1. at'[o] = "record" /\ session'[o] = [session[o] EXCEPT !.digest = b]
      BY <1>1, <1>9, <2>3 DEF Digest
    <3> HIDE DEF b
    <3>2. /\ session'[o].digest = b /\ session'[o].root = session[o].root
          /\ session'[o].ask = session[o].ask /\ session'[o].version = session[o].version
          /\ session'[o].name = session[o].name
      BY <1>2, <2>1, <3>1 DEF Session
    <3> QED BY <1>9, <2>1, <3>1, <3>2 DEF b, CopyOf
  <2> QED BY <2>2, <2>3
<1>10. CASE WriteFails(o) \/ Launch(o) \/ EndOpen(o)
  BY <1>1, <1>10 DEF WriteFails, Launch, EndOpen, LeaveMirror
<1> QED BY <1>3, <1>4, <1>5, <1>6, <1>7, <1>8, <1>9, <1>10 DEF OpenStep

\* Only the processes and the drive begin or end anything.
LEMMA Outside ==
    ASSUME Save \/ NewVersion \/ Drive
    PROVE  UNCHANGED <<at, session>> /\ raced \subseteq raced'
  BY DEF Save, NewVersion, Drive

\* Sources and fingerprints are there when they are needed.
LEMMA SessionKeeps ==
    ASSUME MirrorTypeOK, SessionInv, MirrorNext
    PROVE  SessionInv'
<1> USE DEF SessionInv, Adopting
<1>1. ASSUME NEW o \in Opener, OpenStep(o) PROVE SessionInv'
  <2>1. DiskOK /\ PlaceOK /\ RestOK
    BY TypeParts
  <2>2. Adopting(o)' => session'[o].source \in Root \ {session'[o].root}
    <3>1. CASE at'[o] = "copy" /\ Adopt(o)
      <4>1. /\ at[o] = "adopt" /\ session'[o].source = AdoptSource(session[o].root)
            /\ session'[o].root = session[o].root
        BY <1>1, <3>1, Route DEF Adopt, At
      <4>2. AdoptSource(session[o].root) # "none"
        BY <2>1, <3>1, <4>1 DEF Adopt, Move, PlaceOK
      <4>3. session[o].root \in Root
        BY <4>1, SessionFacts
      <4> QED BY <2>1, <4>1, <4>2, <4>3, SourceIsOther DEF RestOK
    <3>2. CASE Adopting(o)' /\ ~(at'[o] = "copy" /\ Adopt(o))
      <4>1. at[o] \in {"copy", "verify"} /\ session'[o] = session[o]
        BY <1>1, <3>2, Route DEF Verify, At
      <4> QED BY <4>1
    <3> QED BY <3>1, <3>2
  <2>3. at'[o] = "record" => session'[o].digest \in Bytes
    <3> SUFFICES ASSUME at'[o] = "record" PROVE session'[o].digest \in Bytes
      OBVIOUS
    <3>1. at[o] = "digest" /\ Digest(o) /\ session'[o].digest = Here(o)[CopyOf(o)]
      BY <1>1, Route DEF Digest, At
    <3>2. Here(o)[CopyOf(o)] # Absent
      BY <2>1, <3>1 DEF Digest, Move, PlaceOK
    <3> QED BY <2>1, <3>1, <3>2, SessionFacts DEF Here, DiskOK
  <2>4. \A p \in Opener : p # o => at'[p] = at[p] /\ session'[p] = session[p]
    BY <1>1, <2>1, Alone
  <2> QED BY <2>2, <2>3, <2>4
<1>2. CASE Save \/ NewVersion \/ Drive
  BY <1>2, Outside
<1> QED BY <1>1, <1>2 DEF MirrorNext

\* Whoever works on a copy at which no two have met is the only one who does, and
\* nobody carries the mirror then; and two who carry it have met everywhere.
MeetInv ==
    \A o, p \in Opener : o # p =>
      /\ Working(o) /\ Working(p) /\ CopyOf(o) = CopyOf(p) => CopyOf(o) \in raced
      /\ Working(o) /\ Adopting(p) => CopyOf(o) \in raced
      /\ Adopting(o) /\ Adopting(p) => Copy \subseteq raced

\* Who chooses a copy, or begins to carry a mirror, looks at all the others.
LEMMA MeetKeeps ==
    ASSUME MirrorTypeOK, MeetInv, MirrorNext
    PROVE  MeetInv'
<1>1. ASSUME NEW o \in Opener, OpenStep(o) PROVE MeetInv'
  <2>1. PlaceOK
    BY TypeParts
  <2>2. raced \subseteq raced'
    BY <1>1 DEF OpenStep, Claim, Adopt, CopyMirror, Verify, CopyFails, RemoveMirror, Mark, Moved, Choose,
                Truncate, Write, WriteFails, Digest, WriteRecord, Launch, EndOpen
  <2>3. ASSUME NEW p \in Opener, p # o
        PROVE  /\ at'[p] = at[p] /\ Working(p)' = Working(p) /\ CopyOf(p)' = CopyOf(p)
               /\ Adopting(p)' = Adopting(p)
    BY <1>1, <2>1, <2>3, Alone DEF Working, CopyOf, Adopting
  <2>4. ASSUME NEW p \in Opener, p # o, Working(o)', (Working(p) /\ CopyOf(p) = CopyOf(o)') \/ Adopting(p)
        PROVE  CopyOf(o)' \in raced'
    <3>1. CASE Choose(o)
      <4>1. at[o] = "choose" /\ session[o] \in Session
        BY <2>1, <3>1 DEF Choose, At, PlaceOK
      <4>2. PICK n :
              /\ session' = [session EXCEPT ![o] = [session[o] EXCEPT !.name = n]]
              /\ raced' = IF Meets(o, [mode |-> session[o].ask.mode, name |-> n])
                          THEN raced \cup {[mode |-> session[o].ask.mode, name |-> n]} ELSE raced
        BY <3>1 DEF Choose
      <4>3. session'[o] = [session[o] EXCEPT !.name = n]
        BY <2>1, <4>2 DEF PlaceOK
      <4>4. CopyOf(o)' = [mode |-> session[o].ask.mode, name |-> n]
        BY <4>1, <4>3 DEF CopyOf, Session
      <4> QED BY <2>4, <4>2, <4>4 DEF Meets
    <3>2. CASE ~Choose(o)
      <4>1. Working(o) /\ CopyOf(o)' = CopyOf(o)
        <5>1. at'[o] # "idle"
          BY <2>4 DEF Working
        <5> QED BY <1>1, <2>4, <3>2, <5>1, Route DEF Working, CopyOf, Truncate, Write, Digest, WriteRecord, At
      <4> QED BY <2>2, <2>4, <4>1 DEF MeetInv
    <3> QED BY <3>1, <3>2
  <2>5. ASSUME NEW p \in Opener, p # o, Adopting(o)', Working(p) \/ Adopting(p)
        PROVE  IF Adopting(p) THEN Copy \subseteq raced' ELSE CopyOf(p) \in raced'
    <3>0. at'[o] # "idle"
      BY <2>5 DEF Adopting
    <3>1. CASE Adopting(o)
      BY <2>2, <2>5, <3>1 DEF MeetInv, Working, Adopting
    <3>2. CASE ~Adopting(o)
      <4>1. Adopt(o) /\ at'[o] = "copy"
        BY <1>1, <2>5, <3>0, <3>2, Route DEF Adopting, Verify, At
      <4>2. raced' = raced \cup Disturbed(o)
        BY <2>1, <4>1 DEF Adopt, Move, PlaceOK
      <4>3. Working(p) => CopyOf(p) \in Copy
        BY SessionFacts DEF Working
      <4> QED BY <2>5, <4>2, <4>3 DEF Disturbed
    <3> QED BY <3>1, <3>2
  <2>6. ASSUME NEW p \in Opener, p # o
        PROVE  /\ Working(o)' /\ Working(p)' /\ CopyOf(o)' = CopyOf(p)' => CopyOf(o)' \in raced'
               /\ Working(o)' /\ Adopting(p)' => CopyOf(o)' \in raced'
               /\ Working(p)' /\ Adopting(o)' => CopyOf(p)' \in raced'
               /\ Adopting(o)' /\ Adopting(p)' => Copy \subseteq raced'
    <3>1. Working(p)' => ~Adopting(p)
      BY <2>3, <2>6 DEF Working, Adopting
    <3> QED BY <2>3, <2>4, <2>5, <2>6, <3>1
  <2>7. ASSUME NEW p \in Opener, NEW q \in Opener, p # o, q # o, p # q
        PROVE  /\ Working(p)' /\ Working(q)' /\ CopyOf(p)' = CopyOf(q)' => CopyOf(p)' \in raced'
               /\ Working(p)' /\ Adopting(q)' => CopyOf(p)' \in raced'
               /\ Adopting(p)' /\ Adopting(q)' => Copy \subseteq raced'
    BY <2>2, <2>3, <2>7 DEF MeetInv
  <2> QED BY <2>6, <2>7 DEF MeetInv
<1>2. CASE Save \/ NewVersion \/ Drive
  BY <1>2, Outside DEF MeetInv, Working, Adopting, CopyOf
<1> QED BY <1>1, <1>2 DEF MirrorNext

\* What a step can do to a copy.
LEMMA CopyStep ==
    ASSUME MirrorTypeOK, SessionInv, NEW o \in Opener, OpenStep(o), NEW r \in Root, NEW c \in Copy
    PROVE  \/ disk'[r][c] = disk[r][c]
           \/ /\ at[o] = "truncate" /\ Truncate(o) /\ r = session[o].root /\ c = CopyOf(o)
              /\ disk'[r][c] = Partial
           \/ /\ at[o] = "write" /\ Write(o) /\ r = session[o].root /\ c = CopyOf(o)
              /\ disk'[r][c] = [served |-> version, size |-> 0]
           \/ /\ at[o] = "write" /\ WriteFails(o) /\ r = session[o].root /\ c = CopyOf(o)
              /\ disk'[r][c] = Absent
           \/ /\ at[o] = "copy" /\ CopyMirror(o) /\ r = session[o].root
              /\ disk[r][c] = Absent /\ disk'[r][c] = disk[session[o].source][c]
           \/ /\ at[o] = "remove" /\ RemoveMirror(o) /\ r = session[o].source
              /\ Readable(r) /\ disk'[r][c] = Absent
<1> USE FilesDiffer
<1> DEFINE s == session[o]
<1>1. DiskOK /\ PlaceOK /\ c \in Item
  BY TypeParts
<1>2. at[o] # "idle" => s.root \in Root /\ CopyOf(o) \in Item /\ IndexOf(o) \in Item /\ IndexOf(o) \in Index
  BY SessionFacts
<1>3. ASSUME NEW q \in Root, NEW f \in Item, NEW b, Put(q, f, b)
      PROVE  disk'[r][c] = IF r = q /\ c = f THEN b ELSE disk[r][c]
  <2>1. /\ disk[r] = [i \in Item |-> disk[r][i]] /\ DOMAIN disk = Root
    BY <1>1 DEF DiskOK
  <2>2. disk'[r] = IF r = q THEN [disk[r] EXCEPT ![f] = b] ELSE disk[r]
    BY <1>3, <2>1 DEF Put
  <2> QED BY <1>1, <2>1, <2>2
<1>4. UNCHANGED disk => disk'[r][c] = disk[r][c]
  OBVIOUS
<1>5. CASE Claim(o) \/ Choose(o) \/ Digest(o) \/ Launch(o) \/ EndOpen(o)
  BY <1>4, <1>5 DEF Claim, Choose, Digest, Launch, EndOpen
<1>6. CASE Adopt(o) \/ Verify(o) \/ CopyFails(o) \/ Mark(o)
  <2>1. at[o] # "idle"
    BY <1>6 DEF Adopt, Verify, CopyFails, Mark, At
  <2>2. UNCHANGED disk \/ \E b : Put(s.root, Report, b)
    BY <1>6 DEF Adopt, Verify, CopyFails, Mark, Moved
  <2> QED BY <1>2, <1>3, <1>4, <2>1, <2>2
<1>7. CASE CopyMirror(o)
  <2>1. at[o] = "copy"
    BY <1>7 DEF CopyMirror, At
  <2>2. Readable(s.root)
    BY <1>7 DEF CopyMirror, At
  <2>3. \/ UNCHANGED disk
        \/ \E i \in Item : disk[s.root][i] = Absent /\ Put(s.root, i, disk[s.source][i])
    BY <1>7, <2>2 DEF CopyMirror, Held
  <2> QED BY <1>2, <1>3, <1>4, <1>7, <2>1, <2>3
<1>8. CASE RemoveMirror(o)
  <2>1. at[o] = "remove" /\ s.source \in Root
    BY <1>8 DEF RemoveMirror, At, SessionInv, Adopting
  <2>2. PICK gone :
          disk' = [disk EXCEPT ![s.source] =
                     [i \in Item |-> IF i \in Item \ (gone \cap Held(s.source)) THEN @[i] ELSE Absent]]
    BY <1>8 DEF RemoveMirror
  <2>3. r # s.source => disk'[r] = disk[r]
    BY <1>1, <2>2 DEF DiskOK
  <2>4. r = s.source => disk'[r][c] = IF c \in gone \cap Held(r) THEN Absent ELSE disk[r][c]
    BY <1>1, <2>1, <2>2 DEF DiskOK
  <2>5. c \in Held(r) => Readable(r)
    BY DEF Held
  <2> QED BY <1>8, <2>1, <2>3, <2>4, <2>5
<1>9. CASE Truncate(o)
  BY <1>2, <1>3, <1>9 DEF Truncate, At
<1>10. CASE Write(o)
  BY <1>2, <1>3, <1>4, <1>10 DEF Write, At
<1>11. CASE WriteFails(o)
  BY <1>2, <1>3, <1>11 DEF WriteFails, At
<1>12. CASE WriteRecord(o)
  <2>1. at[o] = "record" /\ (UNCHANGED disk \/ \E b : Put(s.root, IndexOf(o), b))
    BY <1>12 DEF WriteRecord, At
  <2> QED BY <1>2, <1>3, <1>4, <2>1
<1> QED BY <1>5, <1>6, <1>7, <1>8, <1>9, <1>10, <1>11, <1>12 DEF OpenStep

\* What a save does to a copy.
LEMMA SaveStep ==
    ASSUME MirrorTypeOK, Save, NEW q \in Root, NEW d \in Copy
    PROVE  \/ disk'[q][d] = disk[q][d]
           \/ /\ d.mode = "edit" /\ disk[q][d] # Absent /\ disk'[q][d] \in Saved
              /\ \A p \in Root \ {q} : disk'[p][d] = disk[p][d]
              /\ \A o \in Opener : at[o] \in {"write", "digest"} /\ CopyOf(o) = d => d \in raced'
              /\ Unnoticed(q, d, disk'[q][d].size) => d \in raced'
<1>1. PICK r \in Root, c \in Copy, size \in {0, 1} :
        /\ c.mode = "edit" /\ disk[r][c] # Absent
        /\ Put(r, c, [saved |-> saves + 1, size |-> size])
        /\ raced' = IF \/ Unnoticed(r, c, size)
                       \/ \E o \in Opener : at[o] \in {"write", "digest"} /\ CopyOf(o) = c
                    THEN raced \cup {c} ELSE raced
  BY DEF Save
<1>2. saves < MaxSave /\ saves \in 0..MaxSave /\ MaxSave \in Nat /\ DiskOK
  BY TypeParts, MirrorAssumption DEF Save, RestOK
<1> DEFINE b == [saved |-> saves + 1, size |-> size]
<1>3. b \in Saved /\ b \in Bytes /\ b.size = size
  BY <1>2 DEF Saved, Bytes
<1> HIDE DEF b
<1>4. disk'[r][c] = b /\ \A p \in Root, g \in Item : p # r \/ g # c => disk'[p][g] = disk[p][g]
  BY <1>1, <1>2, <1>3, FilesDiffer, PutFile DEF b
<1>5. CASE q = r /\ d = c
  BY <1>1, <1>3, <1>4, <1>5, FilesDiffer
<1>6. CASE ~(q = r /\ d = c)
  BY <1>4, <1>6, FilesDiffer
<1> QED BY <1>5, <1>6

\* What a step can do to a record.
LEMMA RecordStep ==
    ASSUME MirrorTypeOK, SessionInv, NEW o \in Opener, OpenStep(o), NEW r \in Root, NEW i \in Index
    PROVE  \/ disk'[r][i] \in {disk[r][i], Absent}
           \/ at[o] = "copy" /\ session[o].source \in Root /\ disk'[r][i] = disk[session[o].source][i]
           \/ /\ at[o] = "record" /\ r = session[o].root /\ i = IndexOf(o)
              /\ disk'[r][i] = [name |-> session[o].name, version |-> session[o].version,
                                digest |-> session[o].digest]
<1> USE FilesDiffer
<1> DEFINE s == session[o]
<1>1. DiskOK /\ i \in Item
  BY TypeParts
<1>2. at[o] # "idle" => s.root \in Root /\ CopyOf(o) \in Item /\ IndexOf(o) \in Item /\ CopyOf(o) \in Copy
  BY SessionFacts
<1>3. ASSUME NEW q \in Root, NEW f \in Item, NEW b, Put(q, f, b)
      PROVE  disk'[r][i] = IF r = q /\ i = f THEN b ELSE disk[r][i]
  <2>1. /\ disk[r] = [j \in Item |-> disk[r][j]] /\ DOMAIN disk = Root
    BY <1>1 DEF DiskOK
  <2>2. disk'[r] = IF r = q THEN [disk[r] EXCEPT ![f] = b] ELSE disk[r]
    BY <1>3, <2>1 DEF Put
  <2> QED BY <1>1, <2>1, <2>2
<1>4. UNCHANGED disk => disk'[r][i] = disk[r][i]
  OBVIOUS
<1>5. CASE Claim(o) \/ Choose(o) \/ Digest(o) \/ Launch(o) \/ EndOpen(o)
  BY <1>4, <1>5 DEF Claim, Choose, Digest, Launch, EndOpen
<1>6. CASE Adopt(o) \/ Verify(o) \/ CopyFails(o) \/ Mark(o)
  <2>1. at[o] # "idle"
    BY <1>6 DEF Adopt, Verify, CopyFails, Mark, At
  <2>2. UNCHANGED disk \/ \E b : Put(s.root, Report, b)
    BY <1>6 DEF Adopt, Verify, CopyFails, Mark, Moved
  <2> QED BY <1>2, <1>3, <1>4, <2>1, <2>2
<1>7. CASE CopyMirror(o)
  <2>1. at[o] = "copy" /\ s.source \in Root
    BY <1>7 DEF CopyMirror, At, SessionInv, Adopting
  <2>2. UNCHANGED disk \/ \E j \in Item : Put(s.root, j, disk[s.source][j])
    BY <1>7 DEF CopyMirror, Held
  <2> QED BY <1>2, <1>3, <1>4, <2>1, <2>2
<1>8. CASE RemoveMirror(o)
  <2>1. s.source \in Root
    BY <1>8 DEF RemoveMirror, At, SessionInv, Adopting
  <2>2. PICK kept \in SUBSET Item :
          disk' = [disk EXCEPT ![s.source] = [j \in Item |-> IF j \in kept THEN @[j] ELSE Absent]]
    BY <1>8 DEF RemoveMirror
  <2>3. r # s.source => disk'[r] = disk[r]
    BY <1>1, <2>2 DEF DiskOK
  <2>4. r = s.source => disk'[r][i] \in {disk[r][i], Absent}
    BY <1>1, <2>1, <2>2 DEF DiskOK
  <2> QED BY <2>3, <2>4
<1>9. CASE Truncate(o) \/ Write(o) \/ WriteFails(o)
  <2>1. at[o] # "idle" /\ (UNCHANGED disk \/ \E b : Put(s.root, CopyOf(o), b))
    BY <1>9 DEF Truncate, Write, WriteFails, At
  <2> QED BY <1>2, <1>3, <1>4, <2>1
<1>10. CASE WriteRecord(o)
  BY <1>2, <1>3, <1>4, <1>10 DEF WriteRecord, At
<1> QED BY <1>5, <1>6, <1>7, <1>8, <1>9, <1>10 DEF OpenStep

\* A copy changes only at the hand of whoever works on it or carries the mirror.
LEMMA Undisturbed ==
    ASSUME MirrorTypeOK, SessionInv, MeetInv, NEW o \in Opener, OpenStep(o),
           NEW p \in Opener, p # o, NEW r \in Root, NEW c \in Copy \ raced,
           (Working(p) /\ CopyOf(p) = c) \/ Adopting(p)
    PROVE  disk'[r][c] = disk[r][c]
<1>1. Working(o) => CopyOf(o) # c
  BY DEF MeetInv
<1>2. ~Adopting(o)
  BY DEF MeetInv
<1> QED BY <1>1, <1>2, CopyStep DEF Working, Adopting

\* What comes from a download: something the server had at that version or later.
Genuine(b, v) == b \in Served /\ b.served >= v

\* The download under way.  It may be at a copy that the user has open (the user has
\* asked to overwrite it), but what is written, digested and recorded is what was served.
WorkerOK(o) ==
    LET s == session[o]
        b == Here(o)[CopyOf(o)]
    IN  /\ at[o] = "truncate" => s.ask.action = "overwrite" \/ s.ask.mode = "view" \/ b = Absent
        /\ at[o] = "write" => b = Partial
        /\ at[o] = "digest" => Genuine(b, s.version)
        /\ at[o] = "record" => Genuine(s.digest, s.version)
        /\ s.ask.mode = "view" /\ at[o] \in {"record", "launch"} => Genuine(b, s.version)

DownloadInv ==
    /\ \A o \in Opener : at[o] # "idle" => session[o].version <= version
    /\ \A o \in Opener : Working(o) /\ CopyOf(o) \notin raced => WorkerOK(o)

\* A record speaks of a download; a copy for viewing is no work of the user.
RecordsInv ==
    /\ \A r \in Root, i \in Index :
         disk[r][i] # Absent /\ [mode |-> i.mode, name |-> disk[r][i].name] \notin raced =>
            Genuine(disk[r][i].digest, disk[r][i].version)
    /\ \A r \in Root, c \in Copy : c.mode = "view" => ~Work(disk[r][c])

\* Carrying the mirror over: where the copies differ, verifyMirror will see it, and
\* the source is removed only where they do not.
Carries(o) ==
    LET r == session[o].root
        s == session[o].source
    IN  /\ s \in Root \ {r}
        /\ s = "preferred" /\ drive = "gone" => \A c \in Copy : disk[s][c] # Absent => c \in raced
        /\ \A c \in Copy \ raced : Work(disk[s][c]) =>
             /\ at[o] = "remove" => disk[r][c] = disk[s][c]
             /\ \/ disk[r][c] \in {Absent, disk[s][c]}
                \/ Size(c, disk[r][c]) # Size(c, disk[s][c])

CarryInv == \A o \in Opener : Adopting(o) => Carries(o)

\* The raced copies only grow.
LEMMA RacedGrows ==
    ASSUME MirrorNext
    PROVE  raced \subseteq raced'
<1>1. ASSUME NEW o \in Opener, OpenStep(o) PROVE raced \subseteq raced'
  BY <1>1 DEF OpenStep, Claim, Adopt, CopyMirror, Verify, CopyFails, RemoveMirror, Mark, Moved, Choose,
              Truncate, Write, WriteFails, Digest, WriteRecord, Launch, EndOpen
<1> QED BY <1>1, Outside DEF MirrorNext

\* The server's versions only grow.
LEMMA VersionGrows ==
    ASSUME MirrorTypeOK, MirrorNext
    PROVE  version \in Nat /\ version' \in Nat /\ version <= version'
<1>1. version \in 0..MaxVersion /\ MaxVersion \in Nat
  BY TypeParts, MirrorAssumption DEF RestOK
<1>2. ASSUME NEW o \in Opener, OpenStep(o) PROVE version' = version
  BY <1>2 DEF OpenStep, Claim, Adopt, CopyMirror, Verify, CopyFails, RemoveMirror, Mark, Choose,
              Truncate, Write, WriteFails, Digest, WriteRecord, Launch, EndOpen
<1>3. Save \/ Drive => version' = version
  BY DEF Save, Drive
<1>4. NewVersion => version' = version + 1
  BY DEF NewVersion
<1> QED BY <1>1, <1>2, <1>3, <1>4 DEF MirrorNext

\* What one process does to the copy it works on.
LEMMA OwnDownload ==
    ASSUME MirrorTypeOK, SessionInv, DownloadInv, RecordsInv, NEW o \in Opener, OpenStep(o),
           Working(o)', CopyOf(o)' \notin raced'
    PROVE  WorkerOK(o)'
<1> DEFINE s == session[o]
           c == CopyOf(o)
           b == Here(o)[c]
<1>1. DiskOK /\ PlaceOK /\ RestOK
  BY TypeParts
<1>2. at'[o] # "idle" /\ at[o] # "idle"
  BY <1>1, Route DEF Working
<1>3. /\ s \in Session /\ s.root \in Root /\ c \in Copy /\ IndexOf(o) \in Index /\ s.ask.mode \in {"view", "edit"}
      /\ s.version \in 0..MaxVersion /\ s.version <= version
  BY <1>2, SessionFacts DEF DownloadInv
<1>4. session'[o].root = s.root /\ session'[o].ask = s.ask /\ session'[o].version = s.version
  BY <1>2, Route
<1>5. raced \subseteq raced'
  BY RacedGrows DEF MirrorNext
<1>6. CASE Choose(o)
  <2>1. PICK n \in 0..MaxSuffix :
          /\ session' = [session EXCEPT ![o] = [s EXCEPT !.name = n]]
          /\ \/ Here(o)[IndexOf(o)] # Absent /\ n = Here(o)[IndexOf(o)].name
             \/ Here(o)[IndexOf(o)] = Absent /\ Here(o)[[mode |-> s.ask.mode, name |-> n]] = Absent
          /\ IF /\ Here(o)[IndexOf(o)] # Absent
                /\ Here(o)[[mode |-> s.ask.mode, name |-> n]] # Absent
                /\ Keeps(o, [mode |-> s.ask.mode, name |-> n])
             THEN Move(o, "launch") ELSE Move(o, "truncate")
          /\ UNCHANGED disk
    <3>1. Here(o)[IndexOf(o)] # Absent => Here(o)[IndexOf(o)].name \in 0..MaxSuffix
      <4>1. Here(o)[IndexOf(o)] \in Record \cup {Absent}
        BY <1>1, <1>3 DEF DiskOK, Here
      <4> QED BY <4>1 DEF Record
    <3> QED BY <1>6, <3>1 DEF Choose, Free
  <2> DEFINE d == [mode |-> s.ask.mode, name |-> n]
  <2>2. session'[o] = [s EXCEPT !.name = n]
    BY <1>1, <2>1 DEF PlaceOK
  <2>3. CopyOf(o)' = d /\ Here(o)' = Here(o)
    BY <1>3, <1>4, <2>1, <2>2 DEF CopyOf, Session, Here
  <2>4. at'[o] = IF Here(o)[IndexOf(o)] # Absent /\ Here(o)[d] # Absent /\ Keeps(o, d)
                 THEN "launch" ELSE "truncate"
    BY <1>1, <2>1 DEF PlaceOK, Move
  <2>5. CASE at'[o] = "truncate"
    <3>1. Here(o)[d] = Absent \/ ~Keeps(o, d)
      BY <2>1, <2>4, <2>5
    <3>2. d.mode = s.ask.mode
      OBVIOUS
    <3>3. s.ask.action = "overwrite" \/ s.ask.mode = "view" \/ Here(o)[d] = Absent
      BY <3>1, <3>2 DEF Keeps
    <3> QED BY <1>4, <2>3, <2>5, <3>3 DEF WorkerOK
  <2>6. CASE at'[o] = "launch"
    <3>1. /\ Here(o)[IndexOf(o)] # Absent /\ n = Here(o)[IndexOf(o)].name /\ Keeps(o, d)
      BY <2>1, <2>4, <2>6
    <3>2. ASSUME s.ask.mode = "view" PROVE Genuine(Here(o)[d], s.version)
      <4>1. Unchanged(o)
        BY <3>1, <3>2 DEF Keeps
      <4>2. /\ Here(o)[IndexOf(o)].version = s.version
            /\ Here(o)[IndexOf(o)].digest = Here(o)[[mode |-> IndexOf(o).mode, name |-> n]]
        BY <3>1, <4>1 DEF Unchanged, Vouched, Here
      <4>3. IndexOf(o).mode = s.ask.mode
        BY DEF IndexOf
      <4>4. d \notin raced
        BY <1>5, <2>3
      <4> QED BY <1>3, <3>1, <4>2, <4>3, <4>4 DEF RecordsInv, Here
    <3> QED BY <1>4, <2>3, <2>6, <3>2 DEF WorkerOK
  <2> QED BY <2>4, <2>5, <2>6
<1>7. CASE ~Choose(o)
  <2>1. /\ at'[o] = "write" => Truncate(o) /\ session'[o] = s
        /\ at'[o] = "digest" => Write(o) /\ session'[o] = s
        /\ at'[o] = "record" => Digest(o) /\ CopyOf(o)' = c /\ session'[o].digest = b
        /\ at'[o] = "launch" => \/ Digest(o) /\ session'[o] = s /\ b = Absent
                                \/ WriteRecord(o) /\ session'[o] = s
        /\ at'[o] # "truncate"
    BY <1>2, <1>7, Route
  <2>2. CopyOf(o)' = c
    BY <2>1 DEF Working, CopyOf
  <2>3. Working(o)
    BY <2>1 DEF Working, Truncate, Write, Digest, WriteRecord, At
  <2>4. WorkerOK(o)
    BY <1>5, <2>2, <2>3 DEF DownloadInv
  <2>5. Here(o)'[c] = disk'[s.root][c]
    BY <1>4 DEF Here
  <2>6. CASE at'[o] = "write"
    <3>1. Put(s.root, c, Partial)
      BY <2>1, <2>6 DEF Truncate
    <3>2. disk'[s.root][c] = Partial
      BY <1>1, <1>3, <3>1, FilesDiffer, PutFile DEF Bytes
    <3> QED BY <2>2, <2>5, <2>6, <3>2 DEF WorkerOK
  <2>7. CASE at'[o] = "digest"
    <3>1. at[o] = "write" /\ Write(o)
      BY <2>1, <2>7 DEF Write, At
    <3>2. b # Absent
      BY <2>4, <3>1 DEF WorkerOK, Absent, Partial
    <3> DEFINE v == [served |-> version, size |-> 0]
    <3>3. Put(s.root, c, v)
      BY <3>1, <3>2 DEF Write
    <3>4. v \in Served /\ v \in Bytes
      BY <1>1 DEF Served, Bytes, RestOK
    <3>5. disk'[s.root][c] = v
      <4> HIDE DEF v
      <4> QED BY <1>1, <1>3, <3>3, <3>4, FilesDiffer, PutFile
    <3>6. Genuine(v, s.version)
      BY <1>1, <1>3, <3>4, MirrorAssumption DEF Genuine, RestOK
    <3> HIDE DEF v
    <3> QED BY <1>4, <2>2, <2>5, <2>7, <3>5, <3>6 DEF WorkerOK
  <2>8. CASE at'[o] = "record"
    <3>1. at[o] = "digest" /\ UNCHANGED disk
      BY <2>1, <2>8 DEF Digest, At
    <3>2. Genuine(b, s.version) /\ Here(o)'[c] = b
      BY <2>4, <2>5, <3>1 DEF WorkerOK, Here
    <3> QED BY <1>4, <2>1, <2>2, <2>8, <3>2 DEF WorkerOK
  <2>9. CASE at'[o] = "launch"
    <3>1. b # Absent \/ at[o] # "digest"
      BY <2>4 DEF WorkerOK, Genuine, Served, Absent
    <3>2. WriteRecord(o) /\ at[o] = "record"
      BY <2>1, <2>9, <3>1 DEF Digest, WriteRecord, At
    <3>3. disk'[s.root][c] = b
      BY <1>3, <3>2, CopyStep DEF Here
    <3>4. s.ask.mode = "view" => Genuine(b, s.version)
      BY <2>4, <3>2 DEF WorkerOK
    <3> QED BY <1>4, <2>2, <2>5, <2>9, <3>3, <3>4 DEF WorkerOK
  <2> QED BY <2>1, <2>6, <2>7, <2>8, <2>9 DEF Working
<1> QED BY <1>6, <1>7

\* A download at which nobody meets is not disturbed by others.
LEMMA OthersDownload ==
    ASSUME MirrorTypeOK, SessionInv, MeetInv, DownloadInv, NEW o \in Opener, OpenStep(o),
           NEW p \in Opener, p # o, Working(p)', CopyOf(p)' \notin raced'
    PROVE  WorkerOK(p)'
<1>1. at'[p] = at[p] /\ session'[p] = session[p]
  BY TypeParts, Alone
<1>2. Working(p) /\ CopyOf(p)' = CopyOf(p)
  BY <1>1 DEF Working, CopyOf
<1>3. CopyOf(p) \notin raced
  BY <1>2, RacedGrows DEF MirrorNext
<1>4. session[p].root \in Root /\ CopyOf(p) \in Copy
  BY <1>2, SessionFacts DEF Working
<1>5. Here(p)'[CopyOf(p)] = Here(p)[CopyOf(p)]
  BY <1>1, <1>2, <1>3, <1>4, Undisturbed DEF Here
<1> QED BY <1>1, <1>2, <1>3, <1>5 DEF DownloadInv, WorkerOK

\* Nor by a user who saves at another moment than while it is written.
LEMMA SaveDownload ==
    ASSUME MirrorTypeOK, DownloadInv, Save, NEW p \in Opener, Working(p)', CopyOf(p)' \notin raced'
    PROVE  WorkerOK(p)'
<1>1. UNCHANGED <<at, session>> /\ raced \subseteq raced'
  BY Outside
<1>2. Working(p) /\ CopyOf(p)' = CopyOf(p) /\ CopyOf(p) \notin raced /\ CopyOf(p) \notin raced'
  BY <1>1 DEF Working, CopyOf
<1>3. session[p].root \in Root /\ CopyOf(p) \in Copy /\ CopyOf(p).mode = session[p].ask.mode
  BY <1>2, SessionFacts DEF Working, CopyOf
<1>4. WorkerOK(p)
  BY <1>2 DEF DownloadInv
<1> DEFINE b == Here(p)[CopyOf(p)]
<1>5. Here(p)'[CopyOf(p)] = disk'[session[p].root][CopyOf(p)]
  BY <1>1 DEF Here
<1>6. CASE disk'[session[p].root][CopyOf(p)] = b
  BY <1>1, <1>2, <1>4, <1>5, <1>6 DEF WorkerOK
<1>7. CASE disk'[session[p].root][CopyOf(p)] # b
  <2>1. /\ CopyOf(p).mode = "edit" /\ b # Absent
        /\ at[p] \in {"write", "digest"} => CopyOf(p) \in raced'
    BY <1>3, <1>7, SaveStep DEF Here
  <2>2. at[p] \notin {"write", "digest"} /\ session[p].ask.mode = "edit"
    BY <1>2, <1>3, <2>1
  <2> QED BY <1>1, <1>2, <1>4, <2>1, <2>2 DEF WorkerOK
<1> QED BY <1>6, <1>7

\* Downloads stay what they are for.
LEMMA DownloadKeeps ==
    ASSUME MirrorTypeOK, SessionInv, MeetInv, DownloadInv, RecordsInv, MirrorNext
    PROVE  DownloadInv'
<1>1. ASSUME NEW o \in Opener, at'[o] # "idle" PROVE session'[o].version <= version'
  <2>1. version \in Nat /\ version' \in Nat /\ version <= version'
    BY VersionGrows
  <2>2. at[o] # "idle" => session[o].version \in Nat /\ session[o].version <= version
    BY SessionFacts, MirrorAssumption DEF DownloadInv
  <2>3. ASSUME OpenStep(o) PROVE session'[o].version \in {version, session[o].version}
                                 /\ (at[o] = "idle" => session'[o].version = version)
    BY <1>1, <2>3, Route
  <2>4. ASSUME NEW p \in Opener, p # o, OpenStep(p) PROVE at'[o] = at[o] /\ session'[o] = session[o]
    BY <2>4, TypeParts, Alone
  <2>5. ASSUME Save \/ NewVersion \/ Drive PROVE at'[o] = at[o] /\ session'[o] = session[o]
    BY <2>5, Outside
  <2>6. CASE OpenStep(o)
    BY <2>1, <2>2, <2>3, <2>6
  <2>7. CASE ~OpenStep(o)
    <3>1. at'[o] = at[o] /\ session'[o] = session[o]
      BY <2>4, <2>5, <2>7 DEF MirrorNext
    <3> QED BY <1>1, <2>1, <2>2, <3>1
  <2> QED BY <2>6, <2>7
<1>2. ASSUME NEW p \in Opener, Working(p)', CopyOf(p)' \notin raced' PROVE WorkerOK(p)'
  <2>1. ASSUME NEW o \in Opener, OpenStep(o) PROVE WorkerOK(p)'
    BY <1>2, <2>1, OwnDownload, OthersDownload
  <2>2. CASE Save
    BY <1>2, <2>2, SaveDownload
  <2>3. CASE NewVersion \/ Drive
    <3>1. UNCHANGED <<at, session, disk>> /\ raced \subseteq raced'
      BY <2>3, Outside DEF NewVersion, Drive
    <3>2. Working(p) /\ CopyOf(p) \notin raced
      BY <1>2, <3>1 DEF Working, CopyOf
    <3> QED BY <3>1, <3>2 DEF DownloadInv, WorkerOK, Here, CopyOf
  <2> QED BY <2>1, <2>2, <2>3 DEF MirrorNext
<1> QED BY <1>1, <1>2 DEF DownloadInv

\* Records stay true.
LEMMA RecordsKeep ==
    ASSUME MirrorTypeOK, SessionInv, DownloadInv, RecordsInv, MirrorNext
    PROVE  RecordsInv'
<1>1. raced \subseteq raced'
  BY RacedGrows
<1>2. ASSUME NEW r \in Root, NEW i \in Index, disk'[r][i] # Absent,
             [mode |-> i.mode, name |-> disk'[r][i].name] \notin raced'
      PROVE  Genuine(disk'[r][i].digest, disk'[r][i].version)
  <2>1. ASSUME NEW q \in Root, disk'[r][i] = disk[q][i]
        PROVE  Genuine(disk'[r][i].digest, disk'[r][i].version)
    BY <1>1, <1>2, <2>1 DEF RecordsInv
  <2>2. ASSUME NEW o \in Opener, OpenStep(o), at[o] = "record", i = IndexOf(o),
               disk'[r][i] = [name |-> session[o].name, version |-> session[o].version,
                              digest |-> session[o].digest]
        PROVE  Genuine(disk'[r][i].digest, disk'[r][i].version)
    <3>1. [mode |-> i.mode, name |-> disk'[r][i].name] = CopyOf(o)
      BY <2>2 DEF CopyOf, IndexOf
    <3>2. Working(o) /\ CopyOf(o) \notin raced
      BY <1>1, <1>2, <2>2, <3>1 DEF Working
    <3>3. Genuine(session[o].digest, session[o].version)
      BY <2>2, <3>2 DEF DownloadInv, WorkerOK
    <3> QED BY <2>2, <3>3
  <2>3. ASSUME NEW o \in Opener, OpenStep(o) PROVE Genuine(disk'[r][i].digest, disk'[r][i].version)
    <3>1. \/ disk'[r][i] = disk[r][i]
          \/ session[o].source \in Root /\ disk'[r][i] = disk[session[o].source][i]
          \/ /\ at[o] = "record" /\ i = IndexOf(o)
             /\ disk'[r][i] = [name |-> session[o].name, version |-> session[o].version,
                               digest |-> session[o].digest]
      BY <1>2, <2>3, RecordStep
    <3>2. CASE disk'[r][i] = disk[r][i]
      BY <2>1, <3>2
    <3>3. CASE session[o].source \in Root /\ disk'[r][i] = disk[session[o].source][i]
      BY <2>1, <3>3
    <3> QED BY <2>2, <2>3, <3>1, <3>2, <3>3
  <2>4. CASE Save
    <3>1. PICK q \in Root, c \in Copy : \E b : Put(q, c, b)
      BY <2>4 DEF Save
    <3>2. disk'[r][i] = disk[r][i]
      <4>1. DiskOK /\ c \in Item /\ i \in Item /\ c # i
        BY TypeParts, FilesDiffer
      <4>2. disk[q] = [j \in Item |-> disk[q][j]] /\ DOMAIN disk = Root
        BY <4>1 DEF DiskOK
      <4> QED BY <3>1, <4>1, <4>2 DEF Put
    <3> QED BY <2>1, <3>2
  <2>5. CASE NewVersion \/ Drive
    BY <2>1, <2>5 DEF NewVersion, Drive
  <2> QED BY <2>3, <2>4, <2>5 DEF MirrorNext
<1>3. ASSUME NEW r \in Root, NEW c \in Copy, c.mode = "view" PROVE ~Work(disk'[r][c])
  <2>0. /\ ~Work(Partial) /\ ~Work(Absent)
        /\ ~Work([served |-> version, size |-> 0])
    BY DEF Work, Saved, Partial, Absent
  <2>1. ASSUME NEW o \in Opener, OpenStep(o) PROVE ~Work(disk'[r][c])
    <3>1. at[o] = "copy" => session[o].source \in Root
      BY DEF SessionInv, Adopting
    <3>2. \A q \in Root : ~Work(disk[q][c])
      BY <1>3 DEF RecordsInv
    <3> HIDE DEF Work
    <3> QED BY <2>0, <2>1, <3>1, <3>2, CopyStep
  <2>2. CASE Save
    BY <1>3, <2>2, SaveStep DEF RecordsInv
  <2>3. CASE NewVersion \/ Drive
    BY <1>3, <2>3 DEF RecordsInv, NewVersion, Drive
  <2> QED BY <2>1, <2>2, <2>3 DEF MirrorNext
<1> QED BY <1>2, <1>3 DEF RecordsInv

\* What the process that carries the mirror does.
LEMMA OwnCarry ==
    ASSUME MirrorTypeOK, SessionInv, CarryInv, NEW o \in Opener, OpenStep(o), Adopting(o)'
    PROVE  Carries(o)'
<1> DEFINE r == session[o].root
           s == session'[o].source
<1>1. DiskOK /\ PlaceOK /\ RestOK /\ raced \subseteq raced'
  BY TypeParts, RacedGrows DEF MirrorNext
<1>2. at'[o] # "idle" /\ at[o] # "idle" /\ r \in Root /\ session'[o].root = r
  BY <1>1, Route, SessionFacts DEF Adopting
<1>3. drive' = drive
  BY <1>2, Route DEF Adopting, Adopt, CopyMirror, Verify, OpenStep, Claim, CopyFails, RemoveMirror, Mark,
     Choose, Truncate, Write, WriteFails, Digest, WriteRecord, Launch, EndOpen
<1>4. CASE Adopt(o) /\ at'[o] = "copy"
  <2>1. at[o] = "adopt" /\ Readable(r) /\ s = AdoptSource(r)
    BY <1>2, <1>4, Route DEF Adopt, At
  <2>2. s # "none" /\ Held(s) # {} /\ Held(r) = {} /\ UNCHANGED disk
    BY <1>1, <1>4, <2>1 DEF Adopt, Move, PlaceOK
  <2>3. s \in Root \ {r}
    BY <1>1, <1>2, <2>1, <2>2, SourceIsOther DEF RestOK
  <2>4. s = "preferred" => drive # "gone"
    BY <2>2 DEF Held, Readable
  <2>5. \A c \in Copy : disk'[r][c] = Absent
    BY <2>1, <2>2, FilesDiffer DEF Held
  <2> QED BY <1>2, <1>3, <1>4, <2>3, <2>4, <2>5 DEF Carries
<1>5. CASE ~(Adopt(o) /\ at'[o] = "copy")
  <2>1. /\ Adopting(o) /\ session'[o] = session[o]
        /\ \/ at[o] = "copy" /\ at'[o] \in {"copy", "verify"}
           \/ at[o] = "verify" /\ at'[o] = "remove" /\ Verify(o)
    BY <1>2, <1>5, Route DEF Adopting, Verify, At
  <2>2. Carries(o) /\ s \in Root \ {r} /\ s = session[o].source
    BY <2>1 DEF CarryInv, Carries
  <2>3. ASSUME at[o] = "copy" PROVE Carries(o)'
    <3>1. at'[o] # "remove"
      BY <2>1, <2>3
    <3>2. ASSUME NEW c \in Copy
          PROVE  /\ disk'[s][c] = disk[s][c]
                 /\ \/ disk'[r][c] = disk[r][c]
                    \/ disk'[r][c] = disk[s][c]
      BY <1>2, <2>2, <2>3, CopyStep
    <3>3. s = "preferred" /\ drive' = "gone" => \A c \in Copy : disk'[s][c] # Absent => c \in raced'
      BY <1>1, <1>3, <2>2, <3>2 DEF Carries
    <3>4. ASSUME NEW c \in Copy \ raced', Work(disk'[s][c])
          PROVE  \/ disk'[r][c] \in {Absent, disk'[s][c]}
                 \/ Size(c, disk'[r][c]) # Size(c, disk'[s][c])
      BY <1>1, <2>2, <3>2, <3>4 DEF Carries
    <3> QED BY <1>2, <2>2, <3>1, <3>3, <3>4 DEF Carries
  <2>4. ASSUME at[o] = "verify" PROVE Carries(o)'
    <3>1. /\ at'[o] = "remove" /\ UNCHANGED disk
          /\ \A i \in Held(s) : i \in Held(r) /\ Size(i, disk[r][i]) = Size(i, disk[s][i])
      BY <1>1, <2>1, <2>2, <2>4 DEF Verify, Moved, Move, PlaceOK
    <3>2. ASSUME NEW c \in Copy \ raced', Work(disk[s][c]) PROVE disk[r][c] = disk[s][c]
      <4>1. disk[s][c] # Absent /\ c \notin raced
        BY <1>1, <3>2 DEF Work, Saved, Absent
      <4>2. Readable(s)
        BY <2>2, <4>1 DEF Carries, Readable, Root
      <4>3. c \in Held(s)
        BY <4>1, <4>2, FilesDiffer DEF Held
      <4>4. disk[r][c] # Absent /\ Size(c, disk[r][c]) = Size(c, disk[s][c])
        BY <3>1, <4>3 DEF Held
      <4> QED BY <2>2, <3>2, <4>1, <4>4 DEF Carries
    <3> QED BY <1>1, <1>2, <1>3, <2>2, <3>1, <3>2 DEF Carries
  <2> QED BY <2>1, <2>3, <2>4
<1> QED BY <1>4, <1>5

\* Others, without having met it, leave the copies on both sides alone.
LEMMA OthersCarry ==
    ASSUME MirrorTypeOK, SessionInv, MeetInv, CarryInv, NEW o \in Opener, OpenStep(o),
           NEW p \in Opener, p # o, Adopting(p)'
    PROVE  Carries(p)'
<1>1. raced \subseteq raced' /\ at'[p] = at[p] /\ session'[p] = session[p]
  BY TypeParts, Alone, RacedGrows DEF MirrorNext
<1>2. Adopting(p) /\ Carries(p) /\ session[p].root \in Root
  BY <1>1, SessionFacts DEF Adopting, CarryInv
<1> DEFINE r == session[p].root
           s == session[p].source
<1>3. s \in Root \ {r}
  BY <1>2 DEF Carries
<1>4. \A c \in Copy \ raced : disk'[r][c] = disk[r][c] /\ disk'[s][c] = disk[s][c]
  BY <1>2, <1>3, Undisturbed
<1>5. drive' = drive
  BY DEF OpenStep, Claim, Adopt, CopyMirror, Verify, CopyFails, RemoveMirror, Mark, Choose,
         Truncate, Write, WriteFails, Digest, WriteRecord, Launch, EndOpen
<1>6. s = "preferred" /\ drive' = "gone" => \A c \in Copy : disk'[s][c] # Absent => c \in raced'
  BY <1>1, <1>2, <1>4, <1>5 DEF Carries
<1>7. ASSUME NEW c \in Copy \ raced', Work(disk'[s][c])
      PROVE  /\ at[p] = "remove" => disk'[r][c] = disk'[s][c]
             /\ \/ disk'[r][c] \in {Absent, disk'[s][c]}
                \/ Size(c, disk'[r][c]) # Size(c, disk'[s][c])
  BY <1>1, <1>2, <1>4, <1>7 DEF Carries
<1> QED BY <1>1, <1>3, <1>6, <1>7 DEF Carries

\* A save that verifyMirror can see makes a difference that verifyMirror sees.
LEMMA SaveCarry ==
    ASSUME MirrorTypeOK, CarryInv, Save, NEW p \in Opener, Adopting(p)'
    PROVE  Carries(p)'
<1>1. raced \subseteq raced' /\ at' = at /\ session' = session /\ drive' = drive
  BY Outside DEF Save
<1>2. Adopting(p) /\ Carries(p) /\ session[p].root \in Root
  BY <1>1, SessionFacts DEF Adopting, CarryInv
<1> DEFINE r == session[p].root
           s == session[p].source
<1>3. s \in Root \ {r}
  BY <1>2 DEF Carries
<1>4. ASSUME NEW c \in Copy, c \notin raced', NEW q \in Root, disk'[q][c] # disk[q][c]
      PROVE  /\ disk[q][c] # Absent /\ disk'[q][c] \in Saved
             /\ \A t \in Root \ {q} : disk'[t][c] = disk[t][c]
             /\ at[p] # "remove"
             /\ \A t \in Root \ {q} : disk[t][c] = Absent \/ Size(c, disk[t][c]) # disk'[q][c].size
  <2>1. /\ disk[q][c] # Absent /\ disk'[q][c] \in Saved
        /\ \A t \in Root \ {q} : disk'[t][c] = disk[t][c]
        /\ ~Unnoticed(q, c, disk'[q][c].size)
    BY <1>4, SaveStep
  <2> QED BY <1>2, <2>1 DEF Unnoticed
<1>5. \A c \in Copy, b \in Saved : Size(c, b) = b.size
  BY DEF Size, Saved, Partial
<1>6. s = "preferred" /\ drive' = "gone" => \A c \in Copy : disk'[s][c] # Absent => c \in raced'
  BY <1>1, <1>2, <1>3, <1>4 DEF Carries
<1>7. ASSUME NEW c \in Copy \ raced', Work(disk'[s][c])
      PROVE  /\ at[p] = "remove" => disk'[r][c] = disk'[s][c]
             /\ \/ disk'[r][c] \in {Absent, disk'[s][c]}
                \/ Size(c, disk'[r][c]) # Size(c, disk'[s][c])
  <2>1. CASE disk'[s][c] # disk[s][c]
    <3>1. /\ disk'[r][c] = disk[r][c] /\ at[p] # "remove" /\ disk'[s][c] \in Saved
          /\ disk[r][c] = Absent \/ Size(c, disk[r][c]) # disk'[s][c].size
      BY <1>2, <1>3, <1>4, <1>7, <2>1
    <3>2. Size(c, disk'[s][c]) = disk'[s][c].size
      BY <1>5, <3>1
    <3> QED BY <3>1, <3>2
  <2>2. CASE disk'[s][c] = disk[s][c] /\ disk'[r][c] # disk[r][c]
    <3>1. /\ at[p] # "remove" /\ disk'[r][c] \in Saved
          /\ disk[s][c] = Absent \/ Size(c, disk[s][c]) # disk'[r][c].size
      BY <1>2, <1>3, <1>4, <1>7, <2>2
    <3>2. Size(c, disk'[r][c]) = disk'[r][c].size
      BY <1>5, <3>1
    <3>3. disk[s][c] # Absent
      BY <1>7, <2>2 DEF Work, Saved, Absent
    <3> QED BY <2>2, <3>1, <3>2, <3>3
  <2>3. CASE disk'[s][c] = disk[s][c] /\ disk'[r][c] = disk[r][c]
    BY <1>1, <1>2, <1>7, <2>3 DEF Carries
  <2> QED BY <2>1, <2>2, <2>3
<1> QED BY <1>1, <1>3, <1>6, <1>7 DEF Carries

\* A mirror that is carried over arrives, or stays where it was.
LEMMA CarryKeeps ==
    ASSUME MirrorTypeOK, SessionInv, MeetInv, CarryInv, MirrorNext
    PROVE  CarryInv'
<1> SUFFICES ASSUME NEW p \in Opener, Adopting(p)' PROVE Carries(p)'
  BY DEF CarryInv
<1>1. ASSUME NEW o \in Opener, OpenStep(o) PROVE Carries(p)'
  BY <1>1, OwnCarry, OthersCarry
<1>2. CASE Save
  BY <1>2, SaveCarry
<1>3. CASE NewVersion
  <2>1. UNCHANGED <<disk, drive, at, session, raced>>
    BY <1>3 DEF NewVersion
  <2>2. Carries(p)
    BY <2>1 DEF CarryInv, Adopting
  <2> QED BY <2>1, <2>2 DEF Carries, Size
<1>4. CASE Drive
  <2>1. UNCHANGED <<disk, at, session>> /\ raced \subseteq raced' /\ drive' # drive
    BY <1>4, Outside DEF Drive
  <2>2. Adopting(p) /\ Carries(p)
    BY <2>1 DEF CarryInv, Adopting
  <2>3. ASSUME session[p].source = "preferred", drive' = "gone", NEW c \in Copy, disk["preferred"][c] # Absent
        PROVE  c \in raced'
    <3>1. c \in Held("preferred")
      BY <2>1, <2>3, FilesDiffer DEF Held, Readable
    <3> QED BY <1>4, <2>2, <2>3, <3>1 DEF Drive
  <2> QED BY <2>1, <2>2, <2>3 DEF Carries, Size
<1> QED BY <1>1, <1>2, <1>3, <1>4 DEF MirrorNext

MirrorInv == MirrorTypeOK /\ SessionInv /\ MeetInv /\ DownloadInv /\ RecordsInv /\ CarryInv

\* The mirror begins empty, and nobody works on it.
LEMMA MirrorStart == MirrorInit => MirrorInv
<1> SUFFICES ASSUME MirrorInit PROVE MirrorInv
  OBVIOUS
<1>1. /\ \A o \in Opener : at[o] = "idle" /\ ~Working(o) /\ ~Adopting(o)
      /\ \A r \in Root, i \in Item : disk[r][i] = Absent
      /\ DOMAIN disk = Root /\ \A r \in Root : disk[r] = [i \in Item |-> disk[r][i]]
  BY DEF MirrorInit, Working, Adopting
<1>2. MirrorTypeOK
  BY <1>1, FilesDiffer, MirrorAssumption DEF MirrorInit, MirrorTypeOK, Step
<1>3. SessionInv /\ MeetInv /\ DownloadInv /\ CarryInv
  BY <1>1 DEF SessionInv, MeetInv, DownloadInv, CarryInv
<1>4. RecordsInv
  BY <1>1, FilesDiffer DEF RecordsInv, Work, Saved, Absent
<1> QED BY <1>2, <1>3, <1>4 DEF MirrorInv

\* The invariant of the mirror holds in every state of the agent.
THEOREM MirrorInvariant == AgentSpec => []MirrorInv
<1>1. AgentInit => MirrorInv
  BY MirrorStart DEF AgentInit
<1>2. [Entry]_<<used, uploadVars, mirrorVars, updateVars>> => [MirrorNext]_mirrorVars
  BY DEF Entry
<1>3. MirrorInv /\ [MirrorNext]_mirrorVars => MirrorInv'
  <2>1. ASSUME MirrorInv, MirrorNext PROVE MirrorInv'
    <3>1. MirrorTypeOK'
      BY <2>1, AdoptTypes, OpenTypes, OutsideTypes DEF MirrorInv, MirrorNext, OpenStep
    <3> QED BY <2>1, <3>1, SessionKeeps, MeetKeeps, DownloadKeeps, RecordsKeep, CarryKeeps DEF MirrorInv
  <2>2. ASSUME MirrorInv, UNCHANGED mirrorVars PROVE MirrorInv'
    <3>1. (MirrorTypeOK /\ SessionInv)' /\ MeetInv'
      BY <2>2 DEF mirrorVars, MirrorInv, MirrorTypeOK, SessionInv, MeetInv, Working, Adopting, CopyOf
    <3>2. DownloadInv' /\ RecordsInv'
      BY <2>2 DEF mirrorVars, MirrorInv, DownloadInv, RecordsInv, WorkerOK, Here, Working, CopyOf
    <3>3. CarryInv'
      BY <2>2 DEF mirrorVars, MirrorInv, CarryInv, Carries, Adopting, Size
    <3> QED BY <3>1, <3>2, <3>3 DEF MirrorInv
  <2> QED BY <2>1, <2>2
<1> QED BY <1>1, <1>2, <1>3, PTL DEF AgentSpec

\* Every variable of the agent keeps to its type.
THEOREM AgentTypes == AgentSpec => []AgentTypeOK
<1>1. AgentSpec => [](used \subseteq Kind)
  <2>1. AgentInit => used \subseteq Kind
    BY DEF AgentInit
  <2>2. used \subseteq Kind /\ [Entry]_<<used, uploadVars, mirrorVars, updateVars>> => (used \subseteq Kind)'
    BY DEF Entry
  <2> QED BY <2>1, <2>2, PTL DEF AgentSpec
<1>2. AgentSpec => []UpdateTypeOK
  <2>1. AgentInit => UpdateTypeOK
    BY InstallStart DEF AgentInit, InstallInv
  <2>2. UpdateTypeOK /\ [Entry]_<<used, uploadVars, mirrorVars, updateVars>> => UpdateTypeOK'
    BY UpdateTypes DEF Entry, updateVars, UpdateTypeOK, fixed, agent, extension
  <2> QED BY <2>1, <2>2, PTL DEF AgentSpec
<1>3. UploadInv /\ MirrorInv /\ UpdateTypeOK /\ used \subseteq Kind => AgentTypeOK
  BY DEF UploadInv, UploadBase, MirrorInv, AgentTypeOK
<1> QED BY <1>1, <1>2, <1>3, UploadInvariant, MirrorInvariant, PTL

\* A copy that a record vouches for was served, and a copy opened for viewing is whole
\* and as new as its session, unless two processes have met at it.
THEOREM TrustIsEarned == AgentSpec => []TrustedIsServed
<1>1. MirrorInv => TrustedIsServed
  <2> SUFFICES ASSUME MirrorInv PROVE TrustedIsServed
    OBVIOUS
  <2>1. ASSUME NEW r \in Root, NEW i \in Index, Vouched(r, i),
               [mode |-> i.mode, name |-> disk[r][i].name] \notin raced
        PROVE  ~Work(disk[r][i].digest)
    <3>1. disk[r][i].digest \in Served
      BY <2>1 DEF Vouched, MirrorInv, RecordsInv, Genuine
    <3> QED BY <3>1 DEF Work, Served, Saved
  <2>2. ASSUME NEW o \in Opener, at[o] = "launch", session[o].ask.mode = "view", CopyOf(o) \notin raced
        PROVE  Genuine(Here(o)[CopyOf(o)], session[o].version)
    BY <2>2 DEF MirrorInv, DownloadInv, WorkerOK, Working
  <2> QED BY <2>1, <2>2 DEF TrustedIsServed, Genuine
<1> QED BY <1>1, MirrorInvariant, PTL

\* In one step no process takes the last copy of what the user has saved, and a
\* save replaces it only by another one.
LEMMA StepKeepsWork ==
    ASSUME MirrorInv, MirrorNext, NEW r \in Root, NEW c \in Copy, Loses(r, c)
    PROVE  Asked(r, c) \/ c \in raced
<1> USE DEF MirrorInv
<1> DEFINE b == disk[r][c]
<1>1. b \in Saved /\ disk'[r][c] \notin Saved /\ disk'[r][c] # b /\ \A q \in Root : disk'[q][c] # b
  BY DEF Loses, Work
<1>2. b # Absent /\ b # Partial
  BY <1>1 DEF Saved, Absent, Partial
<1>3. ASSUME NEW o \in Opener, OpenStep(o), c \notin raced PROVE Asked(r, c)
  <2>1. CASE at[o] = "truncate" /\ r = session[o].root /\ c = CopyOf(o)
    <3>1. WorkerOK(o) /\ Here(o)[CopyOf(o)] = b
      BY <1>3, <2>1 DEF DownloadInv, Working, Here
    <3>2. session[o].ask.mode # "view"
      BY <1>1, <2>1 DEF RecordsInv, Work, CopyOf
    <3> QED BY <1>2, <2>1, <3>1, <3>2 DEF WorkerOK, Asked
  <2>2. CASE at[o] = "write" /\ r = session[o].root /\ c = CopyOf(o)
    <3>1. WorkerOK(o) /\ Here(o)[CopyOf(o)] = b
      BY <1>3, <2>2 DEF DownloadInv, Working, Here
    <3> QED BY <1>2, <2>2, <3>1 DEF WorkerOK
  <2>3. CASE at[o] = "remove" /\ RemoveMirror(o) /\ r = session[o].source
    <3>1. Carries(o) /\ session[o].root \in Root
      BY <2>3, SessionFacts DEF CarryInv, Adopting
    <3>2. disk[session[o].root][c] = b /\ session[o].root # r
      BY <1>1, <1>3, <2>3, <3>1 DEF Carries, Work
    <3>3. disk'[session[o].root][c] = b
      BY <1>3, <2>3, <3>1, <3>2, CopyStep
    <3> QED BY <1>1, <3>1, <3>3
  <2> QED BY <1>1, <1>2, <1>3, <2>1, <2>2, <2>3, CopyStep
<1>4. CASE Save
  BY <1>1, <1>4, SaveStep
<1>5. CASE NewVersion \/ Drive
  BY <1>1, <1>5 DEF NewVersion, Drive
<1> QED BY <1>3, <1>4, <1>5 DEF MirrorNext

\* Opening files again, carrying the mirror over and ending at any moment never cost
\* the user work that was not given up, as long as no two have met at that copy.
THEOREM WorkStays == AgentSpec => WorkIsKept
<1> DEFINE Kept == \A r \in Root, c \in Copy : Loses(r, c) => Asked(r, c) \/ c \in raced
<1>1. [Entry]_<<used, uploadVars, mirrorVars, updateVars>> => [MirrorNext]_mirrorVars
  BY DEF Entry
<1>2. MirrorInv /\ [MirrorNext]_mirrorVars => [Kept]_mirrorVars
  BY StepKeepsWork
<1> HIDE DEF Kept
<1>3. AgentSpec => [][Kept]_mirrorVars
  BY <1>1, <1>2, MirrorInvariant, PTL DEF AgentSpec
<1> QED BY <1>3 DEF WorkIsKept, Kept
=============================================================================
