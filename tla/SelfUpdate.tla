----------------------------- MODULE SelfUpdate -----------------------------
(***************************************************************************)
(* The self-update of the Go agent (internal/update, main.go).             *)
(*                                                                         *)
(* The browser starts whatever the manifest of the native host names, and  *)
(* an "update" message starts that binary once more with --update; a user  *)
(* may do so, too.  Updates of the agent exclude each other by a directory,*)
(* updates of the extension by nothing.  A version is a number, the one    *)
(* that the installer left is 0, and the releases of the feed follow.      *)
(***************************************************************************)
EXTENDS Integers

CONSTANTS
    Updater,        \* processes
    MaxRelease      \* bound: newest release

ASSUME SelfUpdateAssumption == MaxRelease \in Nat \ {0}

VARIABLES
    platform,       \* darwin checks signatures and the registered version
    feed,           \* what update.json offers
    genuine,        \* releases that the pinned key has signed
    healthy,        \* releases whose binary starts and answers
    bin,            \* bin/cloudfile-local-agent-<version>
    registered,     \* the version the manifest of the native host names
    previous,       \* the version that previous-native-host.json names
    locked,         \* .install-lock
    ext, prior,     \* the version in extension/ and in extension.prior/, or NoExt
    result,         \* update-result.json
    phase, want     \* where each process is, and with which release

fixed == <<platform, genuine, healthy>>
agent == <<bin, registered, previous, locked>>
extension == <<ext, prior>>
updateVars == <<fixed, feed, agent, extension, result, phase, want>>

Number == 0..MaxRelease
NoExt == -1
AgentPhase == {"lock", "check", "remember", "download", "health", "swap", "unlock"}
ExtPhase == {"unpack", "aside", "rename", "first", "restore", "clean"}

UpdateTypeOK ==
    /\ platform \in {"darwin", "other"}
    /\ feed \in Number /\ registered \in Number /\ previous \in Number
    /\ genuine \subseteq Number /\ healthy \subseteq Number
    /\ bin \in [Number -> {"absent", "right", "wrong"}]
    /\ locked \in BOOLEAN
    /\ {ext, prior} \subseteq Number \cup {NoExt}
    /\ result \in {"none", "running", "completed", "failed"}
    /\ phase \in [Updater -> {"idle"} \cup AgentPhase \cup ExtPhase]
    /\ want \in [Updater -> Number]

UpdateInit ==
    /\ platform \in {"darwin", "other"}
    /\ feed = 0
    /\ genuine \in {S \cup {0} : S \in SUBSET (1..MaxRelease)}
    /\ healthy \in {S \cup {0} : S \in SUBSET (1..MaxRelease)}
    /\ bin \in [Number -> {"absent", "right", "wrong"}]
    /\ bin[0] = "right" /\ \A v \in 1..MaxRelease : bin[v] # "right"
    /\ registered = 0 /\ previous = 0
    /\ locked = FALSE
    /\ ext = 0 /\ prior = NoExt
    /\ result = "none"
    /\ phase = [u \in Updater |-> "idle"]
    /\ want = [u \in Updater |-> 0]

Enter(u, f) == phase' = [phase EXCEPT ![u] = f]
Leave(u) == Enter(u, "idle") /\ want' = [want EXCEPT ![u] = 0]
Tell(s) == result' = IF platform = "darwin" THEN s ELSE result

\* What --update finds in the feed: the release must be newer than the binary that
\* runs, which need not be the registered one.
Newer(v) == \E own \in Number : bin[own] = "right" /\ own < v

\* Releases for darwin are signed; elsewhere the digest in the feed is all there is.
VerifyRelease(v) == platform = "darwin" => v \in genuine

\* The release that the feed offers, if it is accepted.
Fetched == {v \in {feed} : VerifyRelease(v)}

-------------------------------------------------------------------------------
(* --update                                                                *)

\* The host says "running" and starts the child, which fetches the release.
StartUpdate(u) ==
    /\ phase[u] = "idle"
    /\ \E v \in Fetched : Newer(v) /\ want' = [want EXCEPT ![u] = v]
    /\ Tell("running")
    /\ Enter(u, "lock")
    /\ UNCHANGED <<fixed, feed, agent, extension>>

InstallLock(u) ==
    /\ phase[u] = "lock" /\ ~locked
    /\ locked' = TRUE
    /\ Enter(u, IF platform = "darwin" THEN "check" ELSE "download")
    /\ UNCHANGED <<fixed, feed, bin, registered, previous, extension, result, want>>

\* Mutant: the version that was compared before the lock was taken is good enough.
CheckNothing(u) ==
    /\ phase[u] = "check"
    /\ Enter(u, "remember")
    /\ UNCHANGED <<fixed, feed, agent, extension, result, want>>

\* On darwin the registered binary is asked for its version, under the lock.
CheckActive(u) ==
    /\ phase[u] = "check"
    /\ Enter(u, IF want[u] > registered THEN "remember" ELSE "unlock")
    /\ UNCHANGED <<fixed, feed, agent, extension, result, want>>

RememberPrevious(u) ==
    /\ phase[u] = "remember"
    /\ previous' = registered
    /\ Enter(u, "download")
    /\ UNCHANGED <<fixed, feed, bin, registered, locked, extension, result, want>>

\* The digest decides; a file with another digest is never replaced.
DownloadBinary(u) ==
    /\ phase[u] = "download" /\ bin[want[u]] # "wrong"
    /\ bin' = [bin EXCEPT ![want[u]] = "right"]
    /\ Enter(u, "health")
    /\ UNCHANGED <<fixed, feed, registered, previous, locked, extension, result, want>>

CheckExecutable(u) ==
    /\ phase[u] = "health" /\ want[u] \in healthy
    /\ Enter(u, "swap")
    /\ UNCHANGED <<fixed, feed, agent, extension, result, want>>

\* The manifest is replaced by a rename; no old binary is removed.
SwapManifest(u) ==
    /\ phase[u] = "swap"
    /\ registered' = want[u]
    /\ Enter(u, "unlock")
    /\ UNCHANGED <<fixed, feed, bin, previous, locked, extension, result, want>>

Unlock(u) ==
    /\ phase[u] = "unlock"
    /\ locked' = FALSE
    /\ Tell("completed")
    /\ Leave(u)
    /\ UNCHANGED <<fixed, feed, bin, registered, previous, extension>>

-------------------------------------------------------------------------------
(* --update-extension                                                      *)

\* An extension that cannot be read is older than any.
StartExtension(u) ==
    /\ phase[u] = "idle"
    /\ \E v \in Fetched : v > ext /\ want' = [want EXCEPT ![u] = v]
    /\ Tell("running")
    /\ Enter(u, "unpack")
    /\ UNCHANGED <<fixed, feed, agent, extension>>

\* The release is not newer than what asks, or than the extension, or is not accepted.
NothingNewer(u) ==
    /\ phase[u] = "idle"
    /\ \/ \E v \in Fetched, own \in Number : bin[own] = "right" /\ v <= own /\ Tell("completed")
       \/ \E v \in Fetched : v <= ext /\ Tell("completed")
       \/ Fetched = {} /\ Tell("failed")
    /\ UNCHANGED <<fixed, feed, agent, ext, prior, phase, want>>

\* The archive is verified and unpacked aside; a backup that is there stops it.
UnpackExtension(u) ==
    /\ phase[u] = "unpack" /\ prior = NoExt
    /\ Enter(u, "aside")
    /\ UNCHANGED <<fixed, feed, agent, extension, result, want>>

\* A directory is not renamed over one that has files.
MoveAside(u) ==
    /\ phase[u] = "aside"
    /\ ext # NoExt => prior = NoExt
    /\ prior' = IF ext # NoExt THEN ext ELSE prior
    /\ ext' = NoExt
    /\ Enter(u, IF ext # NoExt THEN "rename" ELSE "first")
    /\ UNCHANGED <<fixed, feed, agent, result, want>>

\* The new extension takes its place, or the old one returns.
RenameNew(u) ==
    /\ phase[u] = "rename"
    /\ \/ ext = NoExt /\ ext' = want[u] /\ Enter(u, "clean")
       \/ UNCHANGED ext /\ Enter(u, "restore")
    /\ UNCHANGED <<fixed, feed, agent, prior, result, want>>

\* Without one to set aside there is nothing to remove afterwards.
RenameFirst(u) ==
    /\ phase[u] = "first"
    /\ \/ ext = NoExt /\ ext' = want[u] /\ Tell("completed")
       \/ UNCHANGED ext /\ Tell("failed")
    /\ Leave(u)
    /\ UNCHANGED <<fixed, feed, agent, prior>>

RestoreOld(u) ==
    /\ phase[u] = "restore"
    /\ IF ext = NoExt /\ prior # NoExt
       THEN ext' = prior /\ prior' = NoExt
       ELSE UNCHANGED <<extension>>
    /\ Tell("failed")
    /\ Leave(u)
    /\ UNCHANGED <<fixed, feed, agent>>

RemovePrior(u) ==
    /\ phase[u] = "clean"
    /\ prior' = NoExt
    /\ Tell("completed")
    /\ Leave(u)
    /\ UNCHANGED <<fixed, feed, agent, ext>>

-------------------------------------------------------------------------------
(* Errors, the end of a process, and what others do                        *)

\* An error gives the lock back and says so.
UpdateFails(u) ==
    /\ phase[u] # "idle" /\ phase[u] \notin {"rename", "first", "restore", "clean"}
    /\ locked' = IF phase[u] \in AgentPhase \ {"lock"} THEN FALSE ELSE locked
    /\ Tell("failed")
    /\ Leave(u)
    /\ UNCHANGED <<fixed, feed, bin, registered, previous, extension>>

\* The process ends: the directory stays, and so does "running".
UpdateDies(u) ==
    /\ phase[u] # "idle"
    /\ Leave(u)
    /\ UNCHANGED <<fixed, feed, agent, extension, result>>

Offer ==
    /\ feed' \in Number \ {feed}
    /\ UNCHANGED <<fixed, agent, extension, result, phase, want>>

\* owned_manifest: the manifest names a binary of ours that is there.
OwnedManifest(v) == bin[v] # "absent"

\* health_check: the binary starts and answers.
HealthCheck(v) == v \in healthy

\* register-agent2-macos.sh --rollback, under the same lock.  A script that is killed,
\* before or after the rename, leaves the directory behind.
Rollback ==
    /\ platform = "darwin" /\ ~locked
    /\ OwnedManifest(registered) /\ OwnedManifest(previous) /\ HealthCheck(previous)
    /\ \/ registered' = previous /\ locked' \in BOOLEAN
       \/ UNCHANGED registered /\ locked' = TRUE
    /\ UNCHANGED <<fixed, feed, bin, previous, extension, result, phase, want>>

\* A user who has made sure that nothing runs removes the directory.
Inspect ==
    /\ locked /\ \A u \in Updater : phase[u] \notin AgentPhase \ {"lock"}
    /\ locked' = FALSE
    /\ UNCHANGED <<fixed, feed, bin, registered, previous, extension, result, phase, want>>

UpdateStep(u) ==
    \/ StartUpdate(u) \/ InstallLock(u) \/ CheckActive(u) \/ RememberPrevious(u)
    \/ DownloadBinary(u) \/ CheckExecutable(u) \/ SwapManifest(u) \/ Unlock(u)
    \/ StartExtension(u) \/ NothingNewer(u) \/ UnpackExtension(u) \/ MoveAside(u)
    \/ RenameNew(u) \/ RenameFirst(u) \/ RestoreOld(u) \/ RemovePrior(u) \/ UpdateFails(u) \/ UpdateDies(u)

UpdateNext == (\E u \in Updater : UpdateStep(u)) \/ Offer \/ Rollback \/ Inspect

UpdateSpec == UpdateInit /\ [][UpdateNext]_updateVars

-------------------------------------------------------------------------------

\* Wherever updates of agent and extension end, at once or one after another: the
\* browser and a rollback find a binary that was verified and has answered (and,
\* on darwin, was signed), an extension is in place or set aside; and on darwin an
\* update that raced a newer one does not take the registration back (of updates and
\* rollbacks only a rollback does).
Usable(v) == bin[v] = "right" /\ v \in healthy /\ (platform = "darwin" => v \in genuine)
InstallationWorks ==
    /\ [](Usable(registered) /\ Usable(previous) /\ (ext # NoExt \/ prior # NoExt))
    /\ [][platform = "darwin" /\ registered' < registered => registered' = previous]_updateVars
================================================================================
