----------------------------- MODULE LocalMirror -----------------------------
(***************************************************************************)
(* Sessions of the local agent and the mirror they open files from.        *)
(*                                                                         *)
(* Every message of the browser is handled by a process of its own: it     *)
(* claims the ticket (session.go), resolves the root of the mirror (config *)
(* .go) and carries an older mirror over to it (adopt.go), makes sure that *)
(* there is a local copy and opens it (runner.go, workspace.go).  Nothing  *)
(* locks the mirror.  Meanwhile users save, drives come and go, and any    *)
(* process may end between two steps.  The library paths of Doc share one  *)
(* base name, so that their copies compete for the names of one folder.    *)
(***************************************************************************)
EXTENDS Integers

CONSTANTS
    Opener,         \* processes
    Doc,            \* library paths with one base name
    Ask,            \* what the browser asks for: records [doc, mode, action]
    MaxSuffix,      \* bound: "name", "name (1)", ..., "name (MaxSuffix)"
    MaxVersion,     \* bound: newest version of a file on the server
    MaxSave,        \* bound: saves by the user
    MaxTicket       \* bound: sessions

Action == {"", "overwrite", "keep"}

ASSUME MirrorAssumption ==
    /\ Ask \subseteq [doc : Doc, mode : {"view", "edit"}, action : Action]
    /\ {MaxSuffix, MaxVersion, MaxSave, MaxTicket} \subseteq Nat

VARIABLES
    disk,       \* what each root holds
    drive,      \* the drive of the preferred root
    marker,     \* mirror-root.txt
    version,    \* the newest version on the server
    tickets,    \* sessions the browser has begun
    saves,      \* saves by the user
    opened,     \* copies an application has been started with
    at, session,    \* where each process is, and what it works on
    raced       \* history: copies two processes, or one and the user or the drive, met at

mirrorVars == <<disk, drive, marker, version, tickets, saves, opened, at, session, raced>>

Root == {"preferred", "fallback"}
Copy == [mode : {"view", "edit"}, name : 0..MaxSuffix]
Index == [mode : {"view", "edit"}, doc : Doc]
Report == [report |-> TRUE]
Item == Copy \cup Index \cup {Report}

Absent == [none |-> TRUE]
Partial == [part |-> TRUE]
\* Two sizes are enough to tell a save that changes the size from one that does not.
Served == [served : 0..MaxVersion, size : {0}]
Saved == [saved : 1..MaxSave, size : {0, 1}]
Bytes == Served \cup Saved \cup {Partial}
Record == [name : 0..MaxSuffix, version : 0..MaxVersion, digest : Bytes]
Step == {"idle", "adopt", "copy", "verify", "remove", "mark", "choose", "truncate",
         "write", "digest", "record", "launch"}

\* What a process works on: the claimed session, the root and the name it has chosen,
\* the mirror it carries over, and the fingerprint of what it has downloaded.
Session == [ask : Ask, root : Root, version : 0..MaxVersion, name : 0..MaxSuffix,
            source : Root \cup {"none"}, digest : Bytes \cup {Absent}]
NoSession == [root |-> "none"]

MirrorTypeOK ==
    /\ DOMAIN disk = Root
    /\ \A r \in Root : /\ disk[r] = [i \in Item |-> disk[r][i]]
                       /\ \A c \in Copy : disk[r][c] \in Bytes \cup {Absent}
                       /\ \A i \in Index : disk[r][i] \in Record \cup {Absent}
    /\ drive \in {"usable", "readable", "gone"}
    /\ marker \in Root \cup {"none"}
    /\ version \in 0..MaxVersion /\ tickets \in 0..MaxTicket /\ saves \in 0..MaxSave
    /\ opened \subseteq Root \X Copy
    /\ at \in [Opener -> Step]
    /\ raced \subseteq Copy
    /\ session \in [Opener -> Session \cup {NoSession}]
    /\ \A o \in Opener : at[o] # "idle" => session[o] \in Session

MirrorInit ==
    /\ disk = [r \in Root |-> [i \in Item |-> Absent]]
    /\ drive \in {"usable", "readable"}
    /\ marker = "none"
    /\ version = 0 /\ tickets = 0 /\ saves = 0
    /\ opened = {}
    /\ at = [o \in Opener |-> "idle"]
    /\ session = [o \in Opener |-> NoSession]
    /\ raced = {}

-------------------------------------------------------------------------------
(* Roots                                                                   *)

\* selectRoot with usableWorkspace: the preferred drive while it can be written.
SelectRoot == IF drive = "usable" THEN "preferred" ELSE "fallback"

Readable(r) == r = "fallback" \/ drive # "gone"
Held(r) == IF Readable(r) THEN {i \in Item : disk[r][i] # Absent} ELSE {}

\* adoptSource: what the marker names, then the default root; one that holds
\* files before one that does not.
AdoptSource(r) ==
    LET candidates == {marker, "fallback"} \ {r, "none"}
        holding == {c \in candidates : Held(c) # {}}
        first(S) == IF marker \in S THEN marker ELSE "fallback"
    IN IF holding # {} THEN first(holding)
       ELSE IF candidates # {} THEN first(candidates) ELSE "none"

\* The length of a record depends on the name alone.
Size(i, b) == IF i \in Copy THEN IF b = Partial THEN 2 ELSE b.size
              ELSE IF i \in Index THEN b.name ELSE 0

Put(r, i, b) == disk' = [disk EXCEPT ![r][i] = b]
At(o, s) == at[o] = s /\ Readable(session[o].root)
Move(o, s) == at' = [at EXCEPT ![o] = s]
LeaveMirror(o) == Move(o, "idle") /\ session' = [session EXCEPT ![o] = NoSession]
Adopting(o) == at[o] \in {"copy", "verify", "remove"}
Working(o) == at[o] \in {"truncate", "write", "digest", "record", "launch"}
CopyOf(o) == [mode |-> session[o].ask.mode, name |-> session[o].name]

\* Where o meets others when it begins to carry a mirror over: at the copies they work
\* on, and everywhere if one of them carries a mirror too.
Disturbed(o) ==
    IF \E p \in Opener \ {o} : Adopting(p) THEN Copy
    ELSE {CopyOf(p) : p \in {q \in Opener \ {o} : Working(q)}}

-------------------------------------------------------------------------------
(* A session begins                                                        *)

\* Claim: the ticket is good for one claim, whatever becomes of this process.
Claim(o) ==
    /\ at[o] = "idle" /\ tickets < MaxTicket
    /\ tickets' = tickets + 1
    /\ \E a \in Ask :
         session' = [session EXCEPT ![o] = [ask |-> a, root |-> SelectRoot, version |-> version,
                                            name |-> 0, source |-> "none", digest |-> Absent]]
    /\ Move(o, "adopt")
    /\ UNCHANGED <<disk, drive, marker, version, saves, opened, raced>>

\* Adopt: at most once for a change of the root, never into one that holds files.
Adopt(o) ==
    /\ At(o, "adopt")
    /\ LET r == session[o].root
           s == AdoptSource(r)
       IN IF marker = r \/ s = "none" \/ Held(s) = {}
          THEN /\ marker' = r
               /\ Move(o, "choose")
               /\ UNCHANGED <<disk, session, raced>>
          ELSE IF Held(r) # {}
          THEN /\ Put(r, Report, [report |-> "skipped"]) /\ marker' = r
               /\ Move(o, "choose")
               /\ UNCHANGED <<session, raced>>
          ELSE /\ Move(o, "copy")
               /\ session' = [session EXCEPT ![o].source = s]
               /\ raced' = raced \cup Disturbed(o)
               /\ UNCHANGED <<disk, marker>>
    /\ UNCHANGED <<drive, version, tickets, saves, opened>>

Moved(o) ==
    /\ Put(session[o].root, Report, [report |-> "moved"])
    /\ marker' = session[o].root
    /\ Move(o, "choose")

\* copyMirror, one file at a time, the records last; a file that is in the target
\* already is left alone.  When nothing is missing the copy is verified.  A source
\* that is gone counts as one without files, here, in verifyMirror and at the end.
CopyMirror(o) ==
    /\ At(o, "copy")
    /\ LET r == session[o].root
           s == session[o].source
           missing == Held(s) \ Held(r)
           now == IF missing \cap Copy # {} THEN missing \cap Copy ELSE missing
       IN \/ /\ missing = {}
             /\ Move(o, "verify")
             /\ UNCHANGED disk
          \/ \E i \in now : Put(r, i, disk[s][i]) /\ UNCHANGED at
    /\ UNCHANGED <<drive, marker, version, tickets, saves, opened, session, raced>>

\* Mutant: the result of the comparison is not looked at.
VerifyNothing(o) ==
    /\ At(o, "verify")
    /\ Move(o, "remove")
    /\ UNCHANGED <<disk, drive, marker, version, tickets, saves, opened, session, raced>>

\* verifyMirror compares sizes; a difference keeps the source for good.
Verify(o) ==
    /\ At(o, "verify")
    /\ LET r == session[o].root
           s == session[o].source
       IN IF \A i \in Held(s) : i \in Held(r) /\ Size(i, disk[r][i]) = Size(i, disk[s][i])
          THEN Move(o, "remove") /\ UNCHANGED <<disk, marker>>
          ELSE Moved(o)
    /\ UNCHANGED <<drive, version, tickets, saves, opened, session, raced>>

\* A file cannot be read or written: what was copied stays, and so does the source.
CopyFails(o) ==
    /\ At(o, "copy")
    /\ Moved(o)
    /\ UNCHANGED <<drive, version, tickets, saves, opened, session, raced>>

\* removeMirror goes from subtree to subtree and may stop at one.
RemoveMirror(o) ==
    /\ At(o, "remove")
    /\ \E gone \in {Copy, Item} \cup {{c \in Copy : c.mode = "view"}} :
         LET kept == Item \ (gone \cap Held(session[o].source))
         IN disk' = [disk EXCEPT ![session[o].source] =
                       [i \in Item |-> IF i \in kept THEN @[i] ELSE Absent]]
    /\ Move(o, "mark")
    /\ UNCHANGED <<drive, marker, version, tickets, saves, opened, session, raced>>

Mark(o) ==
    /\ At(o, "mark")
    /\ Moved(o)
    /\ UNCHANGED <<drive, version, tickets, saves, opened, session, raced>>

-------------------------------------------------------------------------------
(* materialize                                                             *)

IndexOf(o) == [mode |-> session[o].ask.mode, doc |-> session[o].ask.doc]
Here(o) == disk[session[o].root]

\* query_local_file: the copy that the record names has the recorded digest.
Vouched(r, i) ==
    /\ disk[r][i] # Absent
    /\ disk[r][i].digest = disk[r][[mode |-> i.mode, name |-> disk[r][i].name]]

\* unchanged: the replica is what was downloaded, and the server still has that.
Unchanged(o) ==
    /\ Here(o)[IndexOf(o)].version = session[o].version
    /\ Vouched(session[o].root, IndexOf(o))

\* The copy that is there is opened as it is.
Keeps(o, c) ==
    IF c.mode = "view" THEN Unchanged(o) ELSE session[o].ask.action # "overwrite"

\* UniqueName: the first name that no file has.
Free(o) ==
    {n \in 0..MaxSuffix :
       /\ Here(o)[[mode |-> session[o].ask.mode, name |-> n]] = Absent
       /\ \A m \in 0..(n - 1) : Here(o)[[mode |-> session[o].ask.mode, name |-> m]] # Absent}

\* Others that are at this copy, or carry a mirror to or from this root.
Meets(o, c) ==
    \E p \in Opener \ {o} :
       \/ Working(p) /\ CopyOf(p) = c
       \/ Adopting(p)

\* Mutant: the copy that is kept is recorded as if it had just been downloaded.
ChooseRecords(o) ==
    /\ At(o, "choose")
    /\ LET recorded == Here(o)[IndexOf(o)] # Absent
           names == IF recorded THEN {Here(o)[IndexOf(o)].name} ELSE Free(o)
       IN \E n \in names :
            LET c == [mode |-> session[o].ask.mode, name |-> n]
            IN /\ session' = [session EXCEPT ![o].name = n]
               /\ IF recorded /\ Here(o)[c] # Absent /\ Keeps(o, c)
                  THEN Move(o, "digest") ELSE Move(o, "truncate")
               /\ raced' = IF Meets(o, c) THEN raced \cup {c} ELSE raced
    /\ UNCHANGED <<disk, drive, marker, version, tickets, saves, opened>>

\* The record, and not the name, says which copy belongs to a library path.
Choose(o) ==
    /\ At(o, "choose")
    /\ LET recorded == Here(o)[IndexOf(o)] # Absent
           names == IF recorded THEN {Here(o)[IndexOf(o)].name} ELSE Free(o)
       IN \E n \in names :
            LET c == [mode |-> session[o].ask.mode, name |-> n]
            IN /\ session' = [session EXCEPT ![o].name = n]
               /\ IF recorded /\ Here(o)[c] # Absent /\ Keeps(o, c)
                  THEN Move(o, "launch") ELSE Move(o, "truncate")
               /\ raced' = IF Meets(o, c) THEN raced \cup {c} ELSE raced
    /\ UNCHANGED <<disk, drive, marker, version, tickets, saves, opened>>

\* download: the server has answered, the file is opened and truncated ...
Truncate(o) ==
    /\ At(o, "truncate")
    /\ Put(session[o].root, CopyOf(o), Partial)
    /\ Move(o, "write")
    /\ UNCHANGED <<drive, marker, version, tickets, saves, opened, session, raced>>

\* ... and written, or removed after an error.
Write(o) ==
    /\ At(o, "write")
    /\ IF Here(o)[CopyOf(o)] = Absent THEN UNCHANGED disk
       ELSE Put(session[o].root, CopyOf(o), [served |-> version, size |-> 0])
    /\ Move(o, "digest")
    /\ UNCHANGED <<drive, marker, version, tickets, saves, opened, session, raced>>

WriteFails(o) ==
    /\ At(o, "write")
    /\ Put(session[o].root, CopyOf(o), Absent)
    /\ LeaveMirror(o)
    /\ UNCHANGED <<drive, marker, version, tickets, saves, opened, raced>>

\* The fingerprint is taken from the file, not from the download.
Digest(o) ==
    /\ At(o, "digest")
    /\ IF Here(o)[CopyOf(o)] = Absent
       THEN Move(o, "launch") /\ UNCHANGED session
       ELSE /\ Move(o, "record")
            /\ session' = [session EXCEPT ![o].digest = Here(o)[CopyOf(o)]]
    /\ UNCHANGED <<disk, drive, marker, version, tickets, saves, opened, raced>>

\* WriteRecord, by a rename; a failure is ignored.
WriteRecord(o) ==
    /\ At(o, "record")
    /\ \/ Put(session[o].root, IndexOf(o),
              [name |-> session[o].name, version |-> session[o].version,
               digest |-> session[o].digest])
       \/ UNCHANGED disk
    /\ Move(o, "launch")
    /\ UNCHANGED <<drive, marker, version, tickets, saves, opened, session, raced>>

\* openFile starts the application; the user is told where the copy is.
Launch(o) ==
    /\ At(o, "launch")
    /\ opened' = IF Here(o)[CopyOf(o)] = Absent THEN opened
                 ELSE opened \cup {<<session[o].root, CopyOf(o)>>}
    /\ LeaveMirror(o)
    /\ UNCHANGED <<disk, drive, marker, version, tickets, saves, raced>>

\* An error, or the end of the process.
EndOpen(o) ==
    /\ at[o] # "idle"
    /\ LeaveMirror(o)
    /\ UNCHANGED <<disk, drive, marker, version, tickets, saves, opened, raced>>

-------------------------------------------------------------------------------
(* The user, the server and the drive                                      *)

\* What verifyMirror cannot see of a save: that it comes too late, or that it has the
\* size of the copy that has been made.
Unnoticed(r, c, size) ==
    \/ \E o \in Opener : at[o] = "remove"
    \/ /\ \E o \in Opener : Adopting(o)
       /\ \E q \in Root \ {r} : disk[q][c] # Absent /\ Size(c, disk[q][c]) = size

\* A save in an application that still has the copy open; a view is read-only.
Save ==
    /\ saves < MaxSave
    /\ \E r \in Root, c \in Copy, size \in {0, 1} :
         /\ <<r, c>> \in opened
         /\ c.mode = "edit" /\ Readable(r) /\ disk[r][c] # Absent
         /\ Put(r, c, [saved |-> saves + 1, size |-> size])
         /\ raced' = IF \/ Unnoticed(r, c, size)
                        \/ \E o \in Opener : at[o] \in {"write", "digest"} /\ CopyOf(o) = c
                     THEN raced \cup {c} ELSE raced
    /\ saves' = saves + 1
    /\ UNCHANGED <<drive, marker, version, tickets, opened, at, session>>

NewVersion ==
    /\ version < MaxVersion
    /\ version' = version + 1
    /\ UNCHANGED <<disk, drive, marker, tickets, saves, opened, at, session, raced>>

Drive ==
    /\ drive' \in {"usable", "readable", "gone"} \ {drive}
    /\ raced' = IF drive' = "gone" /\ \E o \in Opener : Adopting(o) /\ session[o].source = "preferred"
                THEN raced \cup (Held("preferred") \cap Copy) ELSE raced
    /\ UNCHANGED <<disk, marker, version, tickets, saves, opened, at, session>>

OpenStep(o) ==
    \/ Claim(o) \/ Adopt(o) \/ CopyMirror(o) \/ Verify(o) \/ CopyFails(o) \/ RemoveMirror(o)
    \/ Mark(o) \/ Choose(o) \/ Truncate(o) \/ Write(o) \/ WriteFails(o) \/ Digest(o)
    \/ WriteRecord(o) \/ Launch(o) \/ EndOpen(o)

MirrorNext ==
    \/ \E o \in Opener : OpenStep(o)
    \/ Save \/ NewVersion \/ Drive

MirrorSpec == MirrorInit /\ [][MirrorNext]_mirrorVars

-------------------------------------------------------------------------------
Work(b) == b \in Saved

\* In one step work that the user has saved is gone: no root holds it and the user
\* has not saved over it.
Loses(r, c) ==
    /\ Work(disk[r][c]) /\ ~Work(disk'[r][c])
    /\ \A q \in Root : disk'[q][c] # disk[r][c]

Asked(r, c) ==
    \E o \in Opener : /\ at[o] = "truncate" /\ session[o].ask.action = "overwrite"
                      /\ session[o].root = r /\ CopyOf(o) = c

\* Opening files again, carrying the mirror over and ending at any moment never
\* cost the user work that was not given up explicitly, as long as no two processes
\* have met at that copy, no save that verifyMirror cannot see was made while the
\* mirror was carried over, and its drive did not go and come back meanwhile.
WorkIsKept ==
    [][\A r \in Root, c \in Copy : Loses(r, c) => Asked(r, c) \/ c \in raced]_mirrorVars

\* What a record vouches for was served: a copy that has work is never reported as
\* unchanged (the answer lets the page replace it), and one that is opened for
\* viewing is whole and at least as new as the version the session was claimed for.
TrustedIsServed ==
    /\ \A r \in Root, i \in Index :
          Vouched(r, i) => \/ ~Work(disk[r][i].digest)
                          \/ [mode |-> i.mode, name |-> disk[r][i].name] \in raced
    /\ \A o \in Opener :
          at[o] = "launch" /\ session[o].ask.mode = "view" /\ CopyOf(o) \notin raced =>
            \/ Here(o)[CopyOf(o)] = Absent
            \/ /\ Here(o)[CopyOf(o)] \in Served
               /\ Here(o)[CopyOf(o)].served >= session[o].version
================================================================================
