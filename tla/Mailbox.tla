-------------------------------- MODULE Mailbox --------------------------------
(***************************************************************************)
(* The mailbox of ipc.rs between native hosts, one process per message of  *)
(* the browser, and the one desktop process.                               *)
(*                                                                         *)
(* A message is a file that is renamed and removed: <id>.request, then     *)
(* <id>.processing while the desktop works on it; the answer is a second   *)
(* file, <id>.response.  The caller polls for the answer until 330 seconds *)
(* have passed, the time after which the desktop no longer accepts the     *)
(* message either.  A desktop that starts answers what a dead one left.    *)
(* When the call fails the native host opens a link itself (forward).      *)
(***************************************************************************)
EXTENDS SessionOpen

VARIABLES
    mail,      \* the message file of each request
    response,  \* the answer file of each request
    caller,    \* the native host: polling, or what it told the browser
    late,      \* 330 seconds have passed since the message was written
    desktop,   \* the process that holds desktop.lock
    started    \* history: the processes that have begun to handle a request

mailVars == <<mail, response, caller, late>>
vars == <<openVars, mailVars, desktop, started>>

Answer == Outcome \cup {"interrupted"}

TypeOK ==
    /\ OpenTypeOK
    /\ mail \in [Request -> {"none", "request", "processing"}]
    /\ response \in [Request -> Answer \cup {"none"}]
    /\ caller \in [Request -> Answer \cup {"idle", "written", "waiting", "opening",
                                          "failed", "unknown", "killed"}]
    /\ late \in [Request -> BOOLEAN]
    /\ desktop \in {"down", "recovering", "up"}
    /\ started \in [Request -> SUBSET Opener]
    /\ job[Desktop] # None => desktop # "down" /\ mail[job[Desktop].of] = "processing"
    /\ \A r \in Request : job[r] # None => job[r].of = r /\ caller[r] = "opening"

Init ==
    /\ OpenInit
    /\ mail = [r \in Request |-> "none"]
    /\ response = [r \in Request |-> "none"]
    /\ caller = [r \in Request |-> "idle"]
    /\ late = [r \in Request |-> FALSE]
    /\ desktop = "down"
    /\ started = [r \in Request |-> {}]

-------------------------------------------------------------------------------
(* call and forward: the native host                                       *)

Call(r) ==
    /\ caller[r] = "idle"
    /\ mail' = [mail EXCEPT ![r] = "request"]
    /\ caller' = [caller EXCEPT ![r] = "written"]
    /\ UNCHANGED <<openVars, response, late, desktop, started>>

\* A desktop is spawned, whether or not there is one, and the polling begins.
Spawn(r) ==
    /\ caller[r] = "written"
    /\ caller' = [caller EXCEPT ![r] = "waiting"]
    /\ UNCHANGED <<openVars, mail, response, late, desktop, started>>

\* forward after an error of call: a link is opened here, "must not depend on
\* the desktop being alive"; anything else is told to the browser.
Forward(r, told) ==
    /\ UNCHANGED <<kind, letter, fileVars, lock, late, desktop>>
    /\ IF kind = "link"
         THEN /\ caller' = [caller EXCEPT ![r] = "opening"]
              /\ job' = [job EXCEPT ![r] = [of |-> r, step |-> "begin"]]
              /\ started' = [started EXCEPT ![r] = @ \cup {r}]
         ELSE /\ caller' = [caller EXCEPT ![r] = told]
              /\ UNCHANGED <<job, started>>

\* The message cannot be written, although it may be there ...
CallFails(r) ==
    /\ caller[r] = "idle"
    /\ \/ UNCHANGED mail
       \/ mail' = [mail EXCEPT ![r] = "request"]
    /\ Forward(r, "failed")
    /\ UNCHANGED response

\* ... or the desktop cannot be spawned: the message is taken back, unless a
\* desktop that was running already has it.
SpawnFails(r) ==
    /\ caller[r] = "written"
    /\ mail' = [mail EXCEPT ![r] = IF @ = "request" THEN "none" ELSE @]
    /\ Forward(r, "failed")
    /\ UNCHANGED response

\* The answer is read and its file removed; a failing removal is ignored.
Poll(r) ==
    /\ caller[r] = "waiting"
    /\ response[r] # "none"
    /\ caller' = [caller EXCEPT ![r] = response[r]]
    /\ \/ response' = [response EXCEPT ![r] = "none"]
       \/ UNCHANGED response
    /\ UNCHANGED <<openVars, mail, late, desktop, started>>

\* The answer is there and cannot be read.
PollFails(r) ==
    /\ caller[r] = "waiting"
    /\ response[r] # "none"
    /\ response' = [response EXCEPT ![r] = "none"]
    /\ Forward(r, "failed")
    /\ UNCHANGED mail

TimeOut(r) ==
    /\ caller[r] = "waiting"
    /\ late[r]
    /\ Forward(r, "unknown")
    /\ UNCHANGED <<mail, response>>

\* The native host opens the link itself, and tells the browser.
OpenHere(r) ==
    /\ caller[r] = "opening"
    /\ Open(r)
    /\ UNCHANGED <<mailVars, desktop, started>>

Opened(r) ==
    /\ \E outcome \in Outcome : At(r, outcome)
    /\ caller' = [caller EXCEPT ![r] = job[r].step]
    /\ job' = [job EXCEPT ![r] = None]
    /\ UNCHANGED <<kind, letter, fileVars, lock, mail, response, late, desktop, started>>

\* The browser closes the port and the native host ends.
Killed(r) ==
    /\ caller[r] \in {"written", "waiting", "opening"}
    /\ caller' = [caller EXCEPT ![r] = "killed"]
    /\ Die(r)
    /\ UNCHANGED <<kind, letter, fileVars, mail, response, late, desktop, started>>

\* The clock passes expires_at.
Expire(r) ==
    /\ caller[r] # "idle"
    /\ ~late[r]
    /\ late' = [late EXCEPT ![r] = TRUE]
    /\ UNCHANGED <<openVars, mail, response, caller, desktop, started>>

-------------------------------------------------------------------------------
(* The desktop: recover, then drain in a loop                              *)

Start ==
    /\ desktop = "down"
    /\ desktop' = "recovering"
    /\ UNCHANGED <<openVars, mailVars, started>>

Crash ==
    /\ desktop # "down"
    /\ desktop' = "down"
    /\ Die(Desktop)
    /\ UNCHANGED <<kind, letter, fileVars, mailVars, started>>

\* Mutant: what was interrupted is put back to be handled again.
RecoverRetries(r) ==
    /\ desktop = "recovering"
    /\ job[Desktop] = None
    /\ mail[r] = "processing"
    /\ mail' = [mail EXCEPT ![r] = "request"]
    /\ UNCHANGED <<openVars, response, caller, late, desktop, started>>

\* What a dead desktop left is answered, not handled again.
Recover(r) ==
    /\ desktop = "recovering"
    /\ job[Desktop] = None
    /\ mail[r] = "processing"
    /\ response' = [response EXCEPT ![r] = "interrupted"]
    /\ job' = [job EXCEPT ![Desktop] = [of |-> r, step |-> "remove"]]
    /\ UNCHANGED <<kind, letter, fileVars, lock, mail, caller, late, desktop, started>>

\* A file operation of recover fails: main returns the error.
RecoverFails ==
    /\ desktop = "recovering"
    /\ desktop' = "down"
    /\ Die(Desktop)
    /\ \/ UNCHANGED response
       \/ \E r \in Request :
            /\ job[Desktop] = None
            /\ mail[r] = "processing"
            /\ response' = [response EXCEPT ![r] = "interrupted"]
    /\ UNCHANGED <<kind, letter, fileVars, mail, caller, late, started>>

Recovered ==
    /\ desktop = "recovering"
    /\ job[Desktop] = None
    /\ \A r \in Request : mail[r] # "processing"
    /\ desktop' = "up"
    /\ UNCHANGED <<openVars, mailVars, started>>

\* A message is taken by renaming it.
Taken(r, step) ==
    /\ desktop = "up"
    /\ job[Desktop] = None
    /\ mail[r] = "request"
    /\ mail' = [mail EXCEPT ![r] = "processing"]
    /\ job' = [job EXCEPT ![Desktop] = [of |-> r, step |-> step]]
    /\ started' = [started EXCEPT ![r] = IF step = "begin" THEN @ \cup {Desktop} ELSE @]
    /\ UNCHANGED <<kind, letter, fileVars, lock, response, caller, late, desktop>>

\* Mutant: the time the message was written is not looked at.
TakeAnyAge(r) == Taken(r, "begin")

\* Mutant: a message that has expired is left lying about.
TakeInTime(r) == ~late[r] /\ Taken(r, "begin")

\* Mutant: the message is handled without taking it.
TakeInPlace(r) ==
    /\ desktop = "up"
    /\ job[Desktop] = None
    /\ mail[r] = "request"
    /\ job' = [job EXCEPT ![Desktop] = [of |-> r, step |-> "begin"]]
    /\ UNCHANGED <<kind, letter, fileVars, lock, mailVars, desktop, started>>

\* It is handled only if it has not expired.
Take(r) == Taken(r, IF late[r] THEN "expired" ELSE "begin")

Handle ==
    /\ desktop = "up"
    /\ Open(Desktop)
    /\ UNCHANGED <<mailVars, desktop, started>>

\* Mutant: the message is removed before it is answered.
RespondLast ==
    /\ desktop = "up"
    /\ \E outcome \in Outcome : At(Desktop, outcome)
    /\ LET r == job[Desktop].of
       IN  \/ /\ mail[r] = "processing"
              /\ mail' = [mail EXCEPT ![r] = "none"]
              /\ UNCHANGED <<response, job>>
           \/ /\ mail[r] = "none"
              /\ response' = [response EXCEPT ![r] = job[Desktop].step]
              /\ job' = [job EXCEPT ![Desktop] = None]
              /\ UNCHANGED mail
    /\ UNCHANGED <<kind, letter, fileVars, lock, caller, late, desktop, started>>

\* The answer is written; when that fails drain returns and the message stays
\* behind as .processing until the desktop is started again.
Respond ==
    /\ desktop = "up"
    /\ \E outcome \in Outcome : At(Desktop, outcome)
    /\ LET answered == [response EXCEPT ![job[Desktop].of] = job[Desktop].step]
       IN  \/ response' = answered /\ Step(Desktop, "remove")
           \/ response' \in {response, answered} /\ job' = [job EXCEPT ![Desktop] = None]
    /\ UNCHANGED <<kind, letter, fileVars, lock, mail, caller, late, desktop, started>>

\* The message file is removed, which may fail too.
Remove ==
    /\ At(Desktop, "remove")
    /\ \/ mail' = [mail EXCEPT ![job[Desktop].of] = "none"]
       \/ desktop = "up" /\ UNCHANGED mail
    /\ job' = [job EXCEPT ![Desktop] = None]
    /\ UNCHANGED <<kind, letter, fileVars, lock, response, caller, late, desktop, started>>

-------------------------------------------------------------------------------
Save == Edit /\ UNCHANGED <<mailVars, desktop, started>>

Next ==
    \/ \E r \in Request :
         \/ Call(r) \/ Spawn(r) \/ CallFails(r) \/ SpawnFails(r) \/ Poll(r) \/ PollFails(r)
         \/ TimeOut(r) \/ OpenHere(r) \/ Opened(r) \/ Killed(r) \/ Expire(r)
         \/ Recover(r) \/ Take(r)
    \/ Start \/ Crash \/ RecoverFails \/ Recovered
    \/ Handle \/ Respond \/ Remove
    \/ Save

Spec == Init /\ [][Next]_vars

\* The drain thread goes on by itself; each pass visits every message.
Fairness ==
    /\ WF_vars(Recovered)
    /\ WF_vars(Handle) /\ WF_vars(Respond) /\ WF_vars(Remove)
    /\ \A r \in Request : WF_vars(Recover(r)) /\ SF_vars(Take(r))

FairSpec == Spec /\ Fairness

-------------------------------------------------------------------------------
\* The desktop handles a message at most once, whatever crashes: its ticket is
\* not claimed again on behalf of somebody who has already been answered.  An
\* answer on disk stays until it is read; the only one put in its place is the
\* "interrupted; inspect task center" of a desktop that starts.
HandledOnce ==
    [][\A r \in Request :
         /\ Desktop \in started[r] => ~(mail[r] = "request" /\ mail'[r] = "processing")
         /\ response[r] # "none" => response'[r] \in {response[r], "none", "interrupted"}]_vars

\* The desktop begins no work for a caller that has waited out its time and sent
\* the user to the task center: a message has expired before its caller gives up.
NothingStartedLate ==
    [][\A r \in Request : Desktop \in started'[r] \ started[r] => caller[r] # "unknown"]_vars

\* "Opened" is never said of a file that is not there with its task.
SuccessIsTrue ==
    \A r \in Request : "ok" \in {response[r], caller[r]} => recorded /\ copy # "none"

\* A message answered as expired has not been touched by the desktop, and its
\* native host has not opened the link: the browser may send it again.
ExpiredMeansUntouched ==
    \A r \in Request : /\ response[r] = "expired" => Desktop \notin started[r]
                       /\ caller[r] = "expired" => started[r] = {}

\* Whatever the answer says of the work on a message is so.
AnswersAreHonest == SuccessIsTrue /\ ExpiredMeansUntouched

\* As long as a caller polls, its message or its answer is on disk, so that a
\* desktop that lives long enough will answer, even after a crash.
WaitingIsNeverForgotten ==
    \A r \in Request : caller[r] \in {"written", "waiting"} =>
                         mail[r] # "none" \/ response[r] # "none"

\* Opening again, by whichever process, never replaces a working copy the user
\* has edited.
EditedCopyIsKept == [][copy = "edited" => copy' = "edited"]_vars

\* While the desktop is up no message waits for ever, however old it is.
RequestsAreTaken ==
    <>[](desktop = "up") =>
        \A r \in Request : mail[r] = "request" ~> mail[r] # "request"

\* "Do not re-submit after timeout: claim may already have consumed the ticket":
\* a caller whose time is up does not begin what the desktop has begun.
NotResubmitted ==
    [][\A r \in Request :
         caller[r] = "waiting" /\ late[r] /\ Desktop \in started[r]
           => started'[r] = started[r]]_vars
================================================================================
