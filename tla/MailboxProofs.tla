----------------------------- MODULE MailboxProofs -----------------------------
(***************************************************************************)
(* Proofs about Mailbox, for any set of messages and tickets.              *)
(*                                                                         *)
(* A message file is created once and only ever renamed or removed; the    *)
(* invariant says what each of its states means for the answer file, the   *)
(* caller and the messages in hand.  What opening a file does, whichever   *)
(* process does it, is one lemma (OpenStep), used for the desktop and for  *)
(* the native hosts.                                                       *)
(***************************************************************************)
EXTENDS Mailbox, TLAPS

USE OpenAssumption DEF Opener, Job, Working, Outcome, Answer

\* A task or an answer "ok" comes after the working copy.
CopyInv ==
    /\ recorded => copy # "none"
    /\ \A p \in Opener : /\ At(p, "kept") => copy # "none"
                         /\ At(p, "launch") \/ At(p, "ok") => recorded

\* What has been taken is never a request again, before the call there is
\* nothing at all, and a message in hand has no answer until it gets one.
OnceInv ==
    /\ \A r \in Request :
        /\ Desktop \in started[r] => mail[r] # "request"
        /\ response[r] # "none" => mail[r] # "request"
        /\ caller[r] = "expired" => mail[r] # "request"
        /\ caller[r] = "idle" => mail[r] = "none" /\ response[r] = "none" /\ started[r] = {}
    /\ job[Desktop] # None /\ ~At(Desktop, "remove") => response[job[Desktop].of] = "none"

\* Only the native host of a message opens it besides the desktop, and only
\* when the call has failed.
HostInv ==
    \A r \in Request :
        /\ ~At(r, "expired")
        /\ ~At(r, "remove")
        /\ started[r] \subseteq {Desktop, r}
        /\ caller[r] \in {"written", "waiting"} => r \notin started[r]

\* A caller that has given up has seen the time pass.
LateInv == \A r \in Request : caller[r] = "unknown" => late[r]

\* A message found expired has not been handled by the desktop.
ExpiredInv ==
    /\ ExpiredMeansUntouched
    /\ At(Desktop, "expired") => Desktop \notin started[job[Desktop].of]

\* When a message is about to be removed its caller has an answer or is gone.
WaitingInv ==
    /\ WaitingIsNeverForgotten
    /\ At(Desktop, "remove") =>
         \/ response[job[Desktop].of] # "none"
         \/ caller[job[Desktop].of] \notin {"written", "waiting"}

IInv ==
    /\ TypeOK /\ CopyInv /\ OnceInv /\ HostInv /\ LateInv
    /\ ExpiredInv /\ SuccessIsTrue /\ WaitingInv

-------------------------------------------------------------------------------
\* A step of opening the file: the process keeps its message and goes on to a
\* step of opening or to its end; files do not go away, and no edit is lost.
LEMMA OpenStep ==
  ASSUME OpenTypeOK, CopyInv, NEW p \in Opener, Open(p)
  PROVE  /\ OpenTypeOK' /\ CopyInv'
         /\ kind' = kind /\ letter' = letter
         /\ \E s \in Working : At(p, s)
         /\ \E s \in Working \cup {"ok", "error"} : Step(p, s)
         /\ copy # "none" => copy' # "none"
         /\ copy = "edited" => copy' = "edited"
         /\ recorded => recorded'
<1> USE DEF OpenTypeOK, CopyInv, At, Step, Unlocked, fileVars
<1>1. CASE Claim(p)
  BY <1>1 DEF Claim
<1>2. CASE Lock(p)
  BY <1>2 DEF Lock
<1>3. CASE Reopen(p)
  BY <1>3 DEF Reopen
<1>4. CASE Download(p)
  BY <1>4 DEF Download
<1>5. CASE Keep(p)
  BY <1>5 DEF Keep
<1>6. CASE Record(p)
  <2> USE <1>6 DEF Record
  <2>1. CASE recorded' = TRUE /\ Step(p, "launch")
    BY <2>1
  <2>2. CASE recorded' = TRUE /\ Step(p, "error")
    BY <2>2
  <2>3. CASE recorded' = recorded /\ Step(p, "error")
    BY <2>3
  <2> QED
    BY <2>1, <2>2, <2>3
<1>7. CASE Launch(p)
  BY <1>7 DEF Launch
<1>8. CASE Refuse(p)
  BY <1>8 DEF Refuse
<1> QED
  BY <1>1, <1>2, <1>3, <1>4, <1>5, <1>6, <1>7, <1>8 DEF Open

\* Every step preserves the types, and a message in hand has its file.
LEMMA TypeStep == IInv /\ [Next]_vars => TypeOK'
<1>1. SUFFICES ASSUME IInv, [Next]_vars PROVE TypeOK'
  OBVIOUS
<1> USE <1>1 DEF IInv, TypeOK, OpenTypeOK, OnceInv, HostInv, At, Step, openVars, mailVars, fileVars
<1>2. ASSUME NEW r \in Request, Call(r) \/ Spawn(r) \/ Expire(r) PROVE TypeOK'
  <2>1. CASE Call(r)
    BY <2>1 DEF Call
  <2>2. CASE Spawn(r)
    BY <2>2 DEF Spawn
  <2>3. CASE Expire(r)
    BY <2>3 DEF Expire
  <2> QED
    BY <1>2, <2>1, <2>2, <2>3
<1>3. ASSUME NEW r \in Request, CallFails(r) \/ SpawnFails(r) PROVE TypeOK'
  <2>1. CASE CallFails(r)
    <3>1. TypeOK /\ mail[r] = "none"
      BY <2>1 DEF CallFails
    <3> HIDE DEF IInv, OnceInv, HostInv
    <3> QED
      BY <2>1, <3>1, SMTT(30) DEF CallFails, Forward
  <2>2. CASE SpawnFails(r)
    BY <2>2 DEF SpawnFails, Forward
  <2> QED
    BY <1>3, <2>1, <2>2
<1>4. ASSUME NEW r \in Request, PollFails(r) \/ TimeOut(r) PROVE TypeOK'
  <2>1. CASE PollFails(r)
    BY <2>1 DEF PollFails, Forward
  <2>2. CASE TimeOut(r)
    BY <2>2 DEF TimeOut, Forward
  <2> QED
    BY <1>4, <2>1, <2>2
<1>5. ASSUME NEW r \in Request, Poll(r) PROVE TypeOK'
  BY <1>5 DEF Poll
<1>6. ASSUME NEW r \in Request, OpenHere(r) PROVE TypeOK'
  BY <1>6, OpenStep, SMTT(30) DEF OpenHere, CopyInv, TypeOK, OpenTypeOK
<1>7. ASSUME NEW r \in Request, Opened(r) PROVE TypeOK'
  BY <1>7 DEF Opened
<1>8. ASSUME NEW r \in Request, Killed(r) PROVE TypeOK'
  BY <1>8 DEF Killed, Die, Unlocked
<1>9. ASSUME NEW r \in Request, Recover(r) PROVE TypeOK'
  BY <1>9 DEF Recover
<1>10. ASSUME NEW r \in Request, Take(r) PROVE TypeOK'
  BY <1>10 DEF Take, Taken
<1>11. CASE Start \/ Recovered
  BY <1>11 DEF Start, Recovered
<1>12. CASE Crash \/ RecoverFails
  BY <1>12 DEF Crash, RecoverFails, Die, Unlocked
<1>13. CASE Handle
  BY <1>13, OpenStep DEF Handle, CopyInv, TypeOK, OpenTypeOK
<1>14. CASE Respond
  BY <1>14 DEF Respond
<1>15. CASE Remove
  BY <1>15 DEF Remove
<1>16. CASE Save
  BY <1>16 DEF Save, Edit
<1>17. CASE UNCHANGED vars
  BY <1>17 DEF vars
<1> QED
  BY <1>1, <1>2, <1>3, <1>4, <1>5, <1>6, <1>7, <1>8,
     <1>9, <1>10, <1>11, <1>12, <1>13, <1>14, <1>15, <1>16, <1>17 DEF Next

\* No message in hand gets ahead of the files.
LEMMA CopyStep == IInv /\ [Next]_vars => CopyInv'
<1>1. SUFFICES ASSUME IInv, [Next]_vars PROVE CopyInv'
  OBVIOUS
<1> USE <1>1 DEF IInv, TypeOK, OpenTypeOK, CopyInv, At, Step, openVars, mailVars, fileVars
<1>2. ASSUME NEW r \in Request, Call(r) \/ Spawn(r) \/ Expire(r) PROVE CopyInv'
  BY <1>2 DEF Call, Spawn, Expire
<1>3. ASSUME NEW r \in Request, CallFails(r) \/ SpawnFails(r) PROVE CopyInv'
  BY <1>3 DEF CallFails, SpawnFails, Forward
<1>4. ASSUME NEW r \in Request, PollFails(r) \/ TimeOut(r) PROVE CopyInv'
  BY <1>4 DEF PollFails, TimeOut, Forward
<1>5. ASSUME NEW r \in Request, Poll(r) PROVE CopyInv'
  BY <1>5 DEF Poll
<1>6. ASSUME NEW r \in Request, OpenHere(r) PROVE CopyInv'
  BY <1>6, OpenStep DEF OpenHere, CopyInv, TypeOK, OpenTypeOK
<1>7. ASSUME NEW r \in Request, Opened(r) PROVE CopyInv'
  BY <1>7 DEF Opened
<1>8. ASSUME NEW r \in Request, Killed(r) PROVE CopyInv'
  BY <1>8 DEF Killed, Die, Unlocked
<1>9. ASSUME NEW r \in Request, Recover(r) PROVE CopyInv'
  BY <1>9 DEF Recover
<1>10. ASSUME NEW r \in Request, Take(r) PROVE CopyInv'
  BY <1>10 DEF Take, Taken
<1>11. CASE Start \/ Recovered
  BY <1>11 DEF Start, Recovered
<1>12. CASE Crash \/ RecoverFails
  BY <1>12 DEF Crash, RecoverFails, Die, Unlocked
<1>13. CASE Handle
  BY <1>13, OpenStep DEF Handle, CopyInv, TypeOK, OpenTypeOK
<1>14. CASE Respond
  BY <1>14 DEF Respond
<1>15. CASE Remove
  BY <1>15 DEF Remove
<1>16. CASE Save
  BY <1>16 DEF Save, Edit
<1>17. CASE UNCHANGED vars
  BY <1>17 DEF vars
<1> QED
  BY <1>1, <1>2, <1>3, <1>4, <1>5, <1>6, <1>7, <1>8,
     <1>9, <1>10, <1>11, <1>12, <1>13, <1>14, <1>15, <1>16, <1>17 DEF Next

\* No step makes a request of a message again.
LEMMA OnceStep == IInv /\ [Next]_vars => OnceInv'
<1>1. SUFFICES ASSUME IInv, [Next]_vars PROVE OnceInv'
  OBVIOUS
<1> USE <1>1 DEF IInv, TypeOK, OpenTypeOK, OnceInv, HostInv, At, Step, openVars, mailVars, fileVars
<1>2. ASSUME NEW r \in Request, Call(r) \/ Spawn(r) \/ Expire(r) PROVE OnceInv'
  BY <1>2 DEF Call, Spawn, Expire
<1>3. ASSUME NEW r \in Request, CallFails(r) \/ SpawnFails(r) PROVE OnceInv'
  BY <1>3 DEF CallFails, SpawnFails, Forward
<1>4. ASSUME NEW r \in Request, PollFails(r) \/ TimeOut(r) PROVE OnceInv'
  BY <1>4 DEF PollFails, TimeOut, Forward
<1>5. ASSUME NEW r \in Request, Poll(r) PROVE OnceInv'
  BY <1>5 DEF Poll
<1>6. ASSUME NEW r \in Request, OpenHere(r) PROVE OnceInv'
  BY <1>6, OpenStep DEF OpenHere, CopyInv, TypeOK, OpenTypeOK
<1>7. ASSUME NEW r \in Request, Opened(r) PROVE OnceInv'
  BY <1>7 DEF Opened
<1>8. ASSUME NEW r \in Request, Killed(r) PROVE OnceInv'
  BY <1>8 DEF Killed, Die, Unlocked
<1>9. ASSUME NEW r \in Request, Recover(r) PROVE OnceInv'
  BY <1>9 DEF Recover
<1>10. ASSUME NEW r \in Request, Take(r) PROVE OnceInv'
  BY <1>10 DEF Take, Taken
<1>11. CASE Start \/ Recovered
  BY <1>11 DEF Start, Recovered
<1>12. CASE Crash \/ RecoverFails
  BY <1>12 DEF Crash, RecoverFails, Die, Unlocked
<1>13. CASE Handle
  BY <1>13, OpenStep DEF Handle, CopyInv, TypeOK, OpenTypeOK
<1>14. CASE Respond
  BY <1>14 DEF Respond
<1>15. CASE Remove
  BY <1>15 DEF Remove
<1>16. CASE Save
  BY <1>16 DEF Save, Edit
<1>17. CASE UNCHANGED vars
  BY <1>17 DEF vars
<1> QED
  BY <1>1, <1>2, <1>3, <1>4, <1>5, <1>6, <1>7, <1>8,
     <1>9, <1>10, <1>11, <1>12, <1>13, <1>14, <1>15, <1>16, <1>17 DEF Next

\* A native host opens its own message only, and only after its call.
LEMMA HostStep == IInv /\ [Next]_vars => HostInv'
<1>1. SUFFICES ASSUME IInv, [Next]_vars PROVE HostInv'
  OBVIOUS
<1> USE <1>1 DEF IInv, TypeOK, OpenTypeOK, HostInv, OnceInv, At, Step, openVars, mailVars, fileVars
<1>2. ASSUME NEW r \in Request, Call(r) \/ Spawn(r) \/ Expire(r) PROVE HostInv'
  BY <1>2 DEF Call, Spawn, Expire
<1>3. ASSUME NEW r \in Request, CallFails(r) \/ SpawnFails(r) PROVE HostInv'
  BY <1>3 DEF CallFails, SpawnFails, Forward
<1>4. ASSUME NEW r \in Request, PollFails(r) \/ TimeOut(r) PROVE HostInv'
  BY <1>4 DEF PollFails, TimeOut, Forward
<1>5. ASSUME NEW r \in Request, Poll(r) PROVE HostInv'
  BY <1>5 DEF Poll
<1>6. ASSUME NEW r \in Request, OpenHere(r) PROVE HostInv'
  BY <1>6, OpenStep DEF OpenHere, CopyInv, TypeOK, OpenTypeOK
<1>7. ASSUME NEW r \in Request, Opened(r) PROVE HostInv'
  BY <1>7 DEF Opened
<1>8. ASSUME NEW r \in Request, Killed(r) PROVE HostInv'
  BY <1>8 DEF Killed, Die, Unlocked
<1>9. ASSUME NEW r \in Request, Recover(r) PROVE HostInv'
  BY <1>9 DEF Recover
<1>10. ASSUME NEW r \in Request, Take(r) PROVE HostInv'
  BY <1>10 DEF Take, Taken
<1>11. CASE Start \/ Recovered
  BY <1>11 DEF Start, Recovered
<1>12. CASE Crash \/ RecoverFails
  BY <1>12 DEF Crash, RecoverFails, Die, Unlocked
<1>13. CASE Handle
  BY <1>13, OpenStep DEF Handle, CopyInv, TypeOK, OpenTypeOK
<1>14. CASE Respond
  BY <1>14 DEF Respond
<1>15. CASE Remove
  BY <1>15 DEF Remove
<1>16. CASE Save
  BY <1>16 DEF Save, Edit
<1>17. CASE UNCHANGED vars
  BY <1>17 DEF vars
<1> QED
  BY <1>1, <1>2, <1>3, <1>4, <1>5, <1>6, <1>7, <1>8,
     <1>9, <1>10, <1>11, <1>12, <1>13, <1>14, <1>15, <1>16, <1>17 DEF Next

\* Time does not run backwards.
LEMMA LateStep == IInv /\ [Next]_vars => LateInv'
<1>1. SUFFICES ASSUME IInv, [Next]_vars PROVE LateInv'
  OBVIOUS
<1> USE <1>1 DEF IInv, TypeOK, OpenTypeOK, LateInv, HostInv, At, Step, openVars, mailVars, fileVars
<1>2. ASSUME NEW r \in Request, Call(r) \/ Spawn(r) \/ Expire(r) PROVE LateInv'
  BY <1>2 DEF Call, Spawn, Expire
<1>3. ASSUME NEW r \in Request, CallFails(r) \/ SpawnFails(r) PROVE LateInv'
  BY <1>3 DEF CallFails, SpawnFails, Forward
<1>4. ASSUME NEW r \in Request, PollFails(r) \/ TimeOut(r) PROVE LateInv'
  BY <1>4 DEF PollFails, TimeOut, Forward
<1>5. ASSUME NEW r \in Request, Poll(r) PROVE LateInv'
  BY <1>5 DEF Poll
<1>6. ASSUME NEW r \in Request, OpenHere(r) PROVE LateInv'
  BY <1>6, OpenStep DEF OpenHere, CopyInv, TypeOK, OpenTypeOK
<1>7. ASSUME NEW r \in Request, Opened(r) PROVE LateInv'
  BY <1>7 DEF Opened
<1>8. ASSUME NEW r \in Request, Killed(r) PROVE LateInv'
  BY <1>8 DEF Killed, Die, Unlocked
<1>9. ASSUME NEW r \in Request, Recover(r) PROVE LateInv'
  BY <1>9 DEF Recover
<1>10. ASSUME NEW r \in Request, Take(r) PROVE LateInv'
  BY <1>10 DEF Take, Taken
<1>11. CASE Start \/ Recovered
  BY <1>11 DEF Start, Recovered
<1>12. CASE Crash \/ RecoverFails
  BY <1>12 DEF Crash, RecoverFails, Die, Unlocked
<1>13. CASE Handle
  BY <1>13, OpenStep DEF Handle, CopyInv, TypeOK, OpenTypeOK
<1>14. CASE Respond
  BY <1>14 DEF Respond
<1>15. CASE Remove
  BY <1>15 DEF Remove
<1>16. CASE Save
  BY <1>16 DEF Save, Edit
<1>17. CASE UNCHANGED vars
  BY <1>17 DEF vars
<1> QED
  BY <1>1, <1>2, <1>3, <1>4, <1>5, <1>6, <1>7, <1>8,
     <1>9, <1>10, <1>11, <1>12, <1>13, <1>14, <1>15, <1>16, <1>17 DEF Next

\* Only what was found expired is answered as expired.
LEMMA ExpiredStep == IInv /\ [Next]_vars => ExpiredInv'
<1>1. SUFFICES ASSUME IInv, [Next]_vars PROVE ExpiredInv'
  OBVIOUS
<1> USE <1>1 DEF IInv, TypeOK, OpenTypeOK, OnceInv, HostInv, ExpiredInv, ExpiredMeansUntouched, At, Step, openVars, mailVars, fileVars
<1>2. ASSUME NEW r \in Request, Call(r) \/ Spawn(r) \/ Expire(r) PROVE ExpiredInv'
  BY <1>2 DEF Call, Spawn, Expire
<1>3. ASSUME NEW r \in Request, CallFails(r) \/ SpawnFails(r) PROVE ExpiredInv'
  BY <1>3 DEF CallFails, SpawnFails, Forward
<1>4. ASSUME NEW r \in Request, PollFails(r) \/ TimeOut(r) PROVE ExpiredInv'
  BY <1>4 DEF PollFails, TimeOut, Forward
<1>5. ASSUME NEW r \in Request, Poll(r) PROVE ExpiredInv'
  BY <1>5 DEF Poll
<1>6. ASSUME NEW r \in Request, OpenHere(r) PROVE ExpiredInv'
  BY <1>6, OpenStep DEF OpenHere, CopyInv, TypeOK, OpenTypeOK
<1>7. ASSUME NEW r \in Request, Opened(r) PROVE ExpiredInv'
  BY <1>7 DEF Opened
<1>8. ASSUME NEW r \in Request, Killed(r) PROVE ExpiredInv'
  BY <1>8 DEF Killed, Die, Unlocked
<1>9. ASSUME NEW r \in Request, Recover(r) PROVE ExpiredInv'
  BY <1>9 DEF Recover
<1>10. ASSUME NEW r \in Request, Take(r) PROVE ExpiredInv'
  BY <1>10 DEF Take, Taken
<1>11. CASE Start \/ Recovered
  BY <1>11 DEF Start, Recovered
<1>12. CASE Crash \/ RecoverFails
  BY <1>12 DEF Crash, RecoverFails, Die, Unlocked
<1>13. CASE Handle
  BY <1>13, OpenStep DEF Handle, CopyInv, TypeOK, OpenTypeOK
<1>14. CASE Respond
  BY <1>14 DEF Respond
<1>15. CASE Remove
  BY <1>15 DEF Remove
<1>16. CASE Save
  BY <1>16 DEF Save, Edit
<1>17. CASE UNCHANGED vars
  BY <1>17 DEF vars
<1> QED
  BY <1>1, <1>2, <1>3, <1>4, <1>5, <1>6, <1>7, <1>8,
     <1>9, <1>10, <1>11, <1>12, <1>13, <1>14, <1>15, <1>16, <1>17 DEF Next

\* The two files are there before anybody is told.
LEMMA SuccessStep == IInv /\ [Next]_vars => SuccessIsTrue'
<1>1. SUFFICES ASSUME IInv, [Next]_vars PROVE SuccessIsTrue'
  OBVIOUS
<1> USE <1>1 DEF IInv, TypeOK, OpenTypeOK, CopyInv, SuccessIsTrue, At, Step, openVars, mailVars, fileVars
<1>2. ASSUME NEW r \in Request, Call(r) \/ Spawn(r) \/ Expire(r) PROVE SuccessIsTrue'
  BY <1>2 DEF Call, Spawn, Expire
<1>3. ASSUME NEW r \in Request, CallFails(r) \/ SpawnFails(r) PROVE SuccessIsTrue'
  BY <1>3 DEF CallFails, SpawnFails, Forward
<1>4. ASSUME NEW r \in Request, PollFails(r) \/ TimeOut(r) PROVE SuccessIsTrue'
  BY <1>4 DEF PollFails, TimeOut, Forward
<1>5. ASSUME NEW r \in Request, Poll(r) PROVE SuccessIsTrue'
  BY <1>5 DEF Poll
<1>6. ASSUME NEW r \in Request, OpenHere(r) PROVE SuccessIsTrue'
  BY <1>6, OpenStep DEF OpenHere, CopyInv, TypeOK, OpenTypeOK
<1>7. ASSUME NEW r \in Request, Opened(r) PROVE SuccessIsTrue'
  BY <1>7 DEF Opened
<1>8. ASSUME NEW r \in Request, Killed(r) PROVE SuccessIsTrue'
  BY <1>8 DEF Killed, Die, Unlocked
<1>9. ASSUME NEW r \in Request, Recover(r) PROVE SuccessIsTrue'
  BY <1>9 DEF Recover
<1>10. ASSUME NEW r \in Request, Take(r) PROVE SuccessIsTrue'
  BY <1>10 DEF Take, Taken
<1>11. CASE Start \/ Recovered
  BY <1>11 DEF Start, Recovered
<1>12. CASE Crash \/ RecoverFails
  BY <1>12 DEF Crash, RecoverFails, Die, Unlocked
<1>13. CASE Handle
  BY <1>13, OpenStep DEF Handle, CopyInv, TypeOK, OpenTypeOK
<1>14. CASE Respond
  BY <1>14 DEF Respond
<1>15. CASE Remove
  BY <1>15 DEF Remove
<1>16. CASE Save
  BY <1>16 DEF Save, Edit
<1>17. CASE UNCHANGED vars
  BY <1>17 DEF vars
<1> QED
  BY <1>1, <1>2, <1>3, <1>4, <1>5, <1>6, <1>7, <1>8,
     <1>9, <1>10, <1>11, <1>12, <1>13, <1>14, <1>15, <1>16, <1>17 DEF Next

\* A message is removed only after it has been answered.
LEMMA WaitingStep == IInv /\ [Next]_vars => WaitingInv'
<1>1. SUFFICES ASSUME IInv, [Next]_vars PROVE WaitingInv'
  OBVIOUS
<1> USE <1>1 DEF IInv, TypeOK, OpenTypeOK, OnceInv, WaitingInv, WaitingIsNeverForgotten, At, Step, openVars, mailVars, fileVars
<1>2. ASSUME NEW r \in Request, Call(r) \/ Spawn(r) \/ Expire(r) PROVE WaitingInv'
  <2>1. CASE Call(r)
    BY <2>1 DEF Call
  <2>2. CASE Spawn(r)
    BY <2>2 DEF Spawn
  <2>3. CASE Expire(r)
    BY <2>3 DEF Expire
  <2> QED
    BY <1>2, <2>1, <2>2, <2>3
<1>3. ASSUME NEW r \in Request, CallFails(r) \/ SpawnFails(r) PROVE WaitingInv'
  BY <1>3 DEF CallFails, SpawnFails, Forward
<1>4. ASSUME NEW r \in Request, PollFails(r) \/ TimeOut(r) PROVE WaitingInv'
  BY <1>4 DEF PollFails, TimeOut, Forward
<1>5. ASSUME NEW r \in Request, Poll(r) PROVE WaitingInv'
  BY <1>5 DEF Poll
<1>6. ASSUME NEW r \in Request, OpenHere(r) PROVE WaitingInv'
  BY <1>6, OpenStep DEF OpenHere, CopyInv, TypeOK, OpenTypeOK
<1>7. ASSUME NEW r \in Request, Opened(r) PROVE WaitingInv'
  BY <1>7 DEF Opened
<1>8. ASSUME NEW r \in Request, Killed(r) PROVE WaitingInv'
  BY <1>8 DEF Killed, Die, Unlocked
<1>9. ASSUME NEW r \in Request, Recover(r) PROVE WaitingInv'
  BY <1>9 DEF Recover
<1>10. ASSUME NEW r \in Request, Take(r) PROVE WaitingInv'
  BY <1>10 DEF Take, Taken
<1>11. CASE Start \/ Recovered
  BY <1>11 DEF Start, Recovered
<1>12. CASE Crash \/ RecoverFails
  BY <1>12 DEF Crash, RecoverFails, Die, Unlocked
<1>13. CASE Handle
  BY <1>13, OpenStep DEF Handle, CopyInv, TypeOK, OpenTypeOK
<1>14. CASE Respond
  BY <1>14 DEF Respond
<1>15. CASE Remove
  BY <1>15 DEF Remove
<1>16. CASE Save
  BY <1>16 DEF Save, Edit
<1>17. CASE UNCHANGED vars
  BY <1>17 DEF vars
<1> QED
  BY <1>1, <1>2, <1>3, <1>4, <1>5, <1>6, <1>7, <1>8,
     <1>9, <1>10, <1>11, <1>12, <1>13, <1>14, <1>15, <1>16, <1>17 DEF Next

-------------------------------------------------------------------------------
\* The invariant holds initially.
LEMMA InvInit == Init => IInv
<1> SUFFICES ASSUME Init PROVE IInv
  OBVIOUS
<1> USE DEF Init, OpenInit, At
<1>1. TypeOK
  BY DEF TypeOK, OpenTypeOK
<1>2. CopyInv /\ HostInv
  BY DEF CopyInv, HostInv
<1>3. OnceInv /\ LateInv /\ SuccessIsTrue
  BY DEF OnceInv, LateInv, SuccessIsTrue
<1>4. ExpiredInv /\ WaitingInv
  BY DEF ExpiredInv, ExpiredMeansUntouched, WaitingInv, WaitingIsNeverForgotten
<1> QED
  BY <1>1, <1>2, <1>3, <1>4 DEF IInv

\* The inductive invariant of the mailbox.
THEOREM MailInvariant == Spec => []IInv
<1>1. IInv /\ [Next]_vars => IInv'
  BY TypeStep, CopyStep, OnceStep, HostStep, LateStep, ExpiredStep, SuccessStep, WaitingStep DEF IInv
<1> QED
  BY InvInit, <1>1, PTL DEF Spec

\* Types, and the message in hand is the file that is being processed.
THEOREM MailTypes == Spec => []TypeOK
<1>1. IInv => TypeOK
  BY DEF IInv
<1> QED
  BY MailInvariant, <1>1, PTL

\* "Opened" is said only of a file that is there with its task, and a message that
\* was answered as expired has not been handled.
THEOREM AnswersAreTrue == Spec => []AnswersAreHonest
<1>1. IInv => AnswersAreHonest
  BY DEF IInv, ExpiredInv, AnswersAreHonest
<1> QED
  BY MailInvariant, <1>1, PTL

\* A caller that polls has its message or its answer on disk.
THEOREM NoCallerIsForgotten == Spec => []WaitingIsNeverForgotten
<1>1. IInv => WaitingIsNeverForgotten
  BY DEF IInv, WaitingInv
<1> QED
  BY MailInvariant, <1>1, PTL

\* No message is handled twice, by one desktop or by its successor, and no answer
\* is replaced except by that of recover.
THEOREM AtMostOnce == Spec => HandledOnce
<1> DEFINE Once ==
      \A r \in Request :
        /\ Desktop \in started[r] => ~(mail[r] = "request" /\ mail'[r] = "processing")
        /\ response[r] # "none" => response'[r] \in {response[r], "none", "interrupted"}
<1>1. IInv /\ [Next]_vars => [Once]_vars
  <2>1. SUFFICES ASSUME IInv, Next, NEW r \in Request, response[r] # "none"
                 PROVE response'[r] \in {response[r], "none", "interrupted"}
    BY DEF IInv, OnceInv
  <2> USE <2>1 DEF IInv, TypeOK
  <2>2. ASSUME NEW q \in Request, Poll(q) \/ PollFails(q) \/ Recover(q)
        PROVE response'[r] \in {response[r], "none", "interrupted"}
    BY <2>2 DEF Poll, PollFails, Recover
  <2>3. CASE RecoverFails
    BY <2>3 DEF RecoverFails
  <2>4. CASE Respond
    BY <2>4 DEF Respond, OnceInv, OpenTypeOK, At
  <2>5. \/ response' = response
        \/ RecoverFails \/ Respond
        \/ \E q \in Request : Poll(q) \/ PollFails(q) \/ Recover(q)
    BY DEF Next, Call, CallFails, Spawn, SpawnFails, TimeOut, OpenHere, Opened, Killed, Expire,
       Take, Taken, Start, Crash, Recovered, Handle, Remove, Save, mailVars
  <2> QED
    BY <2>2, <2>3, <2>4, <2>5
<1> QED
  BY MailInvariant, <1>1, PTL DEF Spec, HandledOnce

\* The desktop begins no work for a caller that has waited out its time.
THEOREM NeverLate == Spec => NothingStartedLate
<1> DEFINE NotLate ==
      \A r \in Request : Desktop \in started'[r] \ started[r] => caller[r] # "unknown"
<1>1. IInv /\ [Next]_vars => [NotLate]_vars
  <2>1. SUFFICES ASSUME IInv, Next PROVE NotLate
    OBVIOUS
  <2> USE <2>1 DEF IInv, TypeOK
  <2>2. ASSUME NEW q \in Request, Take(q) PROVE NotLate
    BY <2>2 DEF Take, Taken, LateInv
  <2>3. ASSUME NEW q \in Request, CallFails(q) \/ SpawnFails(q) \/ PollFails(q) \/ TimeOut(q)
        PROVE NotLate
    BY <2>3 DEF CallFails, SpawnFails, PollFails, TimeOut, Forward
  <2>4. \/ started' = started
        \/ \E q \in Request : Take(q) \/ CallFails(q) \/ SpawnFails(q) \/ PollFails(q) \/ TimeOut(q)
    BY DEF Next, Call, Spawn, Poll, OpenHere, Opened, Killed, Expire, Recover, Start, Crash,
       RecoverFails, Recovered, Handle, Respond, Remove, Save
  <2> QED
    BY <2>2, <2>3, <2>4
<1> QED
  BY MailInvariant, <1>1, PTL DEF Spec, NothingStartedLate

\* No step, of the desktop or of a native host, replaces an edited working copy.
THEOREM EditsSurvive == Spec => EditedCopyIsKept
<1>1. IInv /\ [Next]_vars => [copy = "edited" => copy' = "edited"]_vars
  <2>1. SUFFICES ASSUME IInv, Next, copy = "edited" PROVE copy' = "edited"
    OBVIOUS
  <2> USE <2>1 DEF IInv, TypeOK
  <2>2. ASSUME NEW p \in Opener, Open(p) PROVE copy' = "edited"
    BY <2>2, OpenStep
  <2>3. (\E p \in Opener : Open(p)) \/ copy' = copy
    BY DEF Next, Call, CallFails, Spawn, SpawnFails, Poll, PollFails, TimeOut, Forward,
       OpenHere, Opened, Killed, Expire, Recover, Take, Taken, Start, Crash, RecoverFails,
       Recovered, Handle, Respond, Remove, Save, Edit, openVars, fileVars
  <2> QED
    BY <2>2, <2>3
<1> QED
  BY MailInvariant, <1>1, PTL DEF Spec, EditedCopyIsKept
================================================================================
