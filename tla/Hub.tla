---------------------------------- MODULE Hub ----------------------------------
(***************************************************************************)
(* The server side of one checked-out file, as the agents under src/ use   *)
(* it.  The Hub is not part of the repository: every action here is        *)
(* external, read off the requests, answers and refusals that the clients  *)
(* in src/internal/editing and src/agent22 rely on (and the steps that     *)
(* docs/device-upload-contract.md lists for the native transaction).       *)
(*                                                                         *)
(* A file version is identified by its content (the Hub's object ids are   *)
(* content hashes), so a member of Content stands both for bytes and for   *)
(* the file id those bytes have.  The guard is the reservation that a      *)
(* checkout created; "us" means the reservation of the modelled session.   *)
(***************************************************************************)
EXTENDS Naturals

CONSTANTS
    IntentId,   \* ids that newIntentID may draw
    Content,    \* file contents, and the file ids they hash to
    MaxEpoch,   \* the last credential epoch (2^64-1 in the code)
    NoIntent    \* absence of an intent or of an intent id

Action == {"commit", "checkin", "checkin-unchanged"}

\* "checkin-unchanged" sends no bytes: its content is the version it expects.
Intent == [id : IntentId, content : Content, expected : Content, action : Action]

ASSUME HubAssumption ==
    /\ MaxEpoch \in Nat \ {0}
    /\ NoIntent \notin IntentId
    /\ NoIntent \notin Intent

VARIABLES
    guard,   \* the reservation: who holds it, its credential epoch, its prepared intent
    file,    \* the current version of the file
    reg      \* for every intent id: what the server knows of it

hubVars == <<guard, file, reg>>

IntentState == {"not-found", "prepared", "published", "cancelled"}

\* An intent in one of these states is decided for ever.
Settled == {"published", "cancelled"}

HubTypeOK ==
    /\ guard \in [owner : {"us", "other", "free"},
                  epoch : 1..MaxEpoch,
                  pending : IntentId \cup {NoIntent}]
    /\ file \in Content
    /\ reg \in [IntentId -> [state : IntentState, intent : Intent \cup {NoIntent}]]

\* The checkout has just been granted.
HubInit ==
    /\ guard = [owner |-> "us", epoch |-> 1, pending |-> NoIntent]
    /\ file \in Content
    /\ reg = [i \in IntentId |-> [state |-> "not-found", intent |-> NoIntent]]

\* The proof (guard, generation, epoch, token) is the current one of our guard.
Current(e) == guard.owner = "us" /\ guard.epoch = e

\* The native transaction accepts intent m: proof, base, and no other intent pending.
Admits(m, e) ==
    /\ Current(e)
    /\ file = m.expected
    /\ guard.pending \in {NoIntent, m.id}
    /\ reg[m.id].state \notin Settled

\* The intent is recorded, the transaction has not been committed.
HubPrepare(m, e) ==
    /\ Admits(m, e)
    /\ guard' = [guard EXCEPT !.pending = m.id]
    /\ reg' = [reg EXCEPT ![m.id] = [state |-> "prepared", intent |-> m]]
    /\ UNCHANGED file

\* Branch, receipt and guard change in one transaction; a check-in also
\* releases the guard.
HubPublish(m, e) ==
    /\ Admits(m, e)
    /\ guard' = [guard EXCEPT !.pending = NoIntent,
                              !.owner = IF m.action = "commit" THEN "us" ELSE "free"]
    /\ file' = m.content
    /\ reg' = [reg EXCEPT ![m.id] = [state |-> "published", intent |-> m]]

HubCancel(i, e) ==
    /\ Current(e)
    /\ reg[i].state = "prepared"
    /\ guard' = [guard EXCEPT !.pending = NoIntent]
    /\ reg' = [reg EXCEPT ![i].state = "cancelled"]
    /\ UNCHANGED file

\* A new host scope takes the credential over: the epoch advances by one.
HubResume(e) ==
    /\ Current(e)
    /\ guard.pending = NoIntent
    /\ e < MaxEpoch
    /\ guard' = [guard EXCEPT !.epoch = e + 1]
    /\ UNCHANGED <<file, reg>>

HubAbandon(e) ==
    /\ Current(e)
    /\ guard.pending = NoIntent
    /\ guard' = [guard EXCEPT !.owner = "free"]
    /\ UNCHANGED <<file, reg>>

\* The reservation runs out, or an administrator releases it.
HubExpire ==
    /\ guard.owner = "us"
    /\ guard.pending = NoIntent
    /\ guard' = [guard EXCEPT !.owner = "free"]
    /\ UNCHANGED <<file, reg>>

\* Once our guard is gone somebody else may check the file out and change it.
HubOther(c, o) ==
    /\ guard.owner # "us"
    /\ file' = c
    /\ guard' = [guard EXCEPT !.owner = o]
    /\ UNCHANGED reg
================================================================================
