----------------------------- MODULE RenewalGate -----------------------------
(***************************************************************************)
(* The lease of an exclusive checkout: how it is handed to the agent       *)
(* (checkout_init.go, device_lease_broker.go) and how the foreground       *)
(* editor and the resident watcher, which are different processes, extend  *)
(* it (checkout_renew.go, renewal_guard.go).                               *)
(*                                                                         *)
(* A lease is named by its number: publishing and resuming give the same   *)
(* checkout a new one, first at the server and then in the journal.  The   *)
(* renewal request names the session alone.  A tick is half of the time    *)
(* for which a confirmed renewal may stand in for another one.             *)
(***************************************************************************)
EXTENDS Integers

CONSTANTS
    Renewer,        \* processes: --init-checkout-stdin, --renew-checkout-stdin
    MaxLease,       \* bound: leases of the session
    MaxClock        \* bound: ticks

ASSUME GateAssumption == MaxLease \in Nat \ {0} /\ MaxClock \in Nat

ReuseTime == 2      \* 45 s
CallLimit == 2      \* 40 s
NoJournal == [lease |-> 0]
NoAck == [key |-> 0]

VARIABLES
    guard,      \* the server: the current lease, and whether it is live
    escrow,     \* the server: the sealed lease that waits for this device
    lease,      \* the journal of the session
    ack,        \* renew-confirmed.json
    owner,      \* renew-owner.lock
    renewing,   \* where each process is
    clock,
    confirmed   \* history: when the server has last extended each lease

gateVars == <<guard, escrow, lease, ack, owner, renewing, clock, confirmed>>

Away == [step |-> "away"]
Nobody == "nobody"

ASSUME NobodyAssumption == Nobody \notin Renewer

Held(p) == renewing[p].step \in {"check", "send", "answered"}

GateTypeOK ==
    /\ guard.lease \in 1..MaxLease /\ guard.live \in BOOLEAN
    /\ escrow \in {"held", "erased", "expired"}
    /\ lease = NoJournal \/ (lease.lease \in 1..MaxLease /\ lease.closed \in BOOLEAN)
    /\ ack = NoAck \/ (ack.key \in 1..MaxLease /\ ack.at \in 0..MaxClock)
    /\ owner \in Renewer \cup {Nobody}
    /\ \A p \in Renewer : Held(p) <=> owner = p
    /\ confirmed \in [1..MaxLease -> -1..MaxClock]

GateInit ==
    /\ guard = [lease |-> 1, live |-> TRUE]
    /\ escrow = "held"
    /\ lease = NoJournal /\ ack = NoAck
    /\ owner = Nobody
    /\ renewing = [p \in Renewer |-> Away]
    /\ clock = 0 /\ confirmed = [l \in 1..MaxLease |-> -1]

Goto(p, r) == renewing' = [renewing EXCEPT ![p] = r]
Step(p, s) == Goto(p, [renewing[p] EXCEPT !.step = s])
Release(p) == owner' = IF owner = p THEN Nobody ELSE owner
Stop(p) == Goto(p, Away) /\ Release(p)
Open == lease # NoJournal /\ ~lease.closed

-------------------------------------------------------------------------------
(* runCheckoutInit                                                         *)

\* A journal that exists is used as it is, or refused when it is closed.
BeginInit(p) ==
    /\ renewing[p] = Away
    /\ lease = NoJournal
    /\ Goto(p, [step |-> "receive"])
    /\ UNCHANGED <<guard, escrow, lease, ack, owner, clock, confirmed>>

Receive(p) ==
    /\ renewing[p].step = "receive"
    /\ escrow = "held" /\ guard.live
    /\ Goto(p, [step |-> "save", lease |-> guard.lease])
    /\ UNCHANGED <<guard, escrow, lease, ack, owner, clock, confirmed>>

\* InitializePrivateCheckout, under the lock of the session: another journal is
\* never overwritten.
SaveJournal(p) ==
    /\ renewing[p].step = "save"
    /\ LET new == [lease |-> renewing[p].lease, closed |-> FALSE]
       IN IF lease = NoJournal
          THEN lease' = new /\ Goto(p, [step |-> "confirm"])
          ELSE /\ IF lease = new THEN Goto(p, [step |-> "confirm"]) ELSE Goto(p, Away)
               /\ UNCHANGED lease
    /\ UNCHANGED <<guard, escrow, ack, owner, clock, confirmed>>

\* The server erases its copy; the answer may be lost.
Confirm(p) ==
    /\ renewing[p].step = "confirm"
    /\ escrow' = IF escrow = "held" THEN "erased" ELSE escrow
    /\ Goto(p, Away)
    /\ UNCHANGED <<guard, lease, ack, owner, clock, confirmed>>

-------------------------------------------------------------------------------
(* runCheckoutRenew and RenewalGate                                        *)

\* The journal and the time are read before the lock is taken.
BeginRenew(p) ==
    /\ renewing[p] = Away /\ Open
    /\ Goto(p, [step |-> "lock", lease |-> lease.lease, now |-> clock])
    /\ UNCHANGED <<guard, escrow, lease, ack, owner, clock, confirmed>>

\* Mutant: the lock of another process is taken over.
StealLock(p) ==
    /\ renewing[p].step = "lock"
    /\ owner' = p /\ Step(p, "check")
    /\ UNCHANGED <<guard, escrow, lease, ack, clock, confirmed>>

\* lockSession does not wait.
TakeLock(p) ==
    /\ renewing[p].step = "lock"
    /\ IF owner = Nobody THEN owner' = p /\ Step(p, "check")
       ELSE Goto(p, Away) /\ UNCHANGED owner
    /\ UNCHANGED <<guard, escrow, lease, ack, clock, confirmed>>

\* Mutant: the lease is not part of the key.
RecentOfSession(p) ==
    ack # NoAck /\ ack.at <= renewing[p].now /\ renewing[p].now - ack.at < ReuseTime

\* A renewal of this very lease that is not older than the reuse time.
Recent(p) ==
    /\ ack.key = renewing[p].lease
    /\ ack.at <= renewing[p].now /\ renewing[p].now - ack.at < ReuseTime

\* The journal is read again under the lock.
CheckAck(p) ==
    /\ renewing[p].step = "check"
    /\ IF ~Open \/ lease.lease # renewing[p].lease THEN Stop(p)
       ELSE IF Recent(p)
       THEN /\ Goto(p, [step |-> "told", reused |-> TRUE,
                        lease |-> renewing[p].lease, now |-> renewing[p].now])
            /\ Release(p)
       ELSE /\ Goto(p, [step |-> "send", lease |-> renewing[p].lease, sent |-> clock])
            /\ UNCHANGED owner
    /\ UNCHANGED <<guard, escrow, lease, ack, clock, confirmed>>

\* The server extends whatever lease the session has; the answer may be lost.
HandleRenew(p) ==
    /\ renewing[p].step = "send" /\ guard.live
    /\ confirmed' = [confirmed EXCEPT ![guard.lease] = clock]
    /\ \/ Step(p, "answered") /\ UNCHANGED owner
       \/ Stop(p)
    /\ UNCHANGED <<guard, escrow, lease, ack, clock>>

\* Only a confirmed renewal is recorded, by a rename.
RecordAck(p) ==
    /\ renewing[p].step = "answered"
    /\ ack' = [key |-> renewing[p].lease, at |-> clock]
    /\ Goto(p, [step |-> "told", reused |-> FALSE,
                lease |-> renewing[p].lease, sent |-> renewing[p].sent])
    /\ Release(p)
    /\ UNCHANGED <<guard, escrow, lease, clock, confirmed>>

EndRenew(p) ==
    /\ renewing[p].step = "told"
    /\ Stop(p)
    /\ UNCHANGED <<guard, escrow, lease, ack, clock, confirmed>>

\* An error, a deadline, or the end of the process: signedChildRenew kills its child.
DieRenewing(p) ==
    /\ renewing[p] # Away
    /\ Stop(p)
    /\ UNCHANGED <<guard, escrow, lease, ack, clock, confirmed>>

-------------------------------------------------------------------------------
(* The worker of the session, the server and time                          *)

\* A publication or a resume is handled ...
NewLease ==
    /\ Open /\ guard.live /\ guard.lease = lease.lease /\ guard.lease < MaxLease
    /\ guard' = [guard EXCEPT !.lease = @ + 1]
    /\ UNCHANGED <<escrow, lease, ack, owner, renewing, clock, confirmed>>

\* ... and its answer is accepted.
AcceptLease ==
    /\ Open /\ lease.lease < guard.lease
    /\ lease' = [lease EXCEPT !.lease = guard.lease]
    /\ UNCHANGED <<guard, escrow, ack, owner, renewing, clock, confirmed>>

\* Checkin, abandon, expiry or an administrator.
EndGuard ==
    /\ guard.live
    /\ guard' = [guard EXCEPT !.live = FALSE]
    /\ UNCHANGED <<escrow, lease, ack, owner, renewing, clock, confirmed>>

CloseJournal ==
    /\ Open /\ ~guard.live
    /\ lease' = [lease EXCEPT !.closed = TRUE]
    /\ UNCHANGED <<guard, escrow, ack, owner, renewing, clock, confirmed>>

ExpireEscrow ==
    /\ escrow = "held"
    /\ escrow' = "expired"
    /\ UNCHANGED <<guard, lease, ack, owner, renewing, clock, confirmed>>

\* A call ends within its limit, and what follows it is prompt.
Pass ==
    /\ clock < MaxClock
    /\ \A p \in Renewer :
          renewing[p].step \in {"send", "answered"} => clock - renewing[p].sent < CallLimit
    /\ clock' = clock + 1
    /\ UNCHANGED <<guard, escrow, lease, ack, owner, renewing, confirmed>>

RenewStep(p) ==
    \/ BeginInit(p) \/ Receive(p) \/ SaveJournal(p) \/ Confirm(p)
    \/ BeginRenew(p) \/ TakeLock(p) \/ CheckAck(p) \/ HandleRenew(p)
    \/ RecordAck(p) \/ EndRenew(p) \/ DieRenewing(p)

GateNext ==
    \/ \E p \in Renewer : RenewStep(p)
    \/ NewLease \/ AcceptLease \/ EndGuard \/ CloseJournal \/ ExpireEscrow \/ Pass

GateSpec == GateInit /\ [][GateNext]_gateVars

-------------------------------------------------------------------------------
\* Whoever is told that a lease has been renewed is told the truth: the server has
\* extended this lease, or a newer one of the session, during the call; or, when an
\* earlier renewal stands in for it, no longer before the process came to the gate
\* than the reuse time and the limit of a call.
ReusedIsRecent ==
    \A p \in Renewer : renewing[p].step = "told" =>
        \E l \in renewing[p].lease..MaxLease :
            IF renewing[p].reused
            THEN renewing[p].now - confirmed[l] < ReuseTime + CallLimit /\ confirmed[l] # -1
            ELSE confirmed[l] >= renewing[p].sent

\* The server's copy of the lease is erased on the agent's word only once the journal
\* holds it, whichever of two processes has saved it ("Confirm must be called only
\* after the Agent has durably saved its Journal").
ErasedIsSaved == escrow = "erased" => lease # NoJournal
================================================================================
