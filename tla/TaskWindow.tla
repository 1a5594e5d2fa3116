----------------------------- MODULE TaskWindow ------------------------------
(***************************************************************************)
(* The window of the task center (cloudfile-taskcenter-ui) and the command *)
(* line program it runs (cloudfile-taskcenter).  One thread owns every     *)
(* window; the others hand it closures through a channel and drop them     *)
(* when it is full.  The watcher is a process of its own that tells of     *)
(* changes only, so that what is lost on the way is not said again.        *)
(***************************************************************************)
EXTENDS Integers, SequencesExt

CONSTANTS
    Checkout,       \* exclusive sessions
    QueueSize,      \* capacity of updates; 32 in main
    MaxTell,        \* bound: changes of the sessions
    MaxPoll         \* bound: focus requests, notices of opened files, reports of the monitor

Nothing == "nothing"

ASSUME WindowAssumption ==
    /\ IsFiniteSet(Checkout) /\ Nothing \notin Checkout
    /\ QueueSize \in Nat \ {0} /\ MaxTell \in Nat /\ MaxPoll \in Nat

Warning == {"unmanaged", "needs-review", "unconfirmed"}
LeaseKind == Warning \cup {"renewed", "ended"}

VARIABLES
    listed,     \* the sessions in the index
    journal,    \* whether the journal of each is open, closed or unreadable
    damaged,    \* the index cannot be listed
    tells, asks,    \* how often either has changed; how often the window was called
    core,       \* the watcher was given an agent to renew with
    last,       \* the watcher: what it has last found of each session
    pipe,       \* the watcher: "running" with what it has printed, or "ended"
    updates,    \* closures for the thread of the window
    querying,   \* the flag of refreshAsync
    queries,    \* --list processes, and what they have found
    list,       \* the rows and the counts in the window
    warned,     \* leaseWarnings
    pending,    \* pendingFocusID
    tray,       \* the icon
    quit,       \* the request to quit, with the sessions that were open then
    dropped     \* history: a closure has been dropped

windowVars == <<listed, journal, damaged, tells, asks, core, last, pipe, updates, querying,
                queries, list, warned, pending, tray, quit, dropped>>

Count == 0..Cardinality(Checkout)
Listing == [rows : SUBSET Checkout, active : Count, uncertain : Count]
Failed == [error |-> TRUE]
Running == [running |-> TRUE]
NoQuit == [step |-> "no", open |-> {}]

WindowTypeOK ==
    /\ listed \subseteq Checkout /\ core \in BOOLEAN /\ damaged \in BOOLEAN
    /\ journal \in [Checkout -> {"open", "closed", "unreadable"}]
    /\ tells \in 0..MaxTell /\ asks \in 0..MaxPoll
    /\ last \in [Checkout -> LeaseKind \cup {Nothing}]
    /\ pipe.state \in {"running", "ended"}
    /\ Len(updates) <= QueueSize
    /\ querying \in BOOLEAN
    /\ \A q \in queries : q \in Listing \cup {Running, Failed}
    /\ list \in Listing
    /\ warned \subseteq Checkout \cup {Nothing}
    /\ pending \in Checkout \cup {Nothing}
    /\ tray \in {"adding", "ready", "failed"}
    /\ quit.step \in {"no", "reading", "asking", "asked", "silent"}

WindowInit ==
    /\ listed = {}
    /\ journal = [c \in Checkout |-> "open"]
    /\ damaged = FALSE /\ tells = 0 /\ asks = 0
    /\ core \in BOOLEAN
    /\ last = [c \in Checkout |-> Nothing]
    /\ pipe = [state |-> "running", lines |-> <<>>]
    /\ updates = <<>>
    /\ querying = FALSE /\ queries = {}
    /\ list = [rows |-> {}, active |-> 0, uncertain |-> 0]
    /\ warned = {} /\ pending = Nothing
    /\ tray = "adding"
    /\ quit = NoQuit
    /\ dropped = FALSE

sessionVars == <<listed, journal, damaged, tells, asks, core>>
watchVars == <<last, pipe>>
threadVars == <<querying, list, warned, pending, tray, quit>>

-------------------------------------------------------------------------------
(* cloudfile-taskcenter                                                    *)

\* exclusiveCounts: an unreadable journal is not an inactive checkout.
InState(S, state) == Cardinality({c \in S : journal[c] = state})
List == IF damaged THEN Failed
        ELSE [rows |-> listed, active |-> InState(listed, "open"),
              uncertain |-> InState(listed, "unreadable")]

\* What RunOneCycle may find of a session.
Finds(c) ==
    CASE journal[c] = "unreadable" -> {"needs-review"}
      [] journal[c] = "closed" -> {"ended"}
      [] OTHER -> {"needs-review"} \cup (IF core THEN {"renewed", "unconfirmed"} ELSE {"unmanaged"})

Tell(events) == pipe' = [pipe EXCEPT !.lines = @ \o events]

\* Only changes are told, and good news only when it follows something else.
Changed(found) ==
    {c \in listed : found[c] # last[c] /\ (found[c] \in Warning \/ last[c] # Nothing)}

\* Every poll scans first; the renewal follows every fourth minute.  Bound: by then
\* what the last one has printed has been read.
RunOneCycle ==
    /\ pipe.state = "running" /\ pipe.lines = <<>> /\ ~damaged
    /\ \E found \in [listed -> LeaseKind] :
         /\ \A c \in listed : found[c] \in Finds(c)
         /\ last' = [c \in Checkout |-> IF c \in listed THEN found[c] ELSE last[c]]
         /\ Tell(SetToSeq({[task |-> c, kind |-> found[c]] : c \in Changed(found)}))
    /\ UNCHANGED <<sessionVars, threadVars, updates, queries, dropped>>

\* The records are read once more after the scan.  When that fails, the warning is of
\* no checkout in particular, and the watcher goes on.
CycleFails ==
    /\ pipe.state = "running" /\ pipe.lines = <<>> /\ damaged
    /\ Tell(<<[task |-> Nothing, kind |-> "needs-review"]>>)
    /\ UNCHANGED <<sessionVars, threadVars, last, updates, queries, dropped>>

\* The monitor tells of a copy that was saved or has to be looked at (TaskIndex).
Scan ==
    /\ asks < MaxPoll
    /\ pipe.state = "running" /\ ~damaged
    /\ \E c \in listed : Tell(<<[task |-> c, kind |-> "local"]>>)
    /\ asks' = asks + 1
    /\ UNCHANGED <<listed, journal, damaged, tells, core, last, threadVars, updates, queries,
                   dropped>>

\* A record that cannot be read ends the watcher, and nothing starts it again.
EndWatcher ==
    /\ pipe.state = "running" /\ damaged
    /\ pipe' = [pipe EXCEPT !.state = "ended"]
    /\ UNCHANGED <<sessionVars, threadVars, last, updates, queries, dropped>>

-------------------------------------------------------------------------------
(* postUI and its callers                                                  *)

Quitting == quit.step \in {"asked", "silent"}

\* A full channel drops the closure.
Post(u) ==
    IF Len(updates) < QueueSize
    THEN updates' = Append(updates, u) /\ UNCHANGED dropped
    ELSE dropped' = TRUE /\ UNCHANGED updates

\* The reader of the watcher's output: handleEvent.
HandleEvent ==
    /\ pipe.lines # <<>>
    /\ Post([do |-> "event", event |-> Head(pipe.lines)])
    /\ pipe' = [pipe EXCEPT !.lines = Tail(@)]
    /\ UNCHANGED <<sessionVars, threadVars, last, queries>>

\* A --list process reads the index and the journals ...
ReadList ==
    /\ Running \in queries
    /\ queries' = (queries \ {Running}) \cup {List}
    /\ UNCHANGED <<sessionVars, watchVars, threadVars, updates, dropped>>

\* ... and its result is handed over.
PostList ==
    /\ \E q \in queries \ {Running} : Post([do |-> "list", list |-> q]) /\ queries' = queries \ {q}
    /\ UNCHANGED <<sessionVars, watchVars, threadVars>>

\* A --poll-focus process has taken a request for an indexed task.
PostFocus ==
    /\ asks < MaxPoll /\ ~Quitting
    /\ asks' = asks + 1
    /\ \E c \in listed : Post([do |-> "focus", task |-> c])
    /\ UNCHANGED <<listed, journal, damaged, tells, core, watchVars, threadVars, queries>>

\* The notification worker has read that a file was opened.
PostNotification ==
    /\ asks < MaxPoll
    /\ asks' = asks + 1
    /\ Post([do |-> "notice"])
    /\ UNCHANGED <<listed, journal, damaged, tells, core, watchVars, threadVars, queries>>

\* The tray worker has added the icon, or the shell has refused it.
PostTray ==
    /\ tray = "adding" /\ \A i \in 1..Len(updates) : updates[i].do # "tray"
    /\ \E ok \in BOOLEAN : Post([do |-> "tray", ok |-> ok])
    /\ UNCHANGED <<sessionVars, watchVars, threadVars, queries>>

-------------------------------------------------------------------------------
(* The thread of the window                                                *)

\* It is blocked while requestQuit runs --list itself.
Responsive == quit.step # "reading" /\ ~Quitting

\* refreshAsync: one query at a time.
StartRefresh ==
    IF querying \/ Quitting THEN UNCHANGED <<querying, queries>>
    ELSE querying' = TRUE /\ queries' = queries \cup {Running}

\* The timer, and the command.
Refresh ==
    /\ Responsive /\ ~querying
    /\ StartRefresh
    /\ UNCHANGED <<sessionVars, watchVars, updates, list, warned, pending, tray, quit, dropped>>

\* highlightPendingFocus: the request waits until its row is there.
Highlight(p, rows) == pending' = IF p \in rows THEN Nothing ELSE p

\* applySnapshot; a failure leaves what is shown.
ApplyList(u) ==
    /\ u.do = "list"
    /\ querying' = FALSE
    /\ IF u.list = Failed THEN UNCHANGED <<list, pending>>
       ELSE list' = u.list /\ Highlight(pending, u.list.rows)
    /\ UNCHANGED <<queries, warned, tray>>

\* Mutant: whatever else is heard of a checkout takes its warning back.
ForgetWarning(u) ==
    /\ u.do = "event"
    /\ warned' = IF u.event.kind = "unconfirmed" THEN warned \cup {u.event.task}
                 ELSE warned \ {u.event.task}
    /\ StartRefresh
    /\ UNCHANGED <<list, pending, tray>>

\* The warning of a checkout stays until it is renewed or has ended; what the monitor
\* tells is shown in a balloon only.
ApplyEvent(u) ==
    /\ u.do = "event"
    /\ warned' = CASE u.event.kind = "local" -> warned
                   [] u.event.kind \in {"renewed", "ended"} -> warned \ {u.event.task}
                   [] OTHER -> warned \cup {u.event.task}
    /\ StartRefresh
    /\ UNCHANGED <<list, pending, tray>>

ApplyFocus(u) ==
    /\ u.do = "focus"
    /\ Highlight(u.task, list.rows)
    /\ UNCHANGED <<querying, queries, list, warned, tray>>

\* Without an icon the whole window is shown; balloons need one.
ApplyTray(u) ==
    /\ u.do \in {"tray", "notice"}
    /\ tray' = IF u.do = "notice" THEN tray ELSE IF u.ok THEN "ready" ELSE "failed"
    /\ UNCHANGED <<querying, queries, list, warned, pending>>

\* drainUpdates, one closure at a time.
Drain ==
    /\ Responsive /\ updates # <<>>
    /\ LET u == Head(updates)
       IN ApplyList(u) \/ ApplyEvent(u) \/ ApplyFocus(u) \/ ApplyTray(u)
    /\ updates' = Tail(updates)
    /\ UNCHANGED <<sessionVars, watchVars, quit, dropped>>

\* Explorer has restarted: restoreTray.
LoseTray ==
    /\ Responsive /\ tray \in {"ready", "failed"} /\ asks < MaxPoll
    /\ tray' = "adding" /\ asks' = asks + 1
    /\ UNCHANGED <<listed, journal, damaged, tells, core, watchVars, querying, list, warned,
                   pending, quit, updates, queries, dropped>>

-------------------------------------------------------------------------------
(* requestQuit                                                             *)

OpenNow == {c \in listed : journal[c] = "open"}

\* The sessions are listed once more while the window waits, ...
RequestQuit ==
    /\ Responsive
    /\ quit' = [step |-> "reading", open |-> OpenNow]
    /\ UNCHANGED <<sessionVars, watchVars, updates, querying, queries, list, warned, pending,
                   tray, dropped>>

\* Mutant: without an answer the counts on display decide.
QuitCountKnown(answer) ==
    IF answer = Failed THEN list.active + list.uncertain ELSE answer.active + answer.uncertain

\* ... and no answer is one more uncertain session.
QuitCount(answer) ==
    IF answer = Failed THEN list.active + list.uncertain + 1
    ELSE answer.active + answer.uncertain

\* --list answers, fails, or takes longer than its limit.
DecideQuit ==
    /\ quit.step = "reading"
    /\ \E answer \in {List, Failed} :
         quit' = [quit EXCEPT !.step = IF QuitCount(answer) > 0 THEN "asking" ELSE "silent"]
    /\ UNCHANGED <<sessionVars, watchVars, updates, querying, queries, list, warned, pending,
                   tray, dropped>>

\* The question is modal; the thread goes on with its messages meanwhile.
AnswerQuit ==
    /\ quit.step = "asking"
    /\ quit' \in {NoQuit, [quit EXCEPT !.step = "asked"]}
    /\ UNCHANGED <<sessionVars, watchVars, updates, querying, queries, list, warned, pending,
                   tray, dropped>>

-------------------------------------------------------------------------------
(* Agents                                                                  *)

\* A session is indexed; its journal is closed, cannot be read, or can again; a record
\* is damaged or put right.  What is no longer open is no longer asked about.
Journal(c, state) ==
    /\ c \in listed /\ journal[c] # "closed"
    /\ journal' = [journal EXCEPT ![c] = state]
    /\ quit' = IF state = "open" THEN quit ELSE [quit EXCEPT !.open = @ \ {c}]
    /\ UNCHANGED <<listed, damaged>>

Sessions ==
    /\ tells < MaxTell
    /\ tells' = tells + 1
    /\ \/ \E c \in Checkout \ listed :
            listed' = listed \cup {c} /\ UNCHANGED <<journal, damaged, quit>>
       \/ \E c \in Checkout, state \in {"open", "closed", "unreadable"} :
            journal[c] # state /\ Journal(c, state)
       \/ damaged' = ~damaged /\ UNCHANGED <<listed, journal, quit>>
    /\ UNCHANGED <<asks, core, watchVars, updates, querying, queries, list, warned, pending,
                   tray, dropped>>

WindowNext ==
    \/ RunOneCycle \/ CycleFails \/ Scan \/ EndWatcher
    \/ HandleEvent \/ ReadList \/ PostList \/ PostFocus \/ PostNotification \/ PostTray
    \/ Refresh \/ Drain \/ LoseTray
    \/ RequestQuit \/ DecideQuit \/ AnswerQuit
    \/ Sessions

WindowSpec == WindowInit /\ [][WindowNext]_windowVars

-------------------------------------------------------------------------------
\* A report of the renewal of a checkout, not of its copy.
About(event, c) == event.task = c /\ event.kind # "local"
OnTheWay(c) ==
    \/ \E i \in 1..Len(pipe.lines) : About(pipe.lines[i], c)
    \/ \E i \in 1..Len(updates) : updates[i].do = "event" /\ About(updates[i].event, c)

\* The window warns of exactly the checkouts that the watcher has last found without
\* a confirmed renewal, as soon as its reports have arrived; and a refresh that has
\* been begun can still end.  Both as long as the channel has not overflowed.
WarningsStay ==
    dropped \/ /\ \A c \in Checkout :
                    OnTheWay(c) \/ (c \in warned <=> last[c] \in Warning)
               /\ querying => \/ queries # {}
                              \/ \E i \in 1..Len(updates) : updates[i].do = "list"

\* A list that is shown is never followed by an older one: no task goes from it.
ListNeverGoesBack == list.rows \subseteq list'.rows

\* Whatever the watcher, the workers and the window do next, the warnings shown are
\* those of the watcher and the list shown does not go back.
WindowIsTrue == [][WarningsStay' /\ ListNeverGoesBack]_windowVars

\* The window never closes without a question while a checkout is open that was open,
\* and in the index, when the user asked it to ("A live Checkout must never be dropped
\* silently just because the UI is closing").
QuitIsAsked == quit.step = "silent" => quit.open = {}
================================================================================
