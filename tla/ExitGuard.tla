------------------------------- MODULE ExitGuard -------------------------------
(***************************************************************************)
(* guard.rs: may the desktop process stop without a warning?  assess reads *)
(* the directory of tasks and then one task after the other, from disk and *)
(* without a lock, while other threads go on changing journals; the window *)
(* and the tray act on its answer afterwards.                              *)
(*                                                                         *)
(* Of a journal only what assess looks at is kept.                         *)
(***************************************************************************)
EXTENDS FiniteSets

CONSTANT Task

VARIABLES
    store,    \* the task directories
    pc,       \* the assessment behind "quit", and what it leads to
    todo,     \* task directories listed and not yet looked at
    risks,    \* tasks found at risk
    failure,  \* history: something could not be read during the assessment
    steady    \* history: tasks at risk ever since the assessment began

vars == <<store, pc, todo, risks, failure, steady>>

Lease == {"none", "held", "acknowledged", "malformed"}

State == [listed : BOOLEAN, readable : BOOLEAN, pending : BOOLEAN,
          lease : Lease, closed : BOOLEAN]

TypeOK ==
    /\ store \in [Task -> State]
    /\ pc \in {"running", "assessing", "safe", "warning", "stopped"}
    /\ todo \subseteq Task
    /\ risks \subseteq Task
    /\ failure \in BOOLEAN
    /\ steady \subseteq Task
    /\ pc # "assessing" => todo = {}
    /\ \A t \in Task : store[t].closed => ~store[t].pending /\ store[t].lease = "none"

Init ==
    /\ store = [t \in Task |-> [listed |-> FALSE, readable |-> TRUE, pending |-> FALSE,
                                lease |-> "none", closed |-> FALSE]]
    /\ pc = "running"
    /\ todo = {}
    /\ risks = {}
    /\ failure = FALSE
    /\ steady = {}

\* The reasons assess knows: an unreadable file, a pending intent, a lease.
AtRisk(s) ==
    /\ s.listed
    /\ \/ ~s.readable
       \/ s.pending
       \/ ~s.closed /\ s.lease # "none"

-------------------------------------------------------------------------------
(* Other threads of the process                                            *)

\* One operation of the journal turns a readable task from s into n.
Change(s, n) ==
    \/ ~s.closed /\ n = [s EXCEPT !.pending = TRUE]                          \* capture
    \/ s.pending /\ n = [s EXCEPT !.pending = FALSE]                         \* accept
    \/ s.pending /\ n = [s EXCEPT !.pending = FALSE, !.lease = "none", !.closed = TRUE]
    \/ ~s.closed /\ s.lease = "none" /\ n = [s EXCEPT !.lease = "held"]      \* set_lease
    \/ s.lease = "held" /\ n = [s EXCEPT !.lease = "acknowledged"]
    \/ ~s.pending /\ n = [s EXCEPT !.lease = "none", !.closed = TRUE]        \* close

Work(t) ==
    /\ pc # "stopped"
    /\ IF store[t].listed
         THEN /\ store[t].readable
              /\ \E n \in State : Change(store[t], n) /\ store' = [store EXCEPT ![t] = n]
         ELSE store' = [store EXCEPT ![t].listed = TRUE]
    /\ steady' = {u \in steady : AtRisk(store'[u])}
    /\ UNCHANGED <<pc, todo, risks, failure>>

\* A file is damaged, or cannot be opened for a while.
Damage(t) ==
    /\ store[t].listed
    /\ \/ store' = [store EXCEPT ![t].readable = ~@]
       \/ /\ store[t].lease # "none"
          /\ store' = [store EXCEPT ![t].lease = "malformed"]
    /\ steady' = {u \in steady : AtRisk(store'[u])}
    /\ UNCHANGED <<pc, todo, risks, failure>>

-------------------------------------------------------------------------------
(* assess, for quit_app and the tray                                       *)

Assess ==
    /\ pc \in {"running", "warning"}
    /\ pc' = "assessing"
    /\ todo' = {t \in Task : store[t].listed}
    /\ risks' = {}
    /\ failure' = FALSE
    /\ steady' = {t \in Task : AtRisk(store[t])}
    /\ UNCHANGED store

\* read_dir returns an error: there is nothing at risk.  That is so when there is
\* no directory yet, but no error is told from another.
Unlisted ==
    /\ pc \in {"running", "warning"}
    /\ pc' = "safe"
    /\ todo' = {}
    /\ risks' = {}
    /\ failure' = \E t \in Task : store[t].listed
    /\ steady' = {t \in Task : AtRisk(store[t])}
    /\ UNCHANGED store

\* Mutant: a task that cannot be read is passed over.
LookReadable(t) ==
    /\ pc = "assessing"
    /\ t \in todo
    /\ todo' = todo \ {t}
    /\ risks' = IF AtRisk(store[t]) /\ store[t].readable THEN risks \cup {t} ELSE risks
    /\ UNCHANGED <<store, pc, failure, steady>>

Look(t) ==
    /\ pc = "assessing"
    /\ t \in todo
    /\ todo' = todo \ {t}
    /\ risks' = IF AtRisk(store[t]) THEN risks \cup {t} ELSE risks
    /\ UNCHANGED <<store, pc, failure, steady>>

\* An entry that cannot be read, or whose task.json cannot be seen, is skipped.
Skip(t) ==
    /\ pc = "assessing"
    /\ t \in todo
    /\ todo' = todo \ {t}
    /\ failure' = TRUE
    /\ UNCHANGED <<store, pc, risks, steady>>

\* Mutant: a flaw in the loop: the answer is given while tasks remain.
FinishEarly ==
    /\ pc = "assessing"
    /\ pc' = IF risks = {} THEN "safe" ELSE "warning"
    /\ UNCHANGED <<store, todo, risks, failure, steady>>

Finish ==
    /\ pc = "assessing"
    /\ todo = {}
    /\ pc' = IF risks = {} THEN "safe" ELSE "warning"
    /\ UNCHANGED <<store, todo, risks, failure, steady>>

\* The process exits when the answer is safe, or the user insists.
Exit ==
    /\ pc = "safe"
    /\ pc' = "stopped"
    /\ UNCHANGED <<store, todo, risks, failure, steady>>

Insist ==
    /\ pc = "warning"
    /\ pc' = "stopped"
    /\ steady' = {}
    /\ UNCHANGED <<store, todo, risks, failure>>

Stay ==
    /\ pc = "warning"
    /\ pc' = "running"
    /\ UNCHANGED <<store, todo, risks, failure, steady>>

Start ==
    /\ pc = "stopped"
    /\ pc' = "running"
    /\ steady' = {}
    /\ UNCHANGED <<store, todo, risks, failure>>

Next ==
    \/ \E t \in Task : Work(t) \/ Damage(t) \/ Look(t) \/ Skip(t)
    \/ Assess \/ Unlisted \/ Finish \/ Exit \/ Insist \/ Stay \/ Start

Spec == Init /\ [][Next]_vars

-------------------------------------------------------------------------------
\* A process that stops without a warning leaves no task that was at risk all
\* the time it took to find out, in whatever order tasks were read and changed.
QuietExitMissesNothing == pc \in {"safe", "stopped"} /\ ~failure => steady = {}

\* "Any failure raises uncertain, so a broken store can only make the warning
\* more likely, never less": with a task at risk, a failure is never "safe".
FailureIsNeverSafe == failure /\ steady # {} => pc # "safe"
================================================================================
