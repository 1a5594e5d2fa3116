---------------------------- MODULE ExitGuardProofs ----------------------------
(***************************************************************************)
(* Safety of the exit guard, for any set of tasks.                         *)
(***************************************************************************)
EXTENDS ExitGuard, TLAPS

\* What a journal operation leaves is a state of a task, and a closed one holds nothing.
LEMMA ChangeTypes ==
    ASSUME NEW s \in State, NEW n \in State, Change(s, n),
           s.closed => ~s.pending /\ s.lease = "none"
    PROVE  n.closed => ~n.pending /\ n.lease = "none"
  BY DEF Change, State, Lease

\* Types are kept: only journal operations close a task, and they clear it.
THEOREM GuardTypes == Spec => []TypeOK
<1>1. Init => TypeOK
  <2> DEFINE s == [listed |-> FALSE, readable |-> TRUE, pending |-> FALSE,
                   lease |-> "none", closed |-> FALSE]
  <2>1. s \in State /\ ~s.closed
    BY DEF State, Lease
  <2>2. Init => store = [t \in Task |-> s]
    BY DEF Init
  <2> HIDE DEF s
  <2> QED BY <2>1, <2>2 DEF Init, TypeOK
<1>2. TypeOK /\ [Next]_vars => TypeOK'
  <2> SUFFICES ASSUME TypeOK, [Next]_vars PROVE TypeOK'
    OBVIOUS
  <2>1. ASSUME NEW t \in Task, Work(t) PROVE TypeOK'
    <3>1. PICK n \in State : /\ store' = [store EXCEPT ![t] = n]
                             /\ n.closed => ~n.pending /\ n.lease = "none"
      <4>1. store[t] \in State /\ (store[t].closed => ~store[t].pending /\ store[t].lease = "none")
        BY DEF TypeOK
      <4>2. CASE store[t].listed
        <5>1. PICK n \in State : Change(store[t], n) /\ store' = [store EXCEPT ![t] = n]
          BY <2>1, <4>2 DEF Work
        <5> QED BY <4>1, <5>1, ChangeTypes
      <4>3. CASE ~store[t].listed
        <5> DEFINE n == [store[t] EXCEPT !.listed = TRUE]
        <5>1. n \in State /\ n.closed = store[t].closed /\ n.pending = store[t].pending
                /\ n.lease = store[t].lease
          BY <4>1 DEF State
        <5>2. store' = [store EXCEPT ![t] = n]
          BY <2>1, <4>3 DEF Work
        <5> HIDE DEF n
        <5> QED BY <4>1, <5>1, <5>2
      <4> QED BY <4>2, <4>3
    <3>2. steady' \subseteq steady /\ UNCHANGED <<pc, todo, risks, failure>>
      BY <2>1 DEF Work
    <3> QED BY <3>1, <3>2 DEF TypeOK
  <2>2. ASSUME NEW t \in Task, Damage(t) PROVE TypeOK'
    <3>1. PICK n \in State : /\ store' = [store EXCEPT ![t] = n]
                             /\ n.closed => ~n.pending /\ n.lease = "none"
      <4>1. store[t] \in State /\ (store[t].closed => ~store[t].pending /\ store[t].lease = "none")
        BY DEF TypeOK
      <4>2. CASE store' = [store EXCEPT ![t].readable = ~@]
        <5> DEFINE n == [store[t] EXCEPT !.readable = ~store[t].readable]
        <5>1. n \in State /\ n.closed = store[t].closed /\ n.pending = store[t].pending
                /\ n.lease = store[t].lease
          BY <4>1 DEF State
        <5>2. store' = [store EXCEPT ![t] = n]
          BY <4>2
        <5> HIDE DEF n
        <5> QED BY <4>1, <5>1, <5>2
      <4>3. CASE store[t].lease # "none" /\ store' = [store EXCEPT ![t].lease = "malformed"]
        <5> DEFINE n == [store[t] EXCEPT !.lease = "malformed"]
        <5>1. n \in State /\ n.closed = store[t].closed
          BY <4>1 DEF State, Lease
        <5>2. store' = [store EXCEPT ![t] = n] /\ ~store[t].closed
          BY <4>1, <4>3
        <5> HIDE DEF n
        <5> QED BY <5>1, <5>2
      <4> QED BY <2>2, <4>2, <4>3 DEF Damage
    <3>2. steady' \subseteq steady /\ UNCHANGED <<pc, todo, risks, failure>>
      BY <2>2 DEF Damage
    <3> QED BY <3>1, <3>2 DEF TypeOK
  <2>3. ASSUME NEW t \in Task, Look(t) \/ Skip(t) PROVE TypeOK'
    BY <2>3 DEF Look, Skip, TypeOK
  <2>4. CASE Assess \/ Unlisted
    BY <2>4 DEF Assess, Unlisted, TypeOK
  <2>5. CASE Finish \/ Exit \/ Insist \/ Stay \/ Start
    BY <2>5 DEF Finish, Exit, Insist, Stay, Start, TypeOK
  <2>6. CASE UNCHANGED vars
    BY <2>6 DEF vars, TypeOK
  <2> QED BY <2>1, <2>2, <2>3, <2>4, <2>5, <2>6 DEF Next
<1> QED BY <1>1, <1>2, PTL DEF Spec

-------------------------------------------------------------------------------
(* QuietExitMissesNothing speaks of the end.  On the way there a task that *)
(* has been at risk all the time is found, or is still to be looked at.    *)

FoundInv ==
    /\ \A t \in steady : t \in Task /\ AtRisk(store[t])
    /\ pc = "assessing" /\ ~failure => steady \subseteq todo \cup risks
    /\ QuietExitMissesNothing

\* Nobody is quietly left behind: whoever stops the process without a warning has missed
\* no task that was at risk all the time, in whatever order tasks were read and changed.
THEOREM QuietExitIsHonest == Spec => []QuietExitMissesNothing
<1>1. Init => FoundInv
  BY DEF Init, FoundInv, QuietExitMissesNothing
<1>2. FoundInv /\ [Next]_vars => FoundInv'
  <2> SUFFICES ASSUME FoundInv, [Next]_vars PROVE FoundInv'
    OBVIOUS
  <2> USE DEF FoundInv, QuietExitMissesNothing
  <2>1. ASSUME NEW t \in Task, Work(t) \/ Damage(t) PROVE FoundInv'
    <3>1. /\ steady' = {u \in steady : AtRisk(store'[u])}
          /\ UNCHANGED <<pc, todo, risks, failure>>
      BY <2>1 DEF Work, Damage
    <3>2. \A u \in Task : AtRisk(store[u])' = AtRisk(store'[u])
      BY DEF AtRisk
    <3> QED BY <3>1, <3>2
  <2>2. ASSUME NEW t \in Task, Look(t) \/ Skip(t) PROVE FoundInv'
    BY <2>2 DEF Look, Skip, AtRisk
  <2>3. CASE Assess
    BY <2>3 DEF Assess, AtRisk
  <2>4. CASE Unlisted
    BY <2>4 DEF Unlisted, AtRisk
  <2>5. CASE Finish
    BY <2>5 DEF Finish, AtRisk
  <2>6. CASE Exit \/ Insist \/ Stay \/ Start
    BY <2>6 DEF Exit, Insist, Stay, Start, AtRisk
  <2>7. CASE UNCHANGED vars
    BY <2>7 DEF vars, AtRisk
  <2> QED BY <2>1, <2>2, <2>3, <2>4, <2>5, <2>6, <2>7 DEF Next
<1>3. FoundInv => QuietExitMissesNothing
  BY DEF FoundInv
<1> QED BY <1>1, <1>2, <1>3, PTL DEF Spec
================================================================================
