---------------------------- MODULE MCLocalAgent ----------------------------
(* LocalAgent for TLC: the three parts, which share no state, are explored one  *)
(* after the other.  Processes and intents are interchangeable, so that one *)
(* of them may be taken to come first (cheaper than SYMMETRY here).         *)
EXTENDS LocalAgent

MCAsk == {[doc |-> "d1", mode |-> "edit", action |-> ""],
          [doc |-> "d2", mode |-> "edit", action |-> "overwrite"],
          [doc |-> "d1", mode |-> "view", action |-> ""]}

Faultless == healthy = 0..MaxRelease /\ genuine = 0..MaxRelease

\* A part that is not used is in one of its initial states.
Unused ==
    /\ "upload" \notin used => mode = "checkout"
    /\ "session" \notin used => drive = "usable"
    /\ "update" \notin used => /\ platform = "darwin" /\ Faultless
                             /\ \A v \in 1..MaxRelease : bin[v] = "absent"

\* Bound: updates of the agent and of the extension share only the result.
UpdatingAgent == \/ registered # 0 \/ previous # 0 \/ locked
                 \/ \E v \in 1..MaxRelease : bin[v] = "right"
                 \/ \E u \in Updater : phase[u] \in AgentPhase
UpdatingExt == ext # 0 \/ prior # NoExt \/ \E u \in Updater : phase[u] \in ExtPhase
OneUpdate == ~(UpdatingAgent /\ UpdatingExt)

\* Bounds: how often the bytes of one intent are sent; releases with a fault; drives
\* that come and go while several processes work.
FewSends == \A i \in Intent : sent[i] <= 2
FewFaults ==
    Cardinality({<<"dead", v>> : v \in 0..MaxRelease \ healthy}
                \cup {<<"forged", v>> : v \in 0..MaxRelease \ genuine}
                \cup {<<"taken", v>> : v \in {w \in 1..MaxRelease : bin[w] = "wrong"}}) <= 1

FewDrives ==
    drive = "usable" \/ \E o \in Opener : \A p \in Opener \ {o} : at[p] = "idle"

InOrder ==
    /\ tickets = 1 => at["o2"] = "idle"
    /\ digest["i2"] # None => digest["i1"] # None

Bounds == Unused /\ InOrder /\ OneUpdate /\ FewSends /\ FewFaults /\ FewDrives
================================================================================
