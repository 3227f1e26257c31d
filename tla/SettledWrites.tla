---------------------------- MODULE SettledWrites ----------------------------
(***************************************************************************)
(* What setValue of the Firebase client promises: a write whose answer has *)
(* come is at the server and stays there, short of a later write; its      *)
(* completion is called once, when it is settled or cancelled, and a       *)
(* cancelled write is never settled.  No connection, no queue, no restart. *)
(***************************************************************************)
EXTENDS Naturals, Sequences, FiniteSetsExt, SequencesExt

CONSTANTS Leaves, Footprints, Refused

VARIABLES
    issued,      \* what each write so far covers
    record,      \* the write each leaf holds at the server
    settled,     \* writes that are answered
    completed    \* writes whose completion was called, in order

promiseVars == <<issued, record, settled, completed>>

Covers(w) == IF issued[w] \in Refused THEN {} ELSE issued[w]

\* Writes above every settled one.
Newer == {w \in DOMAIN issued : \A s \in settled : s < w}

Init ==
    /\ issued = <<>>
    /\ record = [l \in Leaves |-> 0]
    /\ settled = {}
    /\ completed = <<>>

Issue(footprint) ==
    /\ issued' = Append(issued, footprint)
    /\ UNCHANGED <<record, settled, completed>>

\* The server may apply a write over and over, until it is settled.
Apply(w) ==
    /\ w \in Newer
    /\ record' = [l \in Leaves |-> IF l \in Covers(w) THEN w ELSE record[l]]
    /\ UNCHANGED <<issued, settled, completed>>

\* Completions of some writes of S that were not completed.
Report(S) ==
    \E ws \in SetToAllKPermutations(S \ ToSet(completed)) : completed' = completed \o ws

Settle(w) ==
    /\ w \in Newer \ ToSet(completed)
    /\ \A l \in Covers(w) : record[l] >= w
    /\ settled' = settled \union {w}
    /\ Report({w})
    /\ UNCHANGED <<issued, record>>

Answer ==
    /\ Report(settled)
    /\ UNCHANGED <<issued, record, settled>>

Cancel ==
    /\ Report(DOMAIN issued \ settled)
    /\ UNCHANGED <<issued, record, settled>>

Next ==
    \/ \E footprint \in Footprints : Issue(footprint)
    \/ \E w \in DOMAIN issued : Apply(w) \/ Settle(w)
    \/ Answer
    \/ Cancel

Spec == Init /\ [][Next]_promiseVars
==============================================================================
