---------------------------- MODULE TurnContract ----------------------------
(***************************************************************************)
(* What the proxy promises about one turn, with no upstream, no event loop *)
(* and no connections: a metered turn is answered only with its receipt    *)
(* issued, no turn gets two receipts, memory learns a turn only when the   *)
(* answer was billed, and a turn that ended stays ended.                   *)
(***************************************************************************)
CONSTANT Reqs
VARIABLES phase, bills, learnt

vars == <<phase, bills, learnt>>

Init == /\ phase = [r \in Reqs |-> "new"]
        /\ bills = [r \in Reqs |-> 0]
        /\ learnt = {}

Accept(r) == /\ phase[r] = "new"
             /\ \E p \in {"metered", "unmetered"} : phase' = [phase EXCEPT ![r] = p]
             /\ UNCHANGED <<bills, learnt>>

Bill(r) == /\ phase[r] = "metered" /\ bills[r] = 0
           /\ bills' = [bills EXCEPT ![r] = 1]
           /\ UNCHANGED <<phase, learnt>>

Answer(r) == /\ phase[r] = "unmetered" \/ (phase[r] = "metered" /\ bills[r] = 1)
             /\ phase' = [phase EXCEPT ![r] = "answered"]
             /\ UNCHANGED <<bills, learnt>>

Fail(r) == /\ phase[r] \in {"metered", "unmetered"}
           /\ phase' = [phase EXCEPT ![r] = "failed"]
           /\ UNCHANGED <<bills, learnt>>

Learn(r) == /\ bills[r] = 1
            /\ learnt' = learnt \cup {r}
            /\ UNCHANGED <<phase, bills>>

Next == \E r \in Reqs : Accept(r) \/ Bill(r) \/ Answer(r) \/ Fail(r) \/ Learn(r)

Spec == Init /\ [][Next]_vars
=============================================================================
