--------------------------- MODULE ExecutionFence ---------------------------
(***************************************************************************)
(* What the run coordinator promises about executions, with no store, no   *)
(* calls and no failures in it: a step is executed by one attempt at a     *)
(* time and by each attempt at most once, only on top of steps that        *)
(* succeeded, gets a verdict only when nothing of it is executing, and a   *)
(* verdict is reopened only for the whole run, when every step has one.    *)
(***************************************************************************)
EXTENDS Naturals

CONSTANTS Nodes, References, Edges, Generations

VARIABLES
    begun,      \* the attempts a provider ever accepted, by node
    live,       \* those it is executing
    verdict     \* how the step ended, or "open"

fence == <<begun, live, verdict>>

Verdicts == {"succeeded", "failed", "stopped"}

Init ==
    /\ begun = [n \in Nodes |-> {}]
    /\ live = [n \in Nodes |-> {}]
    /\ verdict = [n \in Nodes |-> IF n \in References THEN "succeeded" ELSE "open"]

\* A provider takes on attempt g of an open step all of whose inputs exist.
Begin(n, g) ==
    /\ verdict[n] = "open"
    /\ live[n] = {}
    /\ g \notin begun[n]
    /\ \A e \in Edges : e[2] = n => verdict[e[1]] = "succeeded"
    /\ begun' = [begun EXCEPT ![n] = @ \cup {g}]
    /\ live' = [live EXCEPT ![n] = {g}]
    /\ UNCHANGED verdict

End(n) ==
    /\ live[n] # {}
    /\ live' = [live EXCEPT ![n] = {}]
    /\ UNCHANGED <<begun, verdict>>

\* Steps get their verdicts, a failed one together with those behind it.
Settle(S) ==
    /\ \A n \in S : verdict[n] = "open" /\ live[n] = {}
    /\ \E v \in [S -> Verdicts] :
        /\ \A n \in S : v[n] = "succeeded" => begun[n] # {}
        /\ verdict' = [n \in Nodes |-> IF n \in S THEN v[n] ELSE verdict[n]]
    /\ UNCHANGED <<begun, live>>

Reopen ==
    /\ \A n \in Nodes : verdict[n] # "open"
    /\ verdict' = [n \in Nodes |->
                     IF verdict[n] = "succeeded" THEN "succeeded" ELSE "open"]
    /\ UNCHANGED <<begun, live>>

Next ==
    \/ \E n \in Nodes, g \in Generations : Begin(n, g)
    \/ \E n \in Nodes : End(n)
    \/ \E S \in SUBSET Nodes : Settle(S)
    \/ Reopen

Spec == Init /\ [][Next]_fence

=============================================================================
