---------------------------- MODULE AtomicUpdate ----------------------------
(***************************************************************************)
(* What an update of a Windows host promises: to the tasks on the host it  *)
(* is one step.  It takes the fence while no task runs, no task starts     *)
(* under the fence, and the fence is released with the installed image     *)
(* either the new one or the one from before, and no other image touched.  *)
(***************************************************************************)
CONSTANTS Kinds, Images, Free

VARIABLES image, fence, busy

vars == <<image, fence, busy>>

Init == image \in [Kinds -> Images] /\ fence = Free /\ busy = FALSE

Begin(k, v) == /\ fence = Free /\ ~busy
               /\ fence' = [kind |-> k, to |-> v]
               /\ UNCHANGED <<image, busy>>

Commit == /\ fence # Free
          /\ image' = [image EXCEPT ![fence.kind] = fence.to]
          /\ fence' = Free
          /\ UNCHANGED busy

RollBack == fence # Free /\ fence' = Free /\ UNCHANGED <<image, busy>>

TaskStarts == ~busy /\ fence = Free /\ busy' = TRUE /\ UNCHANGED <<image, fence>>

TaskEnds == busy /\ busy' = FALSE /\ UNCHANGED <<image, fence>>

Next == \/ \E k \in Kinds, v \in Images : Begin(k, v)
        \/ Commit \/ RollBack \/ TaskStarts \/ TaskEnds

Spec == Init /\ [][Next]_vars

=============================================================================
