---------------------------- MODULE ServiceUpdate ----------------------------
(***************************************************************************)
(* Image updates on a Windows host: the installer's update helper, its     *)
(* journals and stored plans (main.rs), and the maintenance fence it       *)
(* acquires from the runtime broker (maintenance.rs).                      *)
(*                                                                         *)
(* "product" is one Product container, "group" the Workspace compatibility *)
(* group, whose members change together and are one container here.  One   *)
(* helper runs at a time, under the update lock; h is what it holds in     *)
(* memory, and everything else outlives it.  Each action ends at a write,  *)
(* a Docker command or an answer of the broker, so that a crash may come   *)
(* between any two of them.                                                *)
(***************************************************************************)
EXTENDS Naturals, FiniteSets

CONSTANTS
    Images,       \* immutable image digests
    Installed,    \* the one that runs at first
    Offered,      \* the <<kind, image>> release indexes and manifests offer
    Absent,       \* no image: the group is not installed, no journal
    Tag,          \* a Compose file still names a mutable tag
    MaxRequests   \* bound: updates that come to ask for the fence

ASSUME UpdateAssumption ==
    /\ IsFiniteSet(Images) /\ Installed \in Images
    /\ Offered \subseteq {"product", "group"} \X Images
    /\ Absent \notin Images /\ Tag \notin Images /\ Tag # Absent
    /\ Absent \notin [kind : {"product", "group"}, to : Images]
    /\ MaxRequests \in Nat

VARIABLES
    plan,         \* phase of the stored plan, by kind and candidate
    journal,      \* the durable recovery record, by kind
    compose,      \* the image the Compose file names, by kind
    container,    \* what Docker runs, by kind
    adopted,      \* the group image in the installed compatibility state
    request,      \* what the broker makes of each BeginMaintenance request
    busy,         \* tasks run on the host
    late,         \* calls to the broker given up, perhaps still under way
    h             \* the helper process

vars == <<plan, journal, compose, container, adopted, request, busy, late, h>>
host == <<compose, container, adopted>>
broker == <<request, busy, late>>

-----------------------------------------------------------------------------
(* Vocabulary *)

Kinds == {"product", "group"}
Requests == 1 .. MaxRequests
Outcomes == {"SUCCESS", "ROLLED_BACK"}
PlanPhases == {"none", "checked", "staged", "applying", "succeeded",
               "rolled_back", "failed"}

\* "candidate_healthy" stands for "ending_success" too, "rollback_healthy" for
\* the group's "rolled_back".  A token is stored when the phase is past
\* "maintenance_pending"; planned is false for the legacy command.
ServiceUpdateJournal ==
    [phase   : {"none", "maintenance_pending", "applying", "candidate_healthy",
                "completed", "rolling_back", "rollback_healthy"},
     request : {0} \cup Requests,
     from    : Images \cup {Absent},
     to      : Images \cup {Absent},
     compose : Images \cup {Tag},
     planned : BOOLEAN]

NoJournal == [phase |-> "none", request |-> 0, from |-> Absent, to |-> Absent,
              compose |-> Tag, planned |-> FALSE]

Container == [image : Images \cup {Absent}, up : BOOLEAN]

\* A request is open while the generations it names are the current ones.
RequestStates == {"unsent", "open", "stale", "held"} \cup Outcomes

\* doing and to are the update the helper is at, the one asked for or, when
\* recovering, an earlier one's; planned is whether a stored plan follows it.
Helper == [pc     : {"idle", "recover", "prepare", "begin", "token", "refused",
                     "drop", "write", "up", "healthy", "adopt", "recheck",
                     "rollback", "restore", "reup", "restored", "end",
                     "record", "clear", "done"},
           doing  : Kinds,
           to     : Images \cup {Absent},
           planned    : BOOLEAN,
           recovering : BOOLEAN,
           result : {"succeeded", "rolled_back", "failed"}]

Idle == [pc |-> "idle", doing |-> "product", to |-> Absent, planned |-> FALSE,
         recovering |-> FALSE, result |-> "failed"]

Call == [what : {"begin"} \cup Outcomes, request : Requests]

Held == {r \in Requests : request[r] = "held"}
Open(k) == journal[k].phase # "none"

At(pc, k) == h.pc = pc /\ h.doing = k
Goto(pc) == h' = [h EXCEPT !.pc = pc]
Exit == h' = Idle

\* The group is not installed yet, or an earlier update has installed it.
Init ==
    /\ plan = [k \in Kinds |-> [v \in Images |-> "none"]]
    /\ journal = [k \in Kinds |-> NoJournal]
    /\ adopted \in {Absent, Installed}
    /\ compose = [k \in Kinds |-> IF k = "group" /\ adopted # Absent
                                  THEN adopted ELSE Tag]
    /\ container = [k \in Kinds |->
                      IF k = "product" THEN [image |-> Installed, up |-> TRUE]
                      ELSE [image |-> adopted, up |-> (adopted # Absent)]]
    /\ request = [r \in Requests |-> "unsent"]
    /\ busy = FALSE
    /\ late = {}
    /\ h = Idle

-----------------------------------------------------------------------------
(* The broker (external): one fence, which no task starts under *)

\* Whatever moves a generation makes the open requests stale.
Moved(except) ==
    [r \in Requests |-> IF request[r] = "open" /\ r # except THEN "stale"
                        ELSE request[r]]

\* BeginMaintenance is idempotent by its request id.
Begun(r) == IF request[r] = "open" /\ ~busy /\ Held = {}
            THEN [Moved(r) EXCEPT ![r] = "held"] ELSE request

\* EndMaintenance too, by the id the journal keeps for it.
Ended(r, outcome) == IF request[r] = "held" THEN [Moved(r) EXCEPT ![r] = outcome]
                     ELSE request

TaskStarts ==
    /\ ~busy /\ Held = {}
    /\ busy' = TRUE
    /\ request' = Moved(0)
    /\ UNCHANGED <<plan, journal, late, h>> /\ UNCHANGED host

TaskEnds ==
    /\ busy
    /\ busy' = FALSE
    /\ UNCHANGED <<plan, journal, request, late, h>> /\ UNCHANGED host

LateCall(c) ==
    /\ c \in late
    /\ late' = late \ {c}
    /\ request' = IF c.what = "begin" THEN Begun(c.request)
                  ELSE Ended(c.request, c.what)
    /\ UNCHANGED <<plan, journal, busy, h>> /\ UNCHANGED host

-----------------------------------------------------------------------------
(* What every operation does first: recover *)

\* A request takes the update lock.  What it asks for plays no part before the
\* recovery is over, and is chosen then.
Start ==
    /\ h = Idle
    /\ Goto("recover")
    /\ UNCHANGED <<plan, journal>> /\ UNCHANGED host /\ UNCHANGED broker

\* The journals not asked about.
FaultyImportIsSafe == \A k \in Kinds, v \in Images : plan[k][v] # "applying"

ImportIsSafe ==
    /\ \A k \in Kinds : ~Open(k)
    /\ \A k \in Kinds, v \in Images : plan[k][v] # "applying"

\* The update lock is held meanwhile.  Plans are bound to the catalog: under
\* the new one all of them are void.
ImportCatalog ==
    /\ h = Idle
    /\ ImportIsSafe
    /\ plan' = [k \in Kinds |-> [v \in Images |-> "none"]]
    /\ UNCHANGED <<journal, h>> /\ UNCHANGED host /\ UNCHANGED broker

Recovers(k, pc) ==
    h' = [pc |-> pc, doing |-> k, to |-> journal[k].to,
          planned |-> journal[k].planned, recovering |-> TRUE,
          result |-> IF journal[k].phase \in {"candidate_healthy", "completed"}
                     THEN "succeeded" ELSE "rolled_back"]

\* A completed update is rolled back.
FaultyGroupStep(phase) ==
    CASE phase = "maintenance_pending" -> "begin"
      [] phase = "candidate_healthy" -> "recheck"
      [] OTHER -> "rollback"

GroupStep(phase) ==
    CASE phase = "maintenance_pending" -> "begin"
      [] phase \in {"candidate_healthy", "completed"} -> "recheck"
      [] OTHER -> "rollback"

\* Only a plan still "applying", of the active catalog, is recovered.
RecoverGroup ==
    LET j == journal["group"] IN
    /\ h.pc = "recover" /\ Open("group")
    /\ IF plan["group"][j.to] # "applying" THEN Exit
       ELSE Recovers("group", GroupStep(j.phase))
    /\ UNCHANGED <<plan, journal>> /\ UNCHANGED host /\ UNCHANGED broker

\* The fence released over an update that is half made.
FaultyProductStep(phase) == IF phase = "maintenance_pending" THEN "begin" ELSE "end"

ProductStep(phase) ==
    CASE phase = "maintenance_pending" -> "begin"
      [] phase \in {"candidate_healthy", "rollback_healthy"} -> "end"
      [] OTHER -> "restore"

RecoverProduct ==
    LET j == journal["product"] IN
    /\ h.pc = "recover" /\ ~Open("group") /\ Open("product")
    /\ Recovers("product", ProductStep(j.phase))
    /\ UNCHANGED <<plan, journal>> /\ UNCHANGED host /\ UNCHANGED broker

-----------------------------------------------------------------------------
(* The operations *)

\* Only the group's journal looked at.
FaultyRecovered == h.pc = "recover" /\ ~Open("group")

Recovered == h.pc = "recover" /\ \A k \in Kinds : ~Open(k)

\* The compatibility state and the containers it describes agree.
Matches(k) == k = "group" => /\ container[k].image = adopted
                             /\ adopted # Absent => container[k].up

\* check_product_updates: the candidate is the one the release index names.
Check(k, v) ==
    /\ Recovered
    /\ plan' = [plan EXCEPT ![k] =
           [w \in Images |->
               IF w = v /\ Matches(k) /\ container[k].image # v
               THEN "checked"
               ELSE IF plan[k][w] = "checked" THEN "none" ELSE plan[k][w]]]
    /\ Exit
    /\ UNCHANGED journal /\ UNCHANGED host /\ UNCHANGED broker

Stage(k, v) ==
    /\ Recovered
    /\ plan[k][v] = "checked"
    /\ plan' = [plan EXCEPT ![k][v] = "staged"]
    /\ Exit
    /\ UNCHANGED journal /\ UNCHANGED host /\ UNCHANGED broker

Asked(k, v, planned) ==
    h' = [Idle EXCEPT !.pc = "prepare", !.doing = k, !.to = v, !.planned = planned]

Apply(k, v) ==
    /\ Recovered
    /\ plan[k][v] = "staged"
    /\ plan' = [plan EXCEPT ![k][v] = "applying"]
    /\ Asked(k, v, TRUE)
    /\ UNCHANGED journal /\ UNCHANGED host /\ UNCHANGED broker

\* --update-service: a manifest given on the command line, no stored plan.
Update(v) ==
    /\ Recovered
    /\ Asked("product", v, FALSE)
    /\ UNCHANGED <<plan, journal>> /\ UNCHANGED host /\ UNCHANGED broker

\* A request that verification, or the phase of its plan, turns away.
Reject ==
    /\ Recovered
    /\ Exit
    /\ UNCHANGED <<plan, journal>> /\ UNCHANGED host /\ UNCHANGED broker

-----------------------------------------------------------------------------
(* Acquiring the fence *)

\* An error ends the operation; apply_update_plan stores that its plan failed.
Err == /\ Exit
       /\ plan' = IF h.planned /\ ~h.recovering /\ h.pc # "done"
                  THEN [plan EXCEPT ![h.doing][h.to] = "failed"] ELSE plan

\* The journal, with everything a recovery needs, before the call.
Prepare(k) ==
    /\ At("prepare", k)
    /\ container[k].image # Absent \/ k = "group"
    /\ Matches(k)
    /\ ~busy /\ Held = {}
    /\ \E r \in Requests :
        /\ request[r] = "unsent" /\ \A q \in 1 .. r - 1 : request[q] # "unsent"
        /\ request' = [request EXCEPT ![r] = "open"]
        /\ journal' = [journal EXCEPT ![k] =
               [phase |-> "maintenance_pending", request |-> r,
                from |-> container[k].image, to |-> h.to,
                compose |-> compose[k], planned |-> h.planned]]
    /\ Goto("begin")
    /\ UNCHANGED <<plan, busy, late>> /\ UNCHANGED host

\* Tasks run, verification fails, or the installed group is not what is recorded.
NotReady(k) ==
    /\ At("prepare", k)
    /\ Err
    /\ UNCHANGED journal /\ UNCHANGED host /\ UNCHANGED broker

BeginGranted(k) ==
    LET r == journal[k].request IN
    /\ At("begin", k)
    /\ Begun(r)[r] = "held"
    /\ request' = Begun(r)
    /\ Goto("token")
    /\ UNCHANGED <<plan, journal, busy, late>> /\ UNCHANGED host

\* A definitive refusal: the request will never be granted.
BeginRefused(k) ==
    LET r == journal[k].request IN
    /\ At("begin", k)
    /\ request[r] \in {"open", "stale"}
    /\ request' = [request EXCEPT ![r] = "stale"]
    /\ IF k = "product" THEN Goto("refused") /\ UNCHANGED plan ELSE Err
    /\ UNCHANGED <<journal, busy, late>> /\ UNCHANGED host

\* No answer taken for a refusal.
FaultyBeginRefusal(k) ==
    /\ At("begin", k)
    /\ late' = late \cup {[what |-> "begin", request |-> journal[k].request]}
    /\ IF k = "product" THEN Goto("refused") /\ UNCHANGED plan ELSE Err
    /\ UNCHANGED <<journal, request, busy>> /\ UNCHANGED host

\* No answer taken for the fence.
FaultyBeginAnyway(k) ==
    /\ At("begin", k)
    /\ late' = late \cup {[what |-> "begin", request |-> journal[k].request]}
    /\ Goto("token")
    /\ UNCHANGED <<plan, journal, request, busy>> /\ UNCHANGED host

\* No answer: the call may have been, may still be, or may never be processed.
BeginUnknown(k) ==
    /\ At("begin", k)
    /\ late' = late \cup {[what |-> "begin", request |-> journal[k].request]}
    /\ Err
    /\ UNCHANGED <<journal, request, busy>> /\ UNCHANGED host

\* The crash between the two writes below forgotten.
FaultyRetryable == {"applying"}

Retryable == {"applying", "staged"}

\* finish_definitive_begin_refusal: first the plan, then the journal.
RefusalPlan ==
    LET j == journal["product"] IN
    /\ At("refused", "product")
    /\ CASE ~j.planned -> Goto("drop") /\ UNCHANGED plan
         [] j.planned /\ plan["product"][j.to] \in Retryable ->
                /\ plan' = [plan EXCEPT !["product"][j.to] = "staged"]
                /\ Goto("drop")
         [] OTHER -> Exit /\ UNCHANGED plan
    /\ UNCHANGED journal /\ UNCHANGED host /\ UNCHANGED broker

RefusalJournal ==
    /\ At("drop", "product")
    /\ journal' = [journal EXCEPT !["product"] = NoJournal]
    /\ Exit
    /\ UNCHANGED plan /\ UNCHANGED host /\ UNCHANGED broker

\* The token is stored.  A recovery of a product update that has not touched
\* Compose only releases the fence; one that cannot tell leaves the rest to
\* the next, which finds "applying".
Token(k) ==
    /\ At("token", k)
    /\ journal' = [journal EXCEPT ![k].phase = "applying"]
    /\ CASE ~h.recovering -> Goto("write")
         [] h.recovering /\ k = "group" -> Goto("rollback")
         [] OTHER -> IF compose[k] = journal[k].from THEN Goto("end") ELSE Exit
    /\ UNCHANGED plan /\ UNCHANGED host /\ UNCHANGED broker

-----------------------------------------------------------------------------
(* Under the fence *)

WriteCompose(k) ==
    /\ At("write", k)
    /\ compose' = [compose EXCEPT ![k] = journal[k].to]
    /\ Goto("up")
    /\ UNCHANGED <<plan, journal, container, adopted>> /\ UNCHANGED broker

WriteComposeFails(k) ==
    /\ At("write", k)
    /\ h' = [h EXCEPT !.pc = IF k = "product" THEN "restored" ELSE "rollback",
                      !.result = IF k = "product" THEN "failed" ELSE "rolled_back"]
    /\ UNCHANGED <<plan, journal>> /\ UNCHANGED host /\ UNCHANGED broker

\* docker compose up --force-recreate, and the wait for a healthy container.
Up(k) ==
    /\ At("up", k)
    /\ container' = [container EXCEPT ![k] = [image |-> journal[k].to, up |-> TRUE]]
    /\ h' = [h EXCEPT !.pc = "healthy", !.result = "succeeded"]
    /\ UNCHANGED <<plan, journal, compose, adopted>> /\ UNCHANGED broker

UpFails(k) ==
    /\ At("up", k)
    /\ \/ container' = [container EXCEPT ![k] =
                           [image |-> journal[k].to, up |-> FALSE]]
       \/ UNCHANGED container
    /\ h' = [h EXCEPT !.pc = IF k = "product" THEN "restore" ELSE "rollback",
                      !.result = "rolled_back"]
    /\ UNCHANGED <<plan, journal, compose, adopted>> /\ UNCHANGED broker

Healthy(k) ==
    /\ At("healthy", k)
    /\ journal' = [journal EXCEPT ![k].phase = "candidate_healthy"]
    /\ Goto(IF k = "group" THEN "adopt" ELSE "end")
    /\ UNCHANGED plan /\ UNCHANGED host /\ UNCHANGED broker

Adopt ==
    /\ h.pc = "adopt"
    /\ adopted' = journal["group"].to
    /\ Goto(IF journal["group"].phase = "completed" THEN "clear" ELSE "end")
    /\ UNCHANGED <<plan, journal, compose, container>> /\ UNCHANGED broker

\* The recovery of a group update that had succeeded looks again.
Recheck ==
    /\ h.pc = "recheck"
    /\ container["group"] = [image |-> journal["group"].to, up |-> TRUE]
    /\ Goto("adopt")
    /\ UNCHANGED <<plan, journal>> /\ UNCHANGED host /\ UNCHANGED broker

RollbackBegins ==
    /\ h.pc = "rollback"
    /\ journal' = [journal EXCEPT !["group"].phase = "rolling_back"]
    /\ Goto("restore")
    /\ UNCHANGED plan /\ UNCHANGED host /\ UNCHANGED broker

\* The Compose file names the previous image by its digest, or, where nothing
\* was installed, is what it was.
Previous(j) == IF j.from = Absent THEN j.compose ELSE j.from

Restore(k) ==
    /\ At("restore", k)
    /\ compose' = [compose EXCEPT ![k] = Previous(journal[k])]
    /\ Goto("reup")
    /\ UNCHANGED <<plan, journal, container, adopted>> /\ UNCHANGED broker

\* The previous containers are back, or the new ones removed.
ReUp(k) ==
    /\ At("reup", k)
    /\ container' = [container EXCEPT ![k] =
           [image |-> journal[k].from, up |-> (journal[k].from # Absent)]]
    /\ Goto("restored")
    /\ UNCHANGED <<plan, journal, compose, adopted>> /\ UNCHANGED broker

ReUpFails(k) ==
    /\ At("reup", k)
    /\ \/ container' = [container EXCEPT ![k] =
                           [image |-> journal[k].from, up |-> FALSE]]
       \/ UNCHANGED container
    /\ Err
    /\ UNCHANGED <<journal, compose, adopted>> /\ UNCHANGED broker

Restored(k) ==
    /\ At("restored", k)
    /\ adopted' = IF k = "group" THEN journal[k].from ELSE adopted
    /\ journal' = [journal EXCEPT ![k].phase = "rollback_healthy"]
    /\ Goto("end")
    /\ UNCHANGED <<plan, compose, container>> /\ UNCHANGED broker

-----------------------------------------------------------------------------
(* Releasing the fence *)

\* Every end but a rollback is a success.
FaultyOutcome == IF h.result = "rolled_back" THEN "ROLLED_BACK" ELSE "SUCCESS"

Outcome == IF h.result = "succeeded" THEN "SUCCESS" ELSE "ROLLED_BACK"

EndAnswered(k) ==
    LET r == journal[k].request IN
    /\ At("end", k)
    /\ Ended(r, Outcome)[r] \in Outcomes
    /\ request' = Ended(r, Outcome)
    /\ Goto(IF k = "group" /\ Outcome = "SUCCESS" THEN "record" ELSE "clear")
    /\ UNCHANGED <<plan, journal, busy, late>> /\ UNCHANGED host

EndUnknown(k) ==
    /\ At("end", k)
    /\ late' = late \cup {[what |-> Outcome, request |-> journal[k].request]}
    /\ Err
    /\ UNCHANGED <<journal, request, busy>> /\ UNCHANGED host

Record ==
    /\ h.pc = "record"
    /\ journal' = [journal EXCEPT !["group"].phase = "completed"]
    /\ Goto("clear")
    /\ UNCHANGED plan /\ UNCHANGED host /\ UNCHANGED broker

\* The operation asked for goes on.
Resume == h' = [Idle EXCEPT !.pc = "recover"]

\* The recovery of a product update leaves its plan as it is.
Clear(k) ==
    /\ At("clear", k)
    /\ journal' = [journal EXCEPT ![k] = NoJournal]
    /\ IF h.recovering /\ k = "product" THEN Resume ELSE Goto("done")
    /\ UNCHANGED plan /\ UNCHANGED host /\ UNCHANGED broker

Done(k) ==
    /\ At("done", k)
    /\ plan' = IF h.planned THEN [plan EXCEPT ![k][h.to] = h.result] ELSE plan
    /\ IF h.recovering THEN Resume ELSE Exit
    /\ UNCHANGED journal /\ UNCHANGED host /\ UNCHANGED broker

-----------------------------------------------------------------------------
(* Failures *)

\* A write, a verification or a query of Docker fails and is reported; at
\* "write" and "up" the handler goes on instead, see there.
Fallible == {"token", "refused", "drop", "healthy", "adopt", "recheck",
             "rollback", "restore", "restored", "record", "clear", "done"}

StepFails ==
    /\ h.pc \in Fallible
    /\ IF h.pc \in {"refused", "drop"} THEN Exit /\ UNCHANGED plan ELSE Err
    /\ UNCHANGED journal /\ UNCHANGED host /\ UNCHANGED broker

\* The call that was under way may still be processed.
Sent == CASE h.pc = "begin" -> {[what |-> "begin", request |-> journal[h.doing].request]}
          [] h.pc = "end"   -> {[what |-> Outcome, request |-> journal[h.doing].request]}
          [] OTHER -> {}

Crash ==
    /\ h.pc # "idle"
    /\ late' = late \cup Sent
    /\ Exit
    /\ UNCHANGED <<plan, journal, request, busy>> /\ UNCHANGED host

Unanswered == \E k \in Kinds : BeginUnknown(k) \/ EndUnknown(k)

Recovery == RecoverGroup \/ RecoverProduct

Operations == \/ Reject
              \/ \E o \in Offered : \/ Check(o[1], o[2]) \/ Stage(o[1], o[2])
                                    \/ Apply(o[1], o[2])
                                    \/ o[1] = "product" /\ Update(o[2])

Updating == \E k \in Kinds :
    \/ Prepare(k) \/ NotReady(k) \/ BeginGranted(k) \/ BeginRefused(k)
    \/ Token(k) \/ WriteCompose(k) \/ Up(k) \/ UpFails(k) \/ Healthy(k)
    \/ Restore(k) \/ ReUp(k) \/ Restored(k)
    \/ EndAnswered(k) \/ Clear(k) \/ Done(k)

Steps == Updating \/ RefusalPlan \/ RefusalJournal \/ Adopt \/ Recheck
         \/ RollbackBegins \/ Record

Tasks == TaskStarts \/ TaskEnds \/ \E c \in late : LateCall(c)

Undisturbed == Start \/ ImportCatalog \/ Recovery \/ Operations \/ Steps \/ Tasks

Faults == \/ StepFails \/ Crash \/ Unanswered
          \/ \E k \in Kinds : WriteComposeFails(k) \/ ReUpFails(k)

Next == Undisturbed \/ Faults

Spec == Init /\ [][Next]_vars

-----------------------------------------------------------------------------
(* Properties *)

\* Types; open requests and late calls are of requests that were made.
UpdateTypeOK ==
    /\ plan \in [Kinds -> [Images -> PlanPhases]]
    /\ journal \in [Kinds -> ServiceUpdateJournal]
    /\ compose \in [Kinds -> Images \cup {Tag}]
    /\ container \in [Kinds -> Container]
    /\ adopted \in Images \cup {Absent}
    /\ request \in [Requests -> RequestStates]
    /\ busy \in BOOLEAN
    /\ late \in SUBSET Call
    /\ h \in Helper

\* A fence that is held, or may still be granted by a call in the network, is
\* one that a journal names: no crash, lost answer or refusal leaves a fence
\* of which nobody knows (journal before Begin, End before its removal).
FenceJournaled ==
    \A r \in Requests :
        request[r] = "held" \/ (request[r] = "open" /\ \E c \in late : c.request = r)
            => \E k \in Kinds : Open(k) /\ journal[k].request = r

\* There is at most one unfinished update on the host, whatever was interrupted.
OneUpdate == Cardinality({k \in Kinds : Open(k)}) <= 1

\* Where no journal is left, the Compose file, the container and the group's
\* compatibility state agree: no update is half made and forgotten.
Settled ==
    \A k \in Kinds : ~Open(k) =>
        /\ compose[k] \in {Tag, container[k].image}
        /\ container[k].up \/ container[k].image = Absent
        /\ k = "group" => adopted = container[k].image

\* Tasks never run while an apply recreates containers.
FencedApply == ~h.recovering /\ h.pc \in {"write", "up", "restore", "reup"} => ~busy

\* "...refuses recovery without a fence" (main.rs, the error of a journal
\* without a token), of any recovery.
RestartsFenced == h.pc = "reup" => ~busy

\* The journal of a planned update is one whose plan is still known: no
\* catalog was activated under it.
PlanKept == \A k \in Kinds : Open(k) /\ journal[k].planned
                => plan[k][journal[k].to] # "none"

\* The outcome the broker is told is true: SUCCESS of a candidate that runs and
\* is healthy, ROLLED_BACK when the previous image is back.
OutcomeTrue ==
    [][\A k \in Kinds : LET j == journal[k] IN
         j.request # 0 /\ request[j.request] = "held" =>
           /\ request'[j.request] = "SUCCESS" =>
                  container[k] = [image |-> j.to, up |-> TRUE]
           /\ request'[j.request] = "ROLLED_BACK" =>
                  container[k].image = j.from]_vars

\* To the tasks on the host an update is one step (see AtomicUpdate): the image
\* is the old one until the broker is told of a success.
ImageSeen(k) == IF Open(k) /\ journal[k].request \in Held
                THEN journal[k].from ELSE container[k].image

FenceSeen == IF \E k \in Kinds : journal[k].request \in Held
             THEN LET k == CHOOSE k \in Kinds : journal[k].request \in Held
                  IN  [kind |-> k, to |-> journal[k].to]
             ELSE Absent

Atomic == INSTANCE AtomicUpdate
          WITH Images <- Images \cup {Absent}, Free <- Absent,
               image <- [k \in Kinds |-> ImageSeen(k)], fence <- FenceSeen

\* The updater implements AtomicUpdate.
UpdatesAtomic == Atomic!Spec

\* Journals no later operation can clear: a refused Begin under a plan that is
\* closed, or of a group, and any journal of a group whose plan is closed.
Abandoned(k) ==
    LET j == journal[k]
        refused == j.phase = "maintenance_pending" /\ request[j.request] = "stale"
        closed  == j.planned /\ plan[k][j.to] \notin {"applying", "staged"}
    IN  IF k = "group" THEN refused \/ closed ELSE refused /\ closed

\* Operators ask again, and what can go on goes on; Docker, the disk and the
\* broker fail, and the helper dies, only for a time.
Fairness == /\ WF_vars(Start) /\ WF_vars(Recovery) /\ WF_vars(Operations)
            /\ WF_vars(Steps)

FairSpec == Spec /\ Fairness

OutagesEnd == <>[][Undisturbed]_vars

\* Every other journal is cleared, and its fence released, by whatever
\* operation comes next: an update cannot hang on a lost answer or a crash.
RecoveryEnds == OutagesEnd => []<>(\A k \in Kinds : Open(k) => Abandoned(k))


=============================================================================
