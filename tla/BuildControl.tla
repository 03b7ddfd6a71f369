---------------------------- MODULE BuildControl ----------------------------
(***************************************************************************)
(* Node image builds: packages/build-control/service.ts, and the GitHub    *)
(* Actions it dispatches and watches through github.ts.                    *)
(*                                                                         *)
(* Builds are those of one workspace, profile and source SHA, the ones     *)
(* DUPLICATE_ACTIVE_BUILD keeps apart.  As in RunCoordinator every         *)
(* transaction is an action and what advance and builds.reconcile hold     *)
(* across their awaits (co, claim) is state.  A Faulty... operator is a     *)
(* plausible bug in the one after it; Next never uses one.                 *)
(***************************************************************************)
EXTENDS Naturals, FiniteSets

CONSTANTS
    Builds,     \* the builds users may ask for
    None,       \* no build
    MaxManual,  \* bound: workflows dispatched by hand with a build's inputs
    MaxRuns     \* bound: workflow runs at GitHub

ASSUME BuildAssumption ==
    /\ IsFiniteSet(Builds) /\ None \notin Builds
    /\ MaxManual \in Nat /\ MaxRuns \in Nat

VARIABLES
    build,      \* the stored builds
    runs,       \* GitHub's workflow runs, by id
    late,       \* builds whose dispatch is still in the network, given up
    co,         \* what the coordinator holds across its awaits
    claim,      \* by build, the run a builds.reconcile has verified, or 0
    seen        \* does the client's expectedRevision equal build.revision?

vars == <<build, runs, late, co, claim, seen>>

-----------------------------------------------------------------------------
(* Vocabulary *)

EndedBuilds == {"succeeded", "failed", "cancelled"}
BuildStates == EndedBuilds \cup
               {"none", "queued", "dispatching", "running", "unknown", "cancelling"}
RunIds == 1 .. MaxRuns

\* note is the stored message, as far as the code compares it; result the run
\* whose verified manifest is stored.
Build == [state  : BuildStates,
          run    : {0} \cup RunIds,
          note   : {"none", "doubt", "running", "ended"},
          waits  : BOOLEAN,
          result : {0} \cup RunIds]

\* build is the one in the run's title; genuine when event, repository, path
\* and head_sha are the expected ones; good when its manifest proves valid.
Workflow == [state   : {"none", "running", "success", "failure", "cancelled"},
             build   : Builds \cup {None},
             studio  : BOOLEAN,
             genuine : BOOLEAN,
             good    : BOOLEAN,
             halt    : BOOLEAN]

Advance == [phase   : {"rest", "scan", "dispatch", "receipt", "observe",
                       "cancel", "observed", "failed"},
            todo    : SUBSET Builds,
            build   : Builds \cup {None},
            halting : BOOLEAN,               \* prepared while cancelling
            run     : {0} \cup RunIds,       \* the receipt's or observed one
            seen    : {"none", "running", "succeeded", "failed", "cancelled"},
            why     : {"doubt", "rejected", "invalid"}]

Ended(b)  == build[b].state \in EndedBuilds
Active(b) == ~Ended(b) /\ build[b].state # "none"

AtRest == [phase |-> "rest", todo |-> {}, build |-> None, halting |-> FALSE,
           run |-> 0, seen |-> "none", why |-> "doubt"]

Onward(todo) == [AtRest EXCEPT !.phase = IF todo = {} THEN "rest" ELSE "scan",
                               !.todo = todo]
Done == co' = Onward(co.todo)

Init ==
    /\ build = [b \in Builds |-> [state |-> "none", run |-> 0, note |-> "none",
                                  waits |-> FALSE, result |-> 0]]
    /\ runs = [r \in RunIds |->
                 [state |-> "none", build |-> None, studio |-> FALSE,
                  genuine |-> FALSE, good |-> FALSE, halt |-> FALSE]]
    /\ late = {}
    /\ co = AtRest
    /\ claim = [b \in Builds |-> 0]
    /\ seen = [b \in Builds |-> TRUE]

\* revision++: what a client or a builds.reconcile has read is stale.
Bump(b) == /\ seen' = [seen EXCEPT ![b] = FALSE]
           /\ claim' = [claim EXCEPT ![b] = 0]

Unread == UNCHANGED <<claim, seen>>

-----------------------------------------------------------------------------
(* GitHub (external) *)

Titled(b) == {r \in RunIds : runs[r].build = b}

\* The next id, if the bound leaves one.
NextId == {r \in RunIds : /\ runs[r].state = "none"
                          /\ \A s \in 1 .. r - 1 : runs[s].state # "none"}

Created(b, studio, r, genuine) ==
    [runs EXCEPT ![r] = [state |-> "running", build |-> b, studio |-> studio,
                         genuine |-> genuine, good |-> FALSE, halt |-> FALSE]]

Accepted(b, studio) ==
    {Created(b, studio, r, g) : r \in NextId, g \in BOOLEAN}

\* Someone dispatches the workflow by hand with the inputs of a build.
ManualDispatch(b) ==
    /\ build[b].state # "none"
    /\ Cardinality({r \in RunIds : runs[r].state # "none" /\ ~runs[r].studio})
           < MaxManual
    /\ runs' \in Accepted(b, FALSE)
    /\ UNCHANGED <<build, late, co, claim, seen>>

\* A dispatch whose call was given up is carried out after all, or never.
LateDispatch(b) ==
    /\ b \in late
    /\ late' = late \ {b}
    /\ runs' \in {runs} \cup Accepted(b, TRUE)
    /\ UNCHANGED <<build, co, claim, seen>>

RunEnds(r) ==
    /\ runs[r].state = "running"
    /\ \E e \in {"success", "failure", "cancelled"}, g \in BOOLEAN :
        /\ g => e = "success"
        /\ e = "cancelled" => runs[r].halt
        /\ runs' = [runs EXCEPT ![r] =
                       [@ EXCEPT !.state = e, !.good = g, !.halt = FALSE]]
    /\ UNCHANGED <<build, late, co, claim, seen>>

-----------------------------------------------------------------------------
(* User commands *)

\* The duplicate check looks at this profile's builds that are dispatched.
FaultyFree(b) == \A d \in Builds \ {b} : build[d].state \notin {"dispatching", "running"}

Free(b) == \A d \in Builds : ~Active(d)

Start(b) ==
    /\ build[b].state = "none"
    /\ Free(b)
    /\ build' = [build EXCEPT ![b].state = "queued"]
    /\ Bump(b)
    /\ UNCHANGED <<runs, late, co>>

\* builds.get: the client's expectedRevision is now the current one.
ReadBuild(b) ==
    /\ ~seen[b]
    /\ seen' = [seen EXCEPT ![b] = TRUE]
    /\ UNCHANGED <<build, runs, late, co, claim>>

\* The terminal check forgotten.
FaultyCancellable(b) == build[b].state # "none"

Cancellable(b) == Active(b)

Cancelled(s) ==
    [s EXCEPT !.state = IF @ = "queued" THEN "cancelled" ELSE "cancelling",
              !.waits = FALSE]

Cancel(b) ==
    /\ seen[b]
    /\ Cancellable(b)
    /\ build' = [build EXCEPT ![b] = Cancelled(@)]
    /\ Bump(b)
    /\ UNCHANGED <<runs, late, co>>

\* What a successful observation of run r says about build b: runs that are
\* not b's own, and successes without a valid manifest, are BUILD_RESULT_INVALID.
FaultyReading(b, r) ==
    CASE runs[r].state = "running" -> "running"
      [] runs[r].state = "success" -> "succeeded"
      [] runs[r].state = "failure" -> "failed"
      [] OTHER -> "cancelled"

Reading(b, r) ==
    IF runs[r].build # b \/ ~runs[r].genuine THEN "invalid"
    ELSE CASE runs[r].state = "running" -> "running"
           [] runs[r].state = "success" ->
                  IF runs[r].good THEN "succeeded" ELSE "invalid"
           [] runs[r].state = "failure" -> "failed"
           [] OTHER -> "cancelled"

\* A confirmed identity not looked at.
FaultyReconcileAsk(b, r) ==
    /\ seen[b]
    /\ build[b].state \in {"unknown", "dispatching", "cancelling"}
    /\ Reading(b, r) # "invalid"
    /\ claim' = [claim EXCEPT ![b] = r]
    /\ UNCHANGED <<build, runs, late, co, seen>>

\* builds.reconcile up to its second await: the named run is this build's.
ReconcileAsk(b, r) ==
    /\ seen[b]
    /\ build[b].state \in {"unknown", "dispatching", "cancelling"}
    /\ build[b].run \in {0, r}
    /\ Reading(b, r) # "invalid"
    /\ claim' = [claim EXCEPT ![b] = r]
    /\ UNCHANGED <<build, runs, late, co, seen>>

ReconcileCommit(b) ==
    /\ claim[b] # 0
    /\ build' = [build EXCEPT ![b].run = claim[b], ![b].waits = FALSE]
    /\ Bump(b)
    /\ UNCHANGED <<runs, late, co>>

-----------------------------------------------------------------------------
(* tick and advance *)

TickBegin ==
    /\ co.phase = "rest"
    /\ co' = Onward({b \in Builds : Active(b) /\ ~build[b].waits})
    /\ UNCHANGED <<build, runs, late>> /\ Unread

Visit(b) == co.phase = "scan" /\ b \in co.todo

PrepareNothing(b) ==
    /\ Visit(b)
    /\ Ended(b) \/ build[b].waits
    /\ co' = Onward(co.todo \ {b})
    /\ UNCHANGED <<build, runs, late>> /\ Unread

Prepared(b, phase) ==
    co' = [AtRest EXCEPT !.phase = phase, !.todo = co.todo \ {b}, !.build = b,
                         !.halting = (build[b].state = "cancelling"),
                         !.run = build[b].run]

\* After a restart the intent that was not confirmed is sent again.
FaultyDispatchDue(b) ==
    \/ build[b].state = "queued"
    \/ build[b].state = "dispatching" /\ build[b].run = 0

DispatchDue(b) == build[b].state = "queued"

PrepareDispatch(b) ==
    /\ Visit(b)
    /\ ~build[b].waits
    /\ DispatchDue(b)
    /\ build' = [build EXCEPT ![b].state = "dispatching"]
    /\ Prepared(b, "dispatch")
    /\ Bump(b)
    /\ UNCHANGED <<runs, late>>

PrepareObserve(b) ==
    /\ Visit(b)
    /\ ~Ended(b) /\ ~build[b].waits
    /\ ~DispatchDue(b)
    /\ Prepared(b, "observe")
    /\ UNCHANGED <<build, runs, late>> /\ Unread

Calling(b, phase) == co.phase = phase /\ co.build = b

Throw(why) == co' = [co EXCEPT !.phase = "failed", !.why = why, !.run = 0,
                               !.seen = "none"]

DispatchAnswered(b) ==
    /\ Calling(b, "dispatch")
    /\ \E r \in NextId, g \in BOOLEAN :
        /\ runs' = Created(b, TRUE, r, g)
        /\ co' = [co EXCEPT !.phase = "receipt", !.run = r]
    /\ UNCHANGED <<build, late>> /\ Unread

\* submissionRejected: a definitive refusal.
DispatchRejected(b) ==
    /\ Calling(b, "dispatch")
    /\ Throw("rejected")
    /\ UNCHANGED <<build, runs, late>> /\ Unread

\* The POST is lost, done without an answer, or still under way.
Abandon(b) ==
    \/ runs' \in {runs} \cup Accepted(b, TRUE) /\ UNCHANGED late
    \/ late' = late \cup {b} /\ UNCHANGED runs

DispatchFails(b) ==
    /\ Calling(b, "dispatch")
    /\ Abandon(b)
    /\ Throw("doubt")
    /\ UNCHANGED build /\ Unread

\* A cancellation during the dispatch overlooked.
FaultyReceived(s) == [s EXCEPT !.state = "running", !.run = co.run, !.waits = TRUE]

Received(s) ==
    [s EXCEPT !.state = IF @ = "cancelling" THEN @ ELSE "running",
              !.run = co.run, !.waits = TRUE]

ReceiptCommit(b) ==
    /\ Calling(b, "receipt")
    /\ build' = [build EXCEPT ![b] = Received(@)]
    /\ Bump(b)
    /\ Done
    /\ UNCHANGED <<runs, late>>

\* No search for a run whose receipt was lost.
FaultyListed(b, S) == co.run # 0 /\ S = {co.run}

\* The adapter asks for the run it knows, or searches the titles; what the
\* search lists may lag behind.
Listed(b, S) == IF co.run # 0 THEN S = {co.run} ELSE S \subseteq Titled(b)

\* The cancellation never passed on.
FaultyAnswerOnly(b, S) ==
    IF Cardinality(S) > 1 \/ \E r \in S : Reading(b, r) = "invalid"
    THEN Throw("invalid")
    ELSE \E r \in S :
        co' = [co EXCEPT !.phase = "observed", !.run = r, !.seen = Reading(b, r)]

\* Two runs of one title, or a run that is not this build's own, are
\* BUILD_RESULT_INVALID.
Answer(b, S) ==
    IF Cardinality(S) > 1 \/ \E r \in S : Reading(b, r) = "invalid"
    THEN Throw("invalid")
    ELSE \E r \in S :
        co' = [co EXCEPT !.phase = IF co.halting /\ Reading(b, r) = "running"
                                   THEN "cancel" ELSE "observed",
                         !.run = r, !.seen = Reading(b, r)]

ObserveAnswered(b, S) ==
    /\ Calling(b, "observe")
    /\ S # {} /\ Listed(b, S)
    /\ Answer(b, S)
    /\ UNCHANGED <<build, runs, late>> /\ Unread

\* The call fails, or the search finds nothing.
ObserveFails(b) ==
    /\ Calling(b, "observe")
    /\ Throw("doubt")
    /\ UNCHANGED <<build, runs, late>> /\ Unread

Halted(r) == [runs EXCEPT ![r].halt = (runs[r].state = "running")]

\* 409 for a run that is over counts as an answer.
CancelAnswered(b) ==
    /\ Calling(b, "cancel")
    /\ runs' = Halted(co.run)
    /\ co' = [co EXCEPT !.phase = "observed"]
    /\ UNCHANGED <<build, late>> /\ Unread

CancelFails(b) ==
    /\ Calling(b, "cancel")
    /\ runs' \in {runs, Halted(co.run)}
    /\ Throw("doubt")
    /\ UNCHANGED <<build, late>> /\ Unread

Observed(s) ==
    [s EXCEPT !.state  = IF co.seen = "running" /\ @ = "cancelling" THEN @ ELSE co.seen,
              !.note   = IF co.seen = "running" THEN "running" ELSE "ended",
              !.run    = co.run,
              !.result = IF co.seen = "succeeded" THEN co.run ELSE @,
              !.waits  = TRUE]

Visible(s) == [s EXCEPT !.waits = FALSE]

\* The bump forgotten for some change.
FaultyBumpIf(b, changed) == Unread \/ Bump(b)

\* A running build's message may change without anything else.
BumpIf(b, changed) == \/ Bump(b)
                      \/ ~changed /\ Unread

ObservationCommit(b) ==
    /\ Calling(b, "observed")
    /\ IF Ended(b)
       THEN UNCHANGED build /\ Unread
       ELSE /\ build' = [build EXCEPT ![b] = Observed(@)]
            /\ BumpIf(b, Visible(Observed(build[b])) # Visible(build[b]))
    /\ Done
    /\ UNCHANGED <<runs, late>>

\* The catch block's update for an unknown outcome, once per message.
Doubted(s) ==
    IF s.note = "doubt" THEN [s EXCEPT !.waits = TRUE]
    ELSE [s EXCEPT !.state = IF @ = "cancelling" THEN @ ELSE "unknown",
                   !.note = "doubt", !.waits = TRUE]

CatchCommit(b) ==
    /\ Calling(b, "failed")
    /\ IF Ended(b)
       THEN UNCHANGED build /\ Unread
       ELSE IF co.why # "doubt"
       THEN /\ build' = [build EXCEPT ![b] =
                  [@ EXCEPT !.state = "failed", !.note = "ended", !.waits = TRUE]]
            /\ Bump(b)
       ELSE /\ build' = [build EXCEPT ![b] = Doubted(@)]
            /\ IF build[b].note = "doubt" THEN Unread ELSE Bump(b)
    /\ Done
    /\ UNCHANGED <<runs, late>>

-----------------------------------------------------------------------------
(* Time, the store and the process *)

Elapse(b) ==
    /\ build[b].waits /\ Active(b)
    /\ build' = [build EXCEPT ![b].waits = FALSE]
    /\ UNCHANGED <<runs, late, co>> /\ Unread

\* A transaction throws: a closing one is caught as a doubt, the others are
\* collected and the next build is visited.
StoreFails ==
    /\ \/ \E b \in co.todo : Visit(b) /\ co' = Onward(co.todo \ {b})
       \/ co.phase \in {"receipt", "observed"} /\ Throw("doubt")
       \/ co.phase = "failed" /\ Done
    /\ UNCHANGED <<build, runs, late>> /\ Unread

Restart ==
    /\ co' = AtRest
    /\ IF co.phase = "dispatch" THEN Abandon(co.build) ELSE UNCHANGED <<runs, late>>
    /\ claim' = [b \in Builds |-> 0]
    /\ UNCHANGED <<build, seen>>

-----------------------------------------------------------------------------

Commands == \E b \in Builds : \/ Start(b) \/ ReadBuild(b) \/ Cancel(b)
                              \/ \E r \in RunIds : ReconcileAsk(b, r)
                              \/ ReconcileCommit(b)

GitHub == \/ \E b \in Builds : ManualDispatch(b) \/ LateDispatch(b)
          \/ \E r \in RunIds : RunEnds(r)

Prepare(b) == PrepareNothing(b) \/ PrepareDispatch(b) \/ PrepareObserve(b)

Calls == \E b \in Builds :
            \/ DispatchAnswered(b) \/ DispatchRejected(b) \/ DispatchFails(b)
            \/ \E S \in SUBSET RunIds : ObserveAnswered(b, S)
            \/ ObserveFails(b) \/ CancelAnswered(b) \/ CancelFails(b)

Commits == \E b \in Builds :
              ReceiptCommit(b) \/ ObservationCommit(b) \/ CatchCommit(b)

Undisturbed == \/ Commands \/ GitHub \/ TickBegin \/ Calls \/ Commits
               \/ \E b \in Builds : Prepare(b) \/ Elapse(b)

Next == Undisturbed \/ StoreFails \/ Restart

Spec == Init /\ [][Next]_vars

-----------------------------------------------------------------------------
(* Properties *)

\* Types.
BuildTypeOK ==
    /\ build \in [Builds -> Build]
    /\ runs \in [RunIds -> Workflow]
    /\ late \subseteq Builds
    /\ co \in Advance
    /\ co.phase \notin {"rest", "scan"} => co.build \in Builds
    /\ claim \in [Builds -> {0} \cup RunIds]
    /\ seen \in [Builds -> BOOLEAN]

\* Studio has had no workflow run of b, and none is under way.
Unsent(b) == b \notin late /\ \A r \in Titled(b) : ~runs[r].studio

\* Whatever times out, crashes or is retried, Studio has the workflow of a
\* build run once at most: a dispatch is never repeated.
DispatchOnce ==
    \A b \in Builds :
        /\ b \in late => \A r \in Titled(b) : ~runs[r].studio
        /\ \A r, s \in Titled(b) : runs[r].studio /\ runs[s].studio => r = s

Verified(b, r) == /\ r \in Titled(b)
                  /\ runs[r].genuine /\ runs[r].state = "success" /\ runs[r].good

\* A build is only reported succeeded with the verified manifest of the very
\* run it names, which is a successful and genuine run of this build.
VerifiedResult ==
    \A b \in Builds : build[b].state = "succeeded" =>
        build[b].result = build[b].run /\ Verified(b, build[b].run)

\* Why that is so.  A build not yet prepared, or prepared for the dispatch the
\* coordinator is about to send, has had none sent.
UnsentIntents ==
    /\ \A b \in Builds : build[b].state \in {"none", "queued"} => Unsent(b)
    /\ co.phase = "dispatch" => Unsent(co.build)

\* The build a dispatch is under way for, and one a reconciliation is, are open.
OpenInFlight ==
    /\ co.phase \in {"dispatch", "receipt"} =>
           build[co.build].state \in {"dispatching", "cancelling"}
    /\ \A b \in Builds : claim[b] # 0 => Active(b)

\* A success the coordinator is about to record is still a verified one.
ConfirmedReading ==
    co.phase \in {"cancel", "observed"} =>
        /\ co.seen # "none"
        /\ co.phase = "cancel" => co.seen = "running"
        /\ co.seen = "succeeded" => Verified(co.build, co.run)

\* The inductive strengthening of DispatchOnce and VerifiedResult.
BuildInvariant ==
    DispatchOnce /\ VerifiedResult /\ UnsentIntents /\ OpenInFlight
    /\ ConfirmedReading

\* Nobody has two workflows of one profile and source at work by asking twice,
\* save where GitHub ran another revision of the workflow than was asked for,
\* or one was dispatched by hand.
OneWorkflow ==
    MaxManual = 0 =>
        \A r, s \in RunIds :
            /\ runs[r].state = "running" /\ runs[s].state = "running"
            /\ runs[r].genuine /\ runs[s].genuine
            => r = s

\* A cancellation is never forgotten in favour of a dispatch or an observation
\* that was under way: the build ends, or stays cancelling.
CancelSticks ==
    [][\A b \in Builds : build[b].state = "cancelling" =>
          build'[b].state \in EndedBuilds \cup {"cancelling"}]_vars

\* What has ended stays as it ended, its result and its run included.
EndSticks ==
    [][\A b \in Builds : Ended(b) => Visible(build'[b]) = Visible(build[b])]_vars

\* A command or reconciliation that still passes the revision check meets the
\* build its client read.
RevisionFencesBuilds ==
    [][\A b \in Builds : seen[b] /\ seen'[b] =>
          Visible(build'[b]) = Visible(build[b])]_vars

\* The identity of a GitHub run, once confirmed, is replaced by no reconciliation,
\* whatever happened while it awaited GitHub: by nothing but the receipt of a
\* dispatch, or the find of a search, that were under way.
IdentityHeld ==
    [][\A b \in Builds : build[b].run # 0 /\ build'[b].run # build[b].run
          => co.phase \in {"receipt", "observed"} /\ co.build = b]_vars

-----------------------------------------------------------------------------
(* Fairness: the worker ticks every second, calls return or time out, time *)
(* passes, and GitHub asked again and again gives a full answer at last.   *)

Fairness ==
    /\ WF_vars(TickBegin) /\ WF_vars(Calls) /\ WF_vars(Commits)
    /\ \A b \in Builds : /\ WF_vars(Prepare(b)) /\ WF_vars(Elapse(b))
                         /\ SF_vars(ObserveAnswered(b, {co.run}))
                         /\ SF_vars(ObserveAnswered(b, Titled(b)))
                         /\ SF_vars(CancelAnswered(b))
    /\ \A r \in RunIds : WF_vars(runs[r].halt /\ RunEnds(r))

FairSpec == Spec /\ Fairness

\* The control process and its database are not lost for ever: from some time on
\* every step is one of those taken without an outage.  (A StoreFails may look
\* like a PrepareNothing, so its absence could not be stated directly.)
OutagesEnd == <>[][Undisturbed]_vars

\* Once outages end, a cancellation is carried through for every build GitHub
\* has a run of, however often its calls fail.
CancelEnds ==
    OutagesEnd => \A b \in Builds :
        build[b].state = "cancelling" /\ Titled(b) # {} ~> Ended(b)

\* If GitHub also finishes its runs, every build it has a run of gets an end.
BuildEnds ==
    OutagesEnd /\ (\A r \in RunIds : WF_vars(RunEnds(r)))
        => \A b \in Builds : Active(b) /\ Titled(b) # {} ~> Ended(b)

=============================================================================
