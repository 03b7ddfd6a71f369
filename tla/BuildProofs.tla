----------------------------- MODULE BuildProofs -----------------------------
(* Theorems about BuildControl, for any builds and bounds. *)
EXTENDS BuildControl, FiniteSetTheorems, TLAPS

USE DEF EndedBuilds

-----------------------------------------------------------------------------
(* Types *)

\* Zero, for no run, is not a run's id.
LEMMA Ids == /\ 0 \in {0} \cup RunIds
             /\ RunIds \subseteq Nat \ {0}
BY BuildAssumption DEF RunIds

\* The coordinator's record when it goes on to the next build.
LEMMA OnwardTyped ==
    ASSUME NEW todo \in SUBSET Builds
    PROVE  /\ Onward(todo) \in Advance
           /\ Onward(todo).phase \in {"rest", "scan"}
BY DEF Onward, AtRest, Advance

\* A new workflow run is a well formed one.
LEMMA AcceptedTyped ==
    ASSUME BuildTypeOK, NEW b \in Builds, NEW studio \in BOOLEAN,
           NEW r \in RunIds, NEW g \in BOOLEAN
    PROVE  Created(b, studio, r, g) \in [RunIds -> Workflow]
BY DEF BuildTypeOK, Created, Workflow

\* What Accepted is made of.
LEMMA AcceptedIn ==
    ASSUME NEW b, NEW studio, NEW r \in NextId, NEW g \in BOOLEAN
    PROVE  Created(b, studio, r, g) \in Accepted(b, studio)
BY DEF Accepted

\* Whatever GitHub makes of a dispatch is well typed.
LEMMA AcceptedAll ==
    ASSUME BuildTypeOK, NEW b \in Builds, NEW studio \in BOOLEAN,
           NEW t \in Accepted(b, studio)
    PROVE  t \in [RunIds -> Workflow]
<1>1. PICK r \in NextId, g \in BOOLEAN : t = Created(b, studio, r, g)
  BY DEF Accepted
<1>2. r \in RunIds
  BY DEF NextId
<1> QED BY <1>1, <1>2, AcceptedTyped

\* What an observation says.
LEMMA Readings ==
    ASSUME BuildTypeOK, NEW b \in Builds, NEW r \in RunIds
    PROVE  Reading(b, r) \in {"invalid", "running", "succeeded", "failed", "cancelled"}
BY DEF Reading

\* Bump keeps its variables well typed.
LEMMA BumpTyped ==
    ASSUME BuildTypeOK, NEW b \in Builds, Bump(b)
    PROVE  /\ claim' \in [Builds -> {0} \cup RunIds]
           /\ seen' \in [Builds -> BOOLEAN]
BY DEF BuildTypeOK, Bump

\* A build of which some fields are replaced.
LEMMA EditState ==
    ASSUME NEW s \in Build, NEW x \in BuildStates, NEW w \in BOOLEAN
    PROVE  /\ [s EXCEPT !.waits = w] \in Build
           /\ [s EXCEPT !.state = x, !.waits = w] \in Build
BY DEF Build

\* A build given a run, as builds.reconcile does.
LEMMA EditRun ==
    ASSUME NEW s \in Build, NEW i \in {0} \cup RunIds, NEW w \in BOOLEAN
    PROVE  [s EXCEPT !.run = i, !.waits = w] \in Build
BY DEF Build

\* A build given a state and a message, as the catch block does.
LEMMA EditNote ==
    ASSUME NEW s \in Build, NEW x \in BuildStates,
           NEW n \in {"none", "doubt", "running", "ended"}
    PROVE  [s EXCEPT !.state = x, !.note = n, !.waits = TRUE] \in Build
BY DEF Build

\* A build given its receipt.
LEMMA EditReceipt ==
    ASSUME NEW s \in Build, NEW x \in BuildStates, NEW i \in {0} \cup RunIds
    PROVE  [s EXCEPT !.state = x, !.run = i, !.waits = TRUE] \in Build
BY DEF Build

\* The store with one build replaced.
LEMMA StoreTyped ==
    ASSUME BuildTypeOK, NEW b \in Builds, NEW s \in Build
    PROVE  [build EXCEPT ![b] = s] \in [Builds -> Build]
BY DEF BuildTypeOK

\* An empty build database is well typed.
LEMMA TypeInit == Init => BuildTypeOK
BY DEF Init, BuildTypeOK, Build, BuildStates, Workflow, AtRest, Advance

\* The commands and GitHub.
LEMMA TypeOutside ==
    ASSUME BuildTypeOK, Commands \/ GitHub
    PROVE  BuildTypeOK'
<1>1. ASSUME NEW b \in Builds, Start(b) PROVE BuildTypeOK'
  BY <1>1, BumpTyped DEF Start, BuildTypeOK, Build, BuildStates
<1>2. ASSUME NEW b \in Builds, ReadBuild(b) PROVE BuildTypeOK'
  BY <1>2 DEF ReadBuild, BuildTypeOK
<1>3. ASSUME NEW b \in Builds, Cancel(b) PROVE BuildTypeOK'
  <2> DEFINE x == IF build[b].state = "queued" THEN "cancelled" ELSE "cancelling"
  <2>1. build[b] \in Build /\ x \in BuildStates
    BY DEF BuildTypeOK, BuildStates
  <2>2. Cancelled(build[b]) = [build[b] EXCEPT !.state = x, !.waits = FALSE]
    BY DEF Cancelled
  <2>3. Cancelled(build[b]) \in Build
    BY <2>1, <2>2, EditState
  <2> QED BY <1>3, <2>3, StoreTyped, BumpTyped DEF Cancel, BuildTypeOK
<1>4. ASSUME NEW b \in Builds, NEW r \in RunIds, ReconcileAsk(b, r)
      PROVE  BuildTypeOK'
  BY <1>4 DEF ReconcileAsk, BuildTypeOK
<1>5. ASSUME NEW b \in Builds, ReconcileCommit(b) PROVE BuildTypeOK'
  <2> DEFINE s == [build[b] EXCEPT !.run = claim[b], !.waits = FALSE]
  <2>1. build[b] \in Build /\ claim[b] \in {0} \cup RunIds
    BY DEF BuildTypeOK
  <2>2. s \in Build
    BY <2>1, EditRun
  <2>3. build' = [build EXCEPT ![b] = s]
    BY <1>5, <2>1 DEF ReconcileCommit, BuildTypeOK
  <2> HIDE DEF s
  <2>4. build' \in [Builds -> Build]
    BY <2>2, <2>3, StoreTyped
  <2>5. Bump(b) /\ UNCHANGED <<runs, late, co>>
    BY <1>5 DEF ReconcileCommit
  <2> QED BY <2>4, <2>5, BumpTyped DEF BuildTypeOK
<1>6. ASSUME NEW b \in Builds, ManualDispatch(b) PROVE BuildTypeOK'
  BY <1>6, AcceptedAll DEF ManualDispatch, BuildTypeOK
<1>7. ASSUME NEW b \in Builds, LateDispatch(b) PROVE BuildTypeOK'
  BY <1>7, AcceptedAll DEF LateDispatch, BuildTypeOK
<1>8. ASSUME NEW r \in RunIds, RunEnds(r) PROVE BuildTypeOK'
  <2>1. PICK e \in {"success", "failure", "cancelled"}, g \in BOOLEAN :
          runs' = [runs EXCEPT ![r] =
                     [runs[r] EXCEPT !.state = e, !.good = g, !.halt = FALSE]]
    BY <1>8 DEF RunEnds
  <2>2. runs[r] \in Workflow
    BY DEF BuildTypeOK
  <2>3. [runs[r] EXCEPT !.state = e, !.good = g, !.halt = FALSE] \in Workflow
    BY <2>2 DEF Workflow
  <2>4. runs' \in [RunIds -> Workflow]
    BY <2>1, <2>3 DEF BuildTypeOK
  <2> QED BY <1>8, <2>4 DEF RunEnds, BuildTypeOK
<1> QED BY <1>1, <1>2, <1>3, <1>4, <1>5, <1>6, <1>7, <1>8 DEF Commands, GitHub

\* The coordinator up to its calls.
LEMMA TypePrepare ==
    ASSUME BuildTypeOK,
           TickBegin \/ \E b \in Builds : Prepare(b) \/ Elapse(b)
    PROVE  BuildTypeOK'
<1>1. CASE TickBegin
  BY <1>1, OnwardTyped DEF TickBegin, Unread, BuildTypeOK
<1>2. ASSUME NEW b \in Builds, PrepareNothing(b) PROVE BuildTypeOK'
  <2>1. co.todo \ {b} \in SUBSET Builds
    BY DEF BuildTypeOK, Advance
  <2> QED BY <1>2, <2>1, OnwardTyped DEF PrepareNothing, Unread, BuildTypeOK
<1>3. ASSUME NEW b \in Builds, NEW p \in {"dispatch", "observe"}, Prepared(b, p)
      PROVE  co' \in Advance /\ co'.build \in Builds
  <2> DEFINE halting == build[b].state = "cancelling"
  <2>1. halting \in BOOLEAN /\ build[b].run \in {0} \cup RunIds
    BY DEF BuildTypeOK, Build
  <2>2. co' = [AtRest EXCEPT !.phase = p, !.todo = co.todo \ {b}, !.build = b,
                             !.halting = halting, !.run = build[b].run]
    BY <1>3 DEF Prepared
  <2>3. co.todo \ {b} \in SUBSET Builds
    BY DEF BuildTypeOK, Advance
  <2> HIDE DEF halting
  <2> QED BY <2>1, <2>2, <2>3 DEF AtRest, Advance
<1>4. ASSUME NEW b \in Builds, PrepareDispatch(b) PROVE BuildTypeOK'
  BY <1>3, <1>4, BumpTyped DEF PrepareDispatch, BuildTypeOK, Build, BuildStates
<1>5. ASSUME NEW b \in Builds, PrepareObserve(b) PROVE BuildTypeOK'
  BY <1>3, <1>5 DEF PrepareObserve, Unread, BuildTypeOK
<1>6. ASSUME NEW b \in Builds, Elapse(b) PROVE BuildTypeOK'
  <2> DEFINE s == [build[b] EXCEPT !.waits = FALSE]
  <2>1. s \in Build
    <3>1. build[b] \in Build /\ "none" \in BuildStates
      BY DEF BuildTypeOK, BuildStates
    <3> QED BY <3>1, EditState
  <2>2. build' = [build EXCEPT ![b] = s]
    BY <1>6 DEF Elapse
  <2> HIDE DEF s
  <2>3. build' \in [Builds -> Build]
    BY <2>1, <2>2, StoreTyped
  <2>4. UNCHANGED <<runs, late, co>> /\ Unread
    BY <1>6 DEF Elapse
  <2> QED BY <2>3, <2>4 DEF Unread, BuildTypeOK
<1> QED BY <1>1, <1>2, <1>4, <1>5, <1>6 DEF Prepare

\* A call that ends in an error.
LEMMA ThrowTyped ==
    ASSUME BuildTypeOK, NEW why \in {"doubt", "rejected", "invalid"}, Throw(why)
    PROVE  co' \in Advance /\ co'.build = co.build /\ co'.phase = "failed"
BY DEF BuildTypeOK, Throw, Advance

\* So is what a lost dispatch leaves at GitHub.
LEMMA AbandonTyped ==
    ASSUME BuildTypeOK, NEW b \in Builds, Abandon(b)
    PROVE  runs' \in [RunIds -> Workflow] /\ late' \subseteq Builds
BY AcceptedAll DEF Abandon, BuildTypeOK

\* The calls.
LEMMA TypeCalls ==
    ASSUME BuildTypeOK, Calls
    PROVE  BuildTypeOK'
<1>1. ASSUME NEW b \in Builds, DispatchAnswered(b) PROVE BuildTypeOK'
  <2>1. PICK r \in NextId, g \in BOOLEAN :
          /\ runs' = Created(b, TRUE, r, g)
          /\ co' = [co EXCEPT !.phase = "receipt", !.run = r]
    BY <1>1 DEF DispatchAnswered
  <2>2. r \in RunIds
    BY DEF NextId
  <2> QED BY <1>1, <2>1, <2>2, AcceptedTyped
          DEF DispatchAnswered, Calling, Unread, BuildTypeOK, Advance
<1>2. ASSUME NEW b \in Builds, DispatchRejected(b) PROVE BuildTypeOK'
  BY <1>2, ThrowTyped DEF DispatchRejected, Calling, Unread, BuildTypeOK
<1>3. ASSUME NEW b \in Builds, DispatchFails(b) PROVE BuildTypeOK'
  BY <1>3, ThrowTyped, AbandonTyped DEF DispatchFails, Calling, Unread, BuildTypeOK
<1>4. ASSUME NEW b \in Builds, NEW S \in SUBSET RunIds, ObserveAnswered(b, S)
      PROVE  BuildTypeOK'
  <2>1. CASE Throw("invalid")
    BY <1>4, <2>1, ThrowTyped DEF ObserveAnswered, Calling, Unread, BuildTypeOK
  <2>2. CASE \E r \in S :
               /\ Reading(b, r) # "invalid"
               /\ co' = [co EXCEPT
                    !.phase = IF co.halting /\ Reading(b, r) = "running"
                              THEN "cancel" ELSE "observed",
                    !.run = r, !.seen = Reading(b, r)]
    <3>1. PICK r \in S, p \in {"cancel", "observed"} :
            /\ Reading(b, r) # "invalid"
            /\ co' = [co EXCEPT !.phase = p, !.run = r, !.seen = Reading(b, r)]
      BY <2>2
    <3>2. r \in RunIds /\ Reading(b, r) \in
              {"none", "running", "succeeded", "failed", "cancelled"}
      BY <3>1, Readings
    <3>3. co' \in Advance /\ co'.build = b
      BY <1>4, <3>1, <3>2 DEF ObserveAnswered, Calling, BuildTypeOK, Advance
    <3> QED BY <1>4, <3>3 DEF ObserveAnswered, Unread, BuildTypeOK
  <2> QED BY <1>4, <2>1, <2>2 DEF ObserveAnswered, Answer
<1>5. ASSUME NEW b \in Builds, ObserveFails(b) PROVE BuildTypeOK'
  BY <1>5, ThrowTyped DEF ObserveFails, Calling, Unread, BuildTypeOK
<1>6. ASSUME NEW r \in {0} \cup RunIds
      PROVE  Halted(r) \in [RunIds -> Workflow]
  <2> DEFINE halt == runs[r].state = "running"
  <2>1. halt \in BOOLEAN /\ runs \in [RunIds -> Workflow]
    BY DEF BuildTypeOK
  <2>2. Halted(r) = [runs EXCEPT ![r].halt = halt]
    BY DEF Halted
  <2> HIDE DEF halt
  <2>3. CASE r \in RunIds
    <3>1. [runs[r] EXCEPT !.halt = halt] \in Workflow
      BY <2>1, <2>3 DEF Workflow
    <3> QED BY <2>1, <2>2, <2>3, <3>1
  <2>4. CASE r \notin RunIds
    BY <2>1, <2>2, <2>4
  <2> QED BY <2>3, <2>4
<1>7. ASSUME NEW b \in Builds, CancelAnswered(b) PROVE BuildTypeOK'
  BY <1>6, <1>7 DEF CancelAnswered, Calling, Unread, BuildTypeOK, Advance
<1>8. ASSUME NEW b \in Builds, CancelFails(b) PROVE BuildTypeOK'
  <2>1. co.run \in {0} \cup RunIds
    BY DEF BuildTypeOK, Advance
  <2> QED BY <1>6, <1>8, <2>1, ThrowTyped DEF CancelFails, Calling, Unread, BuildTypeOK
<1> QED BY <1>1, <1>2, <1>3, <1>4, <1>5, <1>7, <1>8 DEF Calls

\* An observation that is being recorded was one.
LEMMA ObservedTyped ==
    ASSUME BuildTypeOK, ConfirmedReading, co.phase = "observed",
           NEW b \in Builds
    PROVE  Observed(build[b]) \in Build
<1>1. build[b] \in Build /\ co.run \in {0} \cup RunIds
  BY DEF BuildTypeOK, Advance
<1>2. co.seen \in BuildStates
  BY DEF BuildTypeOK, ConfirmedReading, Advance, BuildStates
<1>3. build[b].state \in BuildStates /\ build[b].result \in {0} \cup RunIds
  BY <1>1 DEF Build
<1> DEFINE x == IF co.seen = "running" /\ build[b].state = "cancelling"
                THEN build[b].state ELSE co.seen
           n == IF co.seen = "running" THEN "running" ELSE "ended"
           i == IF co.seen = "succeeded" THEN co.run ELSE build[b].result
<1>4. x \in BuildStates /\ n \in {"none", "doubt", "running", "ended"}
      /\ i \in {0} \cup RunIds
  BY <1>1, <1>2, <1>3
<1>5. Observed(build[b]) = [build[b] EXCEPT !.state = x, !.note = n,
                              !.run = co.run, !.result = i, !.waits = TRUE]
  BY DEF Observed
<1> HIDE DEF x, n, i
<1> QED BY <1>1, <1>4, <1>5 DEF Build

\* The closing transactions, the store and the process.
LEMMA TypeCommits ==
    ASSUME BuildTypeOK, ConfirmedReading, Commits \/ StoreFails \/ Restart
    PROVE  BuildTypeOK'
<1>1. co.todo \in SUBSET Builds
  BY DEF BuildTypeOK, Advance
<1>2. ASSUME Done PROVE co' \in Advance /\ co'.phase \in {"rest", "scan"}
  BY <1>1, <1>2, OnwardTyped DEF Done
<1>3. ASSUME NEW b \in Builds, ReceiptCommit(b) PROVE BuildTypeOK'
  <2>1. Received(build[b]) \in Build
    <3> DEFINE x == IF build[b].state = "cancelling" THEN "cancelling" ELSE "running"
               i == co.run
    <3>1. build[b] \in Build /\ x \in BuildStates /\ i \in {0} \cup RunIds
      BY DEF BuildTypeOK, Advance, BuildStates
    <3>2. Received(build[b]) =
            [build[b] EXCEPT !.state = x, !.run = i, !.waits = TRUE]
      BY DEF Received
    <3> HIDE DEF x, i
    <3> QED BY <3>1, <3>2, EditReceipt
  <2> QED BY <1>2, <1>3, <2>1, BumpTyped DEF ReceiptCommit, BuildTypeOK
<1>4. ASSUME NEW b \in Builds, ObservationCommit(b) PROVE BuildTypeOK'
  <2>1. CASE Ended(b)
    BY <1>2, <1>4, <2>1 DEF ObservationCommit, Unread, BuildTypeOK
  <2>2. CASE ~Ended(b)
    <3>1. Bump(b) \/ Unread
      BY <1>4, <2>2 DEF ObservationCommit, BumpIf
    <3>2. build' = [build EXCEPT ![b] = Observed(build[b])]
      BY <1>4, <2>2 DEF ObservationCommit
    <3>3. build' \in [Builds -> Build]
      BY <1>4, <3>2, ObservedTyped DEF ObservationCommit, Calling, BuildTypeOK
    <3> QED BY <1>2, <1>4, <3>1, <3>3, BumpTyped
            DEF ObservationCommit, Unread, BuildTypeOK
  <2> QED BY <2>1, <2>2
<1>5. ASSUME NEW b \in Builds, CatchCommit(b) PROVE BuildTypeOK'
  <2>1. Doubted(build[b]) \in Build
    <3> DEFINE x == IF build[b].state = "cancelling" THEN "cancelling" ELSE "unknown"
    <3>1. build[b] \in Build /\ x \in BuildStates
      BY DEF BuildTypeOK, BuildStates
    <3>2. \/ Doubted(build[b]) = [build[b] EXCEPT !.waits = TRUE]
          \/ Doubted(build[b]) = [build[b] EXCEPT !.state = x, !.note = "doubt",
                                                 !.waits = TRUE]
      BY DEF Doubted
    <3> HIDE DEF x
    <3> QED BY <3>1, <3>2, EditState, EditNote
  <2>2. build' \in [Builds -> Build]
    <3> DEFINE s == [build[b] EXCEPT !.state = "failed", !.note = "ended", !.waits = TRUE]
    <3>1. s \in Build
      BY EditNote DEF BuildTypeOK, BuildStates
    <3>2. \/ build' = build
          \/ build' = [build EXCEPT ![b] = s]
          \/ build' = [build EXCEPT ![b] = Doubted(build[b])]
      BY <1>5 DEF CatchCommit
    <3> HIDE DEF s
    <3> QED BY <2>1, <3>1, <3>2, StoreTyped DEF BuildTypeOK
  <2>3. Bump(b) \/ Unread
    BY <1>5 DEF CatchCommit
  <2> QED BY <1>2, <1>5, <2>2, <2>3, BumpTyped DEF CatchCommit, Unread, BuildTypeOK
<1>6. CASE StoreFails
  <2>1. CASE Done
    BY <1>2, <1>6, <2>1 DEF StoreFails, Unread, BuildTypeOK
  <2>2. CASE co.phase \in {"receipt", "observed"} /\ Throw("doubt")
    BY <1>6, <2>2, ThrowTyped DEF StoreFails, Unread, BuildTypeOK
  <2>3. CASE \E b \in co.todo : co' = Onward(co.todo \ {b})
    BY <1>1, <1>6, <2>3, OnwardTyped DEF StoreFails, Unread, BuildTypeOK
  <2> QED BY <1>6, <2>1, <2>2, <2>3 DEF StoreFails
<1>7. CASE Restart
  <2>1. AtRest \in Advance /\ AtRest.phase = "rest"
    BY DEF AtRest, Advance
  <2>2. runs' \in [RunIds -> Workflow] /\ late' \subseteq Builds
    BY <1>7, AbandonTyped DEF Restart, BuildTypeOK
  <2> QED BY <1>7, <2>1, <2>2 DEF Restart, BuildTypeOK
<1> QED BY <1>3, <1>4, <1>5, <1>6, <1>7 DEF Commits

\* Every step keeps the types.
LEMMA TypeNext ==
    ASSUME BuildTypeOK, ConfirmedReading, [Next]_vars
    PROVE  BuildTypeOK'
<1>1. CASE UNCHANGED vars
  BY <1>1 DEF vars, BuildTypeOK
<1> QED BY <1>1, TypeOutside, TypePrepare, TypeCalls, TypeCommits DEF Next, Undisturbed

-----------------------------------------------------------------------------
(* GitHub's side of the invariant: what a dispatch and the end of a run do *)

\* What has been verified stays so, and no other build is dispatched but those
\* in D.
Kept(D) == /\ \A b \in Builds, r \in RunIds : Verified(b, r) => Verified(b, r)'
           /\ \A b \in Builds \ D : Unsent(b) => Unsent(b)'

\* Nothing happens at GitHub.
LEMMA Still ==
    ASSUME UNCHANGED <<runs, late>>, DispatchOnce
    PROVE  DispatchOnce' /\ Kept({})
BY DEF DispatchOnce, Kept, Verified, Unsent, Titled

\* A new run takes an id of its own.
LEMMA NewRun ==
    ASSUME BuildTypeOK, NEW b \in Builds, NEW studio \in BOOLEAN,
           runs' \in Accepted(b, studio)
    PROVE  \E r \in RunIds :
              /\ runs[r].state = "none"
              /\ runs'[r].build = b /\ runs'[r].studio = studio
              /\ \A s \in RunIds \ {r} : runs'[s] = runs[s]
<1>1. PICK r \in NextId, g \in BOOLEAN : runs' = Created(b, studio, r, g)
  BY DEF Accepted
<1>2. r \in RunIds /\ runs[r].state = "none"
  BY DEF NextId
<1> QED BY <1>1, <1>2 DEF Created, BuildTypeOK

\* A run dispatched by hand is not one of Studio's.
LEMMA ByHand ==
    ASSUME BuildTypeOK, DispatchOnce, NEW b \in Builds,
           runs' \in Accepted(b, FALSE), UNCHANGED late
    PROVE  DispatchOnce' /\ Kept({})
<1>1. PICK r \in RunIds : /\ runs[r].state = "none"
                          /\ runs'[r].build = b /\ runs'[r].studio = FALSE
                          /\ \A s \in RunIds \ {r} : runs'[s] = runs[s]
  BY NewRun
<1>2. DispatchOnce'
  BY <1>1 DEF DispatchOnce, Titled
<1>3. ASSUME NEW d \in Builds, NEW i \in RunIds, Verified(d, i)
      PROVE  Verified(d, i)'
  BY <1>1, <1>3 DEF Verified, Titled
<1>4. ASSUME NEW d \in Builds, Unsent(d) PROVE Unsent(d)'
  BY <1>1, <1>4 DEF Unsent, Titled
<1> QED BY <1>2, <1>3, <1>4 DEF Kept

\* A build without a run gets its first one, at once or later.
LEMMA Sent ==
    ASSUME BuildTypeOK, DispatchOnce, NEW b \in Builds,
           \A r \in Titled(b) : ~runs[r].studio,
           runs' \in {runs} \cup Accepted(b, TRUE), late' \subseteq late,
           runs' # runs => b \notin late'
    PROVE  DispatchOnce' /\ Kept({b})
<1>1. CASE runs' = runs
  BY <1>1 DEF DispatchOnce, Kept, Verified, Unsent, Titled
<1>2. CASE runs' # runs
  <2>1. PICK r \in RunIds : /\ runs[r].state = "none"
                            /\ runs'[r].build = b /\ runs'[r].studio = TRUE
                            /\ \A s \in RunIds \ {r} : runs'[s] = runs[s]
    BY <1>2, NewRun
  <2>2. ASSUME NEW d \in Builds, d \in late', NEW s \in RunIds, runs'[s].build = d
        PROVE  ~runs'[s].studio
    BY <1>2, <2>1, <2>2 DEF DispatchOnce, Titled
  <2>3. ASSUME NEW d \in Builds, NEW s \in RunIds, NEW t \in RunIds,
               runs'[s].build = d, runs'[t].build = d,
               runs'[s].studio, runs'[t].studio
        PROVE  s = t
    BY <2>1, <2>3 DEF DispatchOnce, Titled
  <2>4. DispatchOnce'
    BY <2>2, <2>3 DEF DispatchOnce, Titled
  <2>5. ASSUME NEW d \in Builds, NEW i \in RunIds, Verified(d, i)
        PROVE  Verified(d, i)'
    BY <2>1, <2>5 DEF Verified, Titled
  <2>6. ASSUME NEW d \in Builds \ {b}, Unsent(d) PROVE Unsent(d)'
    BY <2>1, <2>6 DEF Unsent, Titled
  <2> QED BY <2>4, <2>5, <2>6 DEF Kept
<1> QED BY <1>1, <1>2

\* A dispatch is given up by the caller.
LEMMA GivenUp ==
    ASSUME BuildTypeOK, DispatchOnce, NEW b \in Builds, Unsent(b), Abandon(b)
    PROVE  DispatchOnce' /\ Kept({b})
<1>1. CASE runs' \in {runs} \cup Accepted(b, TRUE) /\ UNCHANGED late
  BY <1>1, Sent DEF Unsent
<1>2. CASE late' = late \cup {b} /\ UNCHANGED runs
  BY <1>2 DEF DispatchOnce, Kept, Verified, Unsent, Titled
<1> QED BY <1>1, <1>2 DEF Abandon

\* A run ends or is told to: its title and origin remain.
LEMMA SameRuns ==
    ASSUME BuildTypeOK, DispatchOnce, UNCHANGED late,
           \A r \in RunIds : /\ runs'[r].build = runs[r].build
                             /\ runs'[r].studio = runs[r].studio
                             /\ runs'[r].genuine = runs[r].genuine
                             /\ runs[r].state # "running" =>
                                   /\ runs'[r].state = runs[r].state
                                   /\ runs'[r].good = runs[r].good
    PROVE  DispatchOnce' /\ Kept({})
BY DEF DispatchOnce, Kept, Verified, Unsent, Titled

\* Passing a cancellation on changes no run's title, origin or end.
LEMMA HaltedRuns ==
    ASSUME BuildTypeOK, DispatchOnce, UNCHANGED late, NEW i \in {0} \cup RunIds,
           runs' = Halted(i)
    PROVE  DispatchOnce' /\ Kept({})
<1>1. runs \in [RunIds -> Workflow]
  BY DEF BuildTypeOK
<1>2. ASSUME NEW r \in RunIds
      PROVE  /\ runs'[r].build = runs[r].build
             /\ runs'[r].studio = runs[r].studio
             /\ runs'[r].genuine = runs[r].genuine
             /\ runs'[r].state = runs[r].state
             /\ runs'[r].good = runs[r].good
  <2> DEFINE halt == runs[i].state = "running"
  <2>1. runs' = [runs EXCEPT ![i].halt = halt]
    BY DEF Halted
  <2> HIDE DEF halt
  <2>2. CASE r = i
    BY <1>1, <2>1, <2>2 DEF Workflow
  <2>3. CASE r # i
    BY <1>1, <2>1, <2>3
  <2> QED BY <2>2, <2>3
<1> QED BY <1>2, SameRuns

-----------------------------------------------------------------------------
(* The store's side *)

\* A success that is written is a verified one.
LEMMA EditedResult ==
    ASSUME BuildTypeOK, VerifiedResult, NEW D, Kept(D), NEW b \in Builds, NEW s,
           build' = [build EXCEPT ![b] = s],
           s.state = "succeeded" => s.result = s.run /\ s.run \in RunIds
                                    /\ Verified(b, s.run)
    PROVE  VerifiedResult'
<1>1. ASSUME NEW d \in Builds, build'[d].state = "succeeded"
      PROVE  \E r \in RunIds : /\ build'[d].run = r /\ build'[d].result = r
                               /\ Verified(d, r)
  <2>1. CASE d = b
    <3>1. build'[d] = s
      BY <2>1 DEF BuildTypeOK
    <3> QED BY <1>1, <2>1, <3>1
  <2>2. CASE d # b
    <3>1. build'[d] = build[d]
      BY <2>2 DEF BuildTypeOK
    <3>2. build[d].result = build[d].run /\ Verified(d, build[d].run)
      BY <1>1, <3>1 DEF VerifiedResult
    <3>3. build[d].run \in RunIds
      BY <3>2 DEF Verified, Titled
    <3> QED BY <3>1, <3>2, <3>3
  <2> QED BY <2>1, <2>2
<1>2. ASSUME NEW d \in Builds, build'[d].state = "succeeded"
      PROVE  \E r \in RunIds : /\ build'[d].run = r /\ build'[d].result = r
                               /\ Verified(d, r)'
  BY <1>1, <1>2 DEF Kept
<1> QED BY <1>2 DEF VerifiedResult, Verified, Titled

\* No build changes.
LEMMA SameResult ==
    ASSUME BuildTypeOK, VerifiedResult, NEW D, Kept(D), UNCHANGED build
    PROVE  VerifiedResult'
<1>1. ASSUME NEW d \in Builds, build[d].state = "succeeded"
      PROVE  /\ build[d].result = build[d].run
             /\ build[d].run \in RunIds /\ Verified(d, build[d].run)
  BY <1>1 DEF VerifiedResult, Verified, Titled
<1> QED BY <1>1 DEF VerifiedResult, Kept, Verified, Titled

\* Fields of an edited build.
LEMMA Edits ==
    ASSUME BuildTypeOK, NEW b \in Builds
    PROVE  /\ Cancelled(build[b]).state \in {"cancelled", "cancelling"}
           /\ build[b].state # "queued" => Cancelled(build[b]).state = "cancelling"
           /\ Received(build[b]).state \in {"running", "cancelling"}
           /\ \A i : /\ [build[b] EXCEPT !.run = i, !.waits = FALSE].state = build[b].state
                     /\ [build[b] EXCEPT !.waits = FALSE].state = build[b].state
BY DEF BuildTypeOK, Build, Cancelled, Received

\* The commands leave the coordinator and GitHub alone.
LEMMA InvariantCommands ==
    ASSUME BuildTypeOK, BuildInvariant, Commands
    PROVE  BuildInvariant'
<1>1. UNCHANGED <<runs, late, co>>
  BY DEF Commands, Start, ReadBuild, Cancel, ReconcileAsk, ReconcileCommit
<1>2. DispatchOnce' /\ Kept({})
  BY <1>1, Still DEF BuildInvariant
<1>3. ConfirmedReading'
  BY <1>1 DEF BuildInvariant, ConfirmedReading, Verified, Titled
<1>4. ASSUME NEW b \in Builds, NEW s, build' = [build EXCEPT ![b] = s],
             build[b].state = "none" => s.state = "queued",
             build[b].state # "none" => s.state \notin {"none", "queued"}
                                        \/ s.state = build[b].state
      PROVE  UnsentIntents'
  <2>1. ASSUME NEW d \in Builds, build'[d].state \in {"none", "queued"}
        PROVE  Unsent(d)
    BY <1>4, <2>1 DEF BuildInvariant, UnsentIntents, BuildTypeOK
  <2> QED BY <1>1, <2>1 DEF BuildInvariant, UnsentIntents, Unsent, Titled
<1>5. ASSUME NEW b \in Builds, Start(b) PROVE BuildInvariant'
  <2> DEFINE s == [build[b] EXCEPT !.state = "queued"]
  <2>1. /\ build' = [build EXCEPT ![b] = s]
        /\ build[b].state = "none" /\ s.state = "queued" /\ Bump(b)
    BY <1>5 DEF Start, BuildTypeOK, Build
  <2> HIDE DEF s
  <2>2. VerifiedResult'
    BY <1>2, <2>1, EditedResult DEF BuildInvariant
  <2>3. UnsentIntents'
    BY <1>4, <2>1
  <2>4. OpenInFlight'
    BY <1>1, <2>1 DEF BuildInvariant, OpenInFlight, Active, Ended, Bump, BuildTypeOK
  <2> QED BY <1>2, <1>3, <2>2, <2>3, <2>4 DEF BuildInvariant
<1>6. ASSUME NEW b \in Builds, Cancel(b) PROVE BuildInvariant'
  <2> DEFINE s == Cancelled(build[b])
  <2>1. /\ build' = [build EXCEPT ![b] = s] /\ Bump(b)
        /\ build[b].state # "none"
        /\ s.state \in {"cancelled", "cancelling"}
        /\ build[b].state # "queued" => s.state = "cancelling"
    BY <1>6, Edits DEF Cancel, Cancellable, Active
  <2> HIDE DEF s
  <2>2. VerifiedResult'
    BY <1>2, <2>1, EditedResult DEF BuildInvariant
  <2>3. UnsentIntents'
    BY <1>4, <2>1
  <2>4. OpenInFlight'
    BY <1>1, <2>1 DEF BuildInvariant, OpenInFlight, Active, Ended, Bump, BuildTypeOK
  <2> QED BY <1>2, <1>3, <2>2, <2>3, <2>4 DEF BuildInvariant
<1>7. ASSUME NEW b \in Builds, ReconcileCommit(b) PROVE BuildInvariant'
  <2> DEFINE s == [build[b] EXCEPT !.run = claim[b], !.waits = FALSE]
  <2>1. build' = [build EXCEPT ![b] = s] /\ Bump(b) /\ claim[b] # 0
    BY <1>7 DEF ReconcileCommit, BuildTypeOK
  <2>2. s.state = build[b].state
    BY Edits
  <2> HIDE DEF s
  <2>3. Active(b)
    BY <2>1 DEF BuildInvariant, OpenInFlight
  <2>4. VerifiedResult'
    BY <1>2, <2>1, <2>2, <2>3, EditedResult DEF BuildInvariant, Active, Ended
  <2>5. UnsentIntents'
    BY <1>4, <2>1, <2>2, <2>3 DEF Active
  <2>6. OpenInFlight'
    BY <1>1, <2>1, <2>2 DEF BuildInvariant, OpenInFlight, Active, Ended, Bump, BuildTypeOK
  <2> QED BY <1>2, <1>3, <2>4, <2>5, <2>6 DEF BuildInvariant
<1>8. ASSUME UNCHANGED build,
             \A d \in Builds : claim'[d] # 0 => claim[d] # 0 \/ Active(d)
      PROVE  BuildInvariant'
  <2>1. VerifiedResult'
    BY <1>2, <1>8, SameResult DEF BuildInvariant
  <2>2. UnsentIntents' /\ OpenInFlight'
    BY <1>1, <1>8 DEF BuildInvariant, UnsentIntents, Unsent, Titled,
                      OpenInFlight, Active, Ended
  <2> QED BY <1>2, <1>3, <2>1, <2>2 DEF BuildInvariant
<1>9. ASSUME NEW b \in Builds, NEW r \in RunIds, ReconcileAsk(b, r)
      PROVE  BuildInvariant'
  <2>1. Active(b)
    BY <1>9 DEF ReconcileAsk, Active, Ended
  <2> QED BY <1>8, <1>9, <2>1 DEF ReconcileAsk, BuildTypeOK
<1>10. ASSUME NEW b \in Builds, ReadBuild(b) PROVE BuildInvariant'
  BY <1>8, <1>10 DEF ReadBuild
<1> QED BY <1>5, <1>6, <1>7, <1>9, <1>10 DEF Commands

\* A step that leaves the builds alone.
LEMMA SameStore ==
    ASSUME BuildTypeOK, BuildInvariant, NEW D, Kept(D), DispatchOnce',
           UNCHANGED build,
           \A d \in Builds : claim'[d] # 0 => claim[d] # 0 \/ Active(d),
           \A d \in D : build[d].state \notin {"none", "queued"},
           co'.phase = "dispatch" => co'.build \in Builds \ D /\ Unsent(co'.build),
           co'.phase \in {"dispatch", "receipt"} =>
               build[co'.build].state \in {"dispatching", "cancelling"},
           co'.phase \in {"cancel", "observed"} =>
               /\ co'.seen # "none"
               /\ co'.phase = "cancel" => co'.seen = "running"
               /\ co'.seen = "succeeded" =>
                      co'.build \in Builds /\ Verified(co'.build, co'.run)
    PROVE  BuildInvariant'
<1>1. VerifiedResult'
  BY SameResult DEF BuildInvariant
<1>2. UnsentIntents'
  <2>1. ASSUME NEW d \in Builds, build[d].state \in {"none", "queued"}
        PROVE  Unsent(d)'
    BY <2>1 DEF BuildInvariant, UnsentIntents, Kept
  <2>2. ASSUME co'.phase = "dispatch"
        PROVE  Unsent(co.build)'
    <3>1. PICK d \in Builds \ D : d = co'.build /\ Unsent(d)
      BY <2>2
    <3>2. Unsent(d)'
      BY <3>1 DEF Kept
    <3> QED BY <3>1, <3>2 DEF Unsent, Titled
  <2> QED BY <2>1, <2>2 DEF UnsentIntents, Unsent, Titled
<1>3. OpenInFlight'
  BY DEF BuildInvariant, OpenInFlight, Active, Ended
<1>4. ConfirmedReading'
  <2>1. ASSUME co'.phase \in {"cancel", "observed"}, co'.seen = "succeeded"
        PROVE  Verified(co.build, co.run)'
    <3>1. PICK d \in Builds, r \in RunIds :
            d = co'.build /\ r = co'.run /\ Verified(d, r)
      BY <2>1 DEF Verified, Titled
    <3>2. Verified(d, r)'
      BY <3>1 DEF Kept
    <3> QED BY <3>1, <3>2 DEF Verified, Titled
  <2> QED BY <2>1 DEF ConfirmedReading, Verified, Titled
<1> QED BY <1>1, <1>2, <1>3, <1>4 DEF BuildInvariant

\* A step that changes neither the store nor what the coordinator holds.
LEMMA Idle ==
    ASSUME BuildTypeOK, BuildInvariant, DispatchOnce', Kept({}),
           UNCHANGED <<build, co, claim>>
    PROVE  BuildInvariant'
<1>1. co.phase = "dispatch" => co.build \in Builds \ {} /\ Unsent(co.build)
  BY DEF BuildTypeOK, BuildInvariant, UnsentIntents
<1>2. /\ co.phase \in {"dispatch", "receipt"} =>
             build[co.build].state \in {"dispatching", "cancelling"}
      /\ co.phase \in {"cancel", "observed"} =>
             /\ co.seen # "none"
             /\ co.phase = "cancel" => co.seen = "running"
             /\ co.seen = "succeeded" =>
                    co.build \in Builds /\ Verified(co.build, co.run)
  BY DEF BuildTypeOK, BuildInvariant, OpenInFlight, ConfirmedReading
<1> QED BY <1>1, <1>2, SameStore

\* GitHub leaves the store and the coordinator alone.
LEMMA InvariantGitHub ==
    ASSUME BuildTypeOK, BuildInvariant, GitHub
    PROVE  BuildInvariant'
<1>1. UNCHANGED <<build, co, claim>>
  BY DEF GitHub, ManualDispatch, LateDispatch, RunEnds
<1>2. DispatchOnce' /\ Kept({})
  <2>1. CASE \E b \in Builds : ManualDispatch(b)
    BY <2>1, ByHand DEF ManualDispatch, BuildInvariant
  <2>2. ASSUME NEW b \in Builds, LateDispatch(b)
        PROVE  DispatchOnce' /\ Kept({})
    <3>1. /\ b \in late /\ late' = late \ {b}
          /\ runs' \in {runs} \cup Accepted(b, TRUE)
      BY <2>2 DEF LateDispatch
    <3>2. \A r \in Titled(b) : ~runs[r].studio
      BY <3>1 DEF BuildInvariant, DispatchOnce
    <3>3. DispatchOnce' /\ Kept({b})
      BY <3>1, <3>2, Sent DEF BuildInvariant
    <3> QED BY <3>1, <3>3 DEF Kept, Unsent
  <2>3. ASSUME NEW r \in RunIds, RunEnds(r) PROVE DispatchOnce' /\ Kept({})
    <3>1. PICK e \in {"success", "failure", "cancelled"}, g \in BOOLEAN :
            runs' = [runs EXCEPT ![r] =
                       [runs[r] EXCEPT !.state = e, !.good = g, !.halt = FALSE]]
      BY <2>3 DEF RunEnds
    <3>2. runs[r].state = "running" /\ UNCHANGED late /\ runs[r] \in Workflow
          /\ runs \in [RunIds -> Workflow]
      BY <2>3 DEF RunEnds, BuildTypeOK
    <3>3. /\ runs'[r].build = runs[r].build
          /\ runs'[r].studio = runs[r].studio
          /\ runs'[r].genuine = runs[r].genuine
      BY <3>1, <3>2 DEF Workflow
    <3>4. \A s \in RunIds \ {r} : runs'[s] = runs[s]
      BY <3>1, <3>2
    <3> QED BY <3>2, <3>3, <3>4, SameRuns DEF BuildInvariant
  <2> QED BY <2>1, <2>2, <2>3 DEF GitHub
<1> QED BY <1>1, <1>2, Idle

\* The coordinator goes on to another build: nothing is in flight.
LEMMA GoesOn ==
    ASSUME BuildTypeOK, BuildInvariant, co'.phase \in {"rest", "scan", "observe", "failed"},
           UNCHANGED <<build, runs, late, claim>>
    PROVE  BuildInvariant'
<1>1. DispatchOnce' /\ Kept({})
  BY Still DEF BuildInvariant
<1> QED BY <1>1, SameStore

\* Preparing a build, and time.
LEMMA InvariantPrepare ==
    ASSUME BuildTypeOK, BuildInvariant,
           TickBegin \/ \E b \in Builds : Prepare(b) \/ Elapse(b)
    PROVE  BuildInvariant'
<1>1. CASE TickBegin
  BY <1>1, GoesOn DEF TickBegin, Unread, Onward, AtRest
<1>2. ASSUME NEW b \in Builds, PrepareNothing(b) PROVE BuildInvariant'
  BY <1>2, GoesOn DEF PrepareNothing, Unread, Onward, AtRest
<1>3. ASSUME NEW b \in Builds, PrepareObserve(b) PROVE BuildInvariant'
  BY <1>3, GoesOn DEF PrepareObserve, Unread, Prepared, AtRest
<1>4. ASSUME NEW b \in Builds, PrepareDispatch(b) PROVE BuildInvariant'
  <2> DEFINE s == [build[b] EXCEPT !.state = "dispatching"]
  <2>1. /\ build' = [build EXCEPT ![b] = s] /\ s.state = "dispatching"
        /\ build[b].state = "queued" /\ Bump(b) /\ UNCHANGED <<runs, late>>
        /\ co'.phase = "dispatch" /\ co'.build = b
    BY <1>4 DEF PrepareDispatch, Prepared, DispatchDue, AtRest, BuildTypeOK, Build
  <2> HIDE DEF s
  <2>2. DispatchOnce' /\ Kept({})
    BY <2>1, Still DEF BuildInvariant
  <2>3. VerifiedResult'
    BY <2>1, <2>2, EditedResult DEF BuildInvariant
  <2>4. Unsent(b)
    BY <2>1 DEF BuildInvariant, UnsentIntents
  <2>5. ASSUME NEW d \in Builds, build'[d].state \in {"none", "queued"}
        PROVE  Unsent(d)
    BY <2>1, <2>5 DEF BuildInvariant, UnsentIntents, BuildTypeOK
  <2>6. UnsentIntents'
    BY <2>1, <2>4, <2>5 DEF UnsentIntents, Unsent, Titled
  <2>7. OpenInFlight'
    BY <2>1 DEF BuildInvariant, OpenInFlight, Active, Ended, Bump, BuildTypeOK
  <2>8. ConfirmedReading'
    BY <2>1 DEF ConfirmedReading
  <2> QED BY <2>2, <2>3, <2>6, <2>7, <2>8 DEF BuildInvariant
<1>5. ASSUME NEW b \in Builds, Elapse(b) PROVE BuildInvariant'
  <2> DEFINE s == [build[b] EXCEPT !.waits = FALSE]
  <2>1. build' = [build EXCEPT ![b] = s] /\ Active(b)
        /\ UNCHANGED <<runs, late, co, claim>>
    BY <1>5 DEF Elapse, Unread
  <2>2. s.state = build[b].state
    BY Edits
  <2> HIDE DEF s
  <2>3. DispatchOnce' /\ Kept({})
    BY <2>1, Still DEF BuildInvariant
  <2>4. VerifiedResult'
    BY <2>1, <2>2, <2>3, EditedResult DEF BuildInvariant, Active, Ended
  <2>5. \A d \in Builds : build'[d].state = build[d].state
    BY <2>1, <2>2 DEF BuildTypeOK
  <2>6. UnsentIntents'
    BY <2>1, <2>5 DEF BuildInvariant, UnsentIntents, Unsent, Titled
  <2>7. OpenInFlight'
    BY <2>1, <2>5 DEF BuildInvariant, OpenInFlight, Active, Ended, BuildTypeOK
  <2>8. ConfirmedReading'
    BY <2>1 DEF BuildInvariant, ConfirmedReading, Verified, Titled
  <2> QED BY <2>3, <2>4, <2>6, <2>7, <2>8 DEF BuildInvariant
<1> QED BY <1>1, <1>2, <1>3, <1>4, <1>5 DEF Prepare

\* The calls: what is sent had not been, and what is read is what it is.
LEMMA InvariantCalls ==
    ASSUME BuildTypeOK, BuildInvariant, Calls
    PROVE  BuildInvariant'
<1>1. ASSUME NEW b \in Builds, Calling(b, "dispatch")
      PROVE  /\ Unsent(b) /\ build[b].state \in {"dispatching", "cancelling"}
             /\ \A d \in {b} : build[d].state \notin {"none", "queued"}
  BY <1>1 DEF Calling, BuildInvariant, UnsentIntents, OpenInFlight
<1>2. ASSUME NEW b \in Builds, DispatchAnswered(b) PROVE BuildInvariant'
  <2>1. PICK r \in NextId, g \in BOOLEAN :
          /\ runs' = Created(b, TRUE, r, g)
          /\ co' = [co EXCEPT !.phase = "receipt", !.run = r]
    BY <1>2 DEF DispatchAnswered
  <2>2. /\ late' = late /\ Calling(b, "dispatch")
        /\ build' = build /\ claim' = claim
    BY <1>2 DEF DispatchAnswered, Unread
  <2>3. runs' \in {runs} \cup Accepted(b, TRUE)
    <3>1. Created(b, TRUE, r, g) \in Accepted(b, TRUE)
      BY AcceptedIn
    <3> QED BY <2>1, <3>1
  <2>4. DispatchOnce' /\ Kept({b})
    BY <1>1, <2>2, <2>3, Sent DEF BuildInvariant, Unsent
  <2>5. co'.phase = "receipt" /\ co'.build = b
    BY <2>1, <2>2 DEF Calling, BuildTypeOK, Advance
  <2> QED BY <1>1, <2>2, <2>4, <2>5, SameStore
<1>3. ASSUME Throw("doubt") \/ Throw("rejected") \/ Throw("invalid")
      PROVE  co'.phase = "failed"
  BY <1>3, ThrowTyped
<1>4. ASSUME NEW b \in Builds, DispatchRejected(b) PROVE BuildInvariant'
  BY <1>3, <1>4, GoesOn DEF DispatchRejected, Unread
<1>5. ASSUME NEW b \in Builds, DispatchFails(b) PROVE BuildInvariant'
  <2>1. /\ Abandon(b) /\ Calling(b, "dispatch") /\ co'.phase = "failed"
        /\ build' = build /\ claim' = claim
    BY <1>3, <1>5 DEF DispatchFails, Unread
  <2>2. DispatchOnce' /\ Kept({b})
    BY <1>1, <2>1, GivenUp DEF BuildInvariant
  <2> QED BY <1>1, <2>1, <2>2, SameStore
<1>6. ASSUME NEW b \in Builds, NEW S \in SUBSET RunIds, ObserveAnswered(b, S)
      PROVE  BuildInvariant'
  <2>1. CASE Throw("invalid")
    BY <1>3, <1>6, <2>1, GoesOn DEF ObserveAnswered, Unread
  <2>2. CASE \E r \in S :
               /\ Reading(b, r) # "invalid"
               /\ co' = [co EXCEPT
                    !.phase = IF co.halting /\ Reading(b, r) = "running"
                              THEN "cancel" ELSE "observed",
                    !.run = r, !.seen = Reading(b, r)]
    <3>1. PICK r \in S :
            /\ Reading(b, r) # "invalid"
            /\ co'.phase \in {"cancel", "observed"}
            /\ co'.phase = "cancel" => Reading(b, r) = "running"
            /\ co'.build = b /\ co'.run = r /\ co'.seen = Reading(b, r)
      BY <1>6, <2>2 DEF ObserveAnswered, Calling, BuildTypeOK, Advance
    <3>2. co'.seen # "none" /\ r \in RunIds
      BY <3>1, Readings
    <3>3. Reading(b, r) = "succeeded" => Verified(b, r)
      BY <3>2 DEF Reading, Verified, Titled
    <3>4. DispatchOnce' /\ Kept({}) /\ UNCHANGED <<build, claim>>
      BY <1>6, Still DEF ObserveAnswered, Unread, BuildInvariant
    <3> QED BY <3>1, <3>2, <3>3, <3>4, SameStore
  <2> QED BY <1>6, <2>1, <2>2 DEF ObserveAnswered, Answer
<1>7. ASSUME NEW b \in Builds, ObserveFails(b) PROVE BuildInvariant'
  BY <1>3, <1>7, GoesOn DEF ObserveFails, Unread
<1>8. co.run \in {0} \cup RunIds
  BY DEF BuildTypeOK, Advance
<1>9. ASSUME NEW b \in Builds, CancelAnswered(b) PROVE BuildInvariant'
  <2>1. /\ runs' = Halted(co.run) /\ UNCHANGED <<build, late, claim>>
        /\ co.phase = "cancel"
        /\ co'.phase = "observed" /\ co'.seen = co.seen
    BY <1>9 DEF CancelAnswered, Calling, Unread, BuildTypeOK, Advance
  <2>2. DispatchOnce' /\ Kept({})
    BY <1>8, <2>1, HaltedRuns DEF BuildInvariant
  <2>3. co.seen = "running"
    BY <2>1 DEF BuildInvariant, ConfirmedReading
  <2> QED BY <2>1, <2>2, <2>3, SameStore
<1>10. ASSUME NEW b \in Builds, CancelFails(b) PROVE BuildInvariant'
  <2>1. /\ runs' \in {runs, Halted(co.run)} /\ UNCHANGED <<build, late, claim>>
        /\ co'.phase = "failed"
    BY <1>3, <1>10 DEF CancelFails, Unread
  <2>2. DispatchOnce' /\ Kept({})
    BY <1>8, <2>1, HaltedRuns, Still DEF BuildInvariant
  <2> QED BY <2>1, <2>2, SameStore
<1> QED BY <1>2, <1>4, <1>5, <1>6, <1>7, <1>9, <1>10 DEF Calls

\* A closing transaction writes one build, which is not back before its
\* dispatch and which claims only keep while it is open.
LEMMA Closing ==
    ASSUME BuildTypeOK, BuildInvariant, UNCHANGED <<runs, late>>,
           co'.phase \in {"rest", "scan"},
           NEW b \in Builds, NEW s, build' = [build EXCEPT ![b] = s],
           Bump(b) \/ (Unread /\ s.state = build[b].state),
           s.state \notin {"none", "queued"} \/ s.state = build[b].state,
           s.state = "succeeded" => s.result = s.run /\ s.run \in RunIds
                                    /\ Verified(b, s.run)
    PROVE  BuildInvariant'
<1>1. DispatchOnce' /\ Kept({})
  BY Still DEF BuildInvariant
<1>2. VerifiedResult'
  BY <1>1, EditedResult DEF BuildInvariant
<1>3. UnsentIntents'
  <2>1. ASSUME NEW d \in Builds, build'[d].state \in {"none", "queued"}
        PROVE  Unsent(d)
    BY <2>1 DEF BuildInvariant, UnsentIntents, BuildTypeOK
  <2> QED BY <2>1 DEF UnsentIntents, Unsent, Titled
<1>4. ASSUME NEW d \in Builds, claim'[d] # 0
      PROVE  build'[d].state \notin EndedBuilds \cup {"none"}
  <2>1. claim[d] # 0 /\ Active(d) /\ (d = b => Unread)
    BY <1>4 DEF Bump, Unread, BuildInvariant, OpenInFlight, BuildTypeOK
  <2>2. build'[d].state = build[d].state
    BY <2>1 DEF Unread, Bump, BuildTypeOK
  <2> QED BY <2>1, <2>2 DEF Active, Ended
<1>5. OpenInFlight'
  BY <1>4 DEF OpenInFlight, Active, Ended
<1>6. ConfirmedReading'
  BY DEF ConfirmedReading
<1> QED BY <1>1, <1>2, <1>3, <1>5, <1>6 DEF BuildInvariant

\* The closing transactions.
LEMMA InvariantCommits ==
    ASSUME BuildTypeOK, BuildInvariant, Commits
    PROVE  BuildInvariant'
<1>1. ASSUME Done PROVE co'.phase \in {"rest", "scan"}
  BY <1>1 DEF Done, Onward, AtRest
<1>2. UNCHANGED <<runs, late>> /\ co'.phase \in {"rest", "scan"}
  BY <1>1 DEF Commits, ReceiptCommit, ObservationCommit, CatchCommit
<1>3. ASSUME NEW b \in Builds, ReceiptCommit(b) PROVE BuildInvariant'
  <2> DEFINE s == Received(build[b])
  <2>1. build' = [build EXCEPT ![b] = s] /\ Bump(b)
    BY <1>3 DEF ReceiptCommit
  <2>2. s.state \in {"running", "cancelling"}
    BY Edits
  <2> HIDE DEF s
  <2> QED BY <1>2, <2>1, <2>2, Closing
<1>4. ASSUME NEW b \in Builds, UNCHANGED build, Unread PROVE BuildInvariant'
  BY <1>2, <1>4, GoesOn DEF Unread
<1>5. ASSUME NEW b \in Builds, ObservationCommit(b) PROVE BuildInvariant'
  <2> DEFINE s == Observed(build[b])
             changed == Visible(s) # Visible(build[b])
  <2>1. CASE Ended(b)
    BY <1>4, <1>5, <2>1 DEF ObservationCommit
  <2>2. CASE ~Ended(b)
    <3>1. /\ build' = [build EXCEPT ![b] = s]
          /\ Bump(b) \/ (~changed /\ Unread)
          /\ co.phase = "observed" /\ co.build = b
      BY <1>5, <2>2 DEF ObservationCommit, BumpIf, Calling
    <3>2. build[b] \in Build
      BY DEF BuildTypeOK
    <3>3. /\ s.run = co.run
          /\ s.state = IF co.seen = "running" /\ build[b].state = "cancelling"
                       THEN build[b].state ELSE co.seen
          /\ s.result = IF co.seen = "succeeded" THEN co.run ELSE build[b].result
      BY <3>2 DEF Observed, Build
    <3>4. co.seen \in {"running", "succeeded", "failed", "cancelled"}
      BY <3>1 DEF BuildTypeOK, BuildInvariant, ConfirmedReading, Advance
    <3>5. s.state = "succeeded" => s.result = s.run /\ s.run \in RunIds
                                   /\ Verified(b, s.run)
      BY <3>1, <3>3, <3>4 DEF BuildInvariant, ConfirmedReading, Verified, Titled
    <3>6. ~changed => s.state = build[b].state
      <4>1. s \in Build
        BY <3>1, ObservedTyped DEF BuildInvariant
      <4> HIDE DEF s
      <4> QED BY <3>2, <4>1 DEF Visible, Build
    <3>7. s.state \notin {"none", "queued"}
      BY <3>3, <3>4
    <3> HIDE DEF s, changed
    <3> QED BY <1>2, <3>1, <3>5, <3>6, <3>7, Closing
  <2> QED BY <2>1, <2>2
<1>6. ASSUME NEW b \in Builds, CatchCommit(b) PROVE BuildInvariant'
  <2>1. build[b] \in Build
    BY DEF BuildTypeOK
  <2>2. CASE Ended(b)
    BY <1>4, <1>6, <2>2 DEF CatchCommit
  <2>3. CASE ~Ended(b) /\ co.why # "doubt"
    <3> DEFINE s == [build[b] EXCEPT !.state = "failed", !.note = "ended", !.waits = TRUE]
    <3>1. build' = [build EXCEPT ![b] = s] /\ Bump(b)
      BY <1>6, <2>3 DEF CatchCommit
    <3>2. s.state = "failed"
      BY <2>1 DEF Build
    <3> HIDE DEF s
    <3> QED BY <1>2, <3>1, <3>2, Closing
  <2>4. CASE ~Ended(b) /\ co.why = "doubt"
    <3> DEFINE s == Doubted(build[b])
    <3>1. /\ build' = [build EXCEPT ![b] = s]
          /\ IF build[b].note = "doubt" THEN Unread ELSE Bump(b)
      BY <1>6, <2>4 DEF CatchCommit
    <3>2. /\ build[b].note = "doubt" => s.state = build[b].state
          /\ s.state \in {build[b].state, "cancelling", "unknown"}
      BY <2>1 DEF Doubted, Build
    <3> HIDE DEF s
    <3> QED BY <1>2, <2>4, <3>1, <3>2, Closing DEF Ended
  <2> QED BY <2>2, <2>3, <2>4
<1> QED BY <1>3, <1>5, <1>6 DEF Commits

\* A failing transaction writes nothing; a restart forgets what was held.
LEMMA InvariantFailures ==
    ASSUME BuildTypeOK, BuildInvariant, StoreFails \/ Restart
    PROVE  BuildInvariant'
<1>1. CASE StoreFails
  <2>1. co'.phase \in {"rest", "scan", "failed"}
    BY <1>1, ThrowTyped DEF StoreFails, Onward, AtRest, Done
  <2> QED BY <1>1, <2>1, GoesOn DEF StoreFails, Unread
<1>2. CASE Restart
  <2>1. /\ co'.phase = "rest" /\ UNCHANGED build
        /\ \A d \in Builds : claim'[d] = 0
    BY <1>2 DEF Restart, AtRest
  <2>2. CASE co.phase = "dispatch"
    <3>1. PICK b \in Builds : b = co.build
      BY <2>2 DEF BuildTypeOK
    <3>2. /\ Unsent(b) /\ Abandon(b)
          /\ \A d \in {b} : build[d].state \notin {"none", "queued"}
      BY <1>2, <2>2, <3>1 DEF Restart, BuildInvariant, UnsentIntents, OpenInFlight
    <3>3. DispatchOnce' /\ Kept({b})
      BY <3>2, GivenUp DEF BuildInvariant
    <3> QED BY <2>1, <3>2, <3>3, SameStore
  <2>3. CASE co.phase # "dispatch"
    <3>1. DispatchOnce' /\ Kept({})
      BY <1>2, <2>3, Still DEF Restart, BuildInvariant
    <3> QED BY <2>1, <3>1, SameStore
  <2> QED BY <2>2, <2>3
<1> QED BY <1>1, <1>2

-----------------------------------------------------------------------------
(* The theorems *)

\* The invariant holds of an empty build database.
LEMMA InvariantInit == Init => BuildInvariant
BY DEF Init, BuildInvariant, DispatchOnce, VerifiedResult, UnsentIntents, Unsent,
       OpenInFlight, ConfirmedReading, AtRest, Titled

\* The induction step: types and invariant are kept by every step.
LEMMA InvariantNext ==
    ASSUME BuildTypeOK, BuildInvariant, [Next]_vars
    PROVE  BuildTypeOK' /\ BuildInvariant'
<1>1. BuildTypeOK'
  BY TypeNext DEF BuildInvariant
<1>2. CASE UNCHANGED vars
  <2>1. UNCHANGED <<build, runs, late, co, claim>>
    BY <1>2 DEF vars
  <2>2. DispatchOnce' /\ Kept({})
    BY <2>1, Still DEF BuildInvariant
  <2> QED BY <1>1, <2>1, <2>2, Idle
<1> QED BY <1>1, <1>2, InvariantCommands, InvariantGitHub, InvariantPrepare,
           InvariantCalls, InvariantCommits, InvariantFailures DEF Next, Undisturbed

\* BuildInvariant is inductive with the types: packages/build-control/service.ts
\* keeps it through every transaction, answer, crash and lost call.
THEOREM BuildsConsistent == Spec => [](BuildTypeOK /\ BuildInvariant)
<1>1. Init => BuildTypeOK /\ BuildInvariant
  BY TypeInit, InvariantInit
<1>2. BuildTypeOK /\ BuildInvariant /\ [Next]_vars => (BuildTypeOK /\ BuildInvariant)'
  BY InvariantNext
<1> QED BY <1>1, <1>2, PTL DEF Spec

\* A build is dispatched once at most, whatever is lost, late or repeated
\* (advance writes the intent in a transaction of its own before the POST).
THEOREM NeverTwice == Spec => []DispatchOnce
<1>1. BuildInvariant => DispatchOnce
  BY DEF BuildInvariant
<1> QED BY <1>1, BuildsConsistent, PTL

\* The invariant is kept with the types it is stated about.
THEOREM BuildsTyped == Spec => []BuildTypeOK
BY BuildsConsistent, PTL

\* What is reported succeeded has been verified (validateResult in build-control/service.ts).
THEOREM OnlyVerified == Spec => []VerifiedResult
<1>1. BuildInvariant => VerifiedResult
  BY DEF BuildInvariant
<1> QED BY <1>1, BuildsConsistent, PTL

-----------------------------------------------------------------------------
(* What a step may not do *)

\* Only an open build is written, and a cancelling one stays so or ends.
Respects(d) == build'[d] # build[d] =>
                   /\ ~Ended(d)
                   /\ build[d].state = "cancelling" =>
                          build'[d].state \in EndedBuilds \cup {"cancelling"}

\* The transactions that write a build.
LEMMA Writers ==
    ASSUME Next, ~UNCHANGED build
    PROVE  \E b \in Builds : \/ Start(b) \/ Cancel(b) \/ ReconcileCommit(b)
                             \/ PrepareDispatch(b) \/ Elapse(b) \/ ReceiptCommit(b)
                             \/ ObservationCommit(b) /\ ~Ended(b)
                             \/ CatchCommit(b) /\ ~Ended(b)
BY DEF Next, Undisturbed, Commands, ReadBuild, ReconcileAsk, GitHub, ManualDispatch,
       LateDispatch, RunEnds, TickBegin, Calls, DispatchAnswered,
       DispatchRejected, DispatchFails, ObserveAnswered, ObserveFails,
       CancelAnswered, CancelFails, Commits, ObservationCommit, CatchCommit,
       Prepare, PrepareNothing, PrepareObserve, StoreFails, Restart

\* One write that is respectful.
LEMMA Writes ==
    ASSUME BuildTypeOK, NEW b \in Builds, NEW s, build' = [build EXCEPT ![b] = s],
           ~Ended(b),
           build[b].state = "cancelling" => s.state \in EndedBuilds \cup {"cancelling"}
    PROVE  \A d \in Builds : Respects(d)
BY DEF Respects, BuildTypeOK

\* Every step is, because what is in flight is open.
LEMMA EveryWrite ==
    ASSUME BuildTypeOK, BuildInvariant, [Next]_vars
    PROVE  \A d \in Builds : Respects(d)
<1>1. CASE UNCHANGED build
  BY <1>1 DEF Respects
<1>2. ASSUME NEW b \in Builds, Start(b) PROVE \A d \in Builds : Respects(d)
  <2> DEFINE s == [build[b] EXCEPT !.state = "queued"]
  <2>1. build' = [build EXCEPT ![b] = s] /\ build[b].state = "none"
    BY <1>2 DEF Start, BuildTypeOK
  <2> HIDE DEF s
  <2> QED BY <2>1, Writes DEF Ended
<1>3. ASSUME NEW b \in Builds, Cancel(b) PROVE \A d \in Builds : Respects(d)
  <2> DEFINE s == Cancelled(build[b])
  <2>1. build' = [build EXCEPT ![b] = s] /\ ~Ended(b)
        /\ s.state \in {"cancelled", "cancelling"}
    BY <1>3, Edits DEF Cancel, Cancellable, Active
  <2> HIDE DEF s
  <2> QED BY <2>1, Writes
<1>4. ASSUME NEW b \in Builds, ReconcileCommit(b) PROVE \A d \in Builds : Respects(d)
  <2> DEFINE s == [build[b] EXCEPT !.run = claim[b], !.waits = FALSE]
  <2>1. build' = [build EXCEPT ![b] = s] /\ claim[b] # 0
    BY <1>4 DEF ReconcileCommit, BuildTypeOK
  <2>2. s.state = build[b].state
    BY Edits
  <2>3. ~Ended(b)
    BY <2>1 DEF BuildInvariant, OpenInFlight, Active
  <2> HIDE DEF s
  <2> QED BY <2>1, <2>2, <2>3, Writes
<1>5. ASSUME NEW b \in Builds, PrepareDispatch(b) PROVE \A d \in Builds : Respects(d)
  <2> DEFINE s == [build[b] EXCEPT !.state = "dispatching"]
  <2>1. build' = [build EXCEPT ![b] = s] /\ build[b].state = "queued"
    BY <1>5 DEF PrepareDispatch, DispatchDue, BuildTypeOK
  <2> HIDE DEF s
  <2> QED BY <2>1, Writes DEF Ended
<1>6. ASSUME NEW b \in Builds, Elapse(b) PROVE \A d \in Builds : Respects(d)
  <2> DEFINE s == [build[b] EXCEPT !.waits = FALSE]
  <2>1. build' = [build EXCEPT ![b] = s] /\ ~Ended(b)
    BY <1>6 DEF Elapse, Active
  <2>2. s.state = build[b].state
    BY Edits
  <2> HIDE DEF s
  <2> QED BY <2>1, <2>2, Writes
<1>7. ASSUME NEW b \in Builds, ReceiptCommit(b) PROVE \A d \in Builds : Respects(d)
  <2> DEFINE s == Received(build[b])
  <2>1. build' = [build EXCEPT ![b] = s] /\ co.phase = "receipt" /\ co.build = b
    BY <1>7 DEF ReceiptCommit, Calling
  <2>2. build[b].state = "cancelling" => s.state = "cancelling"
    BY DEF Received, BuildTypeOK, Build
  <2>3. ~Ended(b)
    BY <2>1 DEF BuildInvariant, OpenInFlight, Ended
  <2> HIDE DEF s
  <2> QED BY <2>1, <2>2, <2>3, Writes
<1>8. ASSUME NEW b \in Builds, ObservationCommit(b), ~Ended(b)
      PROVE  \A d \in Builds : Respects(d)
  <2> DEFINE s == Observed(build[b])
  <2>1. build' = [build EXCEPT ![b] = s] /\ co.phase = "observed"
    BY <1>8 DEF ObservationCommit, Calling
  <2>2. s.state = IF co.seen = "running" /\ build[b].state = "cancelling"
                  THEN build[b].state ELSE co.seen
    BY DEF Observed, BuildTypeOK, Build
  <2>3. co.seen \in {"running", "succeeded", "failed", "cancelled"}
    BY <2>1 DEF BuildTypeOK, BuildInvariant, ConfirmedReading, Advance
  <2> HIDE DEF s
  <2> QED BY <1>8, <2>1, <2>2, <2>3, Writes
<1>9. ASSUME NEW b \in Builds, CatchCommit(b), ~Ended(b)
      PROVE  \A d \in Builds : Respects(d)
  <2> DEFINE s == [build[b] EXCEPT !.state = "failed", !.note = "ended", !.waits = TRUE]
             t == Doubted(build[b])
  <2>1. build' = [build EXCEPT ![b] = s] \/ build' = [build EXCEPT ![b] = t]
    BY <1>9 DEF CatchCommit
  <2>2. /\ s.state = "failed"
        /\ build[b].state = "cancelling" => t.state = "cancelling"
    BY DEF Doubted, BuildTypeOK, Build
  <2> HIDE DEF s, t
  <2> QED BY <1>9, <2>1, <2>2, Writes
<1>10. CASE Next /\ ~UNCHANGED build
  BY <1>2, <1>3, <1>4, <1>5, <1>6, <1>7, <1>8, <1>9, <1>10, Writers
<1> QED BY <1>1, <1>10 DEF vars

\* A cancellation is never lost to a receipt, an observation or a failure that
\* is committed after it (builds.cancel in service.ts).
THEOREM CancelIsKept == Spec => CancelSticks
<1>1. BuildTypeOK /\ BuildInvariant /\ [Next]_vars
        => [\A b \in Builds : build[b].state = "cancelling" =>
               build'[b].state \in EndedBuilds \cup {"cancelling"}]_vars
  BY EveryWrite DEF Respects
<1> QED BY <1>1, BuildsConsistent, PTL DEF Spec, CancelSticks

\* What has ended is not written again by any late commit.
THEOREM EndIsKept == Spec => EndSticks
<1>1. BuildTypeOK /\ BuildInvariant /\ [Next]_vars
        => [\A b \in Builds : Ended(b) => Visible(build'[b]) = Visible(build[b])]_vars
  BY EveryWrite DEF Respects, Visible
<1> QED BY <1>1, BuildsConsistent, PTL DEF Spec, EndSticks

-----------------------------------------------------------------------------
(* Revisions *)

\* What a client reads of a build, unless its revision has become a stale one.
Announced(d) == seen'[d] => Visible(build'[d]) = Visible(build[d])

\* A write that is announced, or leaves what a client reads.
LEMMA Announcing ==
    ASSUME BuildTypeOK, NEW b \in Builds, NEW s, build' = [build EXCEPT ![b] = s],
           Bump(b) \/ Visible(s) = Visible(build[b])
    PROVE  \A d \in Builds : Announced(d)
BY DEF Announced, Bump, BuildTypeOK

\* Every write is one or the other.
LEMMA EveryAnnouncement ==
    ASSUME BuildTypeOK, [Next]_vars
    PROVE  \A d \in Builds : Announced(d)
<1>0. \A b \in Builds : build[b] \in Build
  BY DEF BuildTypeOK
<1>1. CASE UNCHANGED build
  BY <1>1 DEF Announced
<1>2. ASSUME NEW b \in Builds,
             \/ Start(b) \/ Cancel(b) \/ ReconcileCommit(b)
             \/ PrepareDispatch(b) \/ ReceiptCommit(b)
      PROVE  \A d \in Builds : Announced(d)
  <2>1. Bump(b)
    BY <1>2 DEF Start, Cancel, ReconcileCommit, PrepareDispatch, ReceiptCommit
  <2>2. \A d \in Builds \ {b} : build'[d] = build[d]
    BY <1>2 DEF Start, Cancel, ReconcileCommit, PrepareDispatch, ReceiptCommit,
                BuildTypeOK
  <2> QED BY <2>1, <2>2 DEF Announced, Bump, BuildTypeOK
<1>3. ASSUME NEW b \in Builds, Elapse(b) PROVE \A d \in Builds : Announced(d)
  <2> DEFINE s == [build[b] EXCEPT !.waits = FALSE]
  <2>1. build' = [build EXCEPT ![b] = s]
    BY <1>3 DEF Elapse
  <2>2. Visible(s) = Visible(build[b])
    BY <1>0 DEF Visible, Build
  <2> HIDE DEF s
  <2> QED BY <2>1, <2>2, Announcing
<1>4. ASSUME NEW b \in Builds, ObservationCommit(b), ~Ended(b)
      PROVE  \A d \in Builds : Announced(d)
  <2> DEFINE s == Observed(build[b])
  <2>1. /\ build' = [build EXCEPT ![b] = s]
        /\ Bump(b) \/ Visible(s) = Visible(build[b])
    BY <1>4 DEF ObservationCommit, BumpIf
  <2> HIDE DEF s
  <2> QED BY <2>1, Announcing
<1>5. ASSUME NEW b \in Builds, CatchCommit(b), ~Ended(b)
      PROVE  \A d \in Builds : Announced(d)
  <2>1. CASE co.why # "doubt"
    <3> DEFINE s == [build[b] EXCEPT !.state = "failed", !.note = "ended",
                                     !.waits = TRUE]
    <3>1. build' = [build EXCEPT ![b] = s] /\ Bump(b)
      BY <1>5, <2>1 DEF CatchCommit
    <3> HIDE DEF s
    <3> QED BY <3>1, Announcing
  <2>2. CASE co.why = "doubt"
    <3> DEFINE s == Doubted(build[b])
    <3>1. /\ build' = [build EXCEPT ![b] = s]
          /\ Bump(b) \/ build[b].note = "doubt"
      BY <1>5, <2>2 DEF CatchCommit
    <3>2. build[b].note = "doubt" => Visible(s) = Visible(build[b])
      BY <1>0 DEF Doubted, Visible, Build
    <3> HIDE DEF s
    <3> QED BY <3>1, <3>2, Announcing
  <2> QED BY <2>1, <2>2
<1>6. CASE Next /\ ~UNCHANGED build
  BY <1>2, <1>3, <1>4, <1>5, <1>6, Writers
<1> QED BY <1>1, <1>6 DEF vars

\* A revision the client may still use is that of the build it read: no write a
\* client would notice goes without a new one.
THEOREM RevisionsFence == Spec => RevisionFencesBuilds
<1>1. BuildTypeOK /\ [Next]_vars
        => [\A b \in Builds : seen[b] /\ seen'[b] =>
               Visible(build'[b]) = Visible(build[b])]_vars
  BY EveryAnnouncement DEF Announced
<1> QED BY <1>1, BuildsTyped, PTL DEF Spec, RevisionFencesBuilds

-----------------------------------------------------------------------------
(* Confirmed identities *)

\* A reconciliation that is still to be committed names no run but the one that
\* is confirmed, if one is.
ClaimsAgree == \A b \in Builds : claim[b] # 0 => build[b].run \in {0, claim[b]}

\* Build b becomes s: its claim is voided where its run is not the one it was,
\* and a confirmed run only gives way to a receipt or an observation.
Becomes(b, s) ==
    /\ build' = [build EXCEPT ![b] = s]
    /\ Bump(b) \/ Unread
    /\ \/ s.run = build[b].run
       \/ /\ Bump(b)
          /\ build[b].run = 0 \/ (co.phase \in {"receipt", "observed"} /\ co.build = b)

\* A confirmed run is replaced by a receipt or an observation only.
Held(b) == build[b].run # 0 /\ build'[b].run # build[b].run
               => co.phase \in {"receipt", "observed"} /\ co.build = b

\* One write of a build, with what it does to the claim.
LEMMA ClaimWrite ==
    ASSUME BuildTypeOK, ClaimsAgree, NEW b \in Builds, NEW s, Becomes(b, s)
    PROVE  ClaimsAgree' /\ \A d \in Builds : Held(d)
<1>1. \A d \in Builds : d # b => build'[d] = build[d]
  BY DEF BuildTypeOK, Becomes
<1>2. build'[b] = s
  BY DEF BuildTypeOK, Becomes
<1>3. \A d \in Builds : claim'[d] \in {0, claim[d]}
  BY DEF BuildTypeOK, Bump, Unread, Becomes
<1>4. Bump(b) => claim'[b] = 0
  BY DEF BuildTypeOK, Bump
<1>5. ClaimsAgree'
  <2> SUFFICES ASSUME NEW d \in Builds, claim'[d] # 0
               PROVE  build'[d].run \in {0, claim'[d]}
    BY DEF ClaimsAgree
  <2>1. claim'[d] = claim[d] /\ build[d].run \in {0, claim[d]}
    BY <1>3 DEF ClaimsAgree
  <2>2. build'[d].run = build[d].run
    BY <1>1, <1>2, <1>4, <2>1 DEF Becomes
  <2> QED BY <2>1, <2>2
<1> QED BY <1>1, <1>2, <1>5 DEF Held, Becomes

\* Every step keeps claims in agreement, and confirmed runs as they are.
LEMMA EveryClaim ==
    ASSUME BuildTypeOK, BuildInvariant, ClaimsAgree, [Next]_vars
    PROVE  ClaimsAgree' /\ \A d \in Builds : Held(d)
<1>0. \A b \in Builds : build[b] \in Build
  BY DEF BuildTypeOK
<1>1. CASE UNCHANGED build
  <2>1. \A d \in Builds : Held(d)
    BY <1>1 DEF Held
  <2>2. ASSUME NEW b \in Builds, NEW r \in RunIds, ReconcileAsk(b, r) PROVE ClaimsAgree'
    BY <1>1, <2>2 DEF ReconcileAsk, ClaimsAgree, BuildTypeOK
  <2>3. ASSUME \A d \in Builds : claim'[d] \in {0, claim[d]} PROVE ClaimsAgree'
    BY <1>1, <2>3 DEF ClaimsAgree
  <2>4. CASE \E b \in Builds : Bump(b)
    <3>1. \A d \in Builds : claim'[d] \in {0, claim[d]}
      BY <2>4 DEF BuildTypeOK, Bump
    <3> QED BY <2>1, <2>3, <3>1
  <2>5. CASE UNCHANGED claim \/ Restart
    <3>1. \A d \in Builds : claim'[d] \in {0, claim[d]}
      BY <2>5 DEF Restart
    <3> QED BY <2>1, <2>3, <3>1
  <2>6. \/ \E b \in Builds, r \in RunIds : ReconcileAsk(b, r)
        \/ \E b \in Builds : Bump(b)
        \/ UNCHANGED claim \/ Restart
    BY DEF vars, Next, Undisturbed, Commands, Start, ReadBuild, Cancel, ReconcileCommit,
       GitHub, ManualDispatch, LateDispatch, RunEnds, TickBegin, Calls,
       DispatchAnswered, DispatchRejected, DispatchFails, ObserveAnswered,
       ObserveFails, CancelAnswered, CancelFails, Commits, ReceiptCommit,
       ObservationCommit, BumpIf, CatchCommit, Prepare, PrepareNothing,
       PrepareDispatch, PrepareObserve, Elapse, StoreFails, Unread
  <2> QED BY <2>1, <2>2, <2>4, <2>5, <2>6
<1>2. ASSUME NEW b \in Builds, Start(b) \/ PrepareDispatch(b) \/ Elapse(b)
      PROVE  ClaimsAgree' /\ \A d \in Builds : Held(d)
  <2>1. PICK s : /\ build' = [build EXCEPT ![b] = s] /\ s.run = build[b].run
                 /\ Bump(b) \/ Unread
    BY <1>0, <1>2 DEF Start, PrepareDispatch, Elapse, Build, BuildTypeOK
  <2>2. Becomes(b, s)
    BY <2>1 DEF Becomes
  <2> QED BY <2>2, ClaimWrite
<1>3. ASSUME NEW b \in Builds, Cancel(b)
      PROVE  ClaimsAgree' /\ \A d \in Builds : Held(d)
  <2> DEFINE s == Cancelled(build[b])
  <2>1. build' = [build EXCEPT ![b] = s] /\ Bump(b)
    BY <1>3 DEF Cancel
  <2>2. s.run = build[b].run
    BY <1>0 DEF Cancelled, Build
  <2> HIDE DEF s
  <2>3. Becomes(b, s)
    BY <2>1, <2>2 DEF Becomes
  <2> QED BY <2>3, ClaimWrite
<1>4. ASSUME NEW b \in Builds, ReconcileCommit(b)
      PROVE  ClaimsAgree' /\ \A d \in Builds : Held(d)
  <2> DEFINE s == [build[b] EXCEPT !.run = claim[b], !.waits = FALSE]
  <2>1. build' = [build EXCEPT ![b] = s] /\ Bump(b) /\ claim[b] # 0
    BY <1>4 DEF ReconcileCommit, BuildTypeOK
  <2>2. s.run = claim[b]
    BY <1>0 DEF Build
  <2>3. build[b].run \in {0, claim[b]}
    BY <2>1 DEF ClaimsAgree
  <2> HIDE DEF s
  <2>4. Becomes(b, s)
    BY <2>1, <2>2, <2>3 DEF Becomes
  <2> QED BY <2>4, ClaimWrite
<1>5. ASSUME NEW b \in Builds, ReceiptCommit(b)
      PROVE  ClaimsAgree' /\ \A d \in Builds : Held(d)
  <2> DEFINE s == Received(build[b])
  <2>1. /\ build' = [build EXCEPT ![b] = s] /\ Bump(b)
        /\ co.phase = "receipt" /\ co.build = b
    BY <1>5 DEF ReceiptCommit, Calling
  <2> HIDE DEF s
  <2>2. Becomes(b, s)
    BY <2>1 DEF Becomes
  <2> QED BY <2>2, ClaimWrite
<1>6. ASSUME NEW b \in Builds, ObservationCommit(b), ~Ended(b)
      PROVE  ClaimsAgree' /\ \A d \in Builds : Held(d)
  <2> DEFINE s == Observed(build[b])
  <2>1. /\ build' = [build EXCEPT ![b] = s]
        /\ Bump(b) \/ Unread
        /\ Bump(b) \/ Visible(s) = Visible(build[b])
        /\ co.phase = "observed" /\ co.build = b
    BY <1>6 DEF ObservationCommit, BumpIf, Calling
  <2>2. Visible(s) = Visible(build[b]) => s.run = build[b].run
    <3>1. build[b].run = Visible(build[b]).run
      BY <1>0 DEF Visible, Build
    <3>2. s.run = Visible(s).run
      BY <1>0 DEF Observed, Visible, Build
    <3> QED BY <3>1, <3>2
  <2> HIDE DEF s
  <2>3. Becomes(b, s)
    BY <2>1, <2>2 DEF Becomes
  <2> QED BY <2>3, ClaimWrite
<1>7. ASSUME NEW b \in Builds, CatchCommit(b), ~Ended(b)
      PROVE  ClaimsAgree' /\ \A d \in Builds : Held(d)
  <2>1. CASE co.why # "doubt"
    <3> DEFINE s == [build[b] EXCEPT !.state = "failed", !.note = "ended",
                                     !.waits = TRUE]
    <3>1. build' = [build EXCEPT ![b] = s] /\ Bump(b)
      BY <1>7, <2>1 DEF CatchCommit
    <3>2. s.run = build[b].run
      BY <1>0 DEF Build
    <3> HIDE DEF s
    <3>3. Becomes(b, s)
      BY <3>1, <3>2 DEF Becomes
    <3> QED BY <3>3, ClaimWrite
  <2>2. CASE co.why = "doubt"
    <3> DEFINE s == Doubted(build[b])
    <3>1. build' = [build EXCEPT ![b] = s] /\ (Bump(b) \/ Unread)
      BY <1>7, <2>2 DEF CatchCommit
    <3>2. s.run = build[b].run
      BY <1>0 DEF Doubted, Build
    <3> HIDE DEF s
    <3>3. Becomes(b, s)
      BY <3>1, <3>2 DEF Becomes
    <3> QED BY <3>3, ClaimWrite
  <2> QED BY <2>1, <2>2
<1>8. CASE Next /\ ~UNCHANGED build
  BY <1>2, <1>3, <1>4, <1>5, <1>6, <1>7, <1>8, Writers
<1> QED BY <1>1, <1>8 DEF vars

\* The GitHub run a build is known by is exchanged by nothing but the receipt or the
\* find of that build's own dispatch, which was under way when a reconciliation
\* confirmed another: never by a reconciliation (BUILD_IDENTITY_CONFLICT in execute)
\* and never by the poll of another build.
THEOREM IdentityIsHeld == Spec => IdentityHeld
<1>1. Init => ClaimsAgree
  BY DEF Init, ClaimsAgree
<1>2. BuildTypeOK /\ BuildInvariant /\ ClaimsAgree /\ [Next]_vars => ClaimsAgree'
  BY EveryClaim
<1>3. BuildTypeOK /\ BuildInvariant /\ ClaimsAgree /\ [Next]_vars
        => [\A b \in Builds : build[b].run # 0 /\ build'[b].run # build[b].run
              => co.phase \in {"receipt", "observed"} /\ co.build = b]_vars
  BY EveryClaim DEF Held
<1> QED BY <1>1, <1>2, <1>3, BuildsConsistent, PTL DEF Spec, IdentityHeld

-----------------------------------------------------------------------------
(***************************************************************************)
(* One workflow at a time.  It is said for dispatches of Studio's own      *)
(* (MaxManual = 0); the arguments are that one build is open at a time,    *)
(* that an open build has one workflow at most (DispatchOnce), and that a  *)
(* build is only closed when its workflow is known to be over or never to  *)
(* have been sent.                                                         *)
(***************************************************************************)

\* A run of the right revision that is at work.
Working(r) == runs[r].state = "running" /\ runs[r].genuine

\* The runs GitHub has are Studio's own.
AllStudio ==
    \A r \in RunIds : /\ runs[r].build \in Builds => runs[r].studio
                      /\ runs[r].state = "none" => runs[r].build = None
                      /\ runs[r].state # "none" => runs[r].build \in Builds

\* One build at a time is open.
OneActive == \A b, d \in Builds : Active(b) /\ Active(d) => b = d

\* A run that is at work, or may come to be, is that of an open build.
WorkOpen ==
    /\ \A r \in RunIds : Working(r) => Active(runs[r].build)
    /\ \A b \in late : Active(b)

\* The runs that builds and reconciliations name are theirs.
RunsOwned ==
    \A b \in Builds : /\ build[b].run # 0 => build[b].run \in Titled(b)
                      /\ claim[b] # 0 => claim[b] \in Titled(b)

\* So is the one the coordinator has in hand.
RunInHand ==
    co.phase \notin {"rest", "scan", "failed"} /\ co.run # 0 =>
        co.run \in Titled(co.build)

\* No workflow of b is at work, nor will be.
Over(b) == b \notin late /\ \A r \in Titled(b) : ~Working(r)

\* The coordinator closes the build it advances for a reason that still holds.
ClosedRightly ==
    /\ co.phase = "failed" /\ co.why # "doubt" => Over(co.build)
    /\ co.phase \in {"cancel", "observed"} =>
           /\ co.run # 0
           /\ co.seen # "running" => Over(co.build)

\* The coordinator takes up no build that was not asked for.
BuildInHand ==
    /\ \A b \in co.todo : build[b].state # "none"
    /\ co.phase \notin {"rest", "scan"} => build[co.build].state # "none"

WorkflowInvariant ==
    AllStudio /\ OneActive /\ WorkOpen /\ RunsOwned /\ RunInHand
    /\ ClosedRightly

-----------------------------------------------------------------------------
(* GitHub's runs *)

\* A build has one workflow run, and none while its dispatch is under way.
LEMMA OneRun ==
    ASSUME DispatchOnce, AllStudio, NEW b \in Builds
    PROVE  /\ \A r, s \in Titled(b) : r = s
           /\ Titled(b) # {} => b \notin late
BY DEF DispatchOnce, AllStudio, Titled

\* What the runs' changes leave of what is known: titles, and of the builds
\* outside of D, that their workflow is over.
Grown(D) == /\ \A d \in Builds : Titled(d) \subseteq Titled(d)'
            /\ \A d \in Builds \ D : Over(d) => Over(d)'

\* The runs and the open builds.
Work == AllStudio /\ OneActive /\ WorkOpen

\* A run ends, is told to, or nothing happens.
LEMMA RunsEnd ==
    ASSUME BuildTypeOK, Work, UNCHANGED <<build, late>>,
           \A r \in RunIds : /\ runs'[r].build = runs[r].build
                             /\ runs'[r].studio = runs[r].studio
                             /\ runs'[r].genuine = runs[r].genuine
                             /\ runs'[r].state = "none" <=> runs[r].state = "none"
                             /\ runs'[r].state = "running" =>
                                    runs[r].state = "running"
    PROVE  Work' /\ Grown({})
<1>1. AllStudio' /\ OneActive'
  BY DEF Work, AllStudio, OneActive, Active, Ended
<1>2. WorkOpen'
  BY DEF Work, WorkOpen, Working, Active, Ended
<1>3. Grown({})
  BY DEF Grown, Titled, Over, Working
<1> QED BY <1>1, <1>2, <1>3 DEF Work

\* A new run takes an id of its own and is at work.
LEMMA Newcomer ==
    ASSUME BuildTypeOK, NEW b \in Builds, NEW studio \in BOOLEAN,
           runs' \in Accepted(b, studio)
    PROVE  \E r \in RunIds :
              /\ runs[r].state = "none" /\ runs'[r].state = "running"
              /\ runs'[r].build = b /\ runs'[r].studio = studio
              /\ \A s \in RunIds \ {r} : runs'[s] = runs[s]
<1>1. PICK r \in NextId, g \in BOOLEAN : runs' = Created(b, studio, r, g)
  BY DEF Accepted
<1>2. r \in RunIds /\ runs[r].state = "none"
  BY DEF NextId
<1> QED BY <1>1, <1>2 DEF Created, BuildTypeOK

\* A dispatch of an open build is carried out, given up or lost.
LEMMA RunsStart ==
    ASSUME BuildTypeOK, Work, UNCHANGED build, NEW b \in Builds, Active(b),
           runs' \in {runs} \cup Accepted(b, TRUE), late' \subseteq late \cup {b}
    PROVE  Work' /\ Grown({b})
<1>1. OneActive' /\ (\A d \in Builds : Active(d)' <=> Active(d))
  BY DEF Work, OneActive, Active, Ended
<1>2. CASE runs' = runs
  <2>1. AllStudio' /\ WorkOpen'
    BY <1>1, <1>2 DEF Work, AllStudio, WorkOpen, Working, Active, Ended
  <2>2. Grown({b})
    BY <1>2 DEF Grown, Titled, Over, Working
  <2> QED BY <1>1, <2>1, <2>2 DEF Work
<1>3. CASE runs' \in Accepted(b, TRUE)
  <2>1. PICK r \in RunIds :
           /\ runs[r].state = "none" /\ runs'[r].state = "running"
           /\ runs'[r].build = b /\ runs'[r].studio = TRUE
           /\ \A q \in RunIds \ {r} : runs'[q] = runs[q]
    BY <1>3, Newcomer
  <2>2. runs[r].build = None
    BY <2>1 DEF Work, AllStudio
  <2>3. AllStudio'
    BY <2>1, <2>2, BuildAssumption DEF Work, AllStudio
  <2>4. WorkOpen'
    <3>1. \A q \in RunIds \ {r} : Working(q)' => Working(q)
      BY <2>1 DEF Working
    <3>2. \A q \in RunIds \ {r} : Working(q)' =>
             runs'[q].build \in Builds /\ Active(runs'[q].build)
      BY <2>1, <3>1 DEF Work, AllStudio, WorkOpen, Working
    <3>3. \A d \in late' : d \in Builds /\ Active(d)
      BY DEF Work, WorkOpen, BuildTypeOK
    <3> QED BY <1>1, <2>1, <3>2, <3>3 DEF WorkOpen, Active, Ended
  <2>5. Grown({b})
    <3>1. \A d \in Builds : Titled(d) \subseteq Titled(d)'
      BY <2>1, <2>2, BuildAssumption DEF Titled
    <3>2. \A d \in Builds \ {b} : Titled(d)' = Titled(d)
      BY <2>1, <2>2, BuildAssumption DEF Titled
    <3>3. ASSUME NEW d \in Builds \ {b}, Over(d) PROVE Over(d)'
      <4>1. d \notin late'
        BY <3>3 DEF Over
      <4>2. ASSUME NEW q \in Titled(d)' PROVE ~Working(q)'
        <5>1. q \in Titled(d) /\ q # r
          BY <2>1, <3>2, <4>2 DEF Titled
        <5>2. runs'[q] = runs[q]
          BY <2>1, <5>1 DEF Titled
        <5> QED BY <3>3, <5>1, <5>2 DEF Over, Working
      <4> QED BY <4>1, <4>2 DEF Over
    <3> QED BY <3>1, <3>3 DEF Grown
  <2> QED BY <1>1, <2>3, <2>4, <2>5 DEF Work
<1> QED BY <1>2, <1>3

-----------------------------------------------------------------------------
(* The coordinator and the store *)

\* A step that leaves the builds alone.
LEMMA StoreKept ==
    ASSUME WorkflowInvariant, Work', UNCHANGED build,
           \A d \in Builds : Titled(d) \subseteq Titled(d)',
           \A d \in Builds : claim'[d] # 0 =>
               claim'[d] = claim[d] \/ claim'[d] \in Titled(d)',
           RunInHand', ClosedRightly'
    PROVE  WorkflowInvariant'
<1>1. RunsOwned'
  BY DEF WorkflowInvariant, RunsOwned
<1> QED BY <1>1 DEF WorkflowInvariant, Work

\* Nor the coordinator.
LEMMA Outside ==
    ASSUME BuildTypeOK, WorkflowInvariant, Work', UNCHANGED <<build, co>>,
           NEW D, Grown(D),
           co.phase \notin {"rest", "scan"} => co.build \notin D
               \/ ~Over(co.build),
           \A d \in Builds : claim'[d] # 0 =>
               claim'[d] = claim[d] \/ claim'[d] \in Titled(d)'
    PROVE  WorkflowInvariant'
<1>1. co.phase \notin {"rest", "scan"} => co.build \in Builds
  BY DEF BuildTypeOK
<1>2. ClosedRightly'
  BY <1>1 DEF WorkflowInvariant, ClosedRightly, Grown
<1>3. RunInHand'
  BY <1>1 DEF WorkflowInvariant, RunInHand, Grown
<1> QED BY <1>2, <1>3, StoreKept DEF Grown

\* A build is written that is open, or the only one to be so.
LEMMA Written ==
    ASSUME BuildTypeOK, WorkflowInvariant, UNCHANGED <<runs, late>>,
           NEW b \in Builds, NEW s, build' = [build EXCEPT ![b] = s],
           Active(b) \/ (Free(b) /\ s.state # "none"),
           s.state # "none",
           s.state \in EndedBuilds => Over(b),
           s.run # 0 => s.run \in Titled(b),
           \A d \in Builds : claim'[d] \in {0, claim[d]},
           \/ co' = co
           \/ co'.phase \in {"rest", "scan"}
           \/ co'.phase = "dispatch" /\ co'.build = b /\ co'.run = build[b].run
    PROVE  WorkflowInvariant'
<1>1. \A d \in Builds : Titled(d)' = Titled(d) /\ (Over(d)' <=> Over(d))
  BY DEF Titled, Over, Working
<1>2. build'[b] = s /\ \A d \in Builds \ {b} : build'[d] = build[d]
  BY DEF BuildTypeOK
<1>3. \A d \in Builds \ {b} : Active(d)' <=> Active(d)
  BY <1>2 DEF Active, Ended
<1>4. s.state \notin EndedBuilds => Active(b)'
  BY <1>2 DEF Active, Ended
<1>5. OneActive'
  BY <1>3 DEF WorkflowInvariant, OneActive, Free
<1>6. AllStudio'
  BY DEF WorkflowInvariant, AllStudio
<1>7. WorkOpen'
  <2>1. ASSUME NEW r \in RunIds, Working(r)' PROVE Active(runs[r].build)'
    <3>1. Working(r)
      BY <2>1 DEF Working
    <3>2. Active(runs[r].build) /\ runs[r].build \in Builds
      BY <3>1 DEF WorkflowInvariant, WorkOpen, AllStudio, Working
    <3>3. CASE runs[r].build = b
      <4>1. r \in Titled(b)
        BY <3>3 DEF Titled
      <4>2. Active(b)'
        BY <1>4, <3>1, <4>1 DEF Over
      <4> QED BY <3>3, <4>2 DEF Active, Ended
    <3>4. CASE runs[r].build # b
      BY <1>2, <3>2, <3>4 DEF Active, Ended
    <3> QED BY <3>3, <3>4
  <2>2. ASSUME NEW d \in late' PROVE Active(d)'
    <3>1. d \in late /\ d \in Builds /\ Active(d)
      BY <2>2 DEF WorkflowInvariant, WorkOpen, BuildTypeOK
    <3>2. CASE d = b
      BY <1>4, <3>1, <3>2 DEF Over
    <3> QED BY <1>3, <3>1, <3>2
  <2> QED BY <2>1, <2>2 DEF WorkOpen
<1>8. RunsOwned'
  <2>1. \A d \in Builds : build'[d].run # 0 => build'[d].run \in Titled(d)'
    BY <1>1, <1>2 DEF WorkflowInvariant, RunsOwned
  <2>2. \A d \in Builds : claim'[d] # 0 => claim'[d] \in Titled(d)'
    BY <1>1 DEF WorkflowInvariant, RunsOwned
  <2> QED BY <2>1, <2>2 DEF RunsOwned
<1>10. RunInHand'
  BY <1>1 DEF WorkflowInvariant, RunInHand, RunsOwned, BuildTypeOK
<1>9. ClosedRightly'
  BY <1>1 DEF WorkflowInvariant, ClosedRightly, BuildTypeOK
<1> QED BY <1>5, <1>6, <1>7, <1>8, <1>9, <1>10 DEF WorkflowInvariant

-----------------------------------------------------------------------------
(* The steps *)

\* A new revision voids the build's claim.
LEMMA ClaimVoided ==
    ASSUME BuildTypeOK, NEW b, Bump(b) \/ Unread
    PROVE  \A d \in Builds : claim'[d] \in {0, claim[d]}
BY DEF BuildTypeOK, Bump, Unread

\* A build of which nothing was sent is over as soon as it is closed.
LEMMA UnsentOver ==
    ASSUME AllStudio, NEW b \in Builds, Unsent(b)
    PROVE  Over(b)
BY DEF AllStudio, Unsent, Over, Titled

\* The fields of an edited build that the invariant is about.
LEMMA EditedRun ==
    ASSUME BuildTypeOK, NEW b \in Builds
    PROVE  /\ Cancelled(build[b]).run = build[b].run
           /\ Received(build[b]).run = co.run
           /\ Observed(build[b]).run = co.run
           /\ Observed(build[b]).state \in {co.seen, "cancelling"}
           /\ Doubted(build[b]).run = build[b].run
           /\ Doubted(build[b]).state \in {build[b].state, "cancelling", "unknown"}
BY DEF BuildTypeOK, Build, Cancelled, Received, Observed, Doubted

\* The commands.
LEMMA WorkflowCommands ==
    ASSUME BuildTypeOK, BuildInvariant, WorkflowInvariant, Commands
    PROVE  WorkflowInvariant'
<1>0. UNCHANGED <<runs, late, co>>
  BY DEF Commands, Start, ReadBuild, Cancel, ReconcileAsk, ReconcileCommit
<1>1. \A b \in Builds : build[b] \in Build
  BY DEF BuildTypeOK
<1>2. \A b \in Builds : build[b].run # 0 => build[b].run \in Titled(b)
  BY DEF WorkflowInvariant, RunsOwned
<1>3. ASSUME NEW b \in Builds, Start(b) PROVE WorkflowInvariant'
  <2> DEFINE s == [build[b] EXCEPT !.state = "queued"]
  <2>1. build' = [build EXCEPT ![b] = s] /\ Bump(b) /\ Free(b)
    BY <1>3 DEF Start
  <2>2. s.state = "queued" /\ (s.run # 0 => s.run \in Titled(b))
    BY <1>1, <1>2 DEF Build
  <2> HIDE DEF s
  <2> QED BY <1>0, <2>1, <2>2, ClaimVoided, Written
<1>4. ASSUME NEW b \in Builds, Cancel(b) PROVE WorkflowInvariant'
  <2> DEFINE s == Cancelled(build[b])
  <2>1. build' = [build EXCEPT ![b] = s] /\ Bump(b) /\ Active(b)
    BY <1>4 DEF Cancel, Cancellable
  <2>2. build[b].state = "queued" => Over(b)
    BY UnsentOver DEF BuildInvariant, UnsentIntents, WorkflowInvariant
  <2>3. /\ s.state \in {"cancelled", "cancelling"} /\ s.run = build[b].run
        /\ s.state = "cancelled" => Over(b)
    BY <2>2, Edits, EditedRun
  <2> HIDE DEF s
  <2> QED BY <1>0, <1>2, <2>1, <2>3, ClaimVoided, Written
<1>5. ASSUME NEW b \in Builds, ReconcileCommit(b) PROVE WorkflowInvariant'
  <2> DEFINE s == [build[b] EXCEPT !.run = claim[b], !.waits = FALSE]
  <2>1. build' = [build EXCEPT ![b] = s] /\ Bump(b) /\ claim[b] # 0
    BY <1>5 DEF ReconcileCommit, BuildTypeOK
  <2>2. s.state = build[b].state /\ s.run = claim[b]
    BY <1>1 DEF Build
  <2>3. Active(b) /\ claim[b] \in Titled(b)
    BY <2>1 DEF BuildInvariant, OpenInFlight, WorkflowInvariant, RunsOwned
  <2>4. s.state \notin EndedBuilds /\ s.state # "none"
    BY <2>2, <2>3 DEF Active, Ended
  <2> HIDE DEF s
  <2> QED BY <1>0, <2>1, <2>2, <2>3, <2>4, ClaimVoided, Written
<1>6. CASE UNCHANGED build
  <2>1. Work' /\ Grown({})
    BY <1>0, <1>6, RunsEnd DEF WorkflowInvariant, Work
  <2>2. \A d \in Builds : claim'[d] # 0 =>
            claim'[d] = claim[d] \/ claim'[d] \in Titled(d)'
    <3>1. CASE UNCHANGED claim
      BY <3>1
    <3>2. ASSUME NEW b \in Builds, NEW r \in RunIds, ReconcileAsk(b, r)
          PROVE  \A d \in Builds : claim'[d] # 0 =>
                     claim'[d] = claim[d] \/ claim'[d] \in Titled(d)'
      <4>1. r \in Titled(b)
        BY <3>2 DEF ReconcileAsk, Reading, Titled
      <4> QED BY <3>2, <4>1, <2>1 DEF ReconcileAsk, BuildTypeOK, Grown
    <3>3. ASSUME NEW b \in Builds, Start(b) \/ Cancel(b) \/ ReconcileCommit(b)
          PROVE  \A d \in Builds : claim'[d] # 0 => claim'[d] = claim[d]
      BY <3>3, ClaimVoided DEF Start, Cancel, ReconcileCommit
    <3> QED BY <3>1, <3>2, <3>3 DEF Commands, ReadBuild
  <2> QED BY <1>0, <1>6, <2>1, <2>2, Outside
<1>7. CASE ~UNCHANGED build
  BY <1>3, <1>4, <1>5, <1>7 DEF Commands, ReadBuild, ReconcileAsk
<1> QED BY <1>6, <1>7

\* GitHub.
LEMMA WorkflowGitHub ==
    ASSUME BuildTypeOK, WorkflowInvariant, MaxManual = 0, GitHub
    PROVE  WorkflowInvariant'
<1>1. UNCHANGED <<build, co, claim>>
  BY DEF GitHub, ManualDispatch, LateDispatch, RunEnds
<1>2. ASSUME NEW b \in Builds, ManualDispatch(b) PROVE FALSE
  <2> DEFINE S == {r \in RunIds : runs[r].state # "none" /\ ~runs[r].studio}
  <2>1. IsFiniteSet(S)
    <3>1. IsFiniteSet(RunIds)
      BY BuildAssumption, FS_Interval DEF RunIds
    <3> QED BY <3>1, FS_Subset
  <2>2. Cardinality(S) \in Nat
    BY <2>1, FS_CardinalityType
  <2>3. Cardinality(S) < 0
    BY <1>2 DEF ManualDispatch
  <2> HIDE DEF S
  <2> QED BY <2>2, <2>3
<1>3. ASSUME NEW b \in Builds, LateDispatch(b) PROVE WorkflowInvariant'
  <2>1. Active(b) /\ ~Over(b)
    BY <1>3 DEF LateDispatch, WorkflowInvariant, WorkOpen, Over
  <2>2. runs' \in {runs} \cup Accepted(b, TRUE) /\ late' \subseteq late \cup {b}
    BY <1>3 DEF LateDispatch
  <2>3. Work' /\ Grown({b})
    BY <1>1, <2>1, <2>2, RunsStart DEF WorkflowInvariant, Work
  <2> QED BY <1>1, <2>1, <2>3, Outside
<1>4. ASSUME NEW r \in RunIds, RunEnds(r) PROVE WorkflowInvariant'
  <2>1. Work' /\ Grown({})
    BY <1>1, <1>4, RunsEnd DEF RunEnds, BuildTypeOK, Workflow, WorkflowInvariant, Work
  <2> QED BY <1>1, <2>1, Outside
<1> QED BY <1>2, <1>3, <1>4 DEF GitHub

\* Preparing a build, and time.
LEMMA WorkflowPrepare ==
    ASSUME BuildTypeOK, WorkflowInvariant,
           TickBegin \/ \E b \in Builds : Prepare(b) \/ Elapse(b)
    PROVE  WorkflowInvariant'
<1>1. \A b \in Builds : /\ build[b] \in Build
                        /\ build[b].run # 0 => build[b].run \in Titled(b)
  BY DEF BuildTypeOK, WorkflowInvariant, RunsOwned
<1>2. UNCHANGED <<runs, late>>
  BY DEF TickBegin, Prepare, PrepareNothing, PrepareDispatch, PrepareObserve, Elapse
<1>3. ASSUME NEW b \in Builds, PrepareDispatch(b) PROVE WorkflowInvariant'
  <2> DEFINE s == [build[b] EXCEPT !.state = "dispatching"]
  <2>1. /\ build' = [build EXCEPT ![b] = s] /\ Bump(b) /\ Active(b)
        /\ co'.phase = "dispatch" /\ co'.build = b /\ co'.run = build[b].run
    BY <1>3 DEF PrepareDispatch, DispatchDue, Prepared, AtRest, Active, Ended
  <2>2. s.state = "dispatching" /\ s.run = build[b].run
    BY <1>1 DEF Build
  <2> HIDE DEF s
  <2> QED BY <1>1, <1>2, <2>1, <2>2, ClaimVoided, Written
<1>4. ASSUME NEW b \in Builds, Elapse(b) PROVE WorkflowInvariant'
  <2> DEFINE s == [build[b] EXCEPT !.waits = FALSE]
  <2>1. build' = [build EXCEPT ![b] = s] /\ Unread /\ Active(b) /\ co' = co
    BY <1>4 DEF Elapse
  <2>2. s.state = build[b].state /\ s.run = build[b].run
    BY <1>1 DEF Build
  <2>3. s.state \notin EndedBuilds /\ s.state # "none"
    BY <2>1, <2>2 DEF Active, Ended
  <2> HIDE DEF s
  <2> QED BY <1>1, <1>2, <2>1, <2>2, <2>3, ClaimVoided, Written
<1>5. ASSUME UNCHANGED <<build, claim>>,
             \/ co'.phase \in {"rest", "scan"}
             \/ \E b \in Builds : /\ co'.phase = "observe" /\ co'.build = b
                                  /\ co'.run = build[b].run
      PROVE  WorkflowInvariant'
  <2>1. Work' /\ Grown({})
    BY <1>2, <1>5, RunsEnd DEF WorkflowInvariant, Work
  <2>2. RunInHand'
    BY <1>1, <1>2, <1>5 DEF RunInHand, Titled
  <2>3. ClosedRightly'
    BY <1>5 DEF ClosedRightly
  <2> QED BY <1>5, <2>1, <2>2, <2>3, StoreKept DEF Grown
<1>6. ASSUME NEW b \in Builds, PrepareObserve(b) PROVE WorkflowInvariant'
  BY <1>5, <1>6 DEF PrepareObserve, Prepared, AtRest, Unread
<1>7. ASSUME TickBegin \/ \E b \in Builds : PrepareNothing(b)
      PROVE  WorkflowInvariant'
  BY <1>5, <1>7 DEF TickBegin, PrepareNothing, Onward, AtRest, Unread
<1> QED BY <1>3, <1>4, <1>6, <1>7 DEF Prepare

\* What a reading of the build's own run says of its workflow.
LEMMA ReadingOver ==
    ASSUME DispatchOnce, AllStudio, NEW b \in Builds, NEW r \in Titled(b),
           Reading(b, r) # "running"
    PROVE  Over(b)
<1>1. ~Working(r)
  BY DEF Reading, Working, Titled
<1> QED BY <1>1, OneRun DEF Over

\* The coordinator has thrown: nothing is in hand any more.
LEMMA Thrown ==
    ASSUME BuildTypeOK, WorkflowInvariant, Work', UNCHANGED <<build, claim>>,
           NEW D, Grown(D), NEW why, Throw(why),
           why # "doubt" => Over(co.build)'
    PROVE  WorkflowInvariant'
<1>1. co'.phase = "failed" /\ co'.why = why /\ co'.build = co.build
  BY DEF Throw, BuildTypeOK, Advance
<1>2. RunInHand' /\ ClosedRightly'
  BY <1>1 DEF RunInHand, ClosedRightly, Over, Titled, Working
<1> QED BY <1>2, StoreKept DEF Grown

\* The calls.
LEMMA WorkflowCalls ==
    ASSUME BuildTypeOK, BuildInvariant, WorkflowInvariant, Calls
    PROVE  WorkflowInvariant'
<1>0. /\ UNCHANGED <<build, claim>>
      /\ DispatchOnce /\ AllStudio /\ Work
  BY DEF Calls, DispatchAnswered, DispatchRejected, DispatchFails, ObserveAnswered,
         ObserveFails, CancelAnswered, CancelFails, Unread, BuildInvariant,
         WorkflowInvariant, Work
<1>1. UNCHANGED <<runs, late>> => Work' /\ Grown({})
  BY <1>0, RunsEnd
<1>2. \A i : runs' = Halted(i) /\ UNCHANGED late => Work' /\ Grown({})
  <2> SUFFICES ASSUME NEW i, runs' = Halted(i), UNCHANGED late
               PROVE  Work' /\ Grown({})
    OBVIOUS
  <2>1. \A r \in RunIds : /\ runs'[r].build = runs[r].build
                          /\ runs'[r].studio = runs[r].studio
                          /\ runs'[r].genuine = runs[r].genuine
                          /\ runs'[r].state = runs[r].state
    BY DEF Halted, BuildTypeOK, Workflow
  <2> QED BY <1>0, <2>1, RunsEnd
<1>3. ASSUME NEW b \in Builds, Calling(b, "dispatch")
      PROVE  Active(b) /\ Unsent(b) /\ co.build = b
  BY <1>3 DEF Calling, BuildInvariant, UnsentIntents, OpenInFlight, Active, Ended
<1>4. ASSUME NEW b \in Builds, DispatchAnswered(b) PROVE WorkflowInvariant'
  <2>1. PICK r \in NextId, g \in BOOLEAN :
           /\ runs' = Created(b, TRUE, r, g)
           /\ co' = [co EXCEPT !.phase = "receipt", !.run = r]
    BY <1>4 DEF DispatchAnswered
  <2>2. runs' \in Accepted(b, TRUE) /\ late' = late
    BY <1>4, <2>1, AcceptedIn DEF DispatchAnswered
  <2>3. Work' /\ Grown({b})
    BY <1>0, <1>3, <1>4, <2>2, RunsStart DEF DispatchAnswered
  <2>4. r \in Titled(b)'
    BY <2>1 DEF NextId, Created, Titled, BuildTypeOK
  <2>5. co'.phase = "receipt" /\ co'.run = r /\ co'.build = b
    BY <1>3, <1>4, <2>1 DEF DispatchAnswered, BuildTypeOK, Advance
  <2>6. RunInHand' /\ ClosedRightly'
    BY <2>4, <2>5 DEF RunInHand, ClosedRightly, Titled
  <2> QED BY <1>0, <2>3, <2>6, StoreKept DEF Grown
<1>5. ASSUME NEW b \in Builds, DispatchRejected(b) PROVE WorkflowInvariant'
  <2>1. Over(b) /\ co.build = b
    BY <1>0, <1>3, <1>5, UnsentOver DEF DispatchRejected
  <2>2. UNCHANGED <<runs, late>> /\ Throw("rejected")
    BY <1>5 DEF DispatchRejected
  <2>3. Over(co.build)'
    BY <2>1, <2>2 DEF Over, Titled, Working, Throw, BuildTypeOK, Advance
  <2> QED BY <1>0, <1>1, <2>2, <2>3, Thrown
<1>6. ASSUME NEW b \in Builds, DispatchFails(b) PROVE WorkflowInvariant'
  <2>1. /\ runs' \in {runs} \cup Accepted(b, TRUE)
        /\ late' \subseteq late \cup {b} /\ Throw("doubt")
    BY <1>6 DEF DispatchFails, Abandon
  <2>2. Work' /\ Grown({b})
    BY <1>0, <1>3, <1>6, <2>1, RunsStart DEF DispatchFails
  <2> QED BY <1>0, <2>1, <2>2, Thrown
<1>7. ASSUME NEW b \in Builds, NEW S \in SUBSET RunIds, ObserveAnswered(b, S)
      PROVE  WorkflowInvariant'
  <2>1. /\ UNCHANGED <<runs, late>> /\ S # {} /\ co.build = b /\ Answer(b, S)
        /\ co.phase = "observe"
    BY <1>7 DEF ObserveAnswered, Calling
  <2>2. S \subseteq Titled(b)
    BY <1>7, <2>1 DEF ObserveAnswered, Listed, WorkflowInvariant, RunInHand
  <2>3. PICK r \in Titled(b) : S = {r}
    BY <1>0, <2>1, <2>2, OneRun
  <2>4. Cardinality(S) = 1
    BY <2>3, FS_Singleton
  <2>5. Reading(b, r) # "running" => Over(b)'
    BY <1>0, <2>1, ReadingOver DEF Over, Titled, Working
  <2>6. CASE Reading(b, r) = "invalid"
    <3>1. Throw("invalid")
      BY <2>1, <2>3, <2>6 DEF Answer
    <3>2. Over(co.build)'
      BY <2>1, <2>5, <2>6, <3>1 DEF Throw, BuildTypeOK, Advance
    <3> QED BY <1>0, <1>1, <2>1, <3>1, <3>2, Thrown
  <2>7. CASE Reading(b, r) # "invalid"
    <3>1. /\ co'.phase \in {"cancel", "observed"} /\ co'.run = r
          /\ co'.seen = Reading(b, r) /\ co'.build = b
      <4> DEFINE p == IF co.halting /\ Reading(b, r) = "running"
                      THEN "cancel" ELSE "observed"
      <4>1. ~(Cardinality(S) > 1 \/ \E q \in S : Reading(b, q) = "invalid")
        BY <2>3, <2>4, <2>7
      <4>2. co' = [co EXCEPT !.phase = p, !.run = r, !.seen = Reading(b, r)]
        BY <2>1, <2>3, <4>1 DEF Answer
      <4>3. p \in {"cancel", "observed"}
        OBVIOUS
      <4> HIDE DEF p
      <4> QED BY <2>1, <4>2, <4>3 DEF BuildTypeOK, Advance
    <3>2. r # 0 /\ r \in Titled(b)'
      BY <2>1, Ids DEF Titled
    <3>3. RunInHand' /\ ClosedRightly'
      BY <2>5, <3>1, <3>2 DEF RunInHand, ClosedRightly, Over, Titled, Working
    <3> QED BY <1>0, <1>1, <2>1, <3>3, StoreKept DEF Grown
  <2> QED BY <2>6, <2>7
<1>8. ASSUME NEW b \in Builds, ObserveFails(b) PROVE WorkflowInvariant'
  BY <1>0, <1>1, <1>8, Thrown DEF ObserveFails
<1>9. ASSUME NEW b \in Builds, CancelAnswered(b) PROVE WorkflowInvariant'
  <2>1. /\ runs' = Halted(co.run) /\ UNCHANGED late /\ co.phase = "cancel"
        /\ co' = [co EXCEPT !.phase = "observed"]
    BY <1>9 DEF CancelAnswered, Calling
  <2>2. Work' /\ Grown({})
    BY <1>2, <2>1
  <2>3. /\ co'.phase = "observed" /\ co'.run = co.run
        /\ co'.build = co.build /\ co'.seen = co.seen /\ co.build \in Builds
    BY <2>1 DEF BuildTypeOK, Advance
  <2>4. co.run # 0 /\ co.run \in Titled(co.build) /\ co.seen = "running"
    BY <2>1 DEF WorkflowInvariant, RunInHand, ClosedRightly, BuildInvariant,
                ConfirmedReading
  <2>5. RunInHand' /\ ClosedRightly'
    BY <2>2, <2>3, <2>4 DEF RunInHand, ClosedRightly, Grown, Titled
  <2> QED BY <1>0, <2>2, <2>5, StoreKept DEF Grown
<1>10. ASSUME NEW b \in Builds, CancelFails(b) PROVE WorkflowInvariant'
  <2>1. runs' \in {runs, Halted(co.run)} /\ UNCHANGED late /\ Throw("doubt")
    BY <1>10 DEF CancelFails
  <2>2. Work' /\ Grown({})
    BY <1>1, <1>2, <2>1
  <2> QED BY <1>0, <2>1, <2>2, Thrown
<1> QED BY <1>4, <1>5, <1>6, <1>7, <1>8, <1>9, <1>10 DEF Calls

\* The closing transactions.
LEMMA WorkflowCommits ==
    ASSUME BuildTypeOK, BuildInvariant, WorkflowInvariant, BuildInHand, Commits
    PROVE  WorkflowInvariant'
<1>0. UNCHANGED <<runs, late>> /\ co'.phase \in {"rest", "scan"}
  BY DEF Commits, ReceiptCommit, ObservationCommit, CatchCommit, Done, Onward, AtRest
<1>1. \A b \in Builds : /\ build[b] \in Build
                        /\ build[b].run # 0 => build[b].run \in Titled(b)
  BY DEF BuildTypeOK, WorkflowInvariant, RunsOwned
<1>2. \A b \in Builds : Calling(b, "receipt") \/ Calling(b, "observed") =>
          co.build = b /\ (co.run # 0 => co.run \in Titled(b))
  BY DEF Calling, WorkflowInvariant, RunInHand
<1>3. ASSUME NEW b \in Builds, ReceiptCommit(b) PROVE WorkflowInvariant'
  <2> DEFINE s == Received(build[b])
  <2>1. /\ build' = [build EXCEPT ![b] = s] /\ Bump(b)
        /\ build[b].state \in {"dispatching", "cancelling"}
    BY <1>3 DEF ReceiptCommit, Calling, BuildInvariant, OpenInFlight
  <2>2. /\ s.state \in {"running", "cancelling"} /\ Active(b)
        /\ s.run # 0 => s.run \in Titled(b)
    BY <1>2, <1>3, <2>1, Edits, EditedRun DEF ReceiptCommit, Active, Ended
  <2> HIDE DEF s
  <2> QED BY <1>0, <2>1, <2>2, ClaimVoided, Written
<1>4. ASSUME NEW b \in Builds, ObservationCommit(b), Active(b)
      PROVE  WorkflowInvariant'
  <2> DEFINE s == Observed(build[b])
  <2>1. /\ build' = [build EXCEPT ![b] = s] /\ (Bump(b) \/ Unread)
        /\ Calling(b, "observed")
    BY <1>4 DEF ObservationCommit, BumpIf, Active
  <2>2. /\ co.seen \in {"running", "succeeded", "failed", "cancelled"}
        /\ co.seen # "running" => Over(b)
    BY <2>1 DEF Calling, BuildTypeOK, Advance, BuildInvariant, ConfirmedReading,
                WorkflowInvariant, ClosedRightly
  <2>3. /\ s.state \in {co.seen, "cancelling"}
        /\ s.run # 0 => s.run \in Titled(b)
    BY <1>2, <2>1, EditedRun
  <2> HIDE DEF s
  <2>4. s.state # "none" /\ (s.state \in EndedBuilds => Over(b))
    BY <2>2, <2>3
  <2> QED BY <1>0, <1>4, <2>1, <2>3, <2>4, ClaimVoided, Written
<1>5. ASSUME NEW b \in Builds, CatchCommit(b), Active(b) PROVE WorkflowInvariant'
  <2>0. Calling(b, "failed") /\ ~Ended(b)
    BY <1>5 DEF CatchCommit, Active
  <2>1. CASE co.why # "doubt"
    <3> DEFINE s == [build[b] EXCEPT !.state = "failed", !.note = "ended",
                                     !.waits = TRUE]
    <3>1. build' = [build EXCEPT ![b] = s] /\ Bump(b)
      BY <1>5, <2>0, <2>1 DEF CatchCommit
    <3>2. s.state = "failed" /\ s.run = build[b].run
      BY <1>1 DEF Build
    <3>3. Over(b)
      BY <2>0, <2>1 DEF Calling, WorkflowInvariant, ClosedRightly
    <3> HIDE DEF s
    <3> QED BY <1>0, <1>1, <1>5, <3>1, <3>2, <3>3, ClaimVoided, Written
  <2>2. CASE co.why = "doubt"
    <3> DEFINE s == Doubted(build[b])
    <3>1. build' = [build EXCEPT ![b] = s] /\ (Bump(b) \/ Unread)
      BY <1>5, <2>0, <2>2 DEF CatchCommit
    <3>2. /\ s.run = build[b].run
          /\ s.state \in {build[b].state, "cancelling", "unknown"}
      BY EditedRun
    <3>3. s.state # "none" /\ s.state \notin EndedBuilds
      BY <1>5, <3>2 DEF Active, Ended
    <3> HIDE DEF s
    <3> QED BY <1>0, <1>1, <1>5, <3>1, <3>2, <3>3, ClaimVoided, Written
  <2> QED BY <2>1, <2>2
<1>6. ASSUME UNCHANGED <<build, claim>> PROVE WorkflowInvariant'
  <2>1. Work' /\ Grown({})
    BY <1>0, <1>6, RunsEnd DEF WorkflowInvariant, Work
  <2>2. RunInHand' /\ ClosedRightly'
    BY <1>0 DEF RunInHand, ClosedRightly
  <2> QED BY <1>6, <2>1, <2>2, StoreKept DEF Grown
<1>7. ASSUME NEW b \in Builds, ObservationCommit(b) \/ CatchCommit(b), ~Active(b)
      PROVE  WorkflowInvariant'
  <2>1. CASE Ended(b)
    BY <1>6, <1>7, <2>1 DEF ObservationCommit, CatchCommit, Unread
  <2>2. build[b].state # "none"
    BY <1>7 DEF ObservationCommit, CatchCommit, Calling, BuildInHand
  <2> QED BY <1>7, <2>1, <2>2 DEF Active
<1> QED BY <1>3, <1>4, <1>5, <1>7 DEF Commits

\* A build once asked for stays so.
LEMMA AskedFor ==
    ASSUME BuildTypeOK, BuildInvariant, [Next]_vars,
           NEW d \in Builds, build[d].state # "none"
    PROVE  build'[d].state # "none"
<1>0. \A b \in Builds : build[b] \in Build
  BY DEF BuildTypeOK
<1>1. ASSUME NEW b \in Builds, NEW s, build' = [build EXCEPT ![b] = s],
             s.state # "none"
      PROVE  build'[d].state # "none"
  BY <1>1 DEF BuildTypeOK
<1>2. ASSUME NEW b \in Builds, b = d,
             \/ Start(b) \/ ReconcileCommit(b) \/ PrepareDispatch(b) \/ Elapse(b)
      PROVE  build'[d].state # "none"
  BY <1>0, <1>2 DEF Start, ReconcileCommit, PrepareDispatch, Elapse, BuildTypeOK, Build
<1>3. ASSUME NEW b \in Builds, b = d, Cancel(b) \/ ReceiptCommit(b)
      PROVE  build'[d].state # "none"
  <2>1. /\ Cancelled(build[b]).state # "none" /\ Received(build[b]).state # "none"
    BY Edits
  <2> QED BY <1>1, <1>3, <2>1 DEF Cancel, ReceiptCommit
<1>4. ASSUME NEW b \in Builds, b = d, ObservationCommit(b), ~Ended(b)
      PROVE  build'[d].state # "none"
  <2>1. co.seen # "none"
    BY <1>4 DEF ObservationCommit, Calling, BuildInvariant, ConfirmedReading
  <2>2. Observed(build[b]).state # "none"
    BY <2>1, EditedRun
  <2> QED BY <1>1, <1>4, <2>2 DEF ObservationCommit
<1>5. ASSUME NEW b \in Builds, b = d, CatchCommit(b), ~Ended(b)
      PROVE  build'[d].state # "none"
  <2> DEFINE s == [build[b] EXCEPT !.state = "failed", !.note = "ended", !.waits = TRUE]
             t == Doubted(build[b])
  <2>1. build' = [build EXCEPT ![b] = s] \/ build' = [build EXCEPT ![b] = t]
    BY <1>5 DEF CatchCommit
  <2>2. s.state # "none" /\ t.state # "none"
    BY <1>0, <1>5, EditedRun DEF Build
  <2> HIDE DEF s, t
  <2> QED BY <1>1, <2>1, <2>2
<1>6. ASSUME NEW b \in Builds, b # d, ~UNCHANGED build,
             \/ Start(b) \/ Cancel(b) \/ ReconcileCommit(b)
             \/ PrepareDispatch(b) \/ Elapse(b) \/ ReceiptCommit(b)
             \/ ObservationCommit(b) \/ CatchCommit(b)
      PROVE  build'[d] = build[d]
  BY <1>6 DEF Start, Cancel, ReconcileCommit, PrepareDispatch, Elapse, ReceiptCommit,
              ObservationCommit, CatchCommit, BuildTypeOK
<1>7. CASE UNCHANGED build
  BY <1>7
<1>8. CASE Next /\ ~UNCHANGED build
  BY <1>2, <1>3, <1>4, <1>5, <1>6, <1>8, Writers
<1> QED BY <1>7, <1>8 DEF vars

\* What the coordinator will have in hand has been asked for already.
TakenUp ==
    /\ \A b \in co'.todo : b \in Builds /\ build[b].state # "none"
    /\ co'.phase \notin {"rest", "scan"} =>
           co'.build \in Builds /\ build[co'.build].state # "none"

\* What is taken up was found open by a tick.
LEMMA HandNext ==
    ASSUME BuildTypeOK, BuildInvariant, BuildInHand, [Next]_vars
    PROVE  BuildInHand'
<1>0. co.todo \subseteq Builds /\ (co.phase \notin {"rest", "scan"} => co.build \in Builds)
  BY DEF BuildTypeOK, Advance
<1>1. SUFFICES TakenUp
  <2>1. \A d \in Builds : build[d].state # "none" => build'[d].state # "none"
    BY AskedFor
  <2> QED BY <2>1 DEF TakenUp, BuildInHand
<1>2. CASE co' = co
  BY <1>0, <1>2 DEF BuildInHand, TakenUp
<1>3. ASSUME NEW todo \in SUBSET co.todo, co' = Onward(todo) PROVE TakenUp
  <2>1. co'.todo = todo /\ co'.phase \in {"rest", "scan"}
    BY <1>3 DEF Onward, AtRest
  <2> QED BY <1>0, <2>1 DEF BuildInHand, TakenUp
<1>4. CASE TickBegin
  BY <1>4 DEF TickBegin, Onward, AtRest, Active, TakenUp
<1>5. ASSUME NEW b \in Builds, Visit(b), NEW p, Prepared(b, p) PROVE TakenUp
  BY <1>0, <1>5 DEF Visit, Prepared, AtRest, BuildInHand, TakenUp
<1>6. ASSUME co.phase \notin {"rest", "scan"}, co'.todo = co.todo,
             co'.build = co.build
      PROVE  TakenUp
  BY <1>0, <1>6 DEF BuildInHand, TakenUp
<1>7. ASSUME NEW why, Throw(why) PROVE co'.todo = co.todo /\ co'.build = co.build
  BY <1>7 DEF Throw, BuildTypeOK, Advance
<1>8. ASSUME NEW b \in Builds, Prepare(b) PROVE TakenUp
  BY <1>3, <1>5, <1>8 DEF Prepare, PrepareNothing, PrepareDispatch, PrepareObserve
<1>9. CASE Commits
  <2>1. Done
    BY <1>9 DEF Commits, ReceiptCommit, ObservationCommit, CatchCommit
  <2> QED BY <1>3, <2>1 DEF Done
<1>10. CASE Calls
  <2>1. /\ co.phase \notin {"rest", "scan"}
    BY <1>10 DEF Calls, DispatchAnswered, DispatchRejected, DispatchFails,
                 ObserveAnswered, ObserveFails, CancelAnswered, CancelFails, Calling
  <2>2. ASSUME NEW b, NEW S, Answer(b, S)
        PROVE  co'.todo = co.todo /\ co'.build = co.build
    BY <1>7, <2>2 DEF Answer, BuildTypeOK, Advance
  <2>3. co'.todo = co.todo /\ co'.build = co.build
    BY <1>7, <1>10, <2>2 DEF Calls, DispatchAnswered, DispatchRejected, DispatchFails,
          ObserveAnswered, ObserveFails, CancelAnswered, CancelFails, BuildTypeOK,
          Advance
  <2> QED BY <1>6, <2>1, <2>3
<1>11. CASE StoreFails
  <2>1. CASE co.phase \in {"receipt", "observed"} /\ Throw("doubt")
    <3>1. co'.todo = co.todo /\ co'.build = co.build
      BY <1>7, <2>1
    <3> QED BY <1>6, <2>1, <3>1
  <2>2. CASE \E b \in co.todo : co' = Onward(co.todo \ {b})
    BY <1>3, <2>2
  <2>3. CASE Done
    BY <1>3, <2>3 DEF Done
  <2> QED BY <1>11, <2>1, <2>2, <2>3 DEF StoreFails
<1>12. CASE Restart
  <2>1. co'.phase = "rest" /\ co'.todo = {}
    BY <1>12 DEF Restart, AtRest
  <2> QED BY <2>1 DEF TakenUp
<1>13. CASE Commands \/ GitHub \/ (\E b \in Builds : Elapse(b)) \/ UNCHANGED vars
  BY <1>2, <1>13 DEF Commands, Start, ReadBuild, Cancel, ReconcileAsk,
        ReconcileCommit, GitHub, ManualDispatch, LateDispatch, RunEnds, Elapse, vars
<1> QED BY <1>4, <1>8, <1>9, <1>10, <1>11, <1>12, <1>13 DEF Next, Undisturbed

\* Failures of the store and of the process.
LEMMA WorkflowFailures ==
    ASSUME BuildTypeOK, BuildInvariant, WorkflowInvariant, StoreFails \/ Restart
    PROVE  WorkflowInvariant'
<1>0. Work /\ UNCHANGED build
  BY DEF WorkflowInvariant, Work, StoreFails, Restart
<1>1. CASE UNCHANGED <<runs, late>>
  <2>1. Work' /\ Grown({})
    BY <1>0, <1>1, RunsEnd
  <2>2. CASE co'.phase \in {"rest", "scan"}
    <3>1. RunInHand' /\ ClosedRightly'
      BY <2>2 DEF RunInHand, ClosedRightly
    <3>2. \A d \in Builds : claim'[d] # 0 => claim'[d] = claim[d]
      BY DEF StoreFails, Restart, Unread
    <3> QED BY <1>0, <2>1, <3>1, <3>2, StoreKept DEF Grown
  <2>3. CASE Throw("doubt") /\ UNCHANGED claim
    BY <1>0, <2>1, <2>3, Thrown
  <2>4. co'.phase \in {"rest", "scan"} \/ (Throw("doubt") /\ UNCHANGED claim)
    <3>1. CASE Restart
      BY <3>1 DEF Restart, AtRest
    <3>2. \A todo : Onward(todo).phase \in {"rest", "scan"}
      BY DEF Onward, AtRest
    <3>3. CASE StoreFails
      BY <3>2, <3>3 DEF StoreFails, Unread, Done
    <3> QED BY <3>1, <3>3
  <2> QED BY <2>2, <2>3, <2>4
<1>2. CASE Restart /\ ~UNCHANGED <<runs, late>>
  <2>1. Abandon(co.build) /\ co.phase = "dispatch" /\ co' = AtRest
    BY <1>2 DEF Restart
  <2>2. co.build \in Builds /\ Active(co.build)
    BY <2>1 DEF BuildTypeOK, BuildInvariant, OpenInFlight, Active, Ended
  <2>3. /\ runs' \in {runs} \cup Accepted(co.build, TRUE)
        /\ late' \subseteq late \cup {co.build}
    BY <2>1 DEF Abandon
  <2>4. Work' /\ Grown({co.build})
    BY <1>0, <2>2, <2>3, RunsStart
  <2>5. RunInHand' /\ ClosedRightly'
    BY <2>1 DEF RunInHand, ClosedRightly, AtRest
  <2>6. \A d \in Builds : claim'[d] = 0
    BY <1>2 DEF Restart
  <2> QED BY <1>0, <2>4, <2>5, <2>6, StoreKept DEF Grown
<1>3. StoreFails => UNCHANGED <<runs, late>>
  BY DEF StoreFails
<1> QED BY <1>1, <1>2, <1>3

\* The induction step.
LEMMA WorkflowNext ==
    ASSUME BuildTypeOK, BuildInvariant, BuildInHand, WorkflowInvariant,
           MaxManual = 0, [Next]_vars
    PROVE  WorkflowInvariant' /\ BuildInHand'
<1>1. CASE UNCHANGED vars
  BY <1>1 DEF vars, WorkflowInvariant, AllStudio, OneActive, WorkOpen, RunsOwned,
     RunInHand, ClosedRightly, BuildInHand, Active, Ended, Working, Titled, Over
<1>2. CASE Next
  BY <1>2, HandNext, WorkflowCommands, WorkflowGitHub, WorkflowPrepare, WorkflowCalls,
     WorkflowCommits, WorkflowFailures DEF Next, Undisturbed
<1> QED BY <1>1, <1>2

\* Before any build is asked for there is no workflow.
LEMMA WorkflowInit == Init => WorkflowInvariant /\ BuildInHand
BY BuildAssumption
   DEF Init, WorkflowInvariant, AllStudio, OneActive, WorkOpen, RunsOwned, RunInHand,
       ClosedRightly, BuildInHand, Active, Working, Titled, AtRest

\* Two workflows at work belong to open builds, so to one, which has but one.
LEMMA OneAtWork ==
    ASSUME BuildTypeOK, BuildInvariant, WorkflowInvariant
    PROVE  OneWorkflow
<1> SUFFICES ASSUME NEW r \in RunIds, NEW s \in RunIds, Working(r), Working(s)
             PROVE  r = s
  BY DEF OneWorkflow, Working
<1>1. /\ runs[r].build \in Builds /\ runs[s].build \in Builds
      /\ Active(runs[r].build) /\ Active(runs[s].build)
  BY DEF WorkflowInvariant, WorkOpen, AllStudio, Working
<1>2. runs[r].build = runs[s].build
  BY <1>1 DEF WorkflowInvariant, OneActive
<1> QED BY <1>1, <1>2, OneRun DEF BuildInvariant, WorkflowInvariant, Titled

\* Asking twice, a lost answer, a crash or a late dispatch never has GitHub work
\* on one source twice at a time (DUPLICATE_ACTIVE_BUILD in service.ts).
THEOREM WorkflowAlone == Spec => []OneWorkflow
<1> DEFINE Inv == MaxManual = 0 => WorkflowInvariant /\ BuildInHand
<1>1. Init => Inv
  BY WorkflowInit
<1>2. BuildTypeOK /\ BuildInvariant /\ Inv /\ [Next]_vars => Inv'
  BY WorkflowNext
<1>3. BuildTypeOK /\ BuildInvariant /\ Inv => OneWorkflow
  BY OneAtWork DEF OneWorkflow
<1> HIDE DEF Inv
<1> QED BY <1>1, <1>2, <1>3, BuildsConsistent, PTL DEF Spec

=============================================================================
