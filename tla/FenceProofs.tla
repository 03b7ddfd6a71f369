----------------------------- MODULE FenceProofs -----------------------------
(***************************************************************************)
(* The run coordinator keeps the promise of ExecutionFence, for every      *)
(* graph, bound and provider.  Late starts included, work is only handed   *)
(* out behind steps whose own providers confirmed them, and a result that  *)
(* may be reused was computed as shown, unless a provider withholds its    *)
(* configuration.  As long as no start outlives its call, every step is a  *)
(* step of ExecutionFence or none at all.                                  *)
(***************************************************************************)
EXTENDS ExecutionProofs

USE DEF TerminalSteps, LiveTasks, EndedTasks

-----------------------------------------------------------------------------
(* Why it holds *)

\* Only a step that was dispatched has an attempt, work, a start under way or
\* one in the network.
Begun ==
    /\ \A n \in Nodes : step[n].attempt # 0 => step[n].gen # 0
    /\ \A n \in Nodes, g \in Generations :
          task[n][g].state # "absent" => step[n].gen # 0
    /\ InHand => step[co.node].gen # 0
    /\ \A m \in late : step[m.node].gen # 0

\* Only a step whose predecessors all succeeded is dispatched.
Fed == \A n \in Nodes : step[n].gen # 0 =>
          \A m \in Predecessors(n) : step[m].state = "succeeded"

\* A success the coordinator has been told of with authority is one.
Heard ==
    co.phase \in {"looked", "observed"} /\ co.obs.state = "succeeded" /\ co.obs.final
        => co.obs.gen \in Generations /\ Won(co.node, co.obs.gen)

\* A step that succeeded did so in its last attempt, or in an earlier run.
Earned ==
    \A n \in Nodes \ References : step[n].state = "succeeded" =>
        step[n].gen \in Generations /\ Won(n, step[n].gen)

InputInvariant == Begun /\ Fed /\ Heard /\ Earned

\* The property follows.
LEMMA InputsConfirmed == InputInvariant => ConfirmedInputs
BY DEF InputInvariant, Begun, Fed, Earned, Won, ConfirmedInputs, Predecessors

\* Nothing has begun at first.
LEMMA InputInit == Init => InputInvariant
<1> SUFFICES ASSUME Init PROVE InputInvariant
  OBVIOUS
<1>1. \A n \in Nodes : step[n].attempt = 0 /\ step[n].gen = 0
  BY DEF Init
<1>2. \A n \in Nodes, g \in Generations : task[n][g].state = "absent"
  BY DEF Init, NewTask
<1>3. late = {} /\ co.phase = "rest"
  BY AtRestTyped DEF Init
<1>4. \A n \in Nodes \ References : step[n].state = "pending"
  BY DEF Init
<1> QED BY <1>1, <1>2, <1>3, <1>4
           DEF InputInvariant, Begun, Fed, Heard, Earned, InHand

-----------------------------------------------------------------------------
(* The invariant is kept *)

\* By every step of the specification.
LEMMA InputNext ==
    TypeOK /\ TypeOK' /\ InputInvariant /\ [Next]_vars => InputInvariant'
<1> SUFFICES ASSUME TypeOK, TypeOK', InputInvariant, [Next]_vars
             PROVE  InputInvariant'
  OBVIOUS
<1>0. /\ Begun /\ Fed /\ Heard /\ Earned
      /\ step \in [Nodes -> Step] /\ late \subseteq Mail
      /\ InHand => co.node \in Nodes
      /\ \A n \in Nodes : Predecessors(n) \subseteq Nodes
  BY DEF InputInvariant, TypeOK, InHand, Predecessors
<1>1. \A n \in Nodes : Carried(n, step'[n]) \/ Dispatch(n)
  BY StepsCarried
<1>2. Grown(task')
  BY TasksGrow
<1>3. ASSUME NEW n \in Nodes, Dispatch(n)
      PROVE  /\ Ready(n)
             /\ step'[n].gen # 0 /\ step'[n].state = "dispatching"
             /\ \A m \in Nodes \ {n} : step'[m] = step[m]
  BY <1>0, <1>3, BoundAssumption DEF Dispatch, Step, Attempts
\* A generation once begun stays begun, a success stays one.
<1>4. ASSUME NEW n \in Nodes, step[n].gen # 0 PROVE step'[n].gen # 0
  BY <1>1, <1>3, <1>4 DEF Carried
<1>5. ASSUME NEW n \in Nodes, step[n].state = "succeeded"
      PROVE  step'[n].state = "succeeded" /\ step'[n].gen = step[n].gen
  BY <1>1, <1>5 DEF Carried, Dispatch, Ready
<1>6. Begun'
  <2>1. ASSUME NEW n \in Nodes, step'[n].attempt # 0 PROVE step'[n].gen # 0
    BY <1>0, <1>1, <1>3, <2>1 DEF Carried, Begun
  <2>2. ASSUME NEW n \in Nodes, NEW g \in Generations,
               task'[n][g].state # "absent"
        PROVE  step'[n].gen # 0
    <3>1. task[n][g].state # "absent" \/ Sending(n, g)
      BY <1>2, <2>2 DEF Grown
    <3>2. step[n].gen # 0
      BY <1>0, <3>1 DEF Sending, Begun, InHand
    <3> QED BY <1>4, <3>2
  <2>3. ASSUME InHand' PROVE step'[co'.node].gen # 0
    <3>1. CASE Carries
      BY <1>0, <1>4, <3>1 DEF Carries, Begun
    <3>2. ASSUME NEW n \in Nodes, Takes(n) PROVE step'[co'.node].gen # 0
      <4>1. CASE Dispatch(n)
        BY <1>3, <3>2, <4>1 DEF Takes
      <4>2. CASE PrepareOpen(n)
        BY <1>0, <1>4, <3>2, <4>2 DEF Takes, PrepareOpen, Bare, Begun
      <4> QED BY <3>2, <4>1, <4>2 DEF Takes
    <3> QED BY <2>3, <3>1, <3>2, CoordinatorMoves
  <2>4. ASSUME NEW m \in late' PROVE step'[m.node].gen # 0
    <3>1. m.node \in Nodes /\ step[m.node].gen # 0
      BY <1>0, <2>4, MailSent DEF Begun, Mail, Posted, InHand
    <3> QED BY <1>4, <3>1
  <2> QED BY <2>1, <2>2, <2>3, <2>4 DEF Begun, InHand
<1>7. Fed'
  <2> SUFFICES ASSUME NEW n \in Nodes, step'[n].gen # 0, NEW m \in Predecessors(n)
               PROVE  step'[m].state = "succeeded"
    BY DEF Fed, Predecessors
  <2>1. step[m].state = "succeeded"
    BY <1>0, <1>1, <1>3 DEF Carried, Fed, Ready
  <2> QED BY <1>0, <1>5, <2>1
<1>8. Heard'
  <2> SUFFICES ASSUME co'.phase \in {"looked", "observed"},
                      co'.obs.state = "succeeded", co'.obs.final
               PROVE  /\ co'.obs.gen \in Generations
                      /\ task'[co'.node][co'.obs.gen].state \in {"succeeded", "purged"}
    BY DEF Heard, Won
  <2>1. Carries
    BY CoordinatorMoves DEF InHand, Takes
  <2>2. CASE co'.obs = co.obs /\ co.phase \in {"looked", "observed"}
    BY <1>0, <1>2, <2>1, <2>2 DEF Carries, Heard, Grown
  <2>3. CASE co'.obs \in Answers(task')
    BY <2>1, <2>3, AnswersWon DEF Carries
  <2> QED BY <2>1, <2>2, <2>3 DEF Carries
<1>9. Earned'
  <2> SUFFICES ASSUME NEW n \in Nodes \ References, step'[n].state = "succeeded"
               PROVE  /\ step'[n].gen \in Generations
                      /\ task'[n][step'[n].gen].state \in {"succeeded", "purged"}
    BY DEF Earned, Won
  <2>1. Carried(n, step'[n])
    BY <1>1, <1>3
  <2>2. step[n].gen \in Generations /\ Won(n, step[n].gen)
    BY <1>0, <2>1 DEF Carried, Confirming, Heeding, Earned, Heard
  <2> QED BY <1>2, <2>1, <2>2 DEF Carried, Grown
<1> QED BY <1>6, <1>7, <1>8, <1>9 DEF InputInvariant

\* A provider is only ever given work whose predecessors all succeeded, by the
\* authority of their own provider and with every declared output, whichever
\* answers were late, lost or about another attempt.
THEOREM InputsAreConfirmed == Spec => []ConfirmedInputs
<1>1. TypeOK /\ InputInvariant /\ [Next]_vars => InputInvariant'
  BY TypeNext, InputNext
<1> QED BY <1>1, InputInit, InputsConfirmed, TypeCorrect, PTL DEF Spec

-----------------------------------------------------------------------------
(* What a success was computed with *)

\* A success the coordinator has been told of comes with the configuration the
\* provider has on record for it,
Reported ==
    co.phase \in {"looked", "observed"} /\ co.obs.state = "succeeded" /\ co.obs.final
        => co.obs.applied = task[co.node][co.obs.gen].applied

\* which is then the one the store has.
Recorded ==
    \A n \in Nodes \ References : step[n].state = "succeeded" =>
        task[n][step[n].gen].applied = step[n].actual

\* A provider that omits nothing reports it.
LEMMA AnswersReport ==
    ASSUME ~Silent, NEW t, NEW o \in Answers(t), o.state = "succeeded", o.final
    PROVE  o.applied = t[co.node][o.gen].applied
<1>1. ASSUME NEW g, o \in TrueAnswers(t, co.node, g)
      PROVE  o.applied = t[co.node][o.gen].applied
  BY <1>1 DEF TrueAnswers, NoObservation
<1>2. o \notin Rumours(t, co.node, co.attempt)
  BY DEF Rumours
<1> QED BY <1>1, <1>2 DEF Answers, Misattributed

\* The configuration of an attempt is set when it is accepted, and changed while
\* it runs, by nothing else.
LEMMA ConfigsLast ==
    ASSUME TypeOK, [Next]_vars, NEW n \in Nodes, NEW g \in Generations,
           task[n][g].state \notin {"absent", "running"}
    PROVE  task'[n][g].applied = task[n][g].applied
<1>0. /\ task \in [Nodes -> [Generations -> Task]]
      /\ task[n][g] \in Task
  BY DEF TypeOK
<1>1. ASSUME task' = task PROVE task'[n][g].applied = task[n][g].applied
  BY <1>1
<1>2. ASSUME NEW m, NEW h, NEW c, task' = task \/ task' = Accept(m, h, c)
      PROVE  task'[n][g].applied = task[n][g].applied
  BY <1>0, <1>2 DEF Accept
<1>3. ASSUME NEW m, NEW h, task' = task \/ task' = Adopt(m, h)
      PROVE  task'[n][g].applied = task[n][g].applied
  BY <1>0, <1>3 DEF Adopt
<1>4. ASSUME NEW m \in Nodes, NEW h \in Generations,
             task' = task \/ task' = Halt(m, h)
      PROVE  task'[n][g].applied = task[n][g].applied
  <2>1. task[m][h] \in Task
    BY <1>0
  <2>2. [task[m][h] EXCEPT !.halt = Live(m, h)].applied = task[m][h].applied
    BY <2>1 DEF Task
  <2>3. Halt(m, h)[n][g].applied = task[n][g].applied
    <3> DEFINE w == Live(m, h)
               r == [task[m][h] EXCEPT !.halt = w]
    <3>1. Halt(m, h) = [task EXCEPT ![m][h] = r]
      BY <1>0 DEF Halt
    <3>2. r.applied = task[m][h].applied
      BY <2>2
    <3> HIDE DEF w, r
    <3> QED BY <1>0, <3>1, <3>2
  <2> QED BY <1>4, <2>3
<1>5. CASE Commands
  BY <1>1, <1>5 DEF Commands, ReadRun, StopRun, ResumeRun, ChangeOnline
<1>6. CASE Providers
  <2>1. ASSUME NEW m \in Nodes, NEW h \in Generations,
               TaskRuns(m, h) \/ TaskEnds(m, h) \/ TaskPurged(m, h)
        PROVE  task'[n][g].applied = task[n][g].applied
    <3>1. CASE TaskRuns(m, h)
      BY <1>0, <3>1 DEF TaskRuns, Task
    <3>2. CASE TaskEnds(m, h)
      BY <1>0, <3>2 DEF TaskEnds, Task
    <3>3. CASE TaskPurged(m, h)
      BY <1>0, <3>3 DEF TaskPurged, Task
    <3> QED BY <2>1, <3>1, <3>2, <3>3
  <2>2. ASSUME NEW m \in late, LateStart(m)
        PROVE  task'[n][g].applied = task[n][g].applied
    BY <1>2, <2>2 DEF LateStart
  <2> QED BY <1>6, <2>1, <2>2 DEF Providers
<1>7. CASE Ticking
  BY <1>1, <1>7 DEF Ticking, TickBegin, StopUndispatched, SkipUnconnected,
                    PrepareNothing, PrepareStop, Dispatch, PrepareOpen
<1>8. CASE Calls
  <2>1. ASSUME NEW m \in Nodes,
               StopAnswered(m) \/ StopMisanswered(m) \/ StopFails(m)
        PROVE  task'[n][g].applied = task[n][g].applied
    <3>1. co.attempt \in Generations
      BY <2>1 DEF TypeOK, StopAnswered, StopMisanswered, StopFails, Calling
    <3>2. task' = task \/ task' = Halt(m, co.attempt)
      BY <2>1 DEF StopAnswered, StopMisanswered, StopFails
    <3> QED BY <1>4, <3>1, <3>2
  <2>2. ASSUME NEW m \in Nodes,
               ChangeAnswered(m) \/ ChangeMisanswered(m) \/ ChangeFails(m)
        PROVE  task'[n][g].applied = task[n][g].applied
    BY <1>3, <2>2 DEF ChangeAnswered, ChangeMisanswered, ChangeFails
  <2>3. ASSUME NEW m \in Nodes,
               StartAnswered(m) \/ StartMisanswered(m) \/ StartFails(m)
        PROVE  task'[n][g].applied = task[n][g].applied
    BY <1>2, <2>3 DEF StartAnswered, StartMisanswered, StartFails, Abandon
  <2>4. ASSUME NEW m \in Nodes,
               \/ LookupAnswered(m) \/ LookupMisanswered(m) \/ LookupFails(m)
               \/ ChangeNotDue(m) \/ StartRefused(m)
        PROVE  task'[n][g].applied = task[n][g].applied
    BY <1>1, <2>4 DEF LookupAnswered, LookupMisanswered, LookupFails,
                      ChangeNotDue, StartRefused
  <2>5. CASE \/ CheckStop \/ RecheckStop
             \/ ResolveSame \/ ResolveChanged \/ ResolveFails
    BY <1>1, <2>5 DEF CheckStop, RecheckStop, ResolveSame, ResolveChanged,
                      ResolveFails, Goto
  <2> QED BY <1>8, <2>1, <2>2, <2>3, <2>4, <2>5 DEF Calls
<1>9. CASE Commits
  BY <1>1, <1>9 DEF Commits, RejectUnstarted, RecordUnknown, CommitDiscarded,
                    CommitAbsent, CommitObservation
<1>10. CASE Restart
  BY <1>1, <1>2, <1>10 DEF Restart, Abandon
<1>11. CASE UNCHANGED vars \/ StoreFails \/ \E m \in Nodes : Elapse(m)
  BY <1>1, <1>11 DEF vars, StoreFails, Elapse
<1> QED BY <1>5, <1>6, <1>7, <1>8, <1>9, <1>10, <1>11 DEF Next, Undisturbed

\* A success of a provider's stays with its configuration.
LEMMA SuccessLasts ==
    ASSUME TypeOK, [Next]_vars, NEW n \in Nodes, NEW g \in Generations, Won(n, g)
    PROVE  task'[n][g].applied = task[n][g].applied
BY ConfigsLast DEF Won

\* Every step keeps what was reported and recorded.
LEMMA ReportsNext ==
    ASSUME ~Silent, TypeOK, InputInvariant, Reported, Recorded, [Next]_vars
    PROVE  Reported' /\ Recorded'
<1>0. Heard /\ Earned /\ (InHand => co.node \in Nodes)
  BY DEF InputInvariant, TypeOK, InHand
<1>1. Reported'
  <2> SUFFICES ASSUME co'.phase \in {"looked", "observed"},
                      co'.obs.state = "succeeded", co'.obs.final
               PROVE  co'.obs.applied = task'[co'.node][co'.obs.gen].applied
    BY DEF Reported
  <2>1. Carries
    BY CoordinatorMoves DEF InHand, Takes
  <2>2. CASE co'.obs = co.obs /\ co.phase \in {"looked", "observed"}
    BY <1>0, <2>1, <2>2, SuccessLasts DEF Carries, Heard, Reported
  <2>3. CASE co'.obs \in Answers(task')
    BY <2>1, <2>3, AnswersReport DEF Carries
  <2> QED BY <2>1, <2>2, <2>3 DEF Carries
<1>2. Recorded'
  <2> SUFFICES ASSUME NEW n \in Nodes \ References, step'[n].state = "succeeded"
               PROVE  task'[n][step'[n].gen].applied = step'[n].actual
    BY DEF Recorded
  <2>1. Dispatch(n) => step'[n].state = "dispatching"
    BY BoundAssumption DEF TypeOK, Dispatch, Step, Attempts
  <2>2. Carried(n, step'[n])
    BY <2>1, StepsCarried
  <2>3. step'[n].gen = step[n].gen /\ step[n].gen \in Generations
        /\ Won(n, step[n].gen)
    BY <1>0, <2>2 DEF Carried, Confirming, Heeding, Earned, Heard
  <2>4. task[n][step[n].gen].applied = step'[n].actual
    <3>1. CASE step[n].state = "succeeded"
      BY <2>2, <3>1 DEF Carried, Recorded
    <3>2. CASE step[n].state # "succeeded"
      <4>1. /\ co.phase = "observed" /\ co.node = n /\ co.obs.gen = step[n].gen
            /\ co.obs.final /\ co.obs.state = "succeeded"
            /\ co.obs.applied # None => step'[n].actual = co.obs.applied
        BY <2>2, <3>2 DEF Carried, Confirming, Heeding
      <4>2. co.obs.applied = task[n][step[n].gen].applied
        BY <4>1 DEF Reported
      <4>3. co.obs.applied # None
        BY <2>3, <4>2, ConfigAssumption DEF TypeOK, Task
      <4> QED BY <4>1, <4>2, <4>3
    <3> QED BY <3>1, <3>2
  <2> QED BY <2>3, <2>4, SuccessLasts
<1> QED BY <1>1, <1>2

\* Where no provider omits the configuration it executed an attempt with, a result
\* that a branch may reuse was computed with the configuration shown for it, late
\* starts, lost answers and changes under way included.
THEOREM ReuseIsSound == Spec => [](Silent \/ ReuseSound)
<1> DEFINE Inv == Silent \/ (Reported /\ Recorded)
<1>1. Init => Inv
  <2>1. Init => /\ co.phase = "rest"
                /\ \A n \in Nodes \ References : step[n].state = "pending"
    BY AtRestTyped DEF Init
  <2> QED BY <2>1 DEF Reported, Recorded
<1>2. TypeOK /\ InputInvariant /\ Inv /\ [Next]_vars => Inv'
  BY ReportsNext
<1>3. Inv => Silent \/ ReuseSound
  BY DEF Recorded, ReuseSound
<1>4. TypeOK /\ InputInvariant /\ [Next]_vars => InputInvariant'
  BY TypeNext, InputNext
<1> HIDE DEF Inv
<1> QED BY <1>1, <1>2, <1>3, <1>4, InputInit, TypeCorrect, PTL DEF Spec

-----------------------------------------------------------------------------
(* The refinement *)

\* A step of the specification changes the store or the providers, not both.
LEMMA OneSide ==
    ASSUME [Next]_vars
    PROVE  step' = step \/ task' = task
<1>1. CASE Commands
  BY <1>1 DEF Commands, ReadRun, StopRun, ResumeRun, ChangeOnline
<1>2. CASE Providers
  BY <1>2 DEF Providers, TaskRuns, TaskEnds, TaskPurged, LateStart
<1>3. CASE Ticking
  BY <1>3 DEF Ticking, TickBegin, StopUndispatched, SkipUnconnected,
              PrepareNothing, PrepareStop, Dispatch, PrepareOpen
<1>4. CASE Calls
  BY <1>4 DEF Calls, StopAnswered, StopMisanswered, StopFails, LookupAnswered,
              LookupMisanswered, LookupFails, ChangeAnswered, ChangeMisanswered,
              ChangeFails, ChangeNotDue, StartAnswered, StartMisanswered,
              StartRefused, StartFails, CheckStop, RecheckStop, ResolveSame,
              ResolveChanged, ResolveFails, Goto
<1>5. CASE Commits
  BY <1>5 DEF Commits, RejectUnstarted, RecordUnknown, CommitDiscarded,
              CommitAbsent, CommitObservation
<1>6. CASE UNCHANGED vars \/ StoreFails \/ Restart \/ \E n \in Nodes : Elapse(n)
  BY <1>6 DEF vars, StoreFails, Restart, Elapse
<1> QED BY <1>1, <1>2, <1>3, <1>4, <1>5, <1>6 DEF Next, Undisturbed

\* What ExecutionFence sees of a step, and of a provider's records.
Verdicts == [n \in Nodes |-> IF Ended(step[n]) THEN step[n].state ELSE "open"]
Executing == [n \in Nodes |-> {g \in Generations : Live(n, g)}]
Accepted == [n \in Nodes |->
               {g \in Generations : task[n][g].state # "absent"}]

\* It is the view the refinement takes.
LEMMA FenceView ==
    /\ Fence!fence = <<Accepted, Executing, Verdicts>>
    /\ Fence!Init <=>
         /\ Accepted = [n \in Nodes |-> {}]
         /\ Executing = [n \in Nodes |-> {}]
         /\ Verdicts = [n \in Nodes |-> IF n \in References THEN "succeeded"
                                        ELSE "open"]
BY DEF Fence!fence, Fence!Init, Accepted, Executing, Verdicts

\* The first state.
LEMMA FenceInit == Init => Fence!Init
<1> SUFFICES ASSUME Init PROVE Fence!Init
  OBVIOUS
<1>1. \A n \in Nodes, g \in Generations : task[n][g].state = "absent"
  BY DEF Init, NewTask
<1>2. Accepted = [n \in Nodes |-> {}] /\ Executing = [n \in Nodes |-> {}]
  BY <1>1 DEF Accepted, Executing, Live
<1>3. Verdicts = [n \in Nodes |-> IF n \in References THEN "succeeded" ELSE "open"]
  BY DEF Init, Verdicts, Ended
<1> QED BY <1>2, <1>3, FenceView

\* A resume reopens the run.
LEMMA ResumeReopens ==
    ASSUME TypeOK, ResumeRun
    PROVE  Fence!Reopen
<1>1. \A n \in Nodes : Ended(step[n])
  BY DEF ResumeRun, AllEnded
<1>2. \A n \in Nodes : IF step[n].state = "succeeded"
                       THEN step'[n].state = "succeeded"
                       ELSE step'[n].state = "pending"
  BY DEF ResumeRun, Reopened, TypeOK, Step
<1>3. \A n \in Nodes : Verdicts[n] # "open"
  BY <1>1 DEF Verdicts, Ended
<1>4. Verdicts' = [n \in Nodes |-> IF Verdicts[n] = "succeeded"
                                   THEN "succeeded" ELSE "open"]
  BY <1>1, <1>2 DEF Verdicts, Ended
<1>5. UNCHANGED <<Accepted, Executing>>
  BY DEF ResumeRun, Accepted, Executing, Live
<1> QED BY <1>3, <1>4, <1>5 DEF Fence!Reopen, Verdicts, Accepted, Executing

\* Any other change of the store settles the steps that it ends: nothing of
\* them executes, and a success is one that a provider had work for.
LEMMA StoreSettles ==
    ASSUME TypeOK, TypeOK', NoOrphanExecution', InputInvariant, [Next]_vars,
           ~ResumeRun, task' = task
    PROVE  \E S \in SUBSET Nodes : Fence!Settle(S)
<1>0. PICK S \in SUBSET Nodes :
         S = {n \in Nodes : ~Ended(step[n]) /\ Ended(step'[n])}
  OBVIOUS
<1> DEFINE v == [n \in S |-> step'[n].state]
<1>1. \A n \in S : Verdicts[n] = "open" /\ Executing[n] = {}
  BY <1>0 DEF Verdicts, Executing, NoOrphanExecution, Live
<1>2. v \in [S -> {"succeeded", "failed", "stopped"}]
  BY <1>0 DEF Ended
<1>3. ASSUME NEW n \in S, v[n] = "succeeded" PROVE Accepted[n] # {}
  <2>1. step'[n].state = "succeeded" /\ step[n].state # "succeeded"
    BY <1>0, <1>3 DEF Ended
  <2>2. ~Dispatch(n)
    <3>1. step \in [Nodes -> Step]
      BY DEF TypeOK
    <3> QED BY <1>0, <2>1, <3>1 DEF Dispatch, Step
  <2>3. Confirming(n)
    BY <1>0, <2>1, <2>2, StepsCarried DEF Carried
  <2>4. co.obs.gen \in Generations /\ Won(n, co.obs.gen)
    BY <2>3 DEF Confirming, Heeding, InputInvariant, Heard
  <2> QED BY <2>4 DEF Accepted, Won
<1>4. Verdicts' = [n \in Nodes |-> IF n \in S THEN v[n] ELSE Verdicts[n]]
  BY <1>0, EndsStay DEF Verdicts, Ended
<1>5. UNCHANGED <<Accepted, Executing>>
  BY DEF Accepted, Executing, Live
<1> HIDE DEF v
<1>6. Fence!Settle(S)
  BY <1>1, <1>2, <1>3, <1>4, <1>5
     DEF Fence!Settle, Fence!Verdicts, Verdicts, Accepted, Executing
<1> QED BY <1>6

\* The four things that happen to the providers' records: nothing that shows, a
\* task of the coordinator's begins, or one ends.
LEMMA TasksMove ==
    ASSUME TypeOK, late = {}, [Next]_vars
    PROVE  \/ UNCHANGED <<Accepted, Executing>>
           \/ /\ co.phase = "starting"
              /\ task[co.node][co.attempt].state = "absent"
              /\ task' = Accept(co.node, co.attempt, co.config)
           \/ \E n \in Nodes, g \in Generations : TaskEnds(n, g)
<1>0. /\ \A n \in Nodes, g \in Generations : task[n][g] \in Task
      /\ task \in [Nodes -> [Generations -> Task]]
      /\ InHand => co.node \in Nodes /\ co.attempt \in Generations
  BY DEF TypeOK, InHand
<1>1. ASSUME \A n \in Nodes, g \in Generations :
                 /\ task'[n][g].state = "absent" <=> task[n][g].state = "absent"
                 /\ Live(n, g)' <=> Live(n, g)
      PROVE  UNCHANGED <<Accepted, Executing>>
  BY <1>1 DEF Accepted, Executing
<1>2. ASSUME \A n \in Nodes, g \in Generations :
                 task'[n][g].state = task[n][g].state
      PROVE  UNCHANGED <<Accepted, Executing>>
  BY <1>1, <1>2 DEF Live
<1>3. ASSUME task' = task PROVE UNCHANGED <<Accepted, Executing>>
  BY <1>2, <1>3
<1>4. ASSUME co.phase = "starting",
             task' = task \/ task' = Accept(co.node, co.attempt, co.config)
      PROVE  \/ UNCHANGED <<Accepted, Executing>>
             \/ /\ co.phase = "starting"
                /\ task[co.node][co.attempt].state = "absent"
                /\ task' = Accept(co.node, co.attempt, co.config)
  BY <1>3, <1>4 DEF Accept
<1>5. CASE Commands
  BY <1>3, <1>5 DEF Commands, ReadRun, StopRun, ResumeRun, ChangeOnline
<1>6. CASE Providers
  <2>1. ASSUME NEW n \in Nodes, NEW g \in Generations, TaskRuns(n, g)
        PROVE  UNCHANGED <<Accepted, Executing>>
    BY <1>0, <1>1, <2>1 DEF TaskRuns, Live
  <2>2. ASSUME NEW n \in Nodes, NEW g \in Generations, TaskPurged(n, g)
        PROVE  UNCHANGED <<Accepted, Executing>>
    BY <1>0, <1>1, <2>2 DEF TaskPurged, Live
  <2> QED BY <1>6, <2>1, <2>2 DEF Providers
<1>7. CASE Ticking
  BY <1>3, <1>7 DEF Ticking, TickBegin, StopUndispatched, SkipUnconnected,
                    PrepareNothing, PrepareStop, Dispatch, PrepareOpen
<1>8. CASE Calls
  <2>1. ASSUME NEW n \in Nodes,
               StopAnswered(n) \/ StopMisanswered(n) \/ StopFails(n)
        PROVE  UNCHANGED <<Accepted, Executing>>
    <3>1. co.attempt \in Generations
      BY <1>0, <2>1 DEF StopAnswered, StopMisanswered, StopFails, Calling, InHand
    <3>2. task' = task \/ task' = Halt(n, co.attempt)
      BY <2>1 DEF StopAnswered, StopMisanswered, StopFails
    <3> QED BY <1>2, <1>3, <3>1, <3>2, HaltStates
  <2>2. ASSUME NEW n \in Nodes,
               ChangeAnswered(n) \/ ChangeMisanswered(n) \/ ChangeFails(n)
        PROVE  UNCHANGED <<Accepted, Executing>>
    <3>1. co.attempt \in Generations
      BY <1>0, <2>2 DEF ChangeAnswered, ChangeMisanswered, ChangeFails,
                        Changing, InHand
    <3>2. task' = task \/ task' = Adopt(n, co.attempt)
      BY <2>2 DEF ChangeAnswered, ChangeMisanswered, ChangeFails
    <3> QED BY <1>2, <1>3, <3>1, <3>2, AdoptStates
  <2>3. ASSUME NEW n \in Nodes,
               StartAnswered(n) \/ StartMisanswered(n) \/ StartFails(n)
        PROVE  /\ co.phase = "starting"
               /\ task' = task \/ task' = Accept(co.node, co.attempt, co.config)
    BY <2>3 DEF StartAnswered, StartMisanswered, StartFails, Abandon, Starting
  <2>4. ASSUME NEW n \in Nodes,
               \/ LookupAnswered(n) \/ LookupMisanswered(n) \/ LookupFails(n)
               \/ ChangeNotDue(n) \/ StartRefused(n)
        PROVE  task' = task
    BY <2>4 DEF LookupAnswered, LookupMisanswered, LookupFails,
                ChangeNotDue, StartRefused
  <2>5. CASE \/ CheckStop \/ RecheckStop
             \/ ResolveSame \/ ResolveChanged \/ ResolveFails
    BY <1>3, <2>5 DEF CheckStop, RecheckStop, ResolveSame, ResolveChanged,
                      ResolveFails, Goto
  <2> QED BY <1>3, <1>4, <1>8, <2>1, <2>2, <2>3, <2>4, <2>5 DEF Calls
<1>9. CASE Commits
  BY <1>3, <1>9 DEF Commits, RejectUnstarted, RecordUnknown, CommitDiscarded,
                    CommitAbsent, CommitObservation
<1>10. CASE Restart
  BY <1>3, <1>4, <1>10 DEF Restart, Abandon
<1>11. CASE UNCHANGED vars \/ StoreFails \/ \E n \in Nodes : Elapse(n)
  BY <1>3, <1>11 DEF vars, StoreFails, Elapse
<1> QED BY <1>5, <1>6, <1>7, <1>8, <1>9, <1>10, <1>11 DEF Next, Undisturbed

\* The attempt the coordinator starts is one the fence lets begin: its step is
\* open, nothing of it executes, and what it builds on succeeded.
LEMMA StartBegins ==
    ASSUME TypeOK, ExecutionInvariant, InputInvariant, step' = step,
           co.phase = "starting", task[co.node][co.attempt].state = "absent",
           task' = Accept(co.node, co.attempt, co.config)
    PROVE  \E n \in Nodes, g \in Generations : Fence!Begin(n, g)
<1>1. PICK n \in Nodes : n = co.node
  BY DEF TypeOK
<1>2. PICK g \in Generations : g = co.attempt
  BY DEF TypeOK
<1>3. task \in [Nodes -> [Generations -> Task]]
  BY DEF TypeOK
<1>4. step[n].attempt = g /\ step[n].gen = g /\ ~Ended(step[n]) /\ ~Live(n, g)
  BY <1>1, <1>2 DEF ExecutionInvariant, AttemptHeld, ReadingsHold
<1>5. Verdicts[n] = "open" /\ Executing[n] = {} /\ g \notin Accepted[n]
  BY <1>4, <1>1, <1>2 DEF Verdicts, Executing, Accepted, ExecutionInvariant,
                          NoOrphanExecution
<1>6. ASSUME NEW e \in Edges, e[2] = n PROVE Verdicts[e[1]] = "succeeded"
  <2>1. e[1] \in Predecessors(n)
    BY <1>6, GraphAssumption DEF Predecessors
  <2>2. step[n].gen # 0
    BY <1>4, BoundAssumption DEF Generations
  <2>3. step[e[1]].state = "succeeded" /\ e[1] \in Nodes
    BY <2>1, <2>2 DEF InputInvariant, Fed, Predecessors
  <2> QED BY <2>3 DEF Verdicts, Ended
<1>7. task'[n][g].state = "queued"
  BY <1>3, <1>1, <1>2 DEF Accept, Task
<1>8. ASSUME NEW m \in Nodes, NEW h \in Generations, ~(m = n /\ h = g)
      PROVE  task'[m][h] = task[m][h]
  BY <1>3, <1>8, <1>1, <1>2 DEF Accept
<1>9. Accepted' = [Accepted EXCEPT ![n] = @ \cup {g}]
  <2>1. \A m \in Nodes : Accepted'[m] = IF m = n THEN Accepted[n] \cup {g}
                                       ELSE Accepted[m]
    BY <1>7, <1>8 DEF Accepted
  <2> QED BY <2>1 DEF Accepted
<1>10. Executing' = [Executing EXCEPT ![n] = {g}]
  <2>1. \A m \in Nodes : Executing'[m] = IF m = n THEN {g} ELSE Executing[m]
    BY <1>5, <1>7, <1>8 DEF Executing, Live
  <2> QED BY <2>1 DEF Executing
<1>11. Verdicts' = Verdicts
  BY DEF Verdicts
<1>12. Fence!Begin(n, g)
  BY <1>5, <1>6, <1>9, <1>10, <1>11
     DEF Fence!Begin, Verdicts, Accepted, Executing
<1> QED BY <1>12

\* A task's end leaves its step without an execution.
LEMMA TaskEndEnds ==
    ASSUME TypeOK, ExecutionInvariant, NEW n \in Nodes, NEW g \in Generations,
           TaskEnds(n, g)
    PROVE  Fence!End(n)
<1>0. task \in [Nodes -> [Generations -> Task]]
  BY DEF TypeOK
<1>1. /\ task'[n][g].state \in EndedTasks /\ Live(n, g)
      /\ \A m \in Nodes, h \in Generations :
            ~(m = n /\ h = g) => task'[m][h] = task[m][h]
  BY <1>0 DEF TaskEnds, Task
<1>2. Executing[n] = {g}
  BY <1>1 DEF Executing, ExecutionInvariant, NoOrphanExecution
<1>3. Executing' = [Executing EXCEPT ![n] = {}]
  <2>1. \A m \in Nodes : Executing'[m] = IF m = n THEN {} ELSE Executing[m]
    BY <1>1, <1>2 DEF Executing, Live
  <2> QED BY <2>1 DEF Executing
<1>4. Accepted' = Accepted
  BY <1>1 DEF Accepted, Live
<1>5. Verdicts' = Verdicts
  BY DEF TaskEnds, Verdicts
<1> QED BY <1>2, <1>3, <1>4, <1>5 DEF Fence!End, Verdicts, Accepted, Executing

\* Every step of the specification is a step of the fence, or shows nothing.
LEMMA FenceNext ==
    ASSUME TypeOK, TypeOK', ExecutionInvariant, ExecutionInvariant',
           InputInvariant, late = {}, [Next]_vars
    PROVE  [Fence!Next]_(Fence!fence)
<1>1. CASE task' = task /\ ResumeRun
  BY <1>1, ResumeReopens DEF Fence!Next
<1>2. CASE task' = task /\ ~ResumeRun
  BY <1>2, StoreSettles DEF Fence!Next, ExecutionInvariant
<1>3. CASE step' = step
  <2>1. Verdicts' = Verdicts
    BY <1>3 DEF Verdicts
  <2>2. CASE UNCHANGED <<Accepted, Executing>>
    BY <2>1, <2>2, FenceView DEF Fence!fence, Accepted, Executing, Verdicts
  <2>3. CASE /\ co.phase = "starting"
             /\ task[co.node][co.attempt].state = "absent"
             /\ task' = Accept(co.node, co.attempt, co.config)
    BY <1>3, <2>3, StartBegins DEF Fence!Next
  <2>4. CASE \E n \in Nodes, g \in Generations : TaskEnds(n, g)
    BY <2>4, TaskEndEnds DEF Fence!Next
  <2> QED BY <2>2, <2>3, <2>4, TasksMove
<1> QED BY <1>1, <1>2, <1>3, OneSide

\* As long as no start outlives the call that sent it, the coordinator and its
\* providers implement ExecutionFence: with every call that fails and every
\* restart, one attempt of a step executes at a time and each at most once, on
\* top of successes, and a verdict means that nothing of the step executes.
THEOREM FenceKept ==
    ASSUME ~LateDelivery
    PROVE  Spec => KeepsFence
<1> DEFINE Inv == TypeOK /\ late = {} /\ ExecutionInvariant /\ InputInvariant
<1>1. Init => Inv
  BY InitTyped, ExecutionInit, InputInit DEF Init
<1>2. Inv /\ [Next]_vars => Inv'
  BY TypeNext, NoMail, ExecutionNext, InputNext
<1>3. Inv /\ Inv' /\ [Next]_vars => [Fence!Next]_(Fence!fence)
  BY FenceNext
<1> HIDE DEF Inv
<1> QED BY <1>1, <1>2, <1>3, FenceInit, PTL DEF Spec, KeepsFence, Fence!Spec

=============================================================================
