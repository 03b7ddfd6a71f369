--------------------------- MODULE ExecutionProofs ---------------------------
(***************************************************************************)
(* What runs at the providers, for every graph, bound and provider.  As    *)
(* long as no start outlives the call that sent it, no execution outlives  *)
(* its step's interest in it (NoOrphanExecution).  Whatever arrives late,  *)
(* no step has two executions until a run is resumed (OneExecution), and   *)
(* each runs with the configuration shown for its step (SettledConfig).    *)
(***************************************************************************)
EXTENDS RunCoordinatorProofs

USE DEF TerminalSteps, LiveTasks, EndedTasks

-----------------------------------------------------------------------------
(* Steps that are edited *)

\* The coordinator is between two advances.
Idle == co.phase \in {"rest", "scan"}

\* A step is edited without a word about its execution.
Alike(s, t) ==
    /\ t.gen = s.gen /\ t.attempt = s.attempt
    /\ Ended(t) <=> Ended(s)
    /\ t.state = "pending" => s.state = "pending"

\* A step with no execution at all is given another state.
Freed(n, t) ==
    /\ \A g \in Generations : ~Live(n, g)
    /\ t.gen = step[n].gen
    /\ t.attempt \in {0, t.gen}
    /\ t.state = "pending" => Bare(t)

\* A transaction that edits every step in one of these ways keeps the
\* invariant: at any time the first way, between two advances the second too.
LEMMA EditsKeep ==
    ASSUME TypeOK, TypeOK', ExecutionInvariant, task' = task,
           \A m \in Nodes : Alike(step[m], step'[m]) \/ Freed(m, step'[m]),
           \/ Idle'
           \/ co' = co /\ \A m \in Nodes : Alike(step[m], step'[m])
    PROVE  ExecutionInvariant'
<1>1. NoOrphanExecution'
  BY DEF ExecutionInvariant, NoOrphanExecution, Live, Alike, Freed
<1>2. AttemptsMinted'
  BY DEF ExecutionInvariant, AttemptsMinted, Alike, Freed, Bare
<1>3. FutureUnknown'
  BY DEF ExecutionInvariant, FutureUnknown, Alike, Freed
<1>4. CASE Idle'
  BY <1>1, <1>2, <1>3, <1>4
     DEF Idle, ExecutionInvariant, AttemptHeld, ReadingsHold
<1>5. CASE ~Idle' /\ co' = co /\ \A m \in Nodes : Alike(step[m], step'[m])
  <2>1. co.node \in Nodes /\ ~Idle
    BY <1>5 DEF TypeOK, Idle
  <2>2. AttemptHeld'
    BY <1>5, <2>1 DEF ExecutionInvariant, AttemptHeld, Idle, Alike
  <2>3. ReadingsHold'
    BY <1>5 DEF ExecutionInvariant, ReadingsHold, Live
  <2> QED BY <1>1, <1>2, <1>3, <2>2, <2>3 DEF ExecutionInvariant
<1> QED BY <1>4, <1>5

\* What aggregate makes of the steps it is handed.
LEMMA AggregateSteps ==
    ASSUME NEW r, NEW ss \in [Nodes -> Step], Aggregate(r, ss), NEW m \in Nodes
    PROVE  \/ step'[m] = ss[m]
           \/ /\ ss[m].state = "pending" /\ Bare(ss[m])
              /\ step'[m].state = "stopped"
              /\ step'[m].gen = ss[m].gen
              /\ step'[m].attempt = ss[m].attempt
              /\ step'[m].config = ss[m].config
              /\ step'[m].change = ss[m].change
<1>1. m \in Blocked(ss) => ss[m].state = "pending" /\ Bare(ss[m])
  BY DEF Blocked
<1>2. \/ Cascade(ss)[m] = ss[m]
      \/ /\ m \in Blocked(ss)
         /\ Cascade(ss)[m].state = "stopped"
         /\ Cascade(ss)[m].gen = ss[m].gen
         /\ Cascade(ss)[m].attempt = ss[m].attempt
         /\ Cascade(ss)[m].config = ss[m].config
         /\ Cascade(ss)[m].change = ss[m].change
  BY DEF Cascade, Step
<1> QED BY <1>1, <1>2 DEF Aggregate

\* A closing transaction that edits one step in one of the two ways and lets
\* aggregate conclude.
LEMMA RulingKeeps ==
    ASSUME TypeOK, TypeOK', ExecutionInvariant, task' = task, Idle',
           NEW n \in Nodes, NEW s \in Step,
           Alike(step[n], s) \/ Freed(n, s),
           Aggregate(run, [step EXCEPT ![n] = s])
    PROVE  ExecutionInvariant'
<1> DEFINE ss == [step EXCEPT ![n] = s]
<1>1. step \in [Nodes -> Step] /\ ss \in [Nodes -> Step]
  BY DEF TypeOK
<1>2. ASSUME NEW m \in Nodes
      PROVE  Alike(step[m], step'[m]) \/ Freed(m, step'[m])
  <2>1. Alike(step[m], ss[m]) \/ Freed(m, ss[m])
    BY <1>1 DEF Alike
  <2>2. CASE step'[m] = ss[m]
    BY <2>1, <2>2
  <2>3. CASE /\ ss[m].state = "pending" /\ Bare(ss[m])
             /\ step'[m].state = "stopped"
             /\ step'[m].gen = ss[m].gen
             /\ step'[m].attempt = ss[m].attempt
    <3>1. \A g \in Generations : g # 0
      BY BoundAssumption DEF Generations
    <3>2. \A g \in Generations : ~Live(m, g)
      BY <2>1, <2>3, <3>1 DEF ExecutionInvariant, NoOrphanExecution,
                              Alike, Freed, Bare
    <3>3. ss[m].gen = step[m].gen
      BY <2>1 DEF Alike, Freed
    <3> QED BY <2>3, <3>2, <3>3 DEF Freed, Bare
  <2> QED BY <1>1, <2>2, <2>3, AggregateSteps
<1> QED BY <1>2, EditsKeep

-----------------------------------------------------------------------------
(* The providers' records and what they answer *)

\* Stopping a task ends it or leaves it as it is.
LEMMA HaltStates ==
    ASSUME TypeOK, NEW n \in Nodes, NEW g \in Generations,
           NEW m \in Nodes, NEW h \in Generations
    PROVE  Halt(n, g)[m][h].state = task[m][h].state
BY DEF Halt, TypeOK, Task

\* An online change leaves every task's state.
LEMMA AdoptStates ==
    ASSUME TypeOK, NEW n \in Nodes, NEW g \in Generations,
           NEW m \in Nodes, NEW h \in Generations
    PROVE  Adopt(n, g)[m][h].state = task[m][h].state
BY DEF Adopt, TypeOK, Task

\* Accepting a start makes one task live and leaves the others.
LEMMA AcceptStates ==
    ASSUME TypeOK, NEW n \in Nodes, NEW g \in Generations, NEW c,
           NEW m \in Nodes, NEW h \in Generations
    PROVE  \/ Accept(n, g, c)[m][h].state = task[m][h].state
           \/ m = n /\ h = g
BY DEF Accept, TypeOK

\* An observation that lets the coordinator write an execution off.
Final(o, g) == \/ o.state = "absent"
               \/ o.state \in EndedTasks /\ o.final /\ o.gen = g

\* A provider that gives one is not executing that attempt.
LEMMA FinalAnswers ==
    ASSUME NEW t, NEW n, NEW g,
           NEW o \in TrueAnswers(t, n, g) \cup Rumours(t, n, g)
                       \cup Misattributed(t, n, g),
           Final(o, g)
    PROVE  t[n][g].state \notin LiveTasks
<1>1. CASE o \in TrueAnswers(t, n, g)
  <2>1. CASE t[n][g].state \in {"absent", "purged"}
    BY <2>1
  <2>2. CASE t[n][g].state \notin {"absent", "purged"}
    <3>1. o.state = t[n][g].state
      BY <1>1, <2>2 DEF TrueAnswers
    <3> QED BY <2>2, <3>1 DEF Final
  <2> QED BY <2>1, <2>2
<1>2. CASE o \in Rumours(t, n, g)
  BY <1>2 DEF Rumours, Final
<1>3. CASE o \in Misattributed(t, n, g)
  <2>1. PICK h : /\ h # g /\ t[n][h].state \notin {"absent", "purged"}
                 /\ o \in TrueAnswers(t, n, h)
    BY <1>3 DEF Misattributed
  <2>2. o.gen = h /\ o.state = t[n][h].state
    BY <2>1 DEF TrueAnswers
  <2> QED BY <2>1, <2>2 DEF Final
<1> QED BY <1>1, <1>2, <1>3

\* Only a true answer reports an absence.
LEMMA RumoursNotAbsent ==
    ASSUME NEW t, NEW n, NEW g, NEW o \in Rumours(t, n, g)
    PROVE  o.state # "absent"
BY DEF Rumours

-----------------------------------------------------------------------------
(* Calls *)

\* A call touches no record but that of the attempt it is about.
LEMMA CallKeeps ==
    ASSUME TypeOK, TypeOK', ExecutionInvariant, ~Idle, step' = step,
           co'.node = co.node, co'.attempt = co.attempt,
           \A m \in Nodes, h \in Generations :
               \/ task'[m][h].state = task[m][h].state
               \/ m = co.node /\ h = co.attempt,
           ReadingsHold'
    PROVE  ExecutionInvariant'
<1>0. co.node \in Nodes /\ co.attempt \in Generations
  BY DEF TypeOK, Idle
<1>1. AttemptHeld /\ AttemptHeld'
  BY DEF ExecutionInvariant, AttemptHeld, Idle
<1>2. NoOrphanExecution'
  <2> SUFFICES ASSUME NEW m \in Nodes, NEW h \in Generations, Live(m, h)'
               PROVE  step[m].attempt = h /\ ~Ended(step[m])
    BY DEF NoOrphanExecution
  <2>1. CASE task'[m][h].state = task[m][h].state
    BY <2>1 DEF ExecutionInvariant, NoOrphanExecution, Live
  <2>2. CASE m = co.node /\ h = co.attempt
    BY <1>1, <2>2 DEF AttemptHeld, Idle
  <2> QED BY <2>1, <2>2
<1>3. FutureUnknown'
  <2> SUFFICES ASSUME NEW m \in Nodes, NEW h \in Generations, h > step[m].gen
               PROVE  task'[m][h].state = "absent"
    BY DEF FutureUnknown
  <2>1. ~(m = co.node /\ h = co.attempt)
    BY <1>0, <1>1, BoundAssumption DEF AttemptHeld, Idle, Generations
  <2> QED BY <2>1 DEF ExecutionInvariant, FutureUnknown
<1>4. AttemptsMinted'
  BY DEF ExecutionInvariant, AttemptsMinted
<1> QED BY <1>1, <1>2, <1>3, <1>4 DEF ExecutionInvariant

\* A reading is kept as long as its attempt's record keeps its state.
LEMMA ReadingsKept ==
    ASSUME ReadingsHold,
           task'[co.node][co.attempt].state = task[co.node][co.attempt].state,
           co'.node = co.node, co'.attempt = co.attempt,
           \/ /\ co'.phase \in {"check", "resolve", "recheck", "starting", "reject"}
              /\ co.phase \in {"check", "resolve", "recheck", "starting", "reject"}
           \/ co'.phase = "erred"
           \/ co'.phase = "observed" /\ co.phase = "looked" /\ co'.obs = co.obs
    PROVE  ReadingsHold'
BY DEF ReadingsHold, Live

\* An answer is a true reading of the records it was made from.
LEMMA AnswerRead ==
    ASSUME NEW o \in TrueAnswers(task', co.node, co.attempt)
                        \cup Rumours(task', co.node, co.attempt)
                        \cup Misattributed(task', co.node, co.attempt),
           co'.node = co.node, co'.attempt = co.attempt, co'.obs = o,
           \/ co'.phase \in {"observed", "looked"}
           \/ co'.phase = "check" /\ o.state = "absent"
    PROVE  ReadingsHold'
<1>1. Final(o, co.attempt) => ~Live(co.node, co.attempt)'
  BY FinalAnswers DEF Live
<1> QED BY <1>1 DEF ReadingsHold, Final

\* The calls keep the invariant.
LEMMA CallsKeep ==
    TypeOK /\ TypeOK' /\ ExecutionInvariant /\ Calls => ExecutionInvariant'
<1> SUFFICES ASSUME TypeOK, TypeOK', ExecutionInvariant, Calls
             PROVE  ExecutionInvariant'
  OBVIOUS
<1>0. ReadingsHold /\ co \in Advancing
  BY DEF ExecutionInvariant, TypeOK
<1>1. ~Idle /\ step' = step
  BY DEF Calls, StopAnswered, StopMisanswered, StopFails, LookupAnswered,
         LookupMisanswered, LookupFails, ChangeAnswered, ChangeMisanswered,
         ChangeFails, ChangeNotDue, StartAnswered, StartMisanswered,
         StartRefused, StartFails, CheckStop, RecheckStop, ResolveSame,
         ResolveChanged, ResolveFails, Goto, Calling, Changing, Starting, Idle
<1>2. co.node \in Nodes /\ co.attempt \in Generations
  BY <1>1 DEF TypeOK, Idle
<1> DEFINE Said == TrueAnswers(task', co.node, co.attempt)
                   \cup Rumours(task', co.node, co.attempt)
                   \cup Misattributed(task', co.node, co.attempt)
           Same == co'.node = co.node /\ co'.attempt = co.attempt
           Elsewhere ==
               \A m \in Nodes, h \in Generations :
                   \/ task'[m][h].state = task[m][h].state
                   \/ m = co.node /\ h = co.attempt
           Unmoved == \A m \in Nodes, h \in Generations :
                          task'[m][h].state = task[m][h].state
\* What a call that was answered, and one that was not, leave behind.
<1>3. ASSUME NEW o \in Said, Observed(o), Elsewhere PROVE ExecutionInvariant'
  <2>1. Same /\ co'.phase = "observed" /\ co'.obs = o
    BY <1>0, <1>3 DEF Observed, Advancing
  <2>2. ReadingsHold'
    BY <2>1, AnswerRead
  <2> QED BY <1>1, <1>3, <2>1, <2>2, CallKeeps
<1>4. ASSUME Erred, Elsewhere PROVE ExecutionInvariant'
  <2>1. Same /\ co'.phase = "erred"
    BY <1>0, <1>4 DEF Erred, Advancing
  <2>2. ReadingsHold'
    BY <2>1 DEF ReadingsHold
  <2> QED BY <1>1, <1>4, <2>1, <2>2, CallKeeps
<1>5. ASSUME Unmoved, Same,
             \/ /\ co'.phase \in {"check", "resolve", "recheck", "starting", "reject"}
                /\ co.phase \in {"check", "resolve", "recheck", "starting", "reject"}
             \/ co'.phase = "erred"
             \/ co'.phase = "observed" /\ co.phase = "looked" /\ co'.obs = co.obs
      PROVE  ExecutionInvariant'
  <2>1. ReadingsHold'
    BY <1>0, <1>2, <1>5, ReadingsKept
  <2> QED BY <1>1, <1>5, <2>1, CallKeeps
<1>6. ASSUME NEW n \in Nodes,
             StopAnswered(n) \/ StopMisanswered(n) \/ StopFails(n)
      PROVE  ExecutionInvariant'
  <2>1. n = co.node /\ (task' = task \/ task' = Halt(n, co.attempt))
    BY <1>6 DEF StopAnswered, StopMisanswered, StopFails, Calling
  <2>2. Elsewhere
    BY <1>2, <2>1, HaltStates
  <2>3. Erred \/ \E o \in Said : Observed(o)
    BY <1>6, <2>1 DEF StopAnswered, StopMisanswered, StopFails
  <2> QED BY <1>3, <1>4, <2>2, <2>3
<1>7. ASSUME NEW n \in Nodes,
             LookupAnswered(n) \/ LookupMisanswered(n) \/ LookupFails(n)
      PROVE  ExecutionInvariant'
  <2>1. n = co.node /\ task' = task
    BY <1>7 DEF LookupAnswered, LookupMisanswered, LookupFails, Calling
  <2>2. Elsewhere
    BY <2>1
  <2>3. \/ Erred
        \/ \E o \in TrueAnswers(task', co.node, co.attempt)
                  \cup Rumours(task', co.node, co.attempt) : LookedUp(o)
    BY <1>7, <2>1 DEF LookupAnswered, LookupMisanswered, LookupFails
  <2>4. ASSUME NEW o \in TrueAnswers(task', co.node, co.attempt)
                         \cup Rumours(task', co.node, co.attempt),
               LookedUp(o)
        PROVE  ExecutionInvariant'
    <3>1. /\ Same /\ co'.obs = o
          /\ \/ co'.phase \in {"looked", "observed"}
             \/ co'.phase = "check" /\ o.state = "absent"
      BY <1>0, <2>4 DEF LookedUp, StartDue, Advancing
    <3>2. ReadingsHold'
      BY <2>4, <3>1, AnswerRead
    <3> QED BY <1>1, <2>2, <3>1, <3>2, CallKeeps
  <2> QED BY <1>4, <2>2, <2>3, <2>4
<1>8. ASSUME NEW n \in Nodes,
             \/ ChangeAnswered(n) \/ ChangeMisanswered(n)
             \/ ChangeFails(n) \/ ChangeNotDue(n)
      PROVE  ExecutionInvariant'
  <2>1. /\ n = co.node /\ co.phase = "looked"
        /\ task' = task \/ task' = Adopt(n, co.attempt)
    BY <1>8 DEF ChangeAnswered, ChangeMisanswered, ChangeFails, ChangeNotDue,
                Changing
  <2>2. Unmoved
    BY <1>2, <2>1, AdoptStates
  <2>3. CASE ChangeAnswered(n) \/ ChangeMisanswered(n)
    BY <1>3, <2>1, <2>2, <2>3 DEF ChangeAnswered, ChangeMisanswered
  <2>4. CASE ChangeFails(n) \/ ChangeNotDue(n)
    <3>1. Same /\ co'.phase = "observed" /\ co'.obs = co.obs
      BY <1>0, <2>4 DEF ChangeFails, ChangeNotDue, Advancing
    <3> QED BY <1>5, <2>1, <2>2, <3>1
  <2> QED BY <1>8, <2>3, <2>4
<1>9. ASSUME NEW n \in Nodes,
             StartAnswered(n) \/ StartMisanswered(n) \/ StartFails(n)
      PROVE  ExecutionInvariant'
  <2>1. /\ n = co.node
        /\ task' = task \/ task' = Accept(n, co.attempt, co.config)
    BY <1>9 DEF StartAnswered, StartMisanswered, StartFails, Abandon, Starting
  <2>2. Elsewhere
    BY <1>2, <2>1, AcceptStates
  <2>3. Erred \/ \E o \in Said : Observed(o)
    BY <1>9, <2>1 DEF StartAnswered, StartMisanswered, StartFails
  <2> QED BY <1>3, <1>4, <2>2, <2>3
<1>10. ASSUME NEW n \in Nodes, StartRefused(n) PROVE ExecutionInvariant'
  <2>1. Same /\ co'.phase = "reject" /\ co.phase = "starting" /\ task' = task
    BY <1>0, <1>10 DEF StartRefused, Starting, Advancing
  <2> QED BY <1>5, <2>1
<1>11. CASE \/ CheckStop \/ RecheckStop
            \/ ResolveSame \/ ResolveChanged \/ ResolveFails
  <2>1. /\ Same /\ task' = task
        /\ co.phase \in {"check", "resolve", "recheck"}
        /\ co'.phase \in {"resolve", "recheck", "starting", "reject", "erred"}
    BY <1>0, <1>11 DEF CheckStop, RecheckStop, ResolveSame, ResolveChanged,
                       ResolveFails, Goto, Advancing
  <2> QED BY <1>5, <2>1
<1> QED BY <1>6, <1>7, <1>8, <1>9, <1>10, <1>11 DEF Calls

-----------------------------------------------------------------------------
(* Commands and providers *)

\* So do the commands.
LEMMA CommandsKeep ==
    TypeOK /\ TypeOK' /\ ExecutionInvariant /\ Commands => ExecutionInvariant'
<1> SUFFICES ASSUME TypeOK, TypeOK', ExecutionInvariant, Commands
             PROVE  ExecutionInvariant'
  OBVIOUS
<1>1. step \in [Nodes -> Step] /\ task' = task /\ co' = co
  BY DEF TypeOK, Commands, ReadRun, StopRun, ResumeRun, ChangeOnline
<1>2. ASSUME \A m \in Nodes : Alike(step[m], step'[m])
      PROVE  ExecutionInvariant'
  BY <1>1, <1>2, EditsKeep
<1>3. CASE ReadRun
  <2>1. \A m \in Nodes : Alike(step[m], step'[m])
    BY <1>3 DEF ReadRun, Alike
  <2> QED BY <1>2, <2>1
<1>4. CASE StopRun
  <2>1. \A m \in Nodes : Alike(step[m], step'[m])
    BY <1>1, <1>4 DEF StopRun, Alike, Ended, Step
  <2> QED BY <1>2, <2>1
<1>5. ASSUME NEW n \in Nodes, NEW c \in Configs, ChangeOnline(n, c)
      PROVE  ExecutionInvariant'
  <2>1. \A m \in Nodes : Alike(step[m], step'[m])
    BY <1>1, <1>5 DEF ChangeOnline, Alike, Ended, Step
  <2> QED BY <1>2, <2>1
<1>6. CASE ResumeRun
  \* Every step has ended, so nothing executes and nothing is under way.
  <2>1. AllEnded(step)
    BY <1>6 DEF ResumeRun
  <2>2. \A m \in Nodes, g \in Generations : ~Live(m, g)
    BY <2>1 DEF AllEnded, ExecutionInvariant, NoOrphanExecution
  <2>3. Idle'
    BY <1>1, <2>1 DEF AllEnded, ExecutionInvariant, AttemptHeld, TypeOK, Idle
  <2>4. ASSUME NEW m \in Nodes
        PROVE  Alike(step[m], step'[m]) \/ Freed(m, step'[m])
    <3>1. step'[m] = Reopened(step[m]) /\ step[m] \in Step
      BY <1>1, <1>6 DEF ResumeRun
    <3>2. CASE step[m].state = "succeeded"
      BY <3>1, <3>2 DEF Reopened, Alike
    <3>3. CASE step[m].state # "succeeded"
      BY <2>2, <3>1, <3>3 DEF Reopened, Freed, Bare, Step
    <3> QED BY <3>2, <3>3
  <2> QED BY <1>1, <2>3, <2>4, EditsKeep
<1> QED BY <1>3, <1>4, <1>5, <1>6 DEF Commands

\* A provider's own step never brings an execution to life.
LEMMA ProvidersKeep ==
    TypeOK /\ ExecutionInvariant /\ late = {} /\ Providers
        => ExecutionInvariant'
<1> SUFFICES ASSUME TypeOK, ExecutionInvariant, late = {}, Providers
             PROVE  ExecutionInvariant'
  OBVIOUS
<1>1. step' = step /\ co' = co
  BY DEF Providers, TaskRuns, TaskEnds, TaskPurged, LateStart
<1>2. ASSUME NEW m \in Nodes, NEW h \in Generations
      PROVE  \/ task'[m][h].state = task[m][h].state
             \/ /\ task[m][h].state # "absent"
                /\ Live(m, h)' => Live(m, h)
  <2>1. PICK n \in Nodes, g \in Generations :
           TaskRuns(n, g) \/ TaskEnds(n, g) \/ TaskPurged(n, g)
    BY DEF Providers
  <2>2. task \in [Nodes -> [Generations -> Task]]
    BY DEF TypeOK
  <2>3. CASE TaskRuns(n, g)
    BY <2>2, <2>3 DEF TaskRuns, Live, Task
  <2>4. CASE TaskEnds(n, g)
    BY <2>2, <2>4 DEF TaskEnds, Live, Task
  <2>5. CASE TaskPurged(n, g)
    BY <2>2, <2>5 DEF TaskPurged, Live, Task
  <2> QED BY <2>1, <2>3, <2>4, <2>5
<1>3. \A m \in Nodes, h \in Generations : Live(m, h)' => Live(m, h)
  BY <1>2 DEF Live
<1>4. NoOrphanExecution' /\ FutureUnknown'
  BY <1>1, <1>2, <1>3 DEF ExecutionInvariant, NoOrphanExecution, FutureUnknown
<1>5. AttemptsMinted' /\ AttemptHeld'
  BY <1>1 DEF ExecutionInvariant, AttemptsMinted, AttemptHeld
<1>6. ReadingsHold'
  BY <1>1, <1>3 DEF ExecutionInvariant, ReadingsHold, TypeOK
<1> QED BY <1>4, <1>5, <1>6 DEF ExecutionInvariant

-----------------------------------------------------------------------------
(* The tick and its transactions *)

\* Going on with the tick's snapshot ends the advance.
LEMMA OnwardIdle ==
    ASSUME TypeOK, NEW todo \in SUBSET Nodes, co' = Onward(todo)
    PROVE  Idle'
BY OnwardTyped DEF TypeOK, Idle

\* A step that leaves runs, steps and tasks keeps it.
LEMMA UntouchedKeeps ==
    ASSUME TypeOK, TypeOK', ExecutionInvariant, task' = task, step' = step, Idle'
    PROVE  ExecutionInvariant'
<1>1. \A m \in Nodes : Alike(step[m], step'[m])
  BY DEF Alike
<1> QED BY <1>1, EditsKeep

\* So do the steps of tick and of prepare.
LEMMA TickingKeeps ==
    TypeOK /\ TypeOK' /\ ExecutionInvariant /\ Ticking => ExecutionInvariant'
<1> SUFFICES ASSUME TypeOK, TypeOK', ExecutionInvariant, Ticking
             PROVE  ExecutionInvariant'
  OBVIOUS
<1>1. step \in [Nodes -> Step] /\ task' = task /\ co \in Advancing
  BY DEF TypeOK, Ticking, TickBegin, StopUndispatched, SkipUnconnected,
         PrepareNothing, PrepareStop, Dispatch, PrepareOpen
<1>2. \A g \in Generations : g # 0
  BY BoundAssumption DEF Generations
<1>3. ASSUME NEW n \in Nodes, Leave(n) PROVE Idle'
  BY <1>1, <1>3, OnwardIdle DEF Leave, Advancing
<1>4. ASSUME NEW n \in Nodes, Bare(step[n]), Idle',
             Aggregate(run, [step EXCEPT ![n].state = "stopped"])
      PROVE  ExecutionInvariant'
  <2> DEFINE s == [step[n] EXCEPT !.state = "stopped"]
  <2>1. s \in Step /\ [step EXCEPT ![n].state = "stopped"] = [step EXCEPT ![n] = s]
    BY <1>1 DEF Step, StepStates
  <2>2. \A g \in Generations : ~Live(n, g)
    BY <1>2, <1>4 DEF Bare, ExecutionInvariant, NoOrphanExecution
  <2>3. Freed(n, s)
    BY <1>1, <1>4, <2>2 DEF Freed, Bare, Step
  <2> QED BY <1>1, <1>4, <2>1, <2>3, RulingKeeps
<1>5. CASE TickBegin
  <2>1. Idle'
    BY <1>5, AtRestTyped DEF TickBegin, Idle, Advancing
  <2> QED BY <1>1, <1>5, <2>1, UntouchedKeeps DEF TickBegin
<1>6. ASSUME NEW n \in Nodes, StopUndispatched(n) PROVE ExecutionInvariant'
  <2>1. Idle'
    BY <1>3, <1>6 DEF StopUndispatched
  <2>2. CASE run = "stopping" /\ Bare(step[n]) /\ ~Ended(step[n])
    BY <1>4, <1>6, <2>1, <2>2 DEF StopUndispatched
  <2>3. CASE ~(run = "stopping" /\ Bare(step[n]) /\ ~Ended(step[n]))
    BY <1>1, <1>6, <2>1, <2>3, UntouchedKeeps DEF StopUndispatched
  <2> QED BY <2>2, <2>3
<1>7. ASSUME NEW n \in Nodes, SkipUnconnected(n) \/ PrepareNothing(n)
      PROVE  ExecutionInvariant'
  BY <1>1, <1>3, <1>7, UntouchedKeeps DEF SkipUnconnected, PrepareNothing
<1>8. ASSUME NEW n \in Nodes, PrepareStop(n) PROVE ExecutionInvariant'
  BY <1>3, <1>4, <1>8 DEF PrepareStop
\* The snapshot taken of an attempt that the step now has.
<1>9. ASSUME NEW n \in Nodes, NEW r \in RunStates,
             co' = Prepared(n, r, step'[n]), ~Ended(step'[n]),
             step'[n].attempt = step'[n].gen
      PROVE  AttemptHeld' /\ ReadingsHold'
  <2>1. /\ co'.phase = "prepared" /\ co'.node = n
        /\ co'.attempt = step'[n].attempt
    BY <1>1, <1>9, PreparedTyped, AtRestTyped
       DEF Prepared, AtRest, TypeOK
  <2> QED BY <1>9, <2>1 DEF AttemptHeld, ReadingsHold
<1>10. ASSUME NEW n \in Nodes, PrepareOpen(n) PROVE ExecutionInvariant'
  <2>1. step' = step /\ co' = Prepared(n, run, step[n])
        /\ ~Ended(step[n]) /\ ~Bare(step[n])
    BY <1>10 DEF PrepareOpen
  <2>2. step[n].attempt = step[n].gen /\ run \in RunStates
    BY <2>1 DEF ExecutionInvariant, AttemptsMinted, Bare, TypeOK
  <2>3. AttemptHeld' /\ ReadingsHold'
    BY <1>9, <2>1, <2>2
  <2> QED BY <1>1, <2>1, <2>3 DEF ExecutionInvariant, NoOrphanExecution,
                                  AttemptsMinted, FutureUnknown, Live
<1>11. ASSUME NEW n \in Nodes, Dispatch(n) PROVE ExecutionInvariant'
  <2> DEFINE g == step[n].gen + 1
             s == [step[n] EXCEPT !.attempt = g, !.gen = g,
                                  !.state = "dispatching"]
  <2>1. /\ step' = [step EXCEPT ![n] = s]
        /\ co' = Prepared(n, "running", s)
        /\ step[n].state = "pending" /\ step[n].gen < MaxGeneration
    BY <1>11 DEF Dispatch, Ready
  <2>2. step[n].gen \in Nat /\ g \in Generations
    BY <1>1, <2>1, Numbers, BoundAssumption DEF Step, Attempts
  <2>3. /\ s.attempt = g /\ s.gen = g /\ s.state = "dispatching"
        /\ step'[n] = s
    BY <1>1, <2>1 DEF Step
  <2>4. AttemptHeld' /\ ReadingsHold'
    BY <1>9, <2>1, <2>3 DEF Ended, RunStates, TerminalRuns
  <2>5. \A h \in Generations : ~Live(n, h)
    BY <1>2, <2>1 DEF ExecutionInvariant, NoOrphanExecution, AttemptsMinted, Bare
  <2>6. NoOrphanExecution'
    BY <1>1, <2>1, <2>5 DEF ExecutionInvariant, NoOrphanExecution, Live
  <2>7. AttemptsMinted'
    BY <1>1, <2>1, <2>3 DEF ExecutionInvariant, AttemptsMinted
  <2>8. FutureUnknown'
    <3> SUFFICES ASSUME NEW m \in Nodes, NEW h \in Generations,
                        h > step'[m].gen
                 PROVE  task[m][h].state = "absent"
      BY <1>1 DEF FutureUnknown
    <3>1. CASE m = n
      <4>1. step'[n].gen = step[n].gen + 1
        BY <2>3
      <4>2. h \in Nat
        BY BoundAssumption DEF Generations
      <4> HIDE DEF s
      <4>3. h > step[n].gen
        BY <2>2, <3>1, <4>1, <4>2
      <4> QED BY <3>1, <4>3 DEF ExecutionInvariant, FutureUnknown
    <3>2. CASE m # n
      BY <1>1, <2>1, <3>2 DEF ExecutionInvariant, FutureUnknown
    <3> QED BY <3>1, <3>2
  <2> QED BY <2>4, <2>6, <2>7, <2>8 DEF ExecutionInvariant
<1> QED BY <1>5, <1>6, <1>7, <1>8, <1>10, <1>11 DEF Ticking

-----------------------------------------------------------------------------
(* The closing transactions *)

\* What an observation does to the step: it stays open and its attempt's, or
\* the provider has said that the attempt is over.
LEMMA AfterObservationSteps ==
    ASSUME TypeOK, NEW n \in Nodes, Current(n), co.obs.state # "absent",
           AfterObservation(n) \in Step
    PROVE  LET s == AfterObservation(n) IN
           /\ s.gen = step[n].gen
           /\ s.attempt \in {0, step[n].attempt}
           /\ s.state = "pending" => s.attempt = 0
           /\ \/ ~Ended(s) /\ s.attempt = step[n].attempt /\ s.state # "pending"
              \/ co.obs.state \in EndedTasks /\ co.obs.final
<1> DEFINE o == co.obs
           noted == Noted(n)
           s == Applied([noted EXCEPT !.state = Outcome(o), !.note = "other"], o)
           doubtful == [noted EXCEPT !.state = "unknown", !.note = "unconfirmed",
                                     !.waits = TRUE]
           again == [s EXCEPT !.state = "pending", !.retries = @ + 1,
                              !.attempt = 0, !.change = "none", !.waits = TRUE]
           over == [s EXCEPT !.change = "none"]
           w == o.state = "unknown"
           on == [s EXCEPT !.waits = w]
<1>0. step[n] \in Step /\ o \in Observation /\ o.state # "absent"
  BY DEF TypeOK, Advancing
<1>1. AfterObservation(n) = IF Unconfirmed(o) THEN doubtful
                            ELSE IF Retries(n) THEN again
                            ELSE IF Ended(s) THEN over ELSE on
  BY DEF AfterObservation
<1>2. /\ noted \in Step /\ noted.gen = step[n].gen
      /\ noted.attempt = step[n].attempt
  BY <1>0 DEF Noted, Step
<1>3. /\ Outcome(o) \in StepStates /\ Outcome(o) # "pending"
      /\ Outcome(o) \in TerminalSteps => o.state \in EndedTasks
  BY <1>0 DEF Outcome, Observation, TaskStates, StepStates
<1>4. /\ s \in Step /\ s.gen = step[n].gen /\ s.attempt = step[n].attempt
      /\ s.state = Outcome(o)
  BY <1>0, <1>2, <1>3 DEF Applied, Step, Notes, Observation
<1> HIDE DEF noted, s, w
<1>5. /\ doubtful.gen = step[n].gen /\ doubtful.attempt = step[n].attempt
      /\ doubtful.state = "unknown"
  BY <1>2 DEF Step
<1>6. again.gen = step[n].gen /\ again.attempt = 0 /\ again.state = "pending"
  BY <1>4 DEF Step
<1>7. /\ over.gen = step[n].gen /\ over.attempt = step[n].attempt
      /\ over.state = Outcome(o)
  BY <1>4 DEF Step
<1>8. /\ on.gen = step[n].gen /\ on.attempt = step[n].attempt
      /\ on.state = Outcome(o)
  BY <1>4 DEF Step
<1> HIDE DEF doubtful, again, over, on
<1>9. CASE Unconfirmed(o)
  BY <1>1, <1>5, <1>9 DEF Ended
<1>10. CASE ~Unconfirmed(o) /\ Retries(n)
  BY <1>1, <1>6, <1>10 DEF Unconfirmed, Retries
<1>11. CASE ~Unconfirmed(o) /\ ~Retries(n) /\ Ended(s)
  BY <1>1, <1>3, <1>4, <1>7, <1>11 DEF Unconfirmed, Ended
<1>12. CASE ~Unconfirmed(o) /\ ~Retries(n) /\ ~Ended(s)
  BY <1>1, <1>3, <1>4, <1>8, <1>12 DEF Ended
<1> QED BY <1>9, <1>10, <1>11, <1>12

\* So do the closing transactions.
LEMMA CommitsKeep ==
    TypeOK /\ TypeOK' /\ ExecutionInvariant /\ Commits => ExecutionInvariant'
<1> SUFFICES ASSUME TypeOK, TypeOK', ExecutionInvariant,
                    NEW n \in Nodes,
                    \/ RejectUnstarted(n) \/ RecordUnknown(n)
                    \/ CommitDiscarded(n) \/ CommitAbsent(n)
                    \/ CommitObservation(n)
             PROVE  ExecutionInvariant'
  BY DEF Commits
<1>1. /\ step \in [Nodes -> Step] /\ step[n] \in Step
      /\ task' = task /\ co \in Advancing
  BY DEF TypeOK, RejectUnstarted, RecordUnknown, CommitDiscarded,
         CommitAbsent, CommitObservation
<1>2. Idle'
  <2>1. Done
    BY DEF RejectUnstarted, RecordUnknown, CommitDiscarded, CommitAbsent,
           CommitObservation
  <2> QED BY <1>1, <2>1, OnwardIdle DEF Done, Advancing
<1>3. co.node = n /\ ~Idle /\ co.attempt \in Generations
  BY DEF RejectUnstarted, RecordUnknown, CommitDiscarded, CommitAbsent,
         CommitObservation, Committing, Idle, TypeOK
<1>4. step[n].attempt = co.attempt /\ step[n].gen = co.attempt /\ ~Ended(step[n])
  BY <1>3 DEF ExecutionInvariant, AttemptHeld, Idle
\* If the attempt at hand does not execute, none of the step's does.
<1>5. ASSUME ~Live(n, co.attempt), NEW g \in Generations PROVE ~Live(n, g)
  BY <1>4, <1>5 DEF ExecutionInvariant, NoOrphanExecution
<1>6. ASSUME NEW s \in Step, s.gen = step[n].gen, s.attempt = step[n].attempt,
             s.state # "pending", ~Live(n, co.attempt)
      PROVE  Freed(n, s)
  BY <1>4, <1>5, <1>6 DEF Freed
<1>7. CASE RejectUnstarted(n)
  <2> DEFINE q == IF run = "stopping" THEN "stopped" ELSE "failed"
             s == [step[n] EXCEPT !.state = q, !.note = "other"]
  <2>1. q \in StepStates /\ q # "pending" /\ "other" \in Notes
    BY DEF StepStates, Notes
  <2>2. Aggregate(run, [step EXCEPT ![n] = s])
    BY <1>4, <1>7 DEF RejectUnstarted
  <2>3. /\ s \in Step /\ s.gen = step[n].gen /\ s.attempt = step[n].attempt
        /\ s.state # "pending"
    <3> HIDE DEF q
    <3>1. s \in Step
      BY <1>1, <2>1, RestatedTyped
    <3>2. s.gen = step[n].gen /\ s.attempt = step[n].attempt /\ s.state = q
      BY <1>1 DEF Step
    <3> QED BY <2>1, <3>1, <3>2
  <2>4. ~Live(n, co.attempt)
    BY <1>3, <1>7 DEF RejectUnstarted, ExecutionInvariant, ReadingsHold
  <2>5. Freed(n, s)
    BY <1>6, <2>3, <2>4
  <2> QED BY <1>1, <1>2, <2>2, <2>3, <2>5, RulingKeeps
<1>8. CASE RecordUnknown(n)
  <2>1. step' = [step EXCEPT ![n] = Doubted(step[n])]
    BY <1>4, <1>8 DEF RecordUnknown
  <2>2. /\ Doubted(step[n]).gen = step[n].gen
        /\ Doubted(step[n]).attempt = step[n].attempt
        /\ Doubted(step[n]).state \in {"dispatching", "unknown"}
    BY <1>1 DEF Doubted, Step
  <2>3. \A m \in Nodes : Alike(step[m], step'[m])
    BY <1>1, <1>4, <2>1, <2>2 DEF Alike, Ended
  <2> QED BY <1>1, <1>2, <2>3, EditsKeep
<1>9. CASE CommitDiscarded(n)
  BY <1>1, <1>2, <1>9, UntouchedKeeps DEF CommitDiscarded
<1>10. CASE CommitAbsent(n)
  <2>1. ~Live(n, co.attempt)
    BY <1>3, <1>10 DEF CommitAbsent, Committing, ExecutionInvariant, ReadingsHold
  <2>2. /\ {"stopped", "unknown"} \subseteq StepStates
        /\ {"other", "missing"} \subseteq Notes
    BY DEF StepStates, Notes
  <2>3. CASE run = "stopping"
    <3> DEFINE s == [step[n] EXCEPT !.state = "stopped", !.note = "other",
                                    !.waits = TRUE]
    <3>1. s \in Step
      BY <1>1, <2>2, RestatedTyped
    <3>2. /\ s.gen = step[n].gen /\ s.attempt = step[n].attempt
          /\ s.state # "pending"
      BY <1>1 DEF Step
    <3>3. Freed(n, s)
      BY <1>6, <2>1, <3>1, <3>2
    <3>4. Aggregate(run, [step EXCEPT ![n] = s])
      BY <1>10, <2>3 DEF CommitAbsent
    <3> QED BY <1>1, <1>2, <3>1, <3>3, <3>4, RulingKeeps
  <2>4. CASE run # "stopping"
    <3> DEFINE s == [step[n] EXCEPT !.state = "unknown", !.note = "missing",
                                    !.waits = TRUE]
    <3>1. step' = [step EXCEPT ![n] = s]
      BY <1>10, <2>4 DEF CommitAbsent
    <3>2. /\ s.gen = step[n].gen /\ s.attempt = step[n].attempt
          /\ s.state = "unknown"
      BY <1>1 DEF Step
    <3>3. \A m \in Nodes : Alike(step[m], step'[m])
      <4> HIDE DEF s
      <4> QED BY <1>1, <1>4, <3>1, <3>2 DEF Alike, Ended
    <3> QED BY <1>1, <1>2, <3>3, EditsKeep
  <2> QED BY <2>3, <2>4
<1>11. CASE CommitObservation(n)
  <2> DEFINE s == AfterObservation(n)
  <2>1. /\ Current(n) /\ co.obs.state # "absent" /\ co.obs.gen = co.attempt
        /\ co.phase = "observed"
        /\ Aggregate(run, [step EXCEPT ![n] = s])
    BY <1>4, <1>11 DEF CommitObservation, Committing
  <2>2. s \in Step
    BY <2>1, AfterObservationTyped
  <2>3. /\ s.gen = step[n].gen
        /\ s.attempt \in {0, step[n].attempt}
        /\ s.state = "pending" => s.attempt = 0
        /\ \/ ~Ended(s) /\ s.attempt = step[n].attempt /\ s.state # "pending"
           \/ co.obs.state \in EndedTasks /\ co.obs.final
    BY <2>1, <2>2, AfterObservationSteps
  <2> HIDE DEF s
  <2>4. Alike(step[n], s) \/ Freed(n, s)
    <3>1. CASE ~Ended(s) /\ s.attempt = step[n].attempt /\ s.state # "pending"
      BY <1>4, <2>3, <3>1 DEF Alike
    <3>2. CASE co.obs.state \in EndedTasks /\ co.obs.final
      <4>1. ~Live(n, co.attempt)
        BY <1>3, <2>1, <3>2 DEF ExecutionInvariant, ReadingsHold
      <4> QED BY <1>4, <1>5, <2>3, <4>1 DEF Freed, Bare
    <3> QED BY <2>3, <3>1, <3>2
  <2> QED BY <1>1, <1>2, <2>1, <2>2, <2>4, RulingKeeps
<1> QED BY <1>7, <1>8, <1>9, <1>10, <1>11

-----------------------------------------------------------------------------
(* The store, time and the process *)

\* So do time, a failing store and a restart.
LEMMA OthersKeep ==
    ASSUME TypeOK, TypeOK', ExecutionInvariant,
           (\E n \in Nodes : Elapse(n)) \/ StoreFails \/ Restart
    PROVE  ExecutionInvariant'
<1>1. step \in [Nodes -> Step] /\ co \in Advancing
  BY DEF TypeOK
<1>2. ASSUME NEW n \in Nodes, Elapse(n) PROVE ExecutionInvariant'
  <2>1. \A m \in Nodes : Alike(step[m], step'[m])
    BY <1>1, <1>2 DEF Elapse, Alike, Ended, Step
  <2> QED BY <1>2, <2>1, EditsKeep DEF Elapse
<1>3. CASE StoreFails
  <2>0. task' = task /\ step' = step
    BY <1>3 DEF StoreFails
  <2>1. CASE Idle'
    BY <2>0, <2>1, UntouchedKeeps
  <2>2. CASE ~Idle'
    <3>1. Erred /\ ~Idle
      <4>1. ASSUME NEW n \in Nodes, Visit(n),
                   co' = IF n \in co.bare THEN AtRest ELSE Onward(co.todo \ {n})
            PROVE  Idle'
        BY <1>1, <4>1, AtRestTyped, OnwardIdle DEF Idle, Advancing
      <4>2. Done => Idle'
        BY <1>1, OnwardIdle DEF Done, Advancing
      <4> QED BY <1>3, <2>2, <4>1, <4>2 DEF StoreFails, Idle
    <3>2. /\ co'.phase = "erred" /\ co'.node = co.node
          /\ co'.attempt = co.attempt
      BY <1>1, <3>1 DEF Erred, Advancing
    <3>3. ReadingsHold'
      BY <3>2 DEF ReadingsHold
    <3> QED BY <2>0, <3>1, <3>2, <3>3, CallKeeps
  <2> QED BY <2>1, <2>2
<1>4. CASE Restart
  <2>1. Idle' /\ step' = step
    BY <1>4, AtRestTyped DEF Restart, Idle
  <2>2. CASE task' = task
    BY <2>1, <2>2, UntouchedKeeps
  \* The start that was under way is accepted all the same.
  <2>3. CASE /\ co.phase = "starting"
             /\ task' = Accept(co.node, co.attempt, co.config)
    <3>1. /\ ~Idle /\ co.node \in Nodes /\ co.attempt \in Generations
      BY <2>3 DEF TypeOK, Idle
    <3>2. /\ step[co.node].attempt = co.attempt
          /\ step[co.node].gen = co.attempt /\ ~Ended(step[co.node])
      BY <3>1 DEF ExecutionInvariant, AttemptHeld, Idle
    <3>3. \A m \in Nodes, h \in Generations :
             \/ task'[m][h].state = task[m][h].state
             \/ m = co.node /\ h = co.attempt
      BY <2>3, <3>1, AcceptStates
    <3>4. NoOrphanExecution'
      BY <2>1, <3>2, <3>3 DEF ExecutionInvariant, NoOrphanExecution, Live
    <3>5. FutureUnknown'
      <4>1. \A m \in Nodes, h \in Generations :
               h > step[m].gen => ~(m = co.node /\ h = co.attempt)
        BY <3>1, <3>2, BoundAssumption DEF Generations
      <4> QED BY <2>1, <3>3, <4>1 DEF ExecutionInvariant, FutureUnknown
    <3>6. AttemptsMinted' /\ AttemptHeld' /\ ReadingsHold'
      BY <2>1 DEF ExecutionInvariant, AttemptsMinted, Idle, AttemptHeld,
                  ReadingsHold
    <3> QED BY <3>4, <3>5, <3>6 DEF ExecutionInvariant
  <2> QED BY <1>4, <2>2, <2>3 DEF Restart, Abandon
<1> QED BY <1>2, <1>3, <1>4

-----------------------------------------------------------------------------
(* The invariant *)

\* The invariant holds of a new run.
LEMMA ExecutionInit == Init => ExecutionInvariant
<1> SUFFICES ASSUME Init PROVE ExecutionInvariant
  OBVIOUS
<1>1. \A n \in Nodes, g \in Generations : task[n][g].state = "absent"
  BY DEF Init, NewTask
<1>2. NoOrphanExecution /\ FutureUnknown
  BY <1>1 DEF NoOrphanExecution, FutureUnknown, Live
<1>3. AttemptsMinted
  BY DEF Init, AttemptsMinted, Bare
<1>4. AttemptHeld /\ ReadingsHold
  BY DEF Init, AtRest, AttemptHeld, ReadingsHold
<1> QED BY <1>2, <1>3, <1>4 DEF ExecutionInvariant

\* No letter is ever posted where calls do not outlive their answer.
LEMMA NoMail ==
    ASSUME ~LateDelivery
    PROVE  late = {} /\ [Next]_vars => late' = {}
<1> SUFFICES ASSUME late = {}, [Next]_vars PROVE late' = {}
  OBVIOUS
<1>1. CASE UNCHANGED vars
  BY <1>1 DEF vars
<1>2. CASE Commands \/ Ticking \/ Commits
  BY <1>2 DEF Commands, ReadRun, StopRun, ResumeRun, ChangeOnline, Ticking,
     TickBegin, StopUndispatched, SkipUnconnected, PrepareNothing, PrepareStop,
     Dispatch, PrepareOpen, Commits, RejectUnstarted, RecordUnknown,
     CommitDiscarded, CommitAbsent, CommitObservation
<1>3. CASE Providers
  BY <1>3 DEF Providers, TaskRuns, TaskEnds, TaskPurged, LateStart
<1>4. CASE Calls
  BY <1>4 DEF Calls, StopAnswered, StopMisanswered, StopFails, LookupAnswered,
     LookupMisanswered, LookupFails, ChangeAnswered, ChangeMisanswered,
     ChangeFails, ChangeNotDue, StartAnswered, StartMisanswered, StartRefused,
     StartFails, Abandon, CheckStop, RecheckStop, ResolveSame, ResolveChanged,
     ResolveFails, Goto
<1>5. CASE (\E n \in Nodes : Elapse(n)) \/ StoreFails \/ Restart
  BY <1>5 DEF Elapse, StoreFails, Restart, Abandon
<1> QED BY <1>1, <1>2, <1>3, <1>4, <1>5 DEF Next, Undisturbed

\* The induction step.
LEMMA ExecutionNext ==
    TypeOK /\ ExecutionInvariant /\ late = {} /\ [Next]_vars
        => ExecutionInvariant'
<1> SUFFICES ASSUME TypeOK, ExecutionInvariant, late = {}, [Next]_vars
             PROVE  ExecutionInvariant'
  OBVIOUS
<1>1. TypeOK'
  BY TypeNext
<1>2. CASE UNCHANGED vars
  BY <1>2 DEF vars, ExecutionInvariant, NoOrphanExecution, AttemptsMinted,
              FutureUnknown, AttemptHeld, ReadingsHold, Live
<1>3. CASE Next
  BY <1>1, <1>3, CommandsKeep, ProvidersKeep, TickingKeeps, CallsKeep,
     CommitsKeep, OthersKeep DEF Next, Undisturbed
<1> QED BY <1>2, <1>3

\* Where no start outlives its call, ExecutionInvariant holds in every
\* reachable state: who minted an attempt, what the coordinator read of it and
\* what a provider may have of it.
THEOREM InvariantHolds == Spec => [](LateDelivery \/ ExecutionInvariant)
<1> DEFINE Inv == LateDelivery \/ (late = {} /\ ExecutionInvariant)
<1>1. Init => Inv
  BY ExecutionInit DEF Init
<1>2. TypeOK /\ Inv /\ [Next]_vars => Inv'
  BY NoMail, ExecutionNext
<1>3. Inv => LateDelivery \/ ExecutionInvariant
  OBVIOUS
<1> HIDE DEF Inv
<1> QED BY <1>1, <1>2, <1>3, TypeCorrect, PTL DEF Spec

\* Then whatever a provider executes is the current attempt of a step that
\* Studio holds open, across failed calls, restarts, stops, retries and resumes
\* of any number.
THEOREM NoOrphans == Spec => [](LateDelivery \/ NoOrphanExecution)
<1>1. ExecutionInvariant => NoOrphanExecution
  BY DEF ExecutionInvariant
<1> QED BY <1>1, InvariantHolds, PTL

\* There are then never two executions of a step.
THEOREM OneExecutionEach == Spec => [](LateDelivery \/ OneExecution)
<1>1. NoOrphanExecution => OneExecution
  BY DEF NoOrphanExecution, OneExecution
<1> QED BY <1>1, NoOrphans, PTL

-----------------------------------------------------------------------------
(* What a step of the specification does to the steps of the run *)

\* The coordinator has a step in hand.
InHand == co.phase \notin {"rest", "scan"}

\* The provider's record of an attempt is a success, or of an end, or was before
\* it went.
Won(n, g)   == task[n][g].state \in {"succeeded", "purged"}
Spent(n, g) == task[n][g].state \in EndedTasks \cup {"purged"}

\* An observation of n's last attempt is about to be recorded, and it is one by
\* which the attempt failed, or succeeded.
Heeding(n) == /\ co.phase = "observed" /\ co.node = n
              /\ co.obs.gen = co.attempt
              /\ co.attempt = step[n].attempt /\ co.attempt = step[n].gen
Failing(n)    == Heeding(n) /\ co.obs.final
Confirming(n) == Heeding(n) /\ co.obs.final /\ co.obs.state = "succeeded"

\* Short of a dispatch a step keeps its generation, its configuration and a
\* success, with what it is known to have been executed with.  It gets another
\* configuration and a change only while it runs, runs or succeeds only by such
\* an observation, and waits again only after a failure or a resume.
Carried(n, s) ==
    /\ s.gen = step[n].gen
    /\ s.attempt \in {0, step[n].attempt}
    /\ s.config # step[n].config => step[n].state = "running"
    /\ s.change # "none" => step[n].change # "none" \/ step[n].state = "running"
    /\ s.state = "running" => step[n].state = "running" \/ Heeding(n)
    /\ s.state = "pending" => \/ /\ step[n].state = "pending"
                                 /\ s.attempt = step[n].attempt
                              \/ /\ s.attempt = 0 /\ s.change = "none"
                                 /\ ResumeRun \/ Failing(n)
    /\ step[n].state = "succeeded" =>
           s.state = "succeeded" /\ s.actual = step[n].actual
    /\ s.state = "succeeded" =>
           \/ step[n].state = "succeeded"
           \/ /\ Confirming(n)
              /\ co.obs.applied # None => s.actual = co.obs.applied

\* One step edited, with or without aggregate's conclusions.
LEMMA EditCarried ==
    ASSUME TypeOK, NEW n \in Nodes, NEW s \in Step, Carried(n, s),
           \/ step' = [step EXCEPT ![n] = s]
           \/ Aggregate(run, [step EXCEPT ![n] = s])
    PROVE  \A m \in Nodes : Carried(m, step'[m])
<1> DEFINE ss == [step EXCEPT ![n] = s]
<1>1. ss \in [Nodes -> Step]
  BY DEF TypeOK
<1>2. \A m \in Nodes : Carried(m, ss[m])
  BY DEF TypeOK, Carried
<1> HIDE DEF ss
<1>3. ASSUME NEW m \in Nodes, Aggregate(run, ss) PROVE Carried(m, step'[m])
  BY <1>1, <1>2, <1>3, AggregateSteps DEF Carried
<1> QED BY <1>2, <1>3 DEF ss

\* A step restated as another open or dead state.
LEMMA RestatedCarried ==
    ASSUME NEW n \in Nodes, NEW s, ~Ended(step[n]), s.gen = step[n].gen,
           s.attempt = step[n].attempt, s.config = step[n].config,
           s.change # "none" => step[n].change # "none",
           s.state \notin {"succeeded", "pending", "running"}
    PROVE  Carried(n, s)
BY DEF Carried, Ended

\* An observation gives a step a success only if it is one, with authority.
LEMMA SuccessObserved ==
    ASSUME TypeOK, NEW n \in Nodes, AfterObservation(n).state = "succeeded",
           co.obs.state # "absent"
    PROVE  /\ co.obs.state = "succeeded" /\ co.obs.final
           /\ co.obs.applied # None => AfterObservation(n).actual = co.obs.applied
<1> DEFINE o == co.obs
           noted == Noted(n)
           s == Applied([noted EXCEPT !.state = Outcome(o), !.note = "other"], o)
<1>0. step[n] \in Step /\ o \in Observation
  BY DEF TypeOK, Advancing
<1>1. AfterObservation(n) =
        IF Unconfirmed(o)
        THEN [noted EXCEPT !.state = "unknown", !.note = "unconfirmed",
                           !.waits = TRUE]
        ELSE IF Retries(n)
        THEN [s EXCEPT !.state = "pending", !.retries = @ + 1, !.attempt = 0,
                       !.change = "none", !.waits = TRUE]
        ELSE IF Ended(s) THEN [s EXCEPT !.change = "none"]
        ELSE [s EXCEPT !.waits = (o.state = "unknown")]
  BY DEF AfterObservation
<1>2. noted \in Step
  BY <1>0 DEF Noted, Step
<1>3. /\ DOMAIN s = DOMAIN step[n] /\ s.state = Outcome(o)
      /\ o.applied # None => s.actual = o.applied
  BY <1>0, <1>2 DEF Applied, Step
<1> HIDE DEF noted, s
<1>4. ~Unconfirmed(o)
  BY <1>1, <1>2 DEF Step
<1>5. s.state = "succeeded" /\ AfterObservation(n).actual = s.actual
  <2>1. CASE Retries(n)
    BY <1>0, <1>1, <1>3, <1>4, <2>1 DEF Step
  <2>2. CASE ~Retries(n) /\ Ended(s)
    BY <1>0, <1>1, <1>3, <1>4, <2>2 DEF Step
  <2>3. CASE ~Retries(n) /\ ~Ended(s)
    <3> DEFINE w == o.state = "unknown"
    <3>1. /\ [s EXCEPT !.waits = w].state = s.state
          /\ [s EXCEPT !.waits = w].actual = s.actual
      <4> HIDE DEF w
      <4> QED BY <1>0, <1>3 DEF Step
    <3> QED BY <1>1, <1>4, <2>3, <3>1
  <2> QED BY <2>1, <2>2, <2>3
<1> QED BY <1>3, <1>4, <1>5 DEF Outcome, Unconfirmed

\* An observation leaves the configuration, brings no change, and with a new try
\* there is none.
LEMMA ObservationChanges ==
    ASSUME TypeOK, NEW n \in Nodes, co.obs.state # "absent"
    PROVE  LET s == AfterObservation(n) IN
           /\ s.config = step[n].config
           /\ s.change # "none" => step[n].change # "none" /\ s.state # "pending"
<1> DEFINE o == co.obs
           noted == Noted(n)
           s == Applied([noted EXCEPT !.state = Outcome(o), !.note = "other"], o)
           doubtful == [noted EXCEPT !.state = "unknown", !.note = "unconfirmed",
                                     !.waits = TRUE]
           again == [s EXCEPT !.state = "pending", !.retries = @ + 1,
                              !.attempt = 0, !.change = "none", !.waits = TRUE]
           over == [s EXCEPT !.change = "none"]
           w == o.state = "unknown"
           on == [s EXCEPT !.waits = w]
<1>0. step[n] \in Step /\ o \in Observation /\ o.state # "absent"
  BY DEF TypeOK, Advancing
<1>1. AfterObservation(n) = IF Unconfirmed(o) THEN doubtful
                            ELSE IF Retries(n) THEN again
                            ELSE IF Ended(s) THEN over ELSE on
  BY DEF AfterObservation
<1>2. /\ noted \in Step /\ noted.config = step[n].config
      /\ noted.change # "none" => step[n].change # "none"
  BY <1>0 DEF Noted, Step
<1>3. Outcome(o) \in StepStates /\ Outcome(o) # "pending"
  BY <1>0 DEF Outcome, Observation, TaskStates, StepStates
<1>4. /\ s \in Step /\ s.config = step[n].config
      /\ s.state = Outcome(o)
      /\ s.change # "none" => step[n].change # "none"
  BY <1>0, <1>2, <1>3 DEF Applied, Step, Notes, Observation
<1> HIDE DEF noted, s, w
<1>5. /\ doubtful.config = step[n].config /\ doubtful.state = "unknown"
      /\ doubtful.change = noted.change
  BY <1>2 DEF Step
<1>6. again.config = step[n].config /\ again.change = "none"
  BY <1>4 DEF Step
<1>7. over.config = step[n].config /\ over.change = "none"
  BY <1>4 DEF Step
<1>8. on.config = step[n].config /\ on.change = s.change /\ on.state = s.state
  BY <1>4 DEF Step
<1> HIDE DEF doubtful, again, over, on
<1> QED BY <1>1, <1>2, <1>3, <1>4, <1>5, <1>6, <1>7, <1>8

\* Every step of the specification carries every step of the run, or
\* dispatches it.
LEMMA StepsCarried ==
    ASSUME TypeOK, [Next]_vars, NEW n \in Nodes
    PROVE  Carried(n, step'[n]) \/ Dispatch(n)
<1>1. step \in [Nodes -> Step] /\ \A m \in Nodes : step[m] \in Step
  BY DEF TypeOK
<1>2. ASSUME step' = step PROVE Carried(n, step'[n])
  BY <1>2 DEF Carried
<1>3. CASE Commands
  <2>1. CASE ReadRun
    BY <1>2, <2>1 DEF ReadRun
  <2>2. CASE StopRun
    BY <1>1, <2>2 DEF StopRun, Carried, Step
  <2>3. CASE ResumeRun
    BY <1>1, <2>3 DEF ResumeRun, Reopened, Carried, Step
  <2>4. ASSUME NEW m \in Nodes, NEW c \in Configs, ChangeOnline(m, c)
        PROVE  Carried(n, step'[n])
    BY <1>1, <2>4 DEF ChangeOnline, Carried, Step
  <2> QED BY <1>3, <2>1, <2>2, <2>3, <2>4 DEF Commands
<1>4. CASE Providers
  BY <1>2, <1>4 DEF Providers, TaskRuns, TaskEnds, TaskPurged, LateStart
<1>5. CASE Ticking
  <2>1. ASSUME NEW m \in Nodes, ~Ended(step[m]),
               Aggregate(run, [step EXCEPT ![m].state = "stopped"])
        PROVE  Carried(n, step'[n])
    <3> DEFINE s == [step[m] EXCEPT !.state = "stopped"]
    <3>1. /\ s \in Step /\ s.gen = step[m].gen
          /\ s.attempt = step[m].attempt /\ s.state = "stopped"
          /\ s.config = step[m].config /\ s.change = step[m].change
      BY <1>1 DEF Step, StepStates
    <3>2. [step EXCEPT ![m].state = "stopped"] = [step EXCEPT ![m] = s]
      BY <1>1
    <3> HIDE DEF s
    <3> QED BY <2>1, <3>1, <3>2, RestatedCarried, EditCarried
  <2>2. ASSUME NEW m \in Nodes, StopUndispatched(m) \/ PrepareStop(m)
        PROVE  Carried(n, step'[n])
    BY <1>2, <2>1, <2>2 DEF StopUndispatched, PrepareStop
  <2>3. ASSUME NEW m \in Nodes, Dispatch(m)
        PROVE  Carried(n, step'[n]) \/ Dispatch(n)
    <3>1. CASE m # n
      BY <1>1, <2>3, <3>1 DEF Dispatch, Carried
    <3> QED BY <2>3, <3>1
  <2>4. ASSUME NEW m \in Nodes,
               SkipUnconnected(m) \/ PrepareNothing(m) \/ PrepareOpen(m)
        PROVE  Carried(n, step'[n])
    BY <1>2, <2>4 DEF SkipUnconnected, PrepareNothing, PrepareOpen
  <2>5. CASE TickBegin
    BY <1>2, <2>5 DEF TickBegin
  <2> QED BY <1>5, <2>2, <2>3, <2>4, <2>5 DEF Ticking
<1>6. CASE Calls
  BY <1>2, <1>6 DEF Calls, StopAnswered, StopMisanswered, StopFails,
         LookupAnswered, LookupMisanswered, LookupFails, ChangeAnswered,
         ChangeMisanswered, ChangeFails, ChangeNotDue, StartAnswered,
         StartMisanswered, StartRefused, StartFails, CheckStop, RecheckStop,
         ResolveSame, ResolveChanged, ResolveFails, Goto
<1>7. CASE Commits
  <2>1. PICK m \in Nodes : \/ RejectUnstarted(m) \/ RecordUnknown(m)
                           \/ CommitDiscarded(m) \/ CommitAbsent(m)
                           \/ CommitObservation(m)
    BY <1>7 DEF Commits
  <2>2. CASE RejectUnstarted(m)
    <3> DEFINE q == IF run = "stopping" THEN "stopped" ELSE "failed"
               s == [step[m] EXCEPT !.state = q, !.note = "other"]
    <3>1. /\ q \in StepStates /\ "other" \in Notes
          /\ q \notin {"succeeded", "pending", "running"}
      BY DEF StepStates, Notes
    <3>2. /\ s \in Step /\ s.gen = step[m].gen
          /\ s.attempt = step[m].attempt
          /\ s.config = step[m].config /\ s.change = step[m].change
          /\ s.state \notin {"succeeded", "pending", "running"}
      <4> HIDE DEF q
      <4>1. s \in Step
        BY <1>1, <3>1, RestatedTyped
      <4>2. /\ s.gen = step[m].gen /\ s.attempt = step[m].attempt /\ s.state = q
            /\ s.config = step[m].config /\ s.change = step[m].change
        BY <1>1 DEF Step
      <4> QED BY <3>1, <4>1, <4>2
    <3>3. \/ step' = step
          \/ ~Ended(step[m]) /\ Aggregate(run, [step EXCEPT ![m] = s])
      BY <2>2 DEF RejectUnstarted
    <3> HIDE DEF s
    <3> QED BY <1>2, <3>2, <3>3, RestatedCarried, EditCarried
  <2>3. CASE RecordUnknown(m)
    <3>1. /\ Doubted(step[m]) \in Step
          /\ Doubted(step[m]).gen = step[m].gen
          /\ Doubted(step[m]).attempt = step[m].attempt
          /\ Doubted(step[m]).config = step[m].config
          /\ Doubted(step[m]).change # "none" => step[m].change # "none"
          /\ Doubted(step[m]).state \in {"dispatching", "unknown"}
      <4>1. Doubted(step[m]) \in Step
        BY <1>1, DoubtedTyped
      <4> QED BY <1>1, <4>1 DEF Doubted, Step
    <3>2. \/ step' = step
          \/ ~Ended(step[m]) /\ step' = [step EXCEPT ![m] = Doubted(step[m])]
      BY <2>3 DEF RecordUnknown
    <3> QED BY <1>2, <3>1, <3>2, RestatedCarried, EditCarried
  <2>4. CASE CommitDiscarded(m)
    BY <1>2, <2>4 DEF CommitDiscarded
  <2>5. CASE CommitAbsent(m)
    <3> DEFINE dead == [step[m] EXCEPT !.state = "stopped", !.note = "other",
                                       !.waits = TRUE]
               lost == [step[m] EXCEPT !.state = "unknown", !.note = "missing",
                                       !.waits = TRUE]
    <3>1. /\ dead \in Step /\ dead.gen = step[m].gen
          /\ dead.attempt = step[m].attempt /\ dead.state = "stopped"
          /\ dead.config = step[m].config /\ dead.change = step[m].change
      BY <1>1 DEF Step, StepStates, Notes
    <3>2. /\ lost \in Step /\ lost.gen = step[m].gen
          /\ lost.attempt = step[m].attempt /\ lost.state = "unknown"
          /\ lost.config = step[m].config /\ lost.change = step[m].change
      BY <1>1 DEF Step, StepStates, Notes
    <3>3. ~Ended(step[m])
      BY <2>5 DEF CommitAbsent, Current
    <3>4. \/ Aggregate(run, [step EXCEPT ![m] = dead])
          \/ step' = [step EXCEPT ![m] = lost]
      BY <2>5 DEF CommitAbsent
    <3> HIDE DEF dead, lost
    <3> QED BY <3>1, <3>2, <3>3, <3>4, RestatedCarried, EditCarried
  <2>6. CASE CommitObservation(m)
    <3> DEFINE s == AfterObservation(m)
    <3>1. /\ Current(m) /\ co.obs.state # "absent"
          /\ co.phase = "observed" /\ co.node = m
          /\ co.obs.gen = step[m].attempt
          /\ Aggregate(run, [step EXCEPT ![m] = s])
      BY <2>6 DEF CommitObservation, Committing
    <3>2. s \in Step
      BY <3>1, AfterObservationTyped
    <3>3. Heeding(m) /\ ~Ended(step[m])
      BY <3>1 DEF Heeding, Current
    <3>4. /\ s.gen = step[m].gen /\ s.attempt \in {0, step[m].attempt}
          /\ s.state = "pending" => s.attempt = 0 /\ Failing(m)
      BY <3>1, <3>2, <3>3, AfterObservationSteps DEF Failing
    <3>5. s.state = "succeeded" =>
             Confirming(m) /\ (co.obs.applied # None => s.actual = co.obs.applied)
      BY <3>1, <3>3, SuccessObserved DEF Confirming
    <3>6. /\ s.config = step[m].config
          /\ s.change # "none" => step[m].change # "none" /\ s.state # "pending"
      BY <3>1, ObservationChanges
    <3> HIDE DEF s
    <3>7. Carried(m, s)
      BY <3>3, <3>4, <3>5, <3>6 DEF Carried, Ended
    <3> QED BY <3>1, <3>2, <3>7, EditCarried
  <2> QED BY <2>1, <2>2, <2>3, <2>4, <2>5, <2>6
<1>8. CASE \E m \in Nodes : Elapse(m)
  BY <1>1, <1>8 DEF Elapse, Carried, Step
<1>9. CASE UNCHANGED vars \/ StoreFails \/ Restart
  BY <1>2, <1>9 DEF vars, StoreFails, Restart
<1> QED BY <1>3, <1>4, <1>5, <1>6, <1>7, <1>8, <1>9 DEF Next, Undisturbed

\* Only a resume gives an ended step another state.
LEMMA EndsStay ==
    ASSUME TypeOK, [Next]_vars, ~ResumeRun, NEW n \in Nodes, Ended(step[n])
    PROVE  step'[n].state = step[n].state
<1>1. step \in [Nodes -> Step]
  BY DEF TypeOK
<1>2. CASE Quiet
  BY <1>2 DEF Quiet
<1>3. CASE StopRun
  BY <1>1, <1>3 DEF StopRun, Step
<1>4. CASE Dispatches
  BY <1>1, <1>4 DEF Dispatches, Dispatch, Ready, Ended
<1>5. CASE Touches
  BY <1>1, <1>5 DEF Touches
<1>6. CASE Rules
  <2>1. PICK m \in Nodes, s \in Step :
           ~Ended(step[m]) /\ Aggregate(run, [step EXCEPT ![m] = s])
    BY <1>6 DEF Rules
  <2>2. [step EXCEPT ![m] = s] \in [Nodes -> Step]
    BY <1>1, <2>1
  <2>3. [step EXCEPT ![m] = s][n] = step[n]
    BY <1>1, <2>1
  <2> QED BY <2>1, <2>2, <2>3, AggregateKeeps
<1> QED BY <1>2, <1>3, <1>4, <1>5, <1>6, StoreChanges

-----------------------------------------------------------------------------
(* What it does to the tasks, the mail and what the coordinator holds *)

\* The coordinator, or a start in the network, may hand the attempt over.
Sending(n, g) ==
    \/ co.phase = "starting" /\ co.node = n /\ co.attempt = g
    \/ \E m \in late : m.node = n /\ m.gen = g

\* Records that keep every success and every end, forget no task, and know of a
\* new one only if it was handed over.
Grown(t) ==
    \A n \in Nodes, g \in Generations :
        /\ Won(n, g) => t[n][g].state \in {"succeeded", "purged"}
        /\ Spent(n, g) => t[n][g].state \in EndedTasks \cup {"purged"}
        /\ task[n][g].state # "absent" => t[n][g].state # "absent"
        /\ task[n][g].state = "absent" => t[n][g].state = "absent" \/ Sending(n, g)

\* So does a provider that accepts an attempt it is sent.
LEMMA AcceptGrown ==
    ASSUME TypeOK, NEW n \in Nodes, NEW g \in Generations, NEW c, Sending(n, g)
    PROVE  Grown(Accept(n, g, c))
<1>1. \A m \in Nodes, h \in Generations :
         \/ Accept(n, g, c)[m][h].state = task[m][h].state
         \/ m = n /\ h = g
  BY AcceptStates
<1>2. task[n][g].state # "absent" => Accept(n, g, c) = task
  BY DEF Accept
<1> QED BY <1>1, <1>2 DEF Grown, Won, Spent

\* Every step of the specification leaves such records.
LEMMA TasksGrow ==
    ASSUME TypeOK, [Next]_vars
    PROVE  Grown(task')
<1>0. /\ \A n \in Nodes, g \in Generations : task[n][g] \in Task
      /\ task \in [Nodes -> [Generations -> Task]]
      /\ InHand => co.node \in Nodes /\ co.attempt \in Generations
      /\ late \subseteq Mail
  BY DEF TypeOK, InHand
<1>1. ASSUME \A n \in Nodes, g \in Generations :
                 task'[n][g].state = task[n][g].state
      PROVE  Grown(task')
  BY <1>1 DEF Grown, Won, Spent
<1>2. ASSUME task' = task PROVE Grown(task')
  BY <1>1, <1>2
<1>3. ASSUME NEW n \in Nodes, NEW g \in Generations,
             Live(n, g), task'[n][g].state # "absent",
             \A m \in Nodes, h \in Generations :
                 task'[m][h].state = task[m][h].state \/ (m = n /\ h = g)
      PROVE  Grown(task')
  BY <1>3 DEF Grown, Won, Spent, Live
<1>4. ASSUME NEW n \in Nodes, Starting(n) \/ (co.phase = "starting" /\ co.node = n),
             task' = task \/ task' = Accept(n, co.attempt, co.config)
      PROVE  Grown(task')
  <2>1. Sending(n, co.attempt) /\ co.attempt \in Generations
    BY <1>0, <1>4 DEF Sending, Starting, InHand
  <2> QED BY <1>2, <1>4, <2>1, AcceptGrown
<1>5. CASE Commands
  BY <1>2, <1>5 DEF Commands, ReadRun, StopRun, ResumeRun, ChangeOnline
<1>6. CASE Providers
  <2>1. ASSUME NEW n \in Nodes, NEW g \in Generations, TaskRuns(n, g)
        PROVE  Grown(task')
    <3>1. /\ \A m \in Nodes, h \in Generations :
                task'[m][h].state = task[m][h].state \/ (m = n /\ h = g)
          /\ Live(n, g) /\ task'[n][g].state = "running"
      BY <1>0, <2>1 DEF TaskRuns, Live, Task
    <3> QED BY <1>3, <3>1
  <2>2. ASSUME NEW n \in Nodes, NEW g \in Generations, TaskEnds(n, g)
        PROVE  Grown(task')
    <3>1. /\ \A m \in Nodes, h \in Generations :
                task'[m][h].state = task[m][h].state \/ (m = n /\ h = g)
          /\ Live(n, g) /\ task'[n][g].state \in EndedTasks
      BY <1>0, <2>2 DEF TaskEnds, Task
    <3> QED BY <1>3, <3>1
  <2>3. ASSUME NEW n \in Nodes, NEW g \in Generations, TaskPurged(n, g)
        PROVE  Grown(task')
    <3>1. /\ \A m \in Nodes, h \in Generations :
                task'[m][h].state = task[m][h].state \/ (m = n /\ h = g)
          /\ task'[n][g].state = "purged" /\ task[n][g].state # "absent"
      BY <1>0, <2>3 DEF TaskPurged, Task
    <3> QED BY <3>1 DEF Grown, Won, Spent
  <2>4. ASSUME NEW m \in late, LateStart(m) PROVE Grown(task')
    <3>1. m.node \in Nodes /\ m.gen \in Generations
      BY <1>0 DEF Mail
    <3>2. Sending(m.node, m.gen)
      BY DEF Sending
    <3> QED BY <1>2, <2>4, <3>1, <3>2, AcceptGrown DEF LateStart
  <2> QED BY <1>6, <2>1, <2>2, <2>3, <2>4 DEF Providers
<1>7. CASE Ticking
  BY <1>2, <1>7 DEF Ticking, TickBegin, StopUndispatched, SkipUnconnected,
                    PrepareNothing, PrepareStop, Dispatch, PrepareOpen
<1>8. CASE Calls
  <2>1. ASSUME NEW n \in Nodes,
               StopAnswered(n) \/ StopMisanswered(n) \/ StopFails(n)
        PROVE  Grown(task')
    <3>1. co.attempt \in Generations
      BY <1>0, <2>1 DEF StopAnswered, StopMisanswered, StopFails, Calling, InHand
    <3>2. task' = task \/ task' = Halt(n, co.attempt)
      BY <2>1 DEF StopAnswered, StopMisanswered, StopFails
    <3> QED BY <1>1, <1>2, <3>1, <3>2, HaltStates
  <2>2. ASSUME NEW n \in Nodes,
               ChangeAnswered(n) \/ ChangeMisanswered(n) \/ ChangeFails(n)
        PROVE  Grown(task')
    <3>1. co.attempt \in Generations
      BY <1>0, <2>2 DEF ChangeAnswered, ChangeMisanswered, ChangeFails,
                        Changing, InHand
    <3>2. task' = task \/ task' = Adopt(n, co.attempt)
      BY <2>2 DEF ChangeAnswered, ChangeMisanswered, ChangeFails
    <3> QED BY <1>1, <1>2, <3>1, <3>2, AdoptStates
  <2>3. ASSUME NEW n \in Nodes,
               StartAnswered(n) \/ StartMisanswered(n) \/ StartFails(n)
        PROVE  Grown(task')
    BY <1>4, <2>3 DEF StartAnswered, StartMisanswered, StartFails, Abandon
  <2>4. ASSUME NEW n \in Nodes,
               \/ LookupAnswered(n) \/ LookupMisanswered(n) \/ LookupFails(n)
               \/ ChangeNotDue(n) \/ StartRefused(n)
        PROVE  Grown(task')
    BY <1>2, <2>4 DEF LookupAnswered, LookupMisanswered, LookupFails,
                      ChangeNotDue, StartRefused
  <2>5. CASE \/ CheckStop \/ RecheckStop
             \/ ResolveSame \/ ResolveChanged \/ ResolveFails
    BY <1>2, <2>5 DEF CheckStop, RecheckStop, ResolveSame, ResolveChanged,
                      ResolveFails, Goto
  <2> QED BY <1>8, <2>1, <2>2, <2>3, <2>4, <2>5 DEF Calls
<1>9. CASE Commits
  BY <1>2, <1>9 DEF Commits, RejectUnstarted, RecordUnknown, CommitDiscarded,
                    CommitAbsent, CommitObservation
<1>10. CASE Restart
  <2>1. CASE co.phase = "starting"
    <3>1. /\ co.node \in Nodes
          /\ task' = task \/ task' = Accept(co.node, co.attempt, co.config)
      BY <1>0, <1>10, <2>1 DEF Restart, Abandon, InHand
    <3> QED BY <1>4, <2>1, <3>1
  <2> QED BY <1>2, <1>10, <2>1 DEF Restart
<1>11. CASE UNCHANGED vars \/ StoreFails \/ \E n \in Nodes : Elapse(n)
  BY <1>2, <1>11 DEF vars, StoreFails, Elapse
<1> QED BY <1>5, <1>6, <1>7, <1>8, <1>9, <1>10, <1>11 DEF Next, Undisturbed

\* A start that the coordinator is sending.
Posted(m) == /\ co.phase = "starting"
             /\ m = [node |-> co.node, gen |-> co.attempt, config |-> co.config]

\* A start comes into the network only from the coordinator's hands.
LEMMA MailSent ==
    ASSUME TypeOK, [Next]_vars, NEW m \in late'
    PROVE  m \in late \/ Posted(m)
<1>1. ASSUME late' = late PROVE m \in late
  BY <1>1
<1>2. ASSUME Abandon(co.node), co.phase = "starting"
      PROVE  m \in late \/ Posted(m)
  BY <1>2 DEF Abandon, Posted
<1>3. CASE Commands
  BY <1>1, <1>3 DEF Commands, ReadRun, StopRun, ResumeRun, ChangeOnline
<1>4. CASE Providers
  BY <1>4 DEF Providers, TaskRuns, TaskEnds, TaskPurged, LateStart
<1>5. CASE Ticking
  BY <1>1, <1>5 DEF Ticking, TickBegin, StopUndispatched, SkipUnconnected,
                    PrepareNothing, PrepareStop, Dispatch, PrepareOpen
<1>6. CASE Calls
  <2>1. ASSUME NEW n \in Nodes, StartFails(n)
        PROVE  m \in late \/ Posted(m)
    BY <1>2, <2>1 DEF StartFails, Starting
  <2> QED BY <1>1, <1>6, <2>1 DEF Calls, StopAnswered, StopMisanswered,
         StopFails, LookupAnswered, LookupMisanswered, LookupFails,
         ChangeAnswered, ChangeMisanswered, ChangeFails, ChangeNotDue,
         StartAnswered, StartMisanswered, StartRefused, CheckStop, RecheckStop,
         ResolveSame, ResolveChanged, ResolveFails, Goto
<1>7. CASE Commits
  BY <1>1, <1>7 DEF Commits, RejectUnstarted, RecordUnknown, CommitDiscarded,
                    CommitAbsent, CommitObservation
<1>8. CASE UNCHANGED vars \/ StoreFails \/ Restart \/ \E n \in Nodes : Elapse(n)
  BY <1>1, <1>2, <1>8 DEF vars, StoreFails, Restart, Elapse
<1> QED BY <1>3, <1>4, <1>5, <1>6, <1>7, <1>8 DEF Next, Undisturbed

\* What a provider whose records are t may answer the coordinator.
Answers(t) == TrueAnswers(t, co.node, co.attempt)
              \cup Rumours(t, co.node, co.attempt)
              \cup Misattributed(t, co.node, co.attempt)

\* A success with authority is in the provider's records.
LEMMA AnswersWon ==
    ASSUME TypeOK, InHand, NEW t, NEW o \in Answers(t),
           o.state = "succeeded", o.final
    PROVE  o.gen \in Generations /\ t[co.node][o.gen].state = "succeeded"
<1>1. co.node \in Nodes /\ co.attempt \in Generations
  BY DEF TypeOK, InHand
<1>2. ASSUME NEW g \in Generations, o \in TrueAnswers(t, co.node, g)
      PROVE  o.gen \in Generations /\ t[co.node][o.gen].state = "succeeded"
  BY <1>2 DEF TrueAnswers, NoObservation
<1>3. o \notin Rumours(t, co.node, co.attempt)
  BY DEF Rumours
<1>4. \A h \in 1 .. step[co.node].gen : h \in Generations
  BY <1>1, BoundAssumption DEF TypeOK, Step, Attempts, Generations
<1> QED BY <1>1, <1>2, <1>3, <1>4 DEF Answers, Misattributed

\* The step in hand stays the same, with what was heard of it or an answer just
\* received.
Carries ==
    /\ InHand /\ co'.node = co.node /\ co'.attempt = co.attempt
    /\ \/ co'.phase \notin {"looked", "observed"}
       \/ co'.obs = co.obs /\ co.phase \in {"looked", "observed"}
       \/ co'.obs \in Answers(task')

\* A step is taken up by a dispatch, or with an attempt it has already.
Takes(n) == co'.node = n /\ co'.phase = "prepared" /\ (Dispatch(n) \/ PrepareOpen(n))

\* What every step of the specification does to the coordinator.
LEMMA CoordinatorMoves ==
    ASSUME TypeOK, [Next]_vars, InHand'
    PROVE  Carries \/ \E n \in Nodes : Takes(n)
<1>0. co \in Advancing /\ step \in [Nodes -> Step]
  BY DEF TypeOK
<1>1. ASSUME co' = co PROVE Carries
  BY <1>1 DEF Carries, InHand
<1>2. ASSUME NEW todo, co' = Onward(todo) PROVE FALSE
  BY <1>2, AtRestTyped DEF Onward, InHand, AtRest
<1>3. ASSUME co' = AtRest PROVE FALSE
  BY <1>3 DEF AtRest, InHand
<1>4. CASE Commands
  BY <1>1, <1>4 DEF Commands, ReadRun, StopRun, ResumeRun, ChangeOnline
<1>5. CASE Providers
  BY <1>1, <1>5 DEF Providers, TaskRuns, TaskEnds, TaskPurged, LateStart
<1>6. CASE Ticking
  <2>1. ~TickBegin
    BY DEF TickBegin, AtRest, InHand
  <2>2. ASSUME NEW n \in Nodes, \/ StopUndispatched(n) \/ SkipUnconnected(n)
                                \/ PrepareNothing(n) \/ PrepareStop(n)
        PROVE  FALSE
    BY <1>2, <2>2 DEF StopUndispatched, SkipUnconnected, PrepareNothing,
                      PrepareStop, Leave
  <2>3. ASSUME NEW n \in Nodes, Dispatch(n) \/ PrepareOpen(n) PROVE Takes(n)
    BY <2>3 DEF Dispatch, PrepareOpen, Prepared, AtRest, Takes
  <2> QED BY <1>6, <2>1, <2>2, <2>3 DEF Ticking
<1>7. CASE Calls
  <2>1. ASSUME InHand, Erred PROVE Carries
    BY <1>0, <2>1 DEF Erred, Carries, Advancing
  <2>2. ASSUME InHand, NEW o \in Answers(task'), Observed(o) \/ LookedUp(o)
        PROVE  Carries
    BY <1>0, <2>2 DEF Observed, LookedUp, Carries, Advancing
  <2>3. ASSUME NEW n \in Nodes,
               \/ StopAnswered(n) \/ StopMisanswered(n) \/ StopFails(n)
               \/ LookupAnswered(n) \/ LookupMisanswered(n) \/ LookupFails(n)
        PROVE  Carries
    <3>1. InHand /\ n = co.node
      BY <2>3 DEF StopAnswered, StopMisanswered, StopFails, LookupAnswered,
                  LookupMisanswered, LookupFails, Calling, InHand
    <3>2. Erred \/ \E o \in Answers(task') : Observed(o) \/ LookedUp(o)
      BY <2>3, <3>1 DEF StopAnswered, StopMisanswered, StopFails, LookupAnswered,
                        LookupMisanswered, LookupFails, Answers
    <3> QED BY <2>1, <2>2, <3>1, <3>2
  <2>4. ASSUME NEW n \in Nodes,
               \/ ChangeAnswered(n) \/ ChangeMisanswered(n)
               \/ StartAnswered(n) \/ StartMisanswered(n) \/ StartFails(n)
        PROVE  Carries
    <3>1. InHand /\ n = co.node
      BY <2>4 DEF ChangeAnswered, ChangeMisanswered, StartAnswered,
                  StartMisanswered, StartFails, Changing, Starting, InHand
    <3>2. Erred \/ \E o \in Answers(task') : Observed(o)
      BY <2>4, <3>1 DEF ChangeAnswered, ChangeMisanswered, StartAnswered,
                        StartMisanswered, StartFails, Answers
    <3> QED BY <2>1, <2>2, <3>1, <3>2
  <2>5. ASSUME NEW n \in Nodes, ChangeFails(n) \/ ChangeNotDue(n)
        PROVE  Carries
    BY <1>0, <2>5 DEF ChangeFails, ChangeNotDue, Changing, Carries, InHand,
                      Advancing
  <2>6. ASSUME NEW n \in Nodes, StartRefused(n) PROVE Carries
    BY <1>0, <2>6 DEF StartRefused, Starting, Carries, InHand, Advancing
  <2>7. CASE \/ CheckStop \/ RecheckStop
             \/ ResolveSame \/ ResolveChanged \/ ResolveFails
    BY <1>0, <2>7 DEF CheckStop, RecheckStop, ResolveSame, ResolveChanged,
                      ResolveFails, Goto, Carries, InHand, Advancing
  <2> QED BY <1>7, <2>3, <2>4, <2>5, <2>6, <2>7 DEF Calls
<1>8. CASE Commits
  <2>1. Done
    BY <1>8 DEF Commits, RejectUnstarted, RecordUnknown, CommitDiscarded,
                CommitAbsent, CommitObservation
  <2> QED BY <1>2, <2>1 DEF Done
<1>9. CASE StoreFails
  <2>1. ASSUME NEW n \in Nodes, Visit(n),
               co' = IF n \in co.bare THEN AtRest ELSE Onward(co.todo \ {n})
        PROVE  FALSE
    BY <1>2, <1>3, <2>1
  <2>2. ASSUME co.phase \in {"check", "recheck", "reject"}, Erred PROVE Carries
    BY <1>0, <2>2 DEF Erred, Carries, InHand, Advancing
  <2>3. ~Done
    BY <1>2 DEF Done
  <2> QED BY <1>9, <2>1, <2>2, <2>3 DEF StoreFails
<1>10. CASE UNCHANGED vars \/ Restart \/ \E n \in Nodes : Elapse(n)
  BY <1>1, <1>3, <1>10 DEF vars, Restart, Elapse
<1> QED BY <1>4, <1>5, <1>6, <1>7, <1>8, <1>9, <1>10 DEF Next, Undisturbed

-----------------------------------------------------------------------------
(* Starts that arrive late *)

\* The starts in the network are of attempts that were minted.
Mailed == \A m \in late : m.gen <= step[m.node].gen

\* What was heard of the attempt in hand is of a task, and an end with authority
\* of one that is over.
Told ==
    co.phase \in {"looked", "observed"} /\ co.obs.gen = co.attempt =>
        /\ task[co.node][co.attempt].state # "absent"
        /\ co.obs.final => Spent(co.node, co.attempt)

\* Until a resume, a step is only given a new attempt when the one before is over
\* at its provider, which a start that arrives late cannot bring back.
Exhausted ==
    resumes = 0 =>
        \A n \in Nodes, g \in Generations :
            \/ g < step[n].gen
            \/ g = step[n].gen /\ step[n].state = "pending"
            => Spent(n, g)

LateInvariant == /\ AttemptsMinted /\ FutureUnknown /\ AttemptHeld
                 /\ Mailed /\ Told /\ Exhausted

\* A step in hand that is not over stays so while it is in hand.
LEMMA HandKept ==
    ASSUME TypeOK, [Next]_vars, InHand', Carries, ~Ended(step[co.node])
    PROVE  LET n == co.node IN
           /\ step'[n].attempt = step[n].attempt /\ step'[n].gen = step[n].gen
           /\ ~Ended(step'[n])
<1>0. /\ co.node \in Nodes /\ step \in [Nodes -> Step] /\ step[co.node] \in Step
      /\ InHand
  BY DEF TypeOK, Carries, InHand
<1>1. ASSUME NEW todo, co' = Onward(todo) PROVE FALSE
  BY <1>1, AtRestTyped DEF Onward, InHand, AtRest
<1>2. CASE Commands
  <2>1. ~ResumeRun
    BY <1>0 DEF ResumeRun, AllEnded
  <2>2. CASE StopRun
    BY <1>0, <2>2 DEF StopRun, Step, Ended
  <2>3. ASSUME NEW n \in Nodes, NEW c \in Configs, ChangeOnline(n, c)
        PROVE  /\ step'[co.node].attempt = step[co.node].attempt
               /\ step'[co.node].gen = step[co.node].gen
               /\ step'[co.node].state = step[co.node].state
    BY <1>0, <2>3 DEF ChangeOnline, Step
  <2> QED BY <1>2, <2>1, <2>2, <2>3 DEF Commands, ReadRun, Ended
<1>3. CASE Ticking
  <2>1. co.phase \in {"rest", "scan"}
    BY <1>3 DEF Ticking, TickBegin, StopUndispatched, SkipUnconnected,
                PrepareNothing, PrepareStop, Dispatch, PrepareOpen, Advance, Visit
  <2> QED BY <1>0, <2>1 DEF InHand
<1>4. CASE Commits
  <2>1. Done
    BY <1>4 DEF Commits, RejectUnstarted, RecordUnknown, CommitDiscarded,
                CommitAbsent, CommitObservation
  <2> QED BY <1>1, <2>1 DEF Done
<1>5. ASSUME NEW n \in Nodes, Elapse(n)
      PROVE  /\ step'[co.node].attempt = step[co.node].attempt
             /\ step'[co.node].gen = step[co.node].gen
             /\ step'[co.node].state = step[co.node].state
  BY <1>0, <1>5 DEF Elapse, Step
<1>6. CASE Providers \/ Calls \/ StoreFails \/ Restart \/ UNCHANGED vars
  BY <1>6 DEF Providers, TaskRuns, TaskEnds, TaskPurged, LateStart, Calls,
         StopAnswered, StopMisanswered, StopFails, LookupAnswered,
         LookupMisanswered, LookupFails, ChangeAnswered, ChangeMisanswered,
         ChangeFails, ChangeNotDue, StartAnswered, StartMisanswered,
         StartRefused, StartFails, CheckStop, RecheckStop, ResolveSame,
         ResolveChanged, ResolveFails, Goto, StoreFails, Restart, vars
<1> QED BY <1>2, <1>3, <1>4, <1>5, <1>6 DEF Next, Undisturbed, Ended

\* What a provider says of the attempt it is asked about is of a task it has.
LEMMA AnswersTold ==
    ASSUME TypeOK, InHand, NEW t, NEW o \in Answers(t), o.gen = co.attempt
    PROVE  /\ t[co.node][co.attempt].state # "absent"
           /\ o.final => t[co.node][co.attempt].state \in EndedTasks
<1>1. co.attempt # 0
  BY BoundAssumption DEF TypeOK, InHand, Generations
<1>2. CASE o \in TrueAnswers(t, co.node, co.attempt)
  <2>1. t[co.node][co.attempt].state \notin {"absent", "purged"}
    BY <1>1, <1>2 DEF TrueAnswers, NoObservation
  <2>2. o.final = (t[co.node][co.attempt].state \in EndedTasks)
    BY <1>2, <2>1 DEF TrueAnswers
  <2> QED BY <2>1, <2>2
<1>3. CASE o \in Rumours(t, co.node, co.attempt)
  BY <1>3 DEF Rumours
<1>4. CASE o \in Misattributed(t, co.node, co.attempt)
  <2>1. PICK h : /\ h # co.attempt /\ o \in TrueAnswers(t, co.node, h)
    BY <1>4 DEF Misattributed
  <2> QED BY <1>1, <2>1 DEF TrueAnswers, NoObservation
<1> QED BY <1>2, <1>3, <1>4 DEF Answers

\* The first state, and every step.
LEMMA LateInit == Init => LateInvariant
<1> SUFFICES ASSUME Init PROVE LateInvariant
  OBVIOUS
<1>1. /\ \A n \in Nodes : step[n].attempt = 0 /\ step[n].gen = 0
      /\ \A n \in Nodes, g \in Generations : task[n][g].state = "absent"
      /\ late = {} /\ co.phase = "rest"
  BY AtRestTyped DEF Init, NewTask
<1>2. \A g \in Generations : g > 0
  BY BoundAssumption DEF Generations
<1>3. Exhausted
  BY <1>1, <1>2 DEF Exhausted, Generations
<1> QED BY <1>1, <1>3 DEF LateInvariant, AttemptsMinted, FutureUnknown, AttemptHeld,
                          Mailed, Told, Bare

LEMMA LateNext ==
    TypeOK /\ TypeOK' /\ LateInvariant /\ [Next]_vars => LateInvariant'
<1> SUFFICES ASSUME TypeOK, TypeOK', LateInvariant, [Next]_vars
             PROVE  LateInvariant'
  OBVIOUS
<1>0. /\ AttemptsMinted /\ FutureUnknown /\ AttemptHeld /\ Mailed /\ Told
      /\ Exhausted
      /\ step \in [Nodes -> Step] /\ late \subseteq Mail
      /\ InHand => co.node \in Nodes /\ co.attempt \in Generations
      /\ \A n \in Nodes : step[n].gen \in Nat /\ step'[n].gen \in Nat
  BY BoundAssumption DEF LateInvariant, TypeOK, InHand, Step, Attempts
<1>1. \A n \in Nodes : Carried(n, step'[n]) \/ Dispatch(n)
  BY StepsCarried
<1>2. Grown(task')
  BY TasksGrow
<1>3. ASSUME NEW n \in Nodes, Dispatch(n)
      PROVE  /\ step[n].state = "pending" /\ step'[n].state = "dispatching"
             /\ step'[n].gen = step[n].gen + 1
             /\ step'[n].attempt = step[n].gen + 1
             /\ task' = task
  BY <1>0, <1>3 DEF Dispatch, Ready, Step
<1>4. ASSUME NEW n \in Nodes PROVE step[n].gen <= step'[n].gen
  BY <1>0, <1>1, <1>3 DEF Carried
<1>5. AttemptsMinted'
  <2> SUFFICES ASSUME NEW n \in Nodes
               PROVE  /\ step'[n].attempt \in {0, step'[n].gen}
                      /\ step'[n].state = "pending" => step'[n].attempt = 0
    BY DEF AttemptsMinted, Bare
  <2>1. CASE Dispatch(n)
    BY <1>3, <2>1
  <2>2. CASE Carried(n, step'[n])
    BY <1>0, <2>2 DEF Carried, AttemptsMinted, Bare
  <2> QED BY <1>1, <2>1, <2>2
<1>6. FutureUnknown'
  <2> SUFFICES ASSUME NEW n \in Nodes, NEW g \in Generations, g > step'[n].gen
               PROVE  task'[n][g].state = "absent"
    BY DEF FutureUnknown
  <2>1. g > step[n].gen /\ g \in Nat
    BY <1>0, <1>4, BoundAssumption DEF Generations
  <2>2. ~Sending(n, g)
    BY <1>0, <2>1 DEF Sending, AttemptHeld, Mailed
  <2> QED BY <1>0, <1>2, <2>1, <2>2 DEF FutureUnknown, Grown
<1>7. AttemptHeld'
  <2> SUFFICES ASSUME InHand'
               PROVE  /\ step'[co'.node].attempt = co'.attempt
                      /\ step'[co'.node].gen = co'.attempt
                      /\ ~Ended(step'[co'.node])
    BY DEF AttemptHeld, InHand
  <2>1. CASE Carries
    BY <1>0, <2>1, HandKept DEF Carries, AttemptHeld, InHand
  <2>2. ASSUME NEW n \in Nodes, Takes(n)
        PROVE  /\ step'[co'.node].attempt = co'.attempt
               /\ step'[co'.node].gen = co'.attempt
               /\ ~Ended(step'[co'.node])
    <3>1. CASE Dispatch(n)
      <4>1. co'.node = n /\ co'.attempt = step[n].gen + 1
        BY <1>0, <3>1 DEF Dispatch, Prepared, AtRest, Step
      <4> QED BY <1>3, <3>1, <4>1 DEF Ended
    <3>2. CASE PrepareOpen(n)
      <4>1. co'.node = n /\ co'.attempt = step[n].attempt /\ step' = step
        BY <3>2 DEF PrepareOpen, Prepared, AtRest
      <4> QED BY <1>0, <3>2, <4>1 DEF PrepareOpen, AttemptsMinted, Bare
    <3> QED BY <2>2, <3>1, <3>2 DEF Takes
  <2> QED BY <2>1, <2>2, CoordinatorMoves
<1>8. Mailed'
  <2> SUFFICES ASSUME NEW m \in late' PROVE m.gen <= step'[m.node].gen
    BY DEF Mailed
  <2>1. /\ m.node \in Nodes /\ m.gen \in Nat /\ m.gen <= step[m.node].gen
    <3>1. m \in late \/ Posted(m)
      BY MailSent
    <3> QED BY <1>0, <3>1, BoundAssumption
            DEF Posted, Mail, Mailed, AttemptHeld, InHand, Generations
  <2> QED BY <1>0, <1>4, <2>1
<1>9. Told'
  <2> SUFFICES ASSUME co'.phase \in {"looked", "observed"},
                      co'.obs.gen = co'.attempt
               PROVE  /\ task'[co'.node][co'.attempt].state # "absent"
                      /\ co'.obs.final =>
                             task'[co'.node][co'.attempt].state
                                 \in EndedTasks \cup {"purged"}
    BY DEF Told, Spent
  <2>1. Carries
    BY CoordinatorMoves DEF InHand, Takes
  <2>2. CASE co'.obs = co.obs /\ co.phase \in {"looked", "observed"}
    BY <1>0, <1>2, <2>1, <2>2 DEF Carries, Told, Grown
  <2>3. CASE co'.obs \in Answers(task')
    BY <2>1, <2>3, AnswersTold DEF Carries
  <2> QED BY <2>1, <2>2, <2>3 DEF Carries
<1>10. Exhausted'
  <2> SUFFICES ASSUME resumes' = 0, NEW n \in Nodes, NEW g \in Generations,
                      \/ g < step'[n].gen
                      \/ g = step'[n].gen /\ step'[n].state = "pending"
               PROVE  task'[n][g].state \in EndedTasks \cup {"purged"}
    BY DEF Exhausted, Spent
  <2>1. resumes = 0 /\ ~ResumeRun
    <3>1. resumes \in Nat
      BY BoundAssumption DEF TypeOK
    <3> QED BY <3>1, ResumesGrow DEF ResumeRun
  <2>2. g \in Nat
    BY BoundAssumption DEF Generations
  <2>3. CASE Dispatch(n)
    <3>1. g < step[n].gen \/ (g = step[n].gen /\ step[n].state = "pending")
      BY <1>0, <1>3, <2>2, <2>3
    <3> QED BY <1>0, <1>2, <2>1, <3>1 DEF Exhausted, Grown
  <2>4. CASE Carried(n, step'[n]) /\ ~Failing(n)
    <3>1. g < step[n].gen \/ (g = step[n].gen /\ step[n].state = "pending")
      BY <2>1, <2>4 DEF Carried
    <3> QED BY <1>0, <1>2, <2>1, <3>1 DEF Exhausted, Grown
  <2>5. CASE Carried(n, step'[n]) /\ Failing(n)
    <3>1. g < step[n].gen \/ g = co.attempt
      BY <2>5 DEF Carried, Failing, Heeding
    <3>2. Spent(n, g)
      BY <1>0, <2>1, <2>5, <3>1 DEF Exhausted, Told, Failing, Heeding
    <3> QED BY <1>2, <3>2 DEF Grown
  <2> QED BY <1>1, <2>3, <2>4, <2>5
<1> QED BY <1>5, <1>6, <1>7, <1>8, <1>9, <1>10 DEF LateInvariant

\* Until the run is first resumed no step has two executions at once, even where
\* a start may arrive after its call was given up: the attempt it is of is the
\* current one, or has been executed already, or its step is over for good.
THEOREM AloneUntilResumed == Spec => [](resumes = 0 => OneExecution)
<1>1. TypeOK /\ LateInvariant /\ [Next]_vars => LateInvariant'
  BY TypeNext, LateNext
<1>2. TypeOK /\ LateInvariant => (resumes = 0 => OneExecution)
  <2> SUFFICES ASSUME TypeOK, LateInvariant, resumes = 0,
                      NEW n \in Nodes, NEW g \in Generations, Live(n, g)
               PROVE  g = step[n].gen
    BY DEF OneExecution
  <2>1. g \in Nat /\ step[n].gen \in Nat
    BY BoundAssumption DEF Generations, TypeOK, Step, Attempts
  <2>2. ~(g > step[n].gen)
    BY DEF LateInvariant, FutureUnknown, Live
  <2>3. ~(g < step[n].gen)
    BY DEF LateInvariant, Exhausted, Spent, Live
  <2> QED BY <2>1, <2>2, <2>3
<1> QED BY <1>1, <1>2, LateInit, TypeCorrect, PTL DEF Spec

-----------------------------------------------------------------------------
(* The configuration an execution runs with *)

\* What SettledConfig says of a step, if it were s.
Fits(n, s) ==
    ~Bare(s) /\ ~Ended(s) /\ s.change = "none" =>
        \/ task[n][s.attempt].state \in {"absent", "purged"}
        \/ task[n][s.attempt].applied = s.config

\* What the coordinator holds of the step in hand: the configuration a start
\* would be sent with and the change that is to be sent are its own, and a
\* configuration it was told of is the task's, or a change is still due.
HeldConfig(n) ==
    /\ co.fresh => step[n].state # "running" /\ co.config = step[n].config
    /\ co.phase \in {"check", "resolve", "recheck", "starting"} => co.fresh
    /\ co.change # None => step[n].change # "none" /\ co.change = step[n].config
    /\ co.phase = "looked" => co.change # None /\ co.obs.applied # co.change
    /\ /\ co.phase \in {"looked", "observed"}
       /\ co.obs.gen = co.attempt /\ co.obs.applied # None
       => \/ co.obs.applied = task[n][co.attempt].applied
          \/ step[n].change # "none" /\ co.obs.applied # step[n].config

ConfigHeld == ~Idle => HeldConfig(co.node)

\* One step edited, with or without aggregate's conclusions.
LEMMA FittingEdit ==
    ASSUME TypeOK, SettledConfig, task' = task, NEW n \in Nodes, NEW s \in Step,
           Fits(n, s),
           \/ step' = [step EXCEPT ![n] = s]
           \/ Aggregate(run, [step EXCEPT ![n] = s])
    PROVE  SettledConfig'
<1> DEFINE ss == [step EXCEPT ![n] = s]
<1>1. ss \in [Nodes -> Step]
  BY DEF TypeOK
<1>2. \A m \in Nodes : Fits(m, ss[m])
  BY DEF TypeOK, SettledConfig, Fits
<1> HIDE DEF ss
<1>3. ASSUME NEW m \in Nodes, Aggregate(run, ss) PROVE Fits(m, step'[m])
  <2>1. step'[m] = ss[m] \/ Ended(step'[m])
    BY <1>1, <1>3, AggregateSteps DEF Ended
  <2> QED BY <1>2, <2>1 DEF Fits
<1>4. \A m \in Nodes : Fits(m, step'[m])
  BY <1>2, <1>3 DEF ss
<1> QED BY <1>4 DEF Fits, SettledConfig

\* A step whose configuration, change and attempt stay.
LEMMA SameFits ==
    ASSUME TypeOK, SettledConfig, NEW n \in Nodes, NEW s,
           ~Ended(step[n]) \/ Ended(s), s.attempt = step[n].attempt,
           s.config = step[n].config,
           s.change = "none" => step[n].change = "none"
    PROVE  Fits(n, s)
BY DEF SettledConfig, Fits, Bare

\* An observation's configuration is the task's when it settles a change.
LEMMA ObservationFits ==
    ASSUME TypeOK, SettledConfig, ConfigHeld, NEW n \in Nodes,
           Committing(n), Current(n), co.obs.gen = step[n].attempt
    PROVE  Fits(n, AfterObservation(n))
<1> DEFINE o == co.obs
           noted == Noted(n)
           s == Applied([noted EXCEPT !.state = Outcome(o), !.note = "other"], o)
<1>0. /\ step[n] \in Step /\ ~Ended(step[n])
      /\ o.applied # None =>
            \/ o.applied = task[n][step[n].attempt].applied
            \/ step[n].change # "none" /\ o.applied # step[n].config
  BY DEF TypeOK, Current, Committing, ConfigHeld, HeldConfig, Idle
<1>1. /\ noted.config = step[n].config /\ noted.attempt = step[n].attempt
      /\ DOMAIN noted = DOMAIN step[n]
      /\ noted.change = "none" => step[n].change = "none"
  BY <1>0 DEF Noted, Step
<1>2. /\ DOMAIN s = DOMAIN step[n]
      /\ s.config = step[n].config /\ s.attempt = step[n].attempt
      /\ s.change = "none" =>
            \/ step[n].change = "none"
            \/ o.applied # None /\ o.applied = step[n].config
  BY <1>0, <1>1 DEF Applied, Step
<1>3. DOMAIN step[n] = {"state", "attempt", "gen", "retries", "change",
                        "config", "actual", "waits", "note"}
  BY <1>0 DEF Step
<1> DEFINE doubt == [noted EXCEPT !.state = "unknown", !.note = "unconfirmed",
                                  !.waits = TRUE]
           retry == [s EXCEPT !.state = "pending", !.retries = @ + 1,
                              !.attempt = 0, !.change = "none", !.waits = TRUE]
           ended == [s EXCEPT !.change = "none"]
           going == [s EXCEPT !.waits = (o.state = "unknown")]
<1>4. AfterObservation(n) = IF Unconfirmed(o) THEN doubt
                            ELSE IF Retries(n) THEN retry
                            ELSE IF Ended(s) THEN ended ELSE going
  BY DEF AfterObservation
<1> HIDE DEF noted, s, o
<1>5. Fits(n, doubt)
  <2>1. /\ doubt.change = noted.change /\ doubt.config = noted.config
        /\ doubt.attempt = noted.attempt
    BY <1>1, <1>3
  <2> HIDE DEF doubt
  <2> QED BY <1>0, <1>1, <2>1, SameFits
<1>6. retry.attempt = 0
  BY <1>2, <1>3
<1>7. ended.state = s.state
  BY <1>2, <1>3
<1>8. Fits(n, going)
  <2>1. /\ going.change = s.change /\ going.config = s.config
        /\ going.attempt = s.attempt
    BY <1>2, <1>3, Zenon
  <2> HIDE DEF going
  <2>2. CASE s.change = "none" => step[n].change = "none"
    BY <1>0, <1>2, <2>1, <2>2, SameFits
  <2>3. CASE o.applied # None /\ o.applied = step[n].config
    BY <1>0, <1>2, <2>1, <2>3 DEF Fits
  <2> QED BY <1>2, <2>2, <2>3
<1> HIDE DEF doubt, retry, ended, going
<1> QED BY <1>4, <1>5, <1>6, <1>7, <1>8 DEF Fits, Bare, Ended

\* The providers' records after a step: a task that was there keeps its
\* configuration, but for the coordinator's own, whose change is due or whose
\* work is handed over with the step's configuration.
Equipped ==
    \A n \in Nodes, g \in Generations :
        \/ task'[n][g].state \in {"absent", "purged"}
        \/ /\ task[n][g].state \notin {"absent", "purged"}
           /\ task'[n][g].applied = task[n][g].applied
        \/ /\ ~Idle /\ n = co.node /\ g = co.attempt
           /\ \/ step[n].change # "none"
              \/ task'[n][g].applied = step[n].config

\* With such records every step that stays as it is stays settled.
LEMMA EquippedSettles ==
    ASSUME TypeOK, SettledConfig, step' = step, Equipped
    PROVE  SettledConfig'
<1> SUFFICES ASSUME NEW n \in Nodes, ~Bare(step[n]), ~Ended(step[n]),
                    step[n].change = "none"
             PROVE  \/ task'[n][step[n].attempt].state \in {"absent", "purged"}
                    \/ task'[n][step[n].attempt].applied = step[n].config
  BY DEF SettledConfig
<1>1. step[n].attempt \in Generations
  BY BoundAssumption DEF TypeOK, Step, Bare, Attempts, Generations
<1> QED BY <1>1 DEF Equipped, SettledConfig

\* What the coordinator holds stays true while it holds it, and while the step
\* in hand and its task's configuration stay.
LEMMA HeldStays ==
    ASSUME TypeOK, ConfigHeld, co' = co,
           ~Idle =>
               /\ step'[co.node].state = step[co.node].state
               /\ step'[co.node].config = step[co.node].config
               /\ step'[co.node].change = step[co.node].change
               /\ task'[co.node][co.attempt].applied
                      = task[co.node][co.attempt].applied
    PROVE  ConfigHeld'
BY DEF ConfigHeld, HeldConfig, Idle

\* So it does across a call that leaves the step and what is to be sent, when
\* what was heard in it is of the task, or a change of it is still due.
LEMMA CallHeld ==
    ASSUME ConfigHeld, ~Idle, step' = step,
           co'.node = co.node, co'.attempt = co.attempt, co'.fresh = co.fresh,
           co'.config = co.config, co'.change = co.change,
           co'.phase \in {"check", "resolve", "recheck", "starting"} => co.fresh,
           co'.phase = "looked" => co.change # None /\ co'.obs.applied # co.change,
           /\ co'.phase \in {"looked", "observed"}
           /\ co'.obs.gen = co.attempt /\ co'.obs.applied # None
           => \/ co'.obs.applied = task'[co.node][co.attempt].applied
              \/ /\ step[co.node].change # "none"
                 /\ co'.obs.applied # step[co.node].config
    PROVE  ConfigHeld'
BY DEF ConfigHeld, HeldConfig, Idle

\* A configuration a provider reports of an attempt is its record's.
LEMMA AnswerConfig ==
    ASSUME NEW t, NEW n, NEW g \in Generations,
           NEW o \in TrueAnswers(t, n, g) \cup Rumours(t, n, g)
                       \cup Misattributed(t, n, g),
           o.gen = g, o.applied # None
    PROVE  o.applied = t[n][g].applied
<1>1. CASE o \in TrueAnswers(t, n, g)
  BY <1>1 DEF TrueAnswers, NoObservation
<1>2. CASE o \in Rumours(t, n, g)
  BY <1>2 DEF Rumours
<1>3. CASE o \in Misattributed(t, n, g)
  <2>1. PICK h : /\ h # g /\ t[n][h].state \notin {"absent", "purged"}
                 /\ o \in TrueAnswers(t, n, h)
    BY <1>3 DEF Misattributed
  <2>2. o.gen = h
    BY <2>1 DEF TrueAnswers
  <2> QED BY <2>1, <2>2
<1> QED BY <1>1, <1>2, <1>3

\* What the calls do to the records that Equipped speaks of.
LEMMA HaltEquips ==
    ASSUME TypeOK, NEW n \in Nodes, NEW g \in Generations, task' = Halt(n, g)
    PROVE  Equipped
<1>1. \A m \in Nodes, h \in Generations :
         /\ task'[m][h].state = task[m][h].state
         /\ task'[m][h].applied = task[m][h].applied
  BY DEF Halt, TypeOK, Task
<1> QED BY <1>1 DEF Equipped

LEMMA AdoptEquips ==
    ASSUME TypeOK, ConfigHeld, ~Idle, co.change # None,
           task' = Adopt(co.node, co.attempt)
    PROVE  Equipped
<1>1. step[co.node].change # "none"
  BY DEF ConfigHeld, HeldConfig
<1>2. co.node \in Nodes /\ co.attempt \in Generations
  BY DEF TypeOK, Idle
<1>3. \A m \in Nodes, h \in Generations :
         \/ task'[m][h] = task[m][h]
         \/ m = co.node /\ h = co.attempt
  BY <1>2 DEF Adopt, TypeOK
<1> QED BY <1>1, <1>3 DEF Equipped

LEMMA AcceptEquips ==
    ASSUME TypeOK, ConfigHeld, co.phase = "starting",
           task' = Accept(co.node, co.attempt, co.config)
    PROVE  Equipped
<1>1. ~Idle /\ co.config = step[co.node].config
  BY DEF ConfigHeld, HeldConfig, Idle
<1>2. co.node \in Nodes /\ co.attempt \in Generations
  BY <1>1 DEF TypeOK, Idle
<1>3. task \in [Nodes -> [Generations -> Task]]
  BY DEF TypeOK
<1>4. \A m \in Nodes, h \in Generations :
         \/ task'[m][h] = task[m][h]
         \/ /\ m = co.node /\ h = co.attempt
            /\ task'[m][h].applied = co.config
  BY <1>2, <1>3 DEF Accept, Task
<1> QED BY <1>1, <1>4 DEF Equipped

LEMMA SameEquips == ASSUME task' = task PROVE Equipped
BY DEF Equipped

ConfigInv == ConfigHeld /\ SettledConfig

\* A step that waits has no change outstanding; one that runs, or whose change is,
\* has a task.
Going ==
    \A n \in Nodes :
        /\ step[n].state = "pending" => step[n].change = "none"
        /\ /\ ~Bare(step[n]) /\ ~Ended(step[n])
           /\ step[n].state = "running" \/ step[n].change # "none"
           => task[n][step[n].attempt].state # "absent"

\* A start in the network that may still begin the current attempt of an open
\* step is one with its configuration.
MailFits ==
    \A m \in late :
        ( /\ m.gen = step[m.node].attempt /\ ~Ended(step[m.node])
          /\ task[m.node][m.gen].state = "absent" )
        => m.config = step[m.node].config

\* The calls keep it.
LEMMA CallsSettle ==
    TypeOK /\ ConfigInv /\ Calls => ConfigInv'
<1> SUFFICES ASSUME TypeOK, ConfigHeld, SettledConfig, Calls
             PROVE  ConfigHeld' /\ SettledConfig'
  BY DEF ConfigInv
<1>0. co \in Advancing
  BY DEF TypeOK
<1>1. ~Idle /\ step' = step
  BY DEF Calls, StopAnswered, StopMisanswered, StopFails, LookupAnswered,
         LookupMisanswered, LookupFails, ChangeAnswered, ChangeMisanswered,
         ChangeFails, ChangeNotDue, StartAnswered, StartMisanswered,
         StartRefused, StartFails, CheckStop, RecheckStop, ResolveSame,
         ResolveChanged, ResolveFails, Goto, Calling, Changing, Starting, Idle
<1>2. co.node \in Nodes /\ co.attempt \in Generations
  BY <1>1 DEF TypeOK, Idle
<1>3. HeldConfig(co.node)
  BY <1>1 DEF ConfigHeld
<1> DEFINE Said == TrueAnswers(task', co.node, co.attempt)
                   \cup Rumours(task', co.node, co.attempt)
                   \cup Misattributed(task', co.node, co.attempt)
           Same == /\ co'.node = co.node /\ co'.attempt = co.attempt
                   /\ co'.fresh = co.fresh /\ co'.config = co.config
                   /\ co'.change = co.change
\* Answers, failures, and the steps between the lookup and the start.
<1>4. ASSUME NEW o \in Said, Observed(o) PROVE ConfigHeld'
  <2>1. Same /\ co'.phase = "observed" /\ co'.obs = o
    BY <1>0, <1>4 DEF Observed, Advancing
  <2> QED BY <1>1, <1>2, <2>1, AnswerConfig, CallHeld
<1>5. ASSUME Erred PROVE ConfigHeld'
  <2>1. Same /\ co'.phase = "erred"
    BY <1>0, <1>5 DEF Erred, Advancing
  <2> QED BY <1>1, <2>1, CallHeld
<1>6. ASSUME Same, co'.phase \notin {"looked", "observed"},
             co'.phase \in {"check", "resolve", "recheck", "starting"} =>
                 co.phase \in {"check", "resolve", "recheck", "starting"}
      PROVE  ConfigHeld'
  BY <1>1, <1>3, <1>6, CallHeld DEF HeldConfig
<1>7. ASSUME Equipped PROVE SettledConfig'
  BY <1>1, <1>7, EquippedSettles
<1>8. ASSUME NEW n \in Nodes,
             StopAnswered(n) \/ StopMisanswered(n) \/ StopFails(n)
      PROVE  ConfigHeld' /\ SettledConfig'
  <2>1. n = co.node /\ (task' = task \/ task' = Halt(n, co.attempt))
    BY <1>8 DEF StopAnswered, StopMisanswered, StopFails, Calling
  <2>2. Equipped
    BY <1>2, <2>1, HaltEquips, SameEquips
  <2>3. Erred \/ \E o \in Said : Observed(o)
    BY <1>8, <2>1 DEF StopAnswered, StopMisanswered, StopFails
  <2> QED BY <1>4, <1>5, <1>7, <2>2, <2>3
<1>9. ASSUME NEW n \in Nodes,
             LookupAnswered(n) \/ LookupMisanswered(n) \/ LookupFails(n)
      PROVE  ConfigHeld' /\ SettledConfig'
  <2>1. n = co.node /\ task' = task
    BY <1>9 DEF LookupAnswered, LookupMisanswered, LookupFails, Calling
  <2>2. Equipped
    BY <2>1, SameEquips
  <2>3. Erred \/ \E o \in Said : LookedUp(o)
    BY <1>9, <2>1 DEF LookupAnswered, LookupMisanswered, LookupFails
  <2>4. ASSUME NEW o \in Said, LookedUp(o) PROVE ConfigHeld'
    <3>1. /\ Same /\ co'.obs = o
          /\ \/ co'.phase = "looked" /\ ChangeDue(o)
             \/ co'.phase = "check" /\ StartDue(o)
             \/ co'.phase = "observed"
      BY <1>0, <2>4 DEF LookedUp, Advancing
    <3>2. CASE co'.phase = "looked" /\ ChangeDue(o)
      BY <1>1, <1>2, <3>1, <3>2, AnswerConfig, CallHeld DEF ChangeDue
    <3>3. CASE co'.phase = "check" /\ StartDue(o)
      BY <1>1, <3>1, <3>3, CallHeld DEF StartDue
    <3>4. CASE co'.phase = "observed"
      BY <1>1, <1>2, <3>1, <3>4, AnswerConfig, CallHeld
    <3> QED BY <3>1, <3>2, <3>3, <3>4
  <2> QED BY <1>5, <1>7, <2>2, <2>3, <2>4
<1>10. ASSUME NEW n \in Nodes, ChangeAnswered(n) \/ ChangeMisanswered(n)
       PROVE  ConfigHeld' /\ SettledConfig'
  <2>1. /\ n = co.node /\ co.change # None
        /\ task' = Adopt(co.node, co.attempt)
        /\ \E o \in Said : Observed(o)
    BY <1>10 DEF ChangeAnswered, ChangeMisanswered, Changing
  <2> QED BY <1>1, <1>4, <1>7, <2>1, AdoptEquips
\* The change may have been taken up, and the lookup's answer still be kept.
<1>11. ASSUME NEW n \in Nodes, ChangeFails(n) \/ ChangeNotDue(n)
       PROVE  ConfigHeld' /\ SettledConfig'
  <2>1. /\ co.change # None /\ co.phase = "looked"
        /\ task' = task \/ task' = Adopt(co.node, co.attempt)
    BY <1>11 DEF ChangeFails, ChangeNotDue, Changing
  <2>2. Same /\ co'.phase = "observed" /\ co'.obs = co.obs
    BY <1>0, <1>11 DEF ChangeFails, ChangeNotDue, Advancing
  <2>3. step[co.node].change # "none" /\ co.obs.applied # step[co.node].config
    BY <1>3, <2>1 DEF HeldConfig
  <2>4. ConfigHeld'
    BY <1>1, <2>2, <2>3, CallHeld
  <2> QED BY <1>1, <1>7, <2>1, <2>4, AdoptEquips, SameEquips
<1>12. ASSUME NEW n \in Nodes,
              StartAnswered(n) \/ StartMisanswered(n) \/ StartFails(n)
       PROVE  ConfigHeld' /\ SettledConfig'
  <2>1. /\ n = co.node /\ co.phase = "starting"
        /\ task' = task \/ task' = Accept(n, co.attempt, co.config)
    BY <1>12 DEF StartAnswered, StartMisanswered, StartFails, Abandon, Starting
  <2>2. Equipped
    BY <2>1, AcceptEquips, SameEquips
  <2>3. Erred \/ \E o \in Said : Observed(o)
    BY <1>12, <2>1 DEF StartAnswered, StartMisanswered, StartFails
  <2> QED BY <1>4, <1>5, <1>7, <2>2, <2>3
<1>13. ASSUME NEW n \in Nodes, StartRefused(n) PROVE ConfigHeld' /\ SettledConfig'
  <2>1. Same /\ co'.phase = "reject" /\ task' = task
    BY <1>0, <1>13 DEF StartRefused, Starting, Advancing
  <2> QED BY <1>6, <1>7, <2>1, SameEquips
<1>14. CASE \/ CheckStop \/ RecheckStop
            \/ ResolveSame \/ ResolveChanged \/ ResolveFails
  <2>1. /\ Same /\ task' = task
        /\ co.phase \in {"check", "resolve", "recheck"}
        /\ co'.phase \in {"resolve", "recheck", "starting", "reject", "erred"}
    BY <1>0, <1>14 DEF CheckStop, RecheckStop, ResolveSame, ResolveChanged,
                       ResolveFails, Goto, Advancing
  <2> QED BY <1>6, <1>7, <2>1, SameEquips
<1> QED BY <1>8, <1>9, <1>10, <1>11, <1>12, <1>13, <1>14 DEF Calls

\* Commands, providers and time keep it.
LEMMA OthersSettle ==
    ASSUME TypeOK, LateInvariant, ConfigInv, MailFits,
           \/ Commands \/ Providers \/ \E n \in Nodes : Elapse(n)
    PROVE  ConfigInv'
<1>0. /\ ConfigHeld /\ SettledConfig
      /\ step \in [Nodes -> Step] /\ task \in [Nodes -> [Generations -> Task]]
      /\ \A n \in Nodes : step[n] \in Step
      /\ ~Idle => co.node \in Nodes /\ co.attempt \in Generations
  BY DEF ConfigInv, TypeOK, Idle
<1>1. co' = co
  BY DEF Commands, ReadRun, StopRun, ResumeRun, ChangeOnline, Providers,
         TaskRuns, TaskEnds, TaskPurged, LateStart, Elapse
\* The steps keep all that counts here.
<1>2. ASSUME task' = task,
             \A m \in Nodes : /\ step'[m].state = step[m].state
                              /\ step'[m].attempt = step[m].attempt
                              /\ step'[m].config = step[m].config
                              /\ step'[m].change = step[m].change
      PROVE  ConfigInv'
  <2>1. SettledConfig'
    BY <1>0, <1>2 DEF SettledConfig, Bare, Ended
  <2> QED BY <1>0, <1>1, <1>2, <2>1, HeldStays DEF ConfigInv
<1>3. CASE ReadRun
  BY <1>2, <1>3 DEF ReadRun
<1>4. CASE StopRun
  <2>1. \A m \in Nodes : /\ step'[m].state = step[m].state
                         /\ step'[m].attempt = step[m].attempt
                         /\ step'[m].config = step[m].config
                         /\ step'[m].change = step[m].change
    BY <1>0, <1>4 DEF StopRun, Step
  <2> QED BY <1>2, <1>4, <2>1 DEF StopRun
<1>5. CASE ResumeRun
  <2>1. \A m \in Nodes : Ended(step'[m]) \/ Bare(step'[m])
    BY <1>0, <1>5 DEF ResumeRun, Reopened, Ended, Bare, Step
  <2>2. Idle
    BY <1>0, <1>5 DEF ResumeRun, AllEnded, LateInvariant, AttemptHeld, Idle
  <2> QED BY <1>1, <2>1, <2>2 DEF ConfigInv, ConfigHeld, SettledConfig, Idle
<1>6. ASSUME NEW n \in Nodes, NEW c \in Configs, ChangeOnline(n, c)
      PROVE  ConfigInv'
  <2>1. /\ step[n].state = "running" /\ step'[n].state = "running"
        /\ step[n].change = "none" /\ step'[n].change = "pending"
        /\ \A m \in Nodes \ {n} : step'[m] = step[m]
        /\ task' = task
    BY <1>0, <1>6 DEF ChangeOnline, Step
  <2>2. SettledConfig'
    BY <1>0, <2>1 DEF SettledConfig
  <2>3. CASE ~Idle /\ co.node = n
    <3>1. HeldConfig(n)
      BY <1>0, <2>3 DEF ConfigHeld
    <3>2. /\ ~co.fresh /\ co.change = None /\ co.phase # "looked"
          /\ co.phase \notin {"check", "resolve", "recheck", "starting"}
          /\ \/ co.phase # "observed" \/ co.obs.gen # co.attempt
             \/ co.obs.applied = None
             \/ co.obs.applied = task[n][co.attempt].applied
      BY <2>1, <3>1 DEF HeldConfig
    <3>3. HeldConfig(n)'
      BY <1>1, <2>1, <3>2 DEF HeldConfig
    <3> QED BY <1>1, <2>2, <2>3, <3>3 DEF ConfigHeld, ConfigInv
  <2>4. CASE ~Idle /\ co.node # n
    <3>1. step'[co.node] = step[co.node]
      BY <1>0, <2>1, <2>4
    <3> QED BY <1>0, <1>1, <2>1, <2>2, <3>1, HeldStays DEF ConfigInv
  <2>5. CASE Idle
    BY <1>1, <2>2, <2>5 DEF ConfigHeld, ConfigInv, Idle
  <2> QED BY <2>3, <2>4, <2>5
<1>7. ASSUME NEW n \in Nodes, NEW g \in Generations,
             TaskRuns(n, g) \/ TaskEnds(n, g) \/ TaskPurged(n, g)
      PROVE  ConfigInv'
  <2>1. step' = step
    BY <1>7 DEF TaskRuns, TaskEnds, TaskPurged
  <2>3. \A m \in Nodes, h \in Generations :
           /\ task'[m][h].applied = task[m][h].applied
           /\ \/ task'[m][h].state = task[m][h].state
              \/ task[m][h].state \notin {"absent", "purged"}
    <3>1. CASE TaskRuns(n, g)
      BY <1>0, <3>1 DEF TaskRuns, Task
    <3>2. CASE TaskEnds(n, g)
      BY <1>0, <3>2 DEF TaskEnds, Live, Task
    <3>3. CASE TaskPurged(n, g)
      BY <1>0, <3>3 DEF TaskPurged, Task
    <3> QED BY <1>7, <3>1, <3>2, <3>3
  <2>4. Equipped
    BY <2>3 DEF Equipped
  <2> QED BY <1>0, <1>1, <2>1, <2>3, <2>4, EquippedSettles, HeldStays
          DEF ConfigInv
<1>8. ASSUME NEW n \in Nodes, Elapse(n) PROVE ConfigInv'
  <2>1. \A m \in Nodes : /\ step'[m].state = step[m].state
                         /\ step'[m].attempt = step[m].attempt
                         /\ step'[m].config = step[m].config
                         /\ step'[m].change = step[m].change
    BY <1>0, <1>8 DEF Elapse, Step
  <2> QED BY <1>2, <1>8, <2>1 DEF Elapse
\* A late start only begins an attempt nothing has been heard of.
<1>9. ASSUME NEW m \in late, LateStart(m) PROVE ConfigInv'
  <2>1. m.node \in Nodes /\ m.gen \in Generations /\ step' = step
    BY <1>9 DEF TypeOK, Mail, LateStart
  <2>2. ASSUME NEW n \in Nodes, NEW g \in Generations
        PROVE  \/ task'[n][g] = task[n][g]
               \/ /\ n = m.node /\ g = m.gen
                  /\ task[n][g].state = "absent" /\ task'[n][g].applied = m.config
    <3> DEFINE r == [task[m.node][m.gen] EXCEPT !.state = "queued",
                                                !.applied = m.config]
    <3>1. r.applied = m.config
      BY <1>0, <2>1 DEF Task
    <3>2. \/ task' = task
          \/ /\ task[m.node][m.gen].state = "absent"
             /\ task' = [task EXCEPT ![m.node][m.gen] = r]
      BY <1>9 DEF LateStart, Accept
    <3> HIDE DEF r
    <3> QED BY <1>0, <2>1, <3>1, <3>2
  <2>3. SettledConfig'
    <3> SUFFICES ASSUME NEW n \in Nodes, ~Bare(step[n]), ~Ended(step[n]),
                        step[n].change = "none"
                 PROVE  \/ task'[n][step[n].attempt].state \in {"absent", "purged"}
                        \/ task'[n][step[n].attempt].applied = step[n].config
      BY <2>1 DEF SettledConfig
    <3>1. step[n].attempt \in Generations
      BY <1>0, BoundAssumption DEF Step, Bare, Attempts, Generations
    <3> QED BY <1>0, <2>2, <3>1 DEF SettledConfig, MailFits
  <2>4. ConfigHeld'
    <3>1. CASE ~Idle /\ co.phase \in {"looked", "observed"} /\ co.obs.gen = co.attempt
      <4>1. task'[co.node][co.attempt] = task[co.node][co.attempt]
        BY <1>0, <2>2, <3>1 DEF LateInvariant, Told
      <4> QED BY <1>0, <1>1, <2>1, <4>1, HeldStays
    <3>2. CASE ~(co.phase \in {"looked", "observed"} /\ co.obs.gen = co.attempt)
      BY <1>0, <1>1, <2>1, <3>2 DEF ConfigHeld, HeldConfig, Idle
    <3> QED BY <1>0, <1>1, <3>1, <3>2 DEF Idle
  <2> QED BY <2>3, <2>4 DEF ConfigInv
<1> QED BY <1>3, <1>4, <1>5, <1>6, <1>7, <1>8, <1>9 DEF Commands, Providers

\* Between two advances nothing is held.
LEMMA IdleSettles ==
    ASSUME Idle', SettledConfig' PROVE ConfigInv'
BY DEF ConfigInv, ConfigHeld

\* The tick and prepare keep it.
LEMMA TickingSettles ==
    TypeOK /\ LateInvariant /\ ConfigInv /\ Ticking => ConfigInv'
<1> SUFFICES ASSUME TypeOK, LateInvariant, ConfigInv, Ticking PROVE ConfigInv'
  OBVIOUS
<1>0. /\ ConfigHeld /\ SettledConfig /\ task' = task
      /\ co \in Advancing /\ step \in [Nodes -> Step]
      /\ \A n \in Nodes : step[n] \in Step
  BY DEF ConfigInv, TypeOK, Ticking, TickBegin, StopUndispatched,
         SkipUnconnected, PrepareNothing, PrepareStop, Dispatch, PrepareOpen
<1>1. ASSUME step' = step PROVE SettledConfig'
  BY <1>0, <1>1 DEF SettledConfig
<1>2. ASSUME NEW n \in Nodes, Leave(n) PROVE Idle'
  BY <1>0, <1>2, OnwardIdle DEF Leave, Advancing
<1>3. CASE TickBegin
  <2>1. Idle'
    BY <1>3 DEF TickBegin, AtRest, Idle
  <2> QED BY <1>1, <1>3, <2>1, IdleSettles DEF TickBegin
<1>4. ASSUME NEW n \in Nodes, SkipUnconnected(n) \/ PrepareNothing(n)
      PROVE  ConfigInv'
  BY <1>1, <1>2, <1>4, IdleSettles DEF SkipUnconnected, PrepareNothing
<1>5. ASSUME NEW n \in Nodes, StopUndispatched(n) \/ PrepareStop(n)
      PROVE  ConfigInv'
  <2> DEFINE s == [step[n] EXCEPT !.state = "stopped"]
  <2>1. s \in Step /\ Ended(s)
    BY <1>0 DEF Step, StepStates, Ended
  <2>2. [step EXCEPT ![n].state = "stopped"] = [step EXCEPT ![n] = s]
    BY <1>0
  <2>3. step' = step \/ Aggregate(run, [step EXCEPT ![n] = s])
    BY <1>5, <2>2 DEF StopUndispatched, PrepareStop
  <2> HIDE DEF s
  <2>4. SettledConfig'
    BY <1>0, <1>1, <2>1, <2>3, FittingEdit DEF Fits
  <2> QED BY <1>2, <1>5, <2>4, IdleSettles DEF StopUndispatched, PrepareStop
<1>6. ASSUME NEW n \in Nodes, NEW r, NEW s \in Step, co' = Prepared(n, r, s),
             step'[n] = s
      PROVE  ConfigHeld'
  <2>1. /\ co'.phase = "prepared" /\ co'.node = n /\ co'.config = s.config
        /\ co'.fresh => s.state = "dispatching"
        /\ co'.change # None => s.change # "none" /\ co'.change = s.config
    BY <1>6 DEF Prepared, AtRest
  <2> QED BY <1>6, <2>1 DEF ConfigHeld, HeldConfig
<1>7. ASSUME NEW n \in Nodes, Dispatch(n) PROVE ConfigInv'
  <2> DEFINE s == [step[n] EXCEPT !.attempt = step[n].gen + 1,
                                  !.gen = step[n].gen + 1,
                                  !.state = "dispatching"]
  <2>1. step[n].gen + 1 \in Generations /\ step[n].gen + 1 \in Attempts
    BY <1>0, <1>7, Numbers DEF Dispatch, Step
  <2>2. s \in Step /\ s.attempt = step[n].gen + 1
    BY <1>0, <2>1 DEF Step, StepStates
  <2>3. step' = [step EXCEPT ![n] = s] /\ co' = Prepared(n, "running", s)
    BY <1>7 DEF Dispatch
  <2> HIDE DEF s
  <2>4. task[n][s.attempt].state = "absent"
    BY <1>0, <2>1, <2>2, BoundAssumption
       DEF LateInvariant, FutureUnknown, Step, Attempts
  <2>5. SettledConfig'
    BY <1>0, <2>2, <2>3, <2>4, FittingEdit DEF Fits
  <2>6. ConfigHeld'
    BY <1>0, <1>6, <2>2, <2>3
  <2> QED BY <2>5, <2>6 DEF ConfigInv
<1>8. ASSUME NEW n \in Nodes, PrepareOpen(n) PROVE ConfigInv'
  BY <1>0, <1>1, <1>6, <1>8 DEF PrepareOpen, ConfigInv
<1> QED BY <1>3, <1>4, <1>5, <1>7, <1>8 DEF Ticking

\* The closing transactions keep it.
LEMMA CommitsSettle ==
    TypeOK /\ ConfigInv /\ Commits => ConfigInv'
<1> SUFFICES ASSUME TypeOK, ConfigInv, NEW n \in Nodes,
                    \/ RejectUnstarted(n) \/ RecordUnknown(n)
                    \/ CommitDiscarded(n) \/ CommitAbsent(n)
                    \/ CommitObservation(n)
             PROVE  ConfigInv'
  BY DEF Commits
<1>0. /\ ConfigHeld /\ SettledConfig
      /\ task' = task /\ Done /\ co \in Advancing
      /\ step \in [Nodes -> Step] /\ step[n] \in Step
  BY DEF ConfigInv, TypeOK, RejectUnstarted, RecordUnknown, CommitDiscarded,
         CommitAbsent, CommitObservation
<1>1. Idle'
  BY <1>0, OnwardIdle DEF Done, Advancing
<1>2. SUFFICES SettledConfig'
  BY <1>1, IdleSettles
<1>3. ASSUME step' = step PROVE SettledConfig'
  BY <1>0, <1>3 DEF SettledConfig
<1>4. ASSUME NEW s \in Step, Fits(n, s),
             \/ step' = [step EXCEPT ![n] = s]
             \/ Aggregate(run, [step EXCEPT ![n] = s])
      PROVE  SettledConfig'
  BY <1>0, <1>4, FittingEdit
<1>5. CASE RejectUnstarted(n)
  <2> DEFINE q == IF run = "stopping" THEN "stopped" ELSE "failed"
             s == [step[n] EXCEPT !.state = q, !.note = "other"]
  <2>1. q \in StepStates /\ q \in TerminalSteps /\ "other" \in Notes
    BY DEF StepStates, Notes
  <2>2. s \in Step /\ Ended(s)
    <3> HIDE DEF q
    <3>1. s \in Step
      BY <1>0, <2>1, RestatedTyped
    <3>2. s.state = q
      BY <1>0 DEF Step
    <3> QED BY <2>1, <3>1, <3>2 DEF Ended
  <2>3. step' = step \/ Aggregate(run, [step EXCEPT ![n] = s])
    BY <1>5 DEF RejectUnstarted
  <2> HIDE DEF s
  <2> QED BY <1>3, <1>4, <2>2, <2>3 DEF Fits
<1>6. CASE RecordUnknown(n)
  <2>1. Doubted(step[n]) \in Step
    BY <1>0, DoubtedTyped
  <2>2. /\ Doubted(step[n]).attempt = step[n].attempt
        /\ Doubted(step[n]).config = step[n].config
        /\ Doubted(step[n]).change = "none" => step[n].change = "none"
    BY <1>0 DEF Doubted, Step
  <2>3. \/ step' = step
        \/ ~Ended(step[n]) /\ step' = [step EXCEPT ![n] = Doubted(step[n])]
    BY <1>6 DEF RecordUnknown
  <2> QED BY <1>0, <1>3, <1>4, <2>1, <2>2, <2>3, SameFits
<1>7. CASE CommitDiscarded(n)
  BY <1>3, <1>7 DEF CommitDiscarded
<1>8. CASE CommitAbsent(n)
  <2> DEFINE dead == [step[n] EXCEPT !.state = "stopped", !.note = "other",
                                     !.waits = TRUE]
             lost == [step[n] EXCEPT !.state = "unknown", !.note = "missing",
                                     !.waits = TRUE]
  <2>1. dead \in Step /\ Ended(dead)
    BY <1>0 DEF Step, StepStates, Notes, Ended
  <2>2. /\ lost \in Step /\ lost.attempt = step[n].attempt
        /\ lost.config = step[n].config /\ lost.change = step[n].change
    BY <1>0 DEF Step, StepStates, Notes
  <2>3. /\ ~Ended(step[n])
        /\ \/ Aggregate(run, [step EXCEPT ![n] = dead])
           \/ step' = [step EXCEPT ![n] = lost]
    BY <1>8 DEF CommitAbsent, Current
  <2> HIDE DEF dead, lost
  <2>4. Fits(n, dead)
    BY <2>1 DEF Fits
  <2>5. Fits(n, lost)
    BY <1>0, <2>2, <2>3, SameFits
  <2> QED BY <1>4, <2>1, <2>2, <2>3, <2>4, <2>5
<1>9. CASE CommitObservation(n)
  <2>1. /\ Committing(n) /\ Current(n) /\ co.obs.gen = step[n].attempt
        /\ AfterObservation(n) \in Step
        /\ Aggregate(run, [step EXCEPT ![n] = AfterObservation(n)])
    BY <1>9, AfterObservationTyped DEF CommitObservation
  <2> QED BY <1>0, <1>4, <2>1, ObservationFits
<1> QED BY <1>5, <1>6, <1>7, <1>8, <1>9

\* A failing store and a restart keep it.
LEMMA OutagesSettle ==
    ASSUME TypeOK, ConfigInv, StoreFails \/ Restart
    PROVE  ConfigInv'
<1>0. ConfigHeld /\ SettledConfig /\ co \in Advancing /\ step' = step
  BY DEF ConfigInv, TypeOK, StoreFails, Restart
<1>1. CASE StoreFails
  <2>1. SettledConfig'
    BY <1>0, <1>1, EquippedSettles, SameEquips DEF StoreFails
  <2>2. CASE co.phase \in {"check", "recheck", "reject"} /\ Erred
    <3>1. /\ co'.node = co.node /\ co'.attempt = co.attempt
          /\ co'.fresh = co.fresh /\ co'.config = co.config
          /\ co'.change = co.change /\ co'.phase = "erred"
      BY <1>0, <2>2 DEF Erred, Advancing
    <3> QED BY <1>0, <2>1, <2>2, <3>1, CallHeld DEF ConfigInv, Idle
  <2>3. ASSUME Done PROVE Idle'
    BY <1>0, <2>3, OnwardIdle DEF Done, Advancing
  <2>4. ASSUME NEW n \in Nodes, Visit(n),
               co' = IF n \in co.bare THEN AtRest ELSE Onward(co.todo \ {n})
        PROVE  Idle'
    BY <1>0, <2>4, AtRestTyped, OnwardIdle DEF Idle, Advancing
  <2> QED BY <1>1, <2>1, <2>2, <2>3, <2>4, IdleSettles DEF StoreFails
<1>2. CASE Restart
  <2>1. Idle'
    BY <1>2, AtRestTyped DEF Restart, Idle
  <2>2. Equipped
    BY <1>0, <1>2, AcceptEquips, SameEquips DEF Restart, Abandon
  <2> QED BY <1>0, <2>1, <2>2, EquippedSettles, IdleSettles
<1> QED BY <1>1, <1>2

\* What runs has a task, and what is in the network fits.
LEMMA GoingNext ==
    ASSUME TypeOK, LateInvariant, ConfigHeld, Going, MailFits, [Next]_vars
    PROVE  Going' /\ MailFits'
<1>0. /\ step \in [Nodes -> Step] /\ late \subseteq Mail
      /\ AttemptsMinted /\ AttemptHeld /\ Mailed /\ Told
      /\ \A n \in Nodes : step[n].gen \in Nat
  BY BoundAssumption DEF LateInvariant, TypeOK, Step, Attempts
<1>1. \A n \in Nodes : Carried(n, step'[n]) \/ Dispatch(n)
  BY StepsCarried
<1>2. Grown(task')
  BY TasksGrow
<1>3. ASSUME NEW n \in Nodes, Dispatch(n)
      PROVE  /\ step[n].state = "pending" /\ step'[n].state = "dispatching"
             /\ step'[n].attempt = step[n].gen + 1
             /\ step'[n].change = step[n].change
  BY <1>0, <1>3 DEF Dispatch, Ready, Step
<1>4. ASSUME NEW n \in Nodes, step[n].attempt # 0
      PROVE  step[n].attempt \in Generations
  BY <1>0, <1>4, BoundAssumption DEF Step, Attempts, Generations
\* An ended step is only opened without its attempt.
<1>5. ASSUME NEW n \in Nodes, Ended(step[n]), step'[n].attempt # 0
      PROVE  Ended(step'[n])
  <2>1. CASE ResumeRun
    BY <1>0, <1>5, <2>1 DEF ResumeRun, Reopened, Ended, Step
  <2>2. CASE ~ResumeRun
    BY <1>5, <2>2, EndsStay DEF Ended
  <2> QED BY <2>1, <2>2
<1>6. Going'
  <2> SUFFICES ASSUME NEW n \in Nodes
               PROVE  /\ step'[n].state = "pending" => step'[n].change = "none"
                      /\ /\ step'[n].attempt # 0 /\ ~Ended(step'[n])
                         /\ step'[n].state = "running" \/ step'[n].change # "none"
                         => task'[n][step'[n].attempt].state # "absent"
    BY DEF Going, Bare, Ended
  <2>1. CASE Dispatch(n)
    BY <1>3, <2>1 DEF Going
  <2>2. CASE Carried(n, step'[n])
    <3>1. step'[n].state = "pending" => step'[n].change = "none"
      BY <2>2 DEF Carried, Going
    <3>2. ASSUME step'[n].attempt # 0, ~Ended(step'[n]),
                 step'[n].state = "running" \/ step'[n].change # "none"
          PROVE  task'[n][step'[n].attempt].state # "absent"
      <4>1. /\ step'[n].attempt = step[n].attempt
            /\ step[n].attempt \in Generations /\ ~Ended(step[n])
        BY <1>4, <1>5, <2>2, <3>2 DEF Carried
      <4>2. CASE Heeding(n)
        BY <1>0, <1>2, <4>1, <4>2 DEF Heeding, Told, Grown
      <4>3. CASE step[n].state = "running" \/ step[n].change # "none"
        BY <1>2, <3>2, <4>1, <4>3 DEF Going, Bare, Grown
      <4> QED BY <2>2, <3>2, <4>2, <4>3 DEF Carried
    <3> QED BY <3>1, <3>2
  <2> QED BY <1>1, <2>1, <2>2
<1>7. MailFits'
  <2> SUFFICES ASSUME NEW m \in late',
                      m.gen = step'[m.node].attempt, ~Ended(step'[m.node]),
                      task'[m.node][m.gen].state = "absent"
               PROVE  m.config = step'[m.node].config
    BY DEF MailFits, Ended
  <2>1. CASE m \in late
    <3>1. /\ m.node \in Nodes /\ m.gen \in Generations
          /\ m.gen \in Nat /\ m.gen # 0 /\ m.gen <= step[m.node].gen
      BY <1>0, <2>1, BoundAssumption DEF Mail, Generations, Mailed
    <3>2. Carried(m.node, step'[m.node])
      BY <1>0, <1>1, <1>3, <3>1
    <3>3. step[m.node].attempt = m.gen /\ ~Ended(step[m.node])
      BY <1>5, <3>1, <3>2 DEF Carried
    <3>4. task[m.node][m.gen].state = "absent"
      BY <1>2, <3>1 DEF Grown
    <3>5. m.config = step[m.node].config /\ step[m.node].state # "running"
      BY <2>1, <3>1, <3>3, <3>4 DEF MailFits, Going, Bare
    <3> QED BY <3>2, <3>5 DEF Carried
  <2>2. CASE Posted(m)
    <3>1. /\ m.node = co.node /\ m.gen = co.attempt /\ m.config = co.config
          /\ InHand /\ co.phase = "starting"
      BY <2>2 DEF Posted, InHand
    <3>2. m.node \in Nodes /\ step[m.node].gen = m.gen
      BY <1>0, <3>1 DEF TypeOK, InHand, AttemptHeld
    <3>3. m.config = step[m.node].config /\ step[m.node].state # "running"
      BY <3>1 DEF ConfigHeld, HeldConfig, Idle, InHand
    <3>4. Carried(m.node, step'[m.node])
      BY <1>0, <1>1, <1>3, <3>2
    <3> QED BY <3>3, <3>4 DEF Carried
  <2> QED BY <2>1, <2>2, MailSent
<1> QED BY <1>6, <1>7

\* An open step without an outstanding change is executed with the configuration
\* that is shown as the desired one, across changes that fail, are refused or are
\* overtaken by an answer, and starts that arrive after their call was given up.
THEOREM ConfigSettles == Spec => []SettledConfig
<1> DEFINE Inv == LateInvariant /\ ConfigInv /\ Going /\ MailFits
<1>1. Init => Inv
  <2>1. Init => /\ Idle /\ late = {}
                /\ \A n \in Nodes : /\ Bare(step[n]) /\ step[n].change = "none"
    BY DEF Init, Idle, AtRest, Bare
  <2>2. Init => ConfigInv /\ Going /\ MailFits
    BY <2>1 DEF ConfigInv, ConfigHeld, SettledConfig, Going, MailFits
  <2> QED BY <2>2, LateInit
<1>2. TypeOK /\ Inv /\ [Next]_vars => Inv'
  <2> SUFFICES ASSUME TypeOK, LateInvariant, ConfigInv, Going, MailFits, [Next]_vars
               PROVE  LateInvariant' /\ ConfigInv' /\ Going' /\ MailFits'
    OBVIOUS
  <2>1. CASE UNCHANGED vars
    <3>1. co' = co /\ step' = step /\ task' = task
      BY <2>1 DEF vars
    <3>2. ConfigHeld' /\ SettledConfig'
      BY <3>1 DEF ConfigInv, ConfigHeld, HeldConfig, SettledConfig, Idle
    <3> QED BY <2>1, <3>2, TypeNext, LateNext, GoingNext DEF ConfigInv
  <2>2. ConfigInv'
    BY <2>1, CallsSettle, OthersSettle, TickingSettles, CommitsSettle,
       OutagesSettle DEF Next, Undisturbed
  <2> QED BY <2>2, TypeNext, LateNext, GoingNext DEF ConfigInv
<1>3. Inv => SettledConfig
  BY DEF ConfigInv
<1> HIDE DEF Inv
<1> QED BY <1>1, <1>2, <1>3, TypeCorrect, PTL DEF Spec

=============================================================================
