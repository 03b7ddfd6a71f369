------------------------ MODULE RunCoordinatorProofs ------------------------
(* Theorems about RunCoordinator, for every graph, bound and provider. *)
EXTENDS RunCoordinator, TLAPS

USE DEF TerminalRuns, TerminalSteps, LiveTasks, EndedTasks

-----------------------------------------------------------------------------
(* Types *)

\* The numbers a step may carry.
LEMMA Numbers ==
    /\ 0 \in Attempts
    /\ 0 \in 0 .. MaxRetries
    /\ 0 \in 0 .. MaxResumes
    /\ Generations \subseteq Attempts
    /\ \A g \in Attempts : g < MaxGeneration => g + 1 \in Generations
    /\ \A i \in 0 .. MaxRetries : i < MaxRetries => i + 1 \in 0 .. MaxRetries
    /\ \A i \in 0 .. MaxResumes : i < MaxResumes => i + 1 \in 0 .. MaxResumes
BY BoundAssumption DEF Attempts, Generations

\* aggregate keeps the store well typed.
LEMMA AggregateTyped ==
    ASSUME NEW r \in RunStates, NEW ss \in [Nodes -> Step], Aggregate(r, ss)
    PROVE  run' \in RunStates /\ step' \in [Nodes -> Step]
<1>1. Cascade(ss) \in [Nodes -> Step]
  BY DEF Cascade, Step, StepStates, Notes
<1>2. Verdict(Cascade(ss)) \in RunStates
  BY DEF Verdict, RunStates
<1> QED BY <1>1, <1>2 DEF Aggregate, RunStates

\* The coordinator at rest is well typed.
LEMMA AtRestTyped == AtRest \in Advancing /\ AtRest.phase = "rest"
BY ConfigAssumption, Numbers
   DEF AtRest, Advancing, Phases, NoObservation, Observation, TaskStates

\* The coordinator's record when it goes on to the next step.
LEMMA OnwardTyped ==
    ASSUME co \in Advancing, NEW todo \in SUBSET Nodes
    PROVE  Onward(todo) \in Advancing /\ Onward(todo).phase \in {"rest", "scan"}
BY AtRestTyped DEF Onward, Advancing, Phases

\* A snapshot of the run and one of its steps.
LEMMA PreparedTyped ==
    ASSUME co \in Advancing, NEW n \in Nodes, NEW r \in RunStates,
           NEW s \in Step
    PROVE  /\ Prepared(n, r, s) \in Advancing
           /\ Prepared(n, r, s).node = n
           /\ Prepared(n, r, s).attempt = s.attempt
<1> DEFINE fresh == s.state = "dispatching"
           halting == r = "stopping"
<1>1. fresh \in BOOLEAN /\ halting \in BOOLEAN
  OBVIOUS
<1>2. s.attempt \in Attempts /\ s.config \in Configs
  BY DEF Step
<1>3. Prepared(n, r, s) =
        [AtRest EXCEPT !.phase = "prepared", !.todo = co.todo \ {n},
                       !.bare = co.bare, !.node = n, !.attempt = s.attempt,
                       !.fresh = fresh, !.halting = halting,
                       !.change = IF s.change = "none" THEN None ELSE s.config,
                       !.config = s.config]
  BY DEF Prepared
<1> DEFINE change == IF s.change = "none" THEN None ELSE s.config
           todo == co.todo \ {n}
<1>4. change \in Configs \cup {None} /\ todo \in SUBSET Nodes
  BY <1>2 DEF Advancing
<1> HIDE DEF fresh, halting, change, todo
<1>5. [AtRest EXCEPT !.phase = "prepared", !.todo = todo,
                     !.bare = co.bare, !.node = n, !.attempt = s.attempt,
                     !.fresh = fresh, !.halting = halting,
                     !.change = change, !.config = s.config] \in Advancing
  BY <1>1, <1>2, <1>4, AtRestTyped DEF Advancing, Phases
<1>6. Prepared(n, r, s).node = n /\ Prepared(n, r, s).attempt = s.attempt
  BY <1>3, AtRestTyped DEF Advancing
<1> QED BY <1>3, <1>5, <1>6 DEF change, todo

\* A new run is well typed.
LEMMA InitTyped == Init => TypeOK
<1> SUFFICES ASSUME Init PROVE TypeOK
  OBVIOUS
<1>1. run \in RunStates
  BY DEF Init, RunStates
<1>2. step \in [Nodes -> Step]
  BY ConfigAssumption, Numbers DEF Init, Step, StepStates, Notes
<1>3. task \in [Nodes -> [Generations -> Task]]
  BY ConfigAssumption DEF Init, NewTask, Task, TaskStates
<1>4. co \in Advancing /\ co.phase = "rest"
  BY AtRestTyped DEF Init
<1>5. late \subseteq Mail /\ adapters \subseteq Nodes /\ seen \in BOOLEAN
  BY DEF Init
<1>6. resumes \in 0 .. MaxResumes
  BY Numbers DEF Init
<1> QED BY <1>1, <1>2, <1>3, <1>4, <1>5, <1>6 DEF TypeOK

-----------------------------------------------------------------------------
(* Each part of the state keeps its type under each action. *)

\* The commands keep the types.
LEMMA CommandsTyped == TypeOK /\ Commands => TypeOK'
<1> SUFFICES ASSUME TypeOK, Commands PROVE TypeOK'
  OBVIOUS
<1> USE DEF TypeOK
<1>1. CASE ReadRun
  BY <1>1 DEF ReadRun
<1>2. CASE StopRun
  <2>1. step' \in [Nodes -> Step]
    BY <1>2 DEF StopRun, Step
  <2> QED BY <1>2, <2>1 DEF StopRun, Bump, RunStates
<1>3. CASE ResumeRun
  <2>1. \A s \in Step : Reopened(s) \in Step
    BY Numbers DEF Reopened, Step, StepStates
  <2>2. step' \in [Nodes -> Step] /\ resumes' \in 0 .. MaxResumes
    BY <1>3, <2>1, Numbers DEF ResumeRun
  <2> QED BY <1>3, <2>1, <2>2 DEF ResumeRun, Bump, RunStates
<1>4. ASSUME NEW n \in Nodes, NEW c \in Configs, ChangeOnline(n, c)
      PROVE  TypeOK'
  <2>1. step' \in [Nodes -> Step]
    BY <1>4 DEF ChangeOnline, Step
  <2> QED BY <1>4, <2>1 DEF ChangeOnline, Bump
<1> QED BY <1>1, <1>2, <1>3, <1>4 DEF Commands

\* Taking on an attempt.
LEMMA AcceptTyped ==
    ASSUME TypeOK, NEW n \in Nodes, NEW g \in Generations, NEW c \in Configs
    PROVE  Accept(n, g, c) \in [Nodes -> [Generations -> Task]]
<1>1. task[n][g] \in Task
  BY DEF TypeOK
<1>2. [task[n][g] EXCEPT !.state = "queued", !.applied = c] \in Task
  BY <1>1 DEF Task, TaskStates
<1> QED BY <1>2 DEF Accept, TypeOK

\* So do the providers.
LEMMA ProvidersTyped == TypeOK /\ Providers => TypeOK'
<1> SUFFICES ASSUME TypeOK, Providers PROVE TypeOK'
  OBVIOUS
<1> USE DEF TypeOK, Client
<1>1. ASSUME NEW n \in Nodes, NEW g \in Generations, TaskRuns(n, g)
      PROVE  TypeOK'
  <2>1. [task[n][g] EXCEPT !.state = "running"] \in Task
    BY DEF Task, TaskStates
  <2>2. task' \in [Nodes -> [Generations -> Task]]
    BY <1>1, <2>1 DEF TaskRuns
  <2> QED BY <1>1, <2>2 DEF TaskRuns
<1>2. ASSUME NEW n \in Nodes, NEW g \in Generations, TaskEnds(n, g)
      PROVE  TypeOK'
  <2> PICK e \in EndedTasks : task' = [task EXCEPT ![n][g] =
                                        [@ EXCEPT !.state = e, !.halt = FALSE]]
    BY <1>2 DEF TaskEnds
  <2>0. task[n][g] \in Task
    OBVIOUS
  <2>1. [task[n][g] EXCEPT !.state = e, !.halt = FALSE] \in Task
    BY <2>0 DEF Task, TaskStates
  <2>2. task' \in [Nodes -> [Generations -> Task]]
    BY <2>1
  <2> QED BY <1>2, <2>2 DEF TaskEnds
<1>3. ASSUME NEW n \in Nodes, NEW g \in Generations, TaskPurged(n, g)
      PROVE  TypeOK'
  <2>1. [task[n][g] EXCEPT !.state = "purged"] \in Task
    BY DEF Task, TaskStates
  <2>2. task' \in [Nodes -> [Generations -> Task]]
    BY <1>3, <2>1 DEF TaskPurged
  <2> QED BY <1>3, <2>2 DEF TaskPurged
<1>4. ASSUME NEW m \in late, LateStart(m)
      PROVE  TypeOK'
  <2>1. m.node \in Nodes /\ m.gen \in Generations /\ m.config \in Configs
    BY DEF Mail
  <2>2. task' \in [Nodes -> [Generations -> Task]]
    BY <1>4, <2>1, AcceptTyped DEF LateStart
  <2> QED BY <1>4, <2>2 DEF LateStart
<1> QED BY <1>1, <1>2, <1>3, <1>4 DEF Providers

\* So do the steps of tick and of prepare.
LEMMA TickingTyped == TypeOK /\ Ticking => TypeOK'
<1> SUFFICES ASSUME TypeOK, Ticking PROVE TypeOK'
  OBVIOUS
<1> USE DEF TypeOK, Client
<1>1. CASE TickBegin
  <2>1. co' \in Advancing /\ co'.phase \in {"rest", "scan"}
    BY <1>1, AtRestTyped DEF TickBegin, Advancing, Phases
  <2> QED BY <1>1, <2>1 DEF TickBegin
<1>2. ASSUME NEW n \in Nodes, Leave(n)
      PROVE  co' \in Advancing /\ co'.phase \in {"rest", "scan"}
  BY <1>2, OnwardTyped DEF Leave, Advancing
<1>3. ASSUME NEW n \in Nodes, Aggregate(run, [step EXCEPT ![n].state = "stopped"])
      PROVE  run' \in RunStates /\ step' \in [Nodes -> Step]
  <2>1. [step EXCEPT ![n].state = "stopped"] \in [Nodes -> Step]
    BY DEF Step, StepStates
  <2> QED BY <1>3, <2>1, AggregateTyped
<1>4. ASSUME NEW n \in Nodes, StopUndispatched(n) PROVE TypeOK'
  BY <1>2, <1>3, <1>4 DEF StopUndispatched, Bump
<1>5. ASSUME NEW n \in Nodes, SkipUnconnected(n) PROVE TypeOK'
  BY <1>2, <1>5 DEF SkipUnconnected
<1>6. ASSUME NEW n \in Nodes, PrepareNothing(n) PROVE TypeOK'
  BY <1>2, <1>6 DEF PrepareNothing
<1>7. ASSUME NEW n \in Nodes, PrepareStop(n) PROVE TypeOK'
  BY <1>2, <1>3, <1>7 DEF PrepareStop, Bump
<1>8. ASSUME NEW n \in Nodes, Dispatch(n) PROVE TypeOK'
  <2> DEFINE s == [step[n] EXCEPT !.attempt = step[n].gen + 1,
                                  !.gen = step[n].gen + 1,
                                  !.state = "dispatching"]
  <2>1. s \in Step /\ s.attempt \in Generations
    BY <1>8, Numbers DEF Dispatch, Step, StepStates
  <2>2. step' = [step EXCEPT ![n] = s] /\ co' = Prepared(n, "running", s)
    BY <1>8 DEF Dispatch
  <2> HIDE DEF s
  <2>3. co' \in Advancing /\ co'.node \in Nodes /\ co'.attempt \in Generations
    BY <2>1, <2>2, PreparedTyped DEF RunStates
  <2> QED BY <1>8, <2>1, <2>2, <2>3 DEF Dispatch, Bump, RunStates
<1>9. ASSUME NEW n \in Nodes, PrepareOpen(n) PROVE TypeOK'
  <2>1. step[n] \in Step /\ step[n].attempt \in Generations
    BY <1>9 DEF PrepareOpen, Bare, Step, Attempts, Generations
  <2>2. co' \in Advancing /\ co'.node \in Nodes /\ co'.attempt \in Generations
    BY <1>9, <2>1, PreparedTyped DEF PrepareOpen
  <2> QED BY <1>9, <2>2 DEF PrepareOpen
<1> QED BY <1>1, <1>4, <1>5, <1>6, <1>7, <1>8, <1>9 DEF Ticking

-----------------------------------------------------------------------------
(* The provider calls *)

\* A true observation is a well formed one.
LEMMA TrueAnswersTyped ==
    ASSUME NEW t \in [Nodes -> [Generations -> Task]],
           NEW n \in Nodes, NEW g \in Generations
    PROVE  TrueAnswers(t, n, g) \subseteq Observation
<1>1. t[n][g] \in Task /\ g \in Attempts
  BY Numbers
<1>2. (t[n][g].state \in EndedTasks) \in BOOLEAN
  OBVIOUS
<1>3. NoObservation \in Observation
  BY Numbers DEF NoObservation, Observation, TaskStates
<1>4. ASSUME t[n][g].state \notin {"absent", "purged"},
             NEW a \in {t[n][g].applied} \cup (IF Silent THEN {None} ELSE {})
      PROVE  [state |-> t[n][g].state, gen |-> g,
              final |-> t[n][g].state \in EndedTasks, applied |-> a]
                \in Observation
  <2> DEFINE final == t[n][g].state \in EndedTasks
  <2> HIDE DEF final
  <2>1. [state |-> t[n][g].state, gen |-> g, final |-> final, applied |-> a]
          \in Observation
    BY <1>1, <1>2, <1>4 DEF Observation, Task, final
  <2> QED BY <2>1 DEF final
<1> QED BY <1>3, <1>4 DEF TrueAnswers

\* So is one without authority.
LEMMA RumoursTyped ==
    ASSUME NEW t \in [Nodes -> [Generations -> Task]],
           NEW n \in Nodes, NEW g \in Generations
    PROVE  Rumours(t, n, g) \subseteq Observation
<1>1. t[n][g].applied \in Configs /\ g \in Attempts
  BY Numbers DEF Task
<1>2. ASSUME NEW e \in {"succeeded", "retryable", "unknown"}
      PROVE  [state |-> e, gen |-> g, final |-> FALSE,
              applied |-> t[n][g].applied] \in Observation
  BY <1>1 DEF Observation, TaskStates
<1> QED BY <1>2 DEF Rumours

\* So is one of another attempt.
LEMMA MisattributedTyped ==
    ASSUME TypeOK, NEW t \in [Nodes -> [Generations -> Task]],
           NEW n \in Nodes, NEW g \in Generations
    PROVE  Misattributed(t, n, g) \subseteq Observation
<1>1. \A h \in 1 .. step[n].gen : h \in Generations
  BY BoundAssumption DEF TypeOK, Step, Attempts, Generations
<1> QED BY <1>1, TrueAnswersTyped DEF Misattributed

\* An observation is taken along to a later phase of the same step.
LEMMA ObservedTyped ==
    ASSUME co \in Advancing, NEW o \in Observation
    PROVE  /\ Observed(o) => /\ co' \in Advancing
                             /\ co'.node = co.node
                             /\ co'.attempt = co.attempt
           /\ LookedUp(o) => /\ co' \in Advancing
                             /\ co'.node = co.node
                             /\ co'.attempt = co.attempt
BY DEF Observed, LookedUp, Advancing, Phases

\* A call that throws leaves a well typed coordinator.
LEMMA ErredTyped ==
    ASSUME co \in Advancing, Erred
    PROVE  co' \in Advancing /\ co'.node = co.node /\ co'.attempt = co.attempt
BY Numbers DEF Erred, Advancing, Phases, NoObservation, Observation, TaskStates

\* So does going to another phase.
LEMMA GotoTyped ==
    ASSUME TypeOK, co.phase \notin {"rest", "scan"}, NEW p \in Phases, Goto(p)
    PROVE  TypeOK'
<1>1. co' \in Advancing /\ co'.node = co.node /\ co'.attempt = co.attempt
  BY DEF Goto, TypeOK, Advancing
<1> QED BY <1>1 DEF Goto, TypeOK, Client

\* A stop reaches a provider, a change is adopted by one.
LEMMA EffectsTyped ==
    ASSUME TypeOK, NEW n \in Nodes, NEW g \in Generations
    PROVE  /\ Halt(n, g) \in [Nodes -> [Generations -> Task]]
           /\ co.change # None => Adopt(n, g) \in [Nodes -> [Generations -> Task]]
<1>1. task[n][g] \in Task /\ Live(n, g) \in BOOLEAN
  BY DEF TypeOK, Live
<1>2. co.change # None => co.change \in Configs
  BY DEF TypeOK, Advancing
<1>3. [task[n][g] EXCEPT !.halt = Live(n, g)] \in Task
  BY <1>1 DEF Task
<1>4. co.change # None => [task[n][g] EXCEPT !.applied = co.change] \in Task
  BY <1>1, <1>2 DEF Task
<1> QED BY <1>3, <1>4 DEF Halt, Adopt, TypeOK

\* The calls keep the types.
LEMMA CallsTyped == TypeOK /\ Calls => TypeOK'
<1> SUFFICES ASSUME TypeOK, Calls PROVE TypeOK'
  OBVIOUS
<1> USE DEF TypeOK, Client
\* A call whose provider's records become t, taken as observation o or lost.
<1>1. ASSUME NEW o \in Observation, Observed(o),
             co.phase \notin {"rest", "scan"},
             task' \in [Nodes -> [Generations -> Task]],
             UNCHANGED <<run, step, late, Client, adapters>>
      PROVE  TypeOK'
  BY <1>1, ObservedTyped
<1>2. ASSUME NEW o \in Observation, LookedUp(o),
             co.phase \notin {"rest", "scan"},
             UNCHANGED <<run, step, task, late, Client, adapters>>
      PROVE  TypeOK'
  BY <1>2, ObservedTyped
<1>3. ASSUME Erred, co.phase \notin {"rest", "scan"},
             task' \in [Nodes -> [Generations -> Task]], late' \subseteq Mail,
             UNCHANGED <<run, step, Client, adapters>>
      PROVE  TypeOK'
  BY <1>3, ErredTyped
<1>4. ASSUME NEW n \in Nodes, co.node = n, co.phase \notin {"rest", "scan"}
      PROVE  /\ co.attempt \in Generations
             /\ Halt(n, co.attempt) \in [Nodes -> [Generations -> Task]]
             /\ co.change # None =>
                   Adopt(n, co.attempt) \in [Nodes -> [Generations -> Task]]
             /\ Accept(n, co.attempt, co.config)
                   \in [Nodes -> [Generations -> Task]]
  <2>1. co.attempt \in Generations /\ co.config \in Configs
    BY <1>4 DEF Advancing
  <2> QED BY <2>1, EffectsTyped, AcceptTyped
<1>5. ASSUME NEW n \in Nodes, StopAnswered(n) PROVE TypeOK'
  BY <1>1, <1>4, <1>5, TrueAnswersTyped DEF StopAnswered, Calling
<1>6. ASSUME NEW n \in Nodes, StopMisanswered(n) PROVE TypeOK'
  BY <1>1, <1>4, <1>6, RumoursTyped, MisattributedTyped
     DEF StopMisanswered, Calling
<1>7. ASSUME NEW n \in Nodes, StopFails(n) PROVE TypeOK'
  BY <1>3, <1>4, <1>7 DEF StopFails, Calling
<1>8. ASSUME NEW n \in Nodes, LookupAnswered(n) PROVE TypeOK'
  BY <1>2, <1>4, <1>8, TrueAnswersTyped DEF LookupAnswered, Calling
<1>9. ASSUME NEW n \in Nodes, LookupMisanswered(n) PROVE TypeOK'
  BY <1>2, <1>3, <1>4, <1>9, RumoursTyped DEF LookupMisanswered, Calling
<1>10. ASSUME NEW n \in Nodes, LookupFails(n) PROVE TypeOK'
  BY <1>3, <1>10 DEF LookupFails, Calling
<1>11. ASSUME NEW n \in Nodes, StartAnswered(n) PROVE TypeOK'
  BY <1>1, <1>4, <1>11, TrueAnswersTyped DEF StartAnswered, Starting
<1>12. ASSUME NEW n \in Nodes, StartMisanswered(n) PROVE TypeOK'
  BY <1>1, <1>4, <1>12, RumoursTyped, MisattributedTyped
     DEF StartMisanswered, Starting
<1>13. ASSUME NEW n \in Nodes, StartRefused(n) PROVE TypeOK'
  BY <1>13 DEF StartRefused, Starting, Advancing, Phases
<1>14. ASSUME NEW n \in Nodes, StartFails(n) PROVE TypeOK'
  <2>1. task' \in [Nodes -> [Generations -> Task]] /\ late' \subseteq Mail
    BY <1>4, <1>14 DEF StartFails, Starting, Abandon, Mail, Advancing
  <2> QED BY <1>3, <1>14, <2>1 DEF StartFails, Starting
<1>15. ASSUME NEW n \in Nodes, ChangeAnswered(n) PROVE TypeOK'
  BY <1>1, <1>4, <1>15, TrueAnswersTyped DEF ChangeAnswered, Changing
<1>21. ASSUME NEW n \in Nodes, ChangeMisanswered(n) PROVE TypeOK'
  BY <1>1, <1>4, <1>21, RumoursTyped, MisattributedTyped
     DEF ChangeMisanswered, Changing
<1>16. ASSUME NEW n \in Nodes, ChangeFails(n) PROVE TypeOK'
  <2>1. task' \in [Nodes -> [Generations -> Task]]
    BY <1>4, <1>16 DEF ChangeFails, Changing
  <2>2. /\ co' \in Advancing
        /\ co'.node = co.node /\ co'.attempt = co.attempt
    BY <1>16 DEF ChangeFails, Advancing, Phases
  <2> QED BY <1>16, <2>1, <2>2 DEF ChangeFails, Changing
<1>17. ASSUME NEW n \in Nodes, ChangeNotDue(n) PROVE TypeOK'
  <2>1. /\ co' \in Advancing
        /\ co'.node = co.node /\ co'.attempt = co.attempt
    BY <1>17 DEF ChangeNotDue, Advancing, Phases
  <2> QED BY <1>17, <2>1 DEF ChangeNotDue, Changing
<1>18. CASE CheckStop
  BY <1>18, GotoTyped DEF CheckStop, Phases
<1>19. CASE RecheckStop
  BY <1>19, GotoTyped DEF RecheckStop, Phases
<1>20. CASE ResolveSame \/ ResolveChanged \/ ResolveFails
  BY <1>20, GotoTyped DEF ResolveSame, ResolveChanged, ResolveFails, Phases
<1> QED BY <1>5, <1>6, <1>7, <1>8, <1>9, <1>10, <1>11, <1>12, <1>13, <1>14,
           <1>15, <1>16, <1>17, <1>18, <1>19, <1>20, <1>21 DEF Calls

-----------------------------------------------------------------------------
(* The closing transactions, the store, time and the process *)

\* An observation makes a well formed step of one.
LEMMA AfterObservationTyped ==
    ASSUME TypeOK, NEW n \in Nodes, co.obs.state # "absent"
    PROVE  AfterObservation(n) \in Step
<1> DEFINE o == co.obs
           noted == Noted(n)
           s == Applied([noted EXCEPT !.state = Outcome(o), !.note = "other"], o)
<1>1. o \in Observation
  BY DEF TypeOK, Advancing
<1>2. noted \in Step
  BY DEF TypeOK, Noted, Step
<1>3. Outcome(o) \in StepStates
  BY <1>1 DEF Outcome, Observation, TaskStates, StepStates
<1>4. s \in Step
  BY <1>1, <1>2, <1>3 DEF Applied, Step, Notes, Observation
<1>5. Retries(n) => s.retries + 1 \in 0 .. MaxRetries
  <2>1. s.retries = step[n].retries
    BY <1>2 DEF Applied, Noted, Step, TypeOK
  <2> QED BY <2>1, Numbers DEF Retries, TypeOK, Step
<1>6. [noted EXCEPT !.state = "unknown", !.note = "unconfirmed",
                    !.waits = TRUE] \in Step
  BY <1>2 DEF Step, StepStates, Notes
<1>7. Retries(n) => [s EXCEPT !.state = "pending", !.retries = @ + 1,
                              !.attempt = 0, !.change = "none", !.waits = TRUE]
                        \in Step
  BY <1>4, <1>5, Numbers DEF Step, StepStates
<1>8. [s EXCEPT !.change = "none"] \in Step
  BY <1>4 DEF Step
<1>9. [s EXCEPT !.waits = (o.state = "unknown")] \in Step
  <2> DEFINE w == o.state = "unknown"
  <2>1. w \in BOOLEAN
    OBVIOUS
  <2> HIDE DEF w, s
  <2>2. [s EXCEPT !.waits = w] \in Step
    BY <1>4, <2>1 DEF Step
  <2> QED BY <2>2 DEF w
<1> QED BY <1>4, <1>6, <1>7, <1>8, <1>9 DEF AfterObservation

\* A step of which nothing is known is still an open one.
LEMMA DoubtedTyped ==
    ASSUME NEW s \in Step
    PROVE  Doubted(s) \in Step /\ (~Ended(s) => ~Ended(Doubted(s)))
<1> DEFINE q == IF s.state = "dispatching" THEN s.state ELSE "unknown"
           c == IF s.change = "none" THEN s.change ELSE "unknown"
<1>1. q \in StepStates /\ c \in {"none", "pending", "unknown"}
  BY DEF Step, StepStates
<1>2. ~Ended(s) => q \notin TerminalSteps
  BY DEF Ended
<1>3. Doubted(s) = [s EXCEPT !.waits = TRUE, !.state = q, !.change = c,
                             !.note = "doubt"]
  BY DEF Doubted
<1> HIDE DEF q, c
<1>4. Doubted(s) \in Step /\ Doubted(s).state = q
  BY <1>1, <1>3 DEF Step, Notes
<1> QED BY <1>2, <1>4 DEF Ended

\* A step with another state and message.
LEMMA RestatedTyped ==
    ASSUME NEW s \in Step, NEW q \in StepStates, NEW note \in Notes
    PROVE  /\ [s EXCEPT !.state = q, !.note = note] \in Step
           /\ [s EXCEPT !.state = q, !.note = note, !.waits = TRUE] \in Step
BY DEF Step

\* The closing transactions keep the types.
LEMMA CommitsTyped == TypeOK /\ Commits => TypeOK'
<1> SUFFICES ASSUME TypeOK, Commits PROVE TypeOK'
  OBVIOUS
<1> USE DEF TypeOK, Client
<1>1. Done => co' \in Advancing /\ co'.phase \in {"rest", "scan"}
  BY OnwardTyped DEF Done, Advancing
<1>2. ASSUME NEW n \in Nodes, NEW s \in Step, Done,
             Aggregate(run, [step EXCEPT ![n] = s]), seen' \in BOOLEAN,
             UNCHANGED <<task, late, resumes, adapters>>
      PROVE  TypeOK'
  <2>1. run' \in RunStates /\ step' \in [Nodes -> Step]
    BY <1>2, AggregateTyped
  <2> QED BY <1>1, <1>2, <2>1
<1>3. ASSUME NEW n \in Nodes, RejectUnstarted(n) PROVE TypeOK'
  <2> DEFINE q == IF run = "stopping" THEN "stopped" ELSE "failed"
             s == [step[n] EXCEPT !.state = q, !.note = "other"]
  <2>0. q \in StepStates
    BY DEF StepStates
  <2>1. s \in Step
    <3>1. step[n] \in Step /\ "other" \in Notes
      BY DEF Notes
    <3> HIDE DEF q
    <3> QED BY <2>0, <3>1, RestatedTyped
  <2>2. CASE step[n].attempt = co.attempt /\ ~Ended(step[n])
    BY <1>2, <1>3, <2>1, <2>2 DEF RejectUnstarted, Bump
  <2>3. CASE ~(step[n].attempt = co.attempt /\ ~Ended(step[n]))
    BY <1>1, <1>3, <2>3 DEF RejectUnstarted
  <2> QED BY <2>2, <2>3
<1>4. ASSUME NEW n \in Nodes, RecordUnknown(n) PROVE TypeOK'
  <2>0. Doubted(step[n]) \in Step
    BY DoubtedTyped
  <2>1. step' \in [Nodes -> Step] /\ seen' \in BOOLEAN
    BY <1>4, <2>0 DEF RecordUnknown
  <2> QED BY <1>1, <1>4, <2>1 DEF RecordUnknown
<1>5. ASSUME NEW n \in Nodes, CommitDiscarded(n) PROVE TypeOK'
  BY <1>1, <1>5 DEF CommitDiscarded
<1>6. ASSUME NEW n \in Nodes, CommitAbsent(n) PROVE TypeOK'
  <2>0. /\ step[n] \in Step
        /\ {"stopped", "unknown"} \subseteq StepStates
        /\ {"other", "missing"} \subseteq Notes
    BY DEF StepStates, Notes
  <2>1. seen' \in BOOLEAN
    BY <1>6 DEF CommitAbsent
  <2>2. CASE run = "stopping"
    <3>1. [step[n] EXCEPT !.state = "stopped", !.note = "other",
                          !.waits = TRUE] \in Step
      BY <2>0, RestatedTyped
    <3> QED BY <1>2, <1>6, <2>1, <2>2, <3>1 DEF CommitAbsent
  <2>3. CASE run # "stopping"
    <3>0. [step[n] EXCEPT !.state = "unknown", !.note = "missing",
                          !.waits = TRUE] \in Step
      BY <2>0, RestatedTyped
    <3>1. step' \in [Nodes -> Step]
      BY <1>6, <2>3, <3>0 DEF CommitAbsent
    <3> QED BY <1>1, <1>6, <2>1, <2>3, <3>1 DEF CommitAbsent, RunStates
  <2> QED BY <2>2, <2>3
<1>7. ASSUME NEW n \in Nodes, CommitObservation(n) PROVE TypeOK'
  BY <1>2, <1>7, AfterObservationTyped DEF CommitObservation, BumpIf
<1> QED BY <1>3, <1>4, <1>5, <1>6, <1>7 DEF Commits

\* So do time, a failing store and a restart.
LEMMA OthersTyped ==
    TypeOK /\ ((\E n \in Nodes : Elapse(n)) \/ StoreFails \/ Restart) => TypeOK'
<1> SUFFICES ASSUME TypeOK,
                    (\E n \in Nodes : Elapse(n)) \/ StoreFails \/ Restart
             PROVE  TypeOK'
  OBVIOUS
<1> USE DEF TypeOK, Client
<1>1. ASSUME NEW n \in Nodes, Elapse(n) PROVE TypeOK'
  <2>1. step' \in [Nodes -> Step]
    BY <1>1 DEF Elapse, Step
  <2> QED BY <1>1, <2>1 DEF Elapse
<1>2. CASE StoreFails
  <2>1. /\ co' \in Advancing
        /\ \/ co'.phase \in {"rest", "scan"}
           \/ /\ co.phase \notin {"rest", "scan"}
              /\ co'.node = co.node /\ co'.attempt = co.attempt
    <3>1. ASSUME NEW n \in Nodes, Visit(n),
                 co' = IF n \in co.bare THEN AtRest ELSE Onward(co.todo \ {n})
          PROVE  co' \in Advancing /\ co'.phase \in {"rest", "scan"}
      BY <3>1, AtRestTyped, OnwardTyped DEF Advancing
    <3>2. Done => co' \in Advancing /\ co'.phase \in {"rest", "scan"}
      BY OnwardTyped DEF Done, Advancing
    <3> QED BY <1>2, <3>1, <3>2, ErredTyped DEF StoreFails
  <2> QED BY <1>2, <2>1 DEF StoreFails
<1>3. CASE Restart
  <2>1. task' \in [Nodes -> [Generations -> Task]] /\ late' \subseteq Mail
    <3>1. CASE co.phase = "starting"
      <4>1. /\ co.node \in Nodes /\ co.attempt \in Generations
            /\ co.config \in Configs
        BY <3>1 DEF Advancing
      <4> QED BY <1>3, <3>1, <4>1, AcceptTyped DEF Restart, Abandon, Mail
    <3>2. CASE co.phase # "starting"
      BY <1>3, <3>2 DEF Restart
    <3> QED BY <3>1, <3>2
  <2> QED BY <1>3, <2>1, AtRestTyped, BoundAssumption DEF Restart
<1> QED BY <1>1, <1>2, <1>3

\* Every step keeps the types.
LEMMA TypeNext == TypeOK /\ [Next]_vars => TypeOK'
<1> SUFFICES ASSUME TypeOK, [Next]_vars PROVE TypeOK'
  OBVIOUS
<1>1. CASE UNCHANGED vars
  BY <1>1 DEF TypeOK, vars
<1> QED BY <1>1, CommandsTyped, ProvidersTyped, TickingTyped, CallsTyped,
           CommitsTyped, OthersTyped DEF Next, Undisturbed

\* Every value the store, the coordinator and the providers hold has its type,
\* and an advance under way names a dispatched execution of a step.
THEOREM TypeCorrect == Spec => []TypeOK
BY InitTyped, TypeNext, PTL DEF Spec

-----------------------------------------------------------------------------
(* What a step may do to the durable run, and what follows for the verdicts    *)
(* the run and its steps carry.                                                *)

HIDE DEF LiveTasks, EndedTasks

-----------------------------------------------------------------------------
(* The six things that can happen to the stored run.                       *)

\* Nothing.
Quiet == UNCHANGED <<run, step>>

\* An open step is edited and stays open, and is left undispatched only as it
\* was; no undispatched one changes state; the run's state follows no verdict.
Touches ==
    \E n \in Nodes, s \in Step :
        /\ ~Ended(step[n]) /\ ~Ended(s)
        /\ s.gen = step[n].gen /\ s.retries = step[n].retries
        /\ s.state = "pending" =>
               step[n].state = "pending" /\ s.attempt = step[n].attempt
        /\ Bare(step[n]) => s.state = step[n].state
        /\ step' = [step EXCEPT ![n] = s]
        /\ \/ run' = run
           \/ run # "stopping" /\ run' = "attention"

\* An open step is given another state, undispatched only if it had an attempt,
\* which counts as a retry, and aggregate concludes.
Rules ==
    \E n \in Nodes, s \in Step :
        /\ ~Ended(step[n])
        /\ s.gen = step[n].gen
        /\ IF s.state = "pending"
           THEN /\ Bare(s) /\ ~Bare(step[n])
                /\ s.retries = step[n].retries + 1
           ELSE s.retries = step[n].retries
        /\ Aggregate(run, [step EXCEPT ![n] = s])

Dispatches == \E n \in Nodes : Dispatch(n)

\* What a closing transaction leaves alone: the generation and, unless the step
\* is to be tried again, the number of its retries.
LEMMA AfterObservationGen ==
    ASSUME TypeOK, NEW n \in Nodes, co.obs.state # "absent"
    PROVE  /\ AfterObservation(n).gen = step[n].gen
           /\ IF AfterObservation(n).state = "pending"
              THEN /\ Bare(AfterObservation(n))
                   /\ AfterObservation(n).retries = step[n].retries + 1
              ELSE AfterObservation(n).retries = step[n].retries
<1> DEFINE o == co.obs
           noted == Noted(n)
           s == Applied([noted EXCEPT !.state = Outcome(o), !.note = "other"], o)
<1>1. step[n] \in Step
  BY DEF TypeOK
<1>2. /\ noted.gen = step[n].gen /\ noted.retries = step[n].retries
      /\ DOMAIN noted = DOMAIN step[n]
  BY <1>1 DEF Noted, Step
<1>3. /\ s.gen = step[n].gen /\ s.retries = step[n].retries
      /\ DOMAIN s = DOMAIN step[n]
      /\ s.state = Outcome(o)
  BY <1>1, <1>2 DEF Applied, Step
<1>0. Outcome(o) # "pending"
  BY DEF TypeOK, Advancing, Observation, TaskStates, LiveTasks, EndedTasks,
         Outcome
<1> HIDE DEF s, noted
<1>4. AfterObservation(n) =
        IF Unconfirmed(o)
        THEN [noted EXCEPT !.state = "unknown", !.note = "unconfirmed",
                           !.waits = TRUE]
        ELSE IF Retries(n)
        THEN [s EXCEPT !.state = "pending", !.retries = @ + 1, !.attempt = 0,
                       !.change = "none", !.waits = TRUE]
        ELSE IF Ended(s) THEN [s EXCEPT !.change = "none"]
        ELSE [s EXCEPT !.waits = (o.state = "unknown")]
  BY DEF AfterObservation, s, noted
<1>5. DOMAIN step[n] = {"state", "attempt", "gen", "retries", "change",
                        "config", "actual", "waits", "note"}
  BY <1>1 DEF Step
<1>6. [noted EXCEPT !.state = "unknown", !.note = "unconfirmed",
                    !.waits = TRUE].gen = step[n].gen
      /\ [noted EXCEPT !.state = "unknown", !.note = "unconfirmed",
                       !.waits = TRUE].state # "pending"
      /\ [noted EXCEPT !.state = "unknown", !.note = "unconfirmed",
                       !.waits = TRUE].retries = step[n].retries
  BY <1>2, <1>5
<1>7. [s EXCEPT !.state = "pending", !.retries = @ + 1, !.attempt = 0,
                !.change = "none", !.waits = TRUE].gen = step[n].gen
      /\ [s EXCEPT !.state = "pending", !.retries = @ + 1, !.attempt = 0,
                   !.change = "none", !.waits = TRUE].attempt = 0
      /\ [s EXCEPT !.state = "pending", !.retries = @ + 1, !.attempt = 0,
                   !.change = "none", !.waits = TRUE].retries
            = step[n].retries + 1
      /\ [s EXCEPT !.state = "pending", !.retries = @ + 1, !.attempt = 0,
                   !.change = "none", !.waits = TRUE].state = "pending"
  BY <1>3, <1>5
<1>8. /\ [s EXCEPT !.change = "none"].gen = step[n].gen
      /\ [s EXCEPT !.change = "none"].state # "pending"
      /\ [s EXCEPT !.change = "none"].retries = step[n].retries
  BY <1>0, <1>3, <1>5
<1>9. /\ [s EXCEPT !.waits = (o.state = "unknown")].gen = step[n].gen
      /\ [s EXCEPT !.waits = (o.state = "unknown")].state = s.state
      /\ [s EXCEPT !.waits = (o.state = "unknown")].retries = step[n].retries
  BY <1>3, <1>5, Zenon
<1> QED BY <1>0, <1>3, <1>4, <1>6, <1>7, <1>8, <1>9 DEF Bare

\* Every step of the specification is one of the six.
LEMMA StoreChanges ==
    TypeOK /\ [Next]_vars =>
        Quiet \/ StopRun \/ ResumeRun \/ Dispatches \/ Touches \/ Rules
<1> SUFFICES ASSUME TypeOK, [Next]_vars
             PROVE  Quiet \/ StopRun \/ ResumeRun \/ Dispatches
                    \/ Touches \/ Rules
  OBVIOUS
<1>1. \A n \in Nodes : step[n] \in Step
  BY DEF TypeOK
<1>2. CASE UNCHANGED vars
  BY <1>2 DEF vars, Quiet
<1>3. CASE Commands
  <2>1. ASSUME NEW n \in Nodes, NEW c \in Configs, ChangeOnline(n, c)
        PROVE  Touches
    <3> DEFINE s == [step[n] EXCEPT !.change = "pending", !.config = c]
    <3>1. /\ s \in Step /\ s.gen = step[n].gen
          /\ s.state = step[n].state /\ s.attempt = step[n].attempt
          /\ s.retries = step[n].retries
      BY <1>1 DEF Step
    <3>2. step' = [step EXCEPT ![n] = s]
      BY <1>1, <2>1 DEF ChangeOnline, TypeOK, Step
    <3>3. run' = run /\ ~Ended(step[n])
      BY <2>1 DEF ChangeOnline, Ended
    <3>4. ~Ended(s)
      BY <3>1, <3>3 DEF Ended
    <3> HIDE DEF s
    <3> QED BY <3>1, <3>2, <3>3, <3>4 DEF Touches
  <2>2. CASE ReadRun
    BY <2>2 DEF ReadRun, Quiet
  <2> QED BY <1>3, <2>1, <2>2 DEF Commands
<1>4. CASE Providers
  BY <1>4 DEF Providers, TaskRuns, TaskEnds, TaskPurged, LateStart, Quiet
<1>5. CASE Ticking
  <2>1. ASSUME NEW n \in Nodes, ~Ended(step[n]),
               Aggregate(run, [step EXCEPT ![n].state = "stopped"])
        PROVE  Rules
    <3> DEFINE s == [step[n] EXCEPT !.state = "stopped"]
    <3>1. s \in Step /\ s.gen = step[n].gen /\ s.state # "pending"
          /\ s.retries = step[n].retries
      BY <1>1 DEF Step, StepStates
    <3>2. [step EXCEPT ![n].state = "stopped"] = [step EXCEPT ![n] = s]
      BY <1>1 DEF TypeOK, Step
    <3> QED BY <2>1, <3>1, <3>2 DEF Rules
  <2>2. ASSUME NEW n \in Nodes, StopUndispatched(n) PROVE Quiet \/ Rules
    BY <2>1, <2>2 DEF StopUndispatched, Quiet
  <2>3. ASSUME NEW n \in Nodes, PrepareStop(n) PROVE Rules
    BY <2>1, <2>3 DEF PrepareStop
  <2>4. ASSUME NEW n \in Nodes, SkipUnconnected(n) \/ PrepareNothing(n)
                                \/ PrepareOpen(n)
        PROVE  Quiet
    BY <2>4 DEF SkipUnconnected, PrepareNothing, PrepareOpen, Quiet
  <2>5. CASE TickBegin
    BY <2>5 DEF TickBegin, Quiet
  <2> QED BY <1>5, <2>2, <2>3, <2>4, <2>5 DEF Ticking, Dispatches
<1>6. CASE Calls
  BY <1>6 DEF Calls, StopAnswered, StopMisanswered, StopFails, LookupAnswered,
              LookupMisanswered, LookupFails, ChangeAnswered, ChangeMisanswered,
              ChangeFails, ChangeNotDue, StartAnswered, StartMisanswered,
              StartRefused, StartFails, CheckStop, RecheckStop, ResolveSame,
              ResolveChanged, ResolveFails, Goto, Quiet
<1>7. CASE Commits
  <2>1. ASSUME NEW n \in Nodes, RejectUnstarted(n) PROVE Quiet \/ Rules
    <3> DEFINE q == IF run = "stopping" THEN "stopped" ELSE "failed"
               s == [step[n] EXCEPT !.state = q, !.note = "other"]
    <3>1. q \in StepStates /\ "other" \in Notes /\ q # "pending"
      BY DEF StepStates, Notes
    <3>2. /\ s \in Step /\ s.gen = step[n].gen /\ s.state # "pending"
          /\ s.retries = step[n].retries
      <4> HIDE DEF q
      <4>1. s \in Step
        BY <1>1, <3>1, RestatedTyped
      <4>2. s.gen = step[n].gen /\ s.state = q /\ s.retries = step[n].retries
        BY <1>1 DEF Step
      <4> QED BY <3>1, <4>1, <4>2
    <3>3. CASE step[n].attempt = co.attempt /\ ~Ended(step[n])
      BY <2>1, <3>2, <3>3 DEF RejectUnstarted, Rules
    <3>4. CASE ~(step[n].attempt = co.attempt /\ ~Ended(step[n]))
      BY <2>1, <3>4 DEF RejectUnstarted, Quiet
    <3> QED BY <3>3, <3>4
  <2>2. ASSUME NEW n \in Nodes, RecordUnknown(n) PROVE Quiet \/ Touches
    <3>1. /\ Doubted(step[n]) \in Step /\ Doubted(step[n]).gen = step[n].gen
          /\ Doubted(step[n]).state # "pending"
          /\ Doubted(step[n]).retries = step[n].retries
      <4> DEFINE s == step[n]
                 q == IF s.state = "dispatching" THEN s.state ELSE "unknown"
                 c == IF s.change = "none" THEN s.change ELSE "unknown"
      <4>1. q # "pending"
        OBVIOUS
      <4>2. Doubted(s) = [s EXCEPT !.waits = TRUE, !.state = q, !.change = c,
                                   !.note = "doubt"]
        BY DEF Doubted
      <4>3. s \in Step
        BY <1>1
      <4> HIDE DEF s, q, c
      <4>4. /\ Doubted(s).gen = s.gen /\ Doubted(s).state = q
            /\ Doubted(s).retries = s.retries
        BY <4>2, <4>3 DEF Step
      <4> QED BY <4>1, <4>3, <4>4, DoubtedTyped DEF s
    <3>2. ~Ended(step[n]) => ~Ended(Doubted(step[n]))
      BY <1>1, DoubtedTyped
    <3>3. \/ UNCHANGED <<run, step>>
          \/ /\ ~Ended(step[n]) /\ run' = run
             /\ ~Bare(step[n])
             /\ step' = [step EXCEPT ![n] = Doubted(step[n])]
      BY <2>2 DEF RecordUnknown, TypeOK, Bare, Generations
    <3> QED BY <3>1, <3>2, <3>3 DEF Quiet, Touches
  <2>3. ASSUME NEW n \in Nodes, CommitDiscarded(n) PROVE Quiet
    BY <2>3 DEF CommitDiscarded, Quiet
  <2>4. ASSUME NEW n \in Nodes, CommitAbsent(n) PROVE Touches \/ Rules
    <3>0. ~Ended(step[n]) /\ ~Bare(step[n])
      BY <2>4 DEF CommitAbsent, Committing, Current, TypeOK, Bare, Generations
    <3>1. /\ {"stopped", "unknown"} \subseteq StepStates
          /\ {"other", "missing"} \subseteq Notes
      BY DEF StepStates, Notes
    <3>2. CASE run = "stopping"
      <4> DEFINE s == [step[n] EXCEPT !.state = "stopped", !.note = "other",
                                      !.waits = TRUE]
      <4>1. s \in Step
        BY <1>1, <3>1, RestatedTyped
      <4>2. s.gen = step[n].gen /\ s.state = "stopped"
            /\ s.retries = step[n].retries
        BY <1>1 DEF Step
      <4> QED BY <2>4, <3>0, <3>2, <4>1, <4>2 DEF CommitAbsent, Rules
    <3>3. CASE run # "stopping"
      <4> DEFINE s == [step[n] EXCEPT !.state = "unknown", !.note = "missing",
                                      !.waits = TRUE]
      <4>1. s \in Step
        BY <1>1, <3>1, RestatedTyped
      <4>2. s.gen = step[n].gen /\ s.state = "unknown"
            /\ s.retries = step[n].retries
        BY <1>1 DEF Step
      <4> QED BY <2>4, <3>0, <3>3, <4>1, <4>2 DEF CommitAbsent, Touches, Ended
    <3> QED BY <3>2, <3>3
  <2>5. ASSUME NEW n \in Nodes, CommitObservation(n) PROVE Rules
    <3>1. ~Bare(step[n])
      BY <2>5 DEF CommitObservation, Committing, Current, TypeOK, Bare,
                  Generations
    <3> QED BY <2>5, <3>1, AfterObservationTyped, AfterObservationGen
               DEF CommitObservation, Current, Rules
  <2> QED BY <1>7, <2>1, <2>2, <2>3, <2>4, <2>5 DEF Commits
<1>8. ASSUME NEW n \in Nodes, Elapse(n) PROVE Touches
  <2> DEFINE s == [step[n] EXCEPT !.waits = FALSE]
  <2>1. /\ s \in Step /\ s.gen = step[n].gen
        /\ s.state = step[n].state /\ s.attempt = step[n].attempt
        /\ s.retries = step[n].retries
    BY <1>1 DEF Step
  <2>2. step' = [step EXCEPT ![n] = s]
    BY <1>1, <1>8 DEF Elapse, TypeOK, Step
  <2>3. ~Ended(step[n]) /\ ~Ended(s) /\ run' = run
    BY <1>8, <2>1 DEF Elapse, Ended
  <2> HIDE DEF s
  <2> QED BY <2>1, <2>2, <2>3 DEF Touches
<1>9. CASE StoreFails \/ Restart
  BY <1>9 DEF StoreFails, Restart, Quiet
<1> QED BY <1>2, <1>3, <1>4, <1>5, <1>6, <1>7, <1>8, <1>9
        DEF Next, Undisturbed, Commands

-----------------------------------------------------------------------------
(* The run ends with its steps *)

\* aggregate leaves every ended step as it is, and no generation changes.
LEMMA AggregateKeeps ==
    ASSUME NEW r, NEW ss \in [Nodes -> Step], Aggregate(r, ss), NEW n \in Nodes
    PROVE  /\ step'[n].gen = ss[n].gen
           /\ Ended(ss[n]) => step'[n] = ss[n]
<1>1. n \in Blocked(ss) => ss[n].state = "pending"
  BY DEF Blocked
<1>2. Cascade(ss)[n].gen = ss[n].gen
  BY DEF Cascade, Step
<1>3. Ended(ss[n]) => Cascade(ss)[n] = ss[n]
  BY <1>1 DEF Cascade, Ended
<1> QED BY <1>2, <1>3 DEF Aggregate

\* Wherever aggregate has the last word the run has ended with its steps.
LEMMA AggregateConcludes ==
    ASSUME NEW r, NEW ss \in [Nodes -> Step], Aggregate(r, ss)
    PROVE  RunEndsWithSteps'
<1> DEFINE cs == Cascade(ss)
<1>1. CASE r = "stopping"
  BY <1>1 DEF Aggregate, RunEndsWithSteps, AllEnded, Ended
<1>2. CASE r # "stopping"
  <2>1. run' = Verdict(cs) /\ step' = cs
    BY <1>2 DEF Aggregate
  <2>2. (\A n \in Nodes : cs[n].state = "succeeded") => AllEnded(cs)
    BY DEF AllEnded, Ended
  <2> HIDE DEF cs
  <2>3. /\ Verdict(cs) \in TerminalRuns <=> AllEnded(cs)
        /\ Verdict(cs) = "succeeded" =>
               \A n \in Nodes : cs[n].state = "succeeded"
        /\ Verdict(cs) = "failed" =>
               \E n \in Nodes : cs[n].state # "succeeded"
    BY <2>2 DEF Verdict
  <2>4. AllEnded(step') <=> AllEnded(cs)
    BY <2>1
  <2> QED BY <2>1, <2>3, <2>4 DEF RunEndsWithSteps, AllEnded
<1> QED BY <1>1, <1>2

\* A new run is not over.
LEMMA VerdictsInit == Init => RunEndsWithSteps
<1> SUFFICES ASSUME Init PROVE RunEndsWithSteps
  OBVIOUS
<1>1. CASE References = Nodes
  BY <1>1 DEF Init, RunEndsWithSteps, AllEnded, Ended
<1>2. CASE References # Nodes
  <2>1. PICK n \in Nodes : n \notin References
    BY <1>2, GraphAssumption
  <2>2. ~Ended(step[n])
    BY <2>1 DEF Init, Ended
  <2> QED BY <1>2, <2>2 DEF Init, RunEndsWithSteps, AllEnded
<1> QED BY <1>1, <1>2

\* No step ends a run with an open step or with another verdict.
LEMMA VerdictsNext ==
    TypeOK /\ RunEndsWithSteps /\ [Next]_vars => RunEndsWithSteps'
<1> SUFFICES ASSUME TypeOK, RunEndsWithSteps, [Next]_vars
             PROVE  RunEndsWithSteps'
  OBVIOUS
<1>1. step \in [Nodes -> Step]
  BY DEF TypeOK
\* A step of the run that is open afterwards, and a run that is not over.
<1>2. ASSUME NEW n \in Nodes, ~Ended(step'[n]), run' \notin TerminalRuns
      PROVE  RunEndsWithSteps'
  BY <1>2 DEF RunEndsWithSteps, AllEnded
<1>3. CASE Quiet
  BY <1>3 DEF Quiet, RunEndsWithSteps, AllEnded
<1>4. CASE StopRun
  <2>1. PICK n \in Nodes : ~Ended(step[n])
    BY <1>4 DEF StopRun, RunEndsWithSteps, AllEnded
  <2>2. ~Ended(step'[n])
    BY <1>1, <1>4, <2>1 DEF StopRun, Ended, Step
  <2> QED BY <1>2, <1>4, <2>2 DEF StopRun
<1>5. CASE ResumeRun
  <2>1. PICK n \in Nodes : step[n].state \in {"stopped", "failed"}
    BY <1>5 DEF ResumeRun
  <2>2. ~Ended(step'[n])
    BY <1>1, <1>5, <2>1 DEF ResumeRun, Reopened, Ended, Step
  <2> QED BY <1>2, <1>5, <2>2 DEF ResumeRun
<1>6. CASE Dispatches
  <2>1. PICK n \in Nodes : Dispatch(n)
    BY <1>6 DEF Dispatches
  <2>2. ~Ended(step'[n])
    BY <1>1, <2>1 DEF Dispatch, Ended, Step
  <2> QED BY <1>2, <2>1, <2>2 DEF Dispatch
<1>7. CASE Touches
  <2>1. PICK n \in Nodes, s \in Step :
           /\ ~Ended(step[n]) /\ ~Ended(s)
           /\ step' = [step EXCEPT ![n] = s]
           /\ run' = run \/ run' = "attention"
    BY <1>7 DEF Touches
  <2>2. ~Ended(step'[n])
    BY <1>1, <2>1
  <2>3. run' \notin TerminalRuns
    BY <2>1 DEF RunEndsWithSteps, AllEnded
  <2> QED BY <1>2, <2>2, <2>3
<1>8. CASE Rules
  BY <1>1, <1>8, AggregateConcludes DEF Rules
<1> QED BY <1>3, <1>4, <1>5, <1>6, <1>7, <1>8, StoreChanges

\* The run has ended exactly when all of its steps have, and with the end that
\* theirs amount to, so that runs.stop and runs.resume never both apply.
THEOREM VerdictsAgree == Spec => []RunEndsWithSteps
BY VerdictsInit, VerdictsNext, TypeCorrect, PTL DEF Spec

-----------------------------------------------------------------------------
(* Verdicts and stops are kept *)

\* Only a resume reopens an ended step, and never one that succeeded, whatever
\* late or repeated observation of it the coordinator still commits.
THEOREM VerdictsStand == Spec => VerdictStands
<1>1. TypeOK /\ [Next]_vars =>
        [\A n \in Nodes :
            Ended(step[n]) /\ step'[n].state # step[n].state =>
                /\ step[n].state # "succeeded"
                /\ resumes' = resumes + 1]_vars
  <2> SUFFICES ASSUME TypeOK, [Next]_vars, NEW n \in Nodes,
                      Ended(step[n]), step'[n].state # step[n].state
               PROVE  step[n].state # "succeeded" /\ resumes' = resumes + 1
    OBVIOUS
  <2>1. step \in [Nodes -> Step]
    BY DEF TypeOK
  <2>2. CASE Quiet
    BY <2>2 DEF Quiet
  <2>3. CASE StopRun
    BY <2>1, <2>3 DEF StopRun, Step
  <2>4. CASE ResumeRun
    BY <2>1, <2>4 DEF ResumeRun, Reopened
  <2>5. CASE Dispatches
    <3>1. PICK m \in Nodes : Dispatch(m)
      BY <2>5 DEF Dispatches
    <3>2. m # n
      BY <3>1 DEF Dispatch, Ready, Ended
    <3> QED BY <2>1, <3>1, <3>2 DEF Dispatch
  <2>6. CASE Touches
    BY <2>1, <2>6 DEF Touches
  <2>7. CASE Rules
    <3>1. PICK m \in Nodes, s \in Step :
             ~Ended(step[m]) /\ Aggregate(run, [step EXCEPT ![m] = s])
      BY <2>7 DEF Rules
    <3>2. [step EXCEPT ![m] = s] \in [Nodes -> Step]
      BY <2>1, <3>1
    <3>3. m # n /\ [step EXCEPT ![m] = s][n] = step[n]
      BY <2>1, <3>1
    <3> QED BY <3>1, <3>2, <3>3, AggregateKeeps
  <2> QED BY <2>2, <2>3, <2>4, <2>5, <2>6, <2>7, StoreChanges
<1> QED BY <1>1, TypeCorrect, PTL DEF Spec, VerdictStands

\* An accepted stop is final: no observation, retry or dispatch that was under
\* way when it was accepted takes it back or starts another execution.
THEOREM StopIsFinal == Spec => StopSticks
<1>1. TypeOK /\ RunEndsWithSteps /\ [Next]_vars =>
        [run = "stopping" =>
            /\ run' \in {"stopping", "stopped"}
            /\ \A n \in Nodes : step'[n].gen = step[n].gen]_vars
  <2> SUFFICES ASSUME TypeOK, RunEndsWithSteps, [Next]_vars, run = "stopping"
               PROVE  /\ run' \in {"stopping", "stopped"}
                      /\ \A n \in Nodes : step'[n].gen = step[n].gen
    OBVIOUS
  <2>1. step \in [Nodes -> Step]
    BY DEF TypeOK
  <2>2. CASE Quiet
    BY <2>2 DEF Quiet
  <2>3. CASE StopRun
    BY <2>1, <2>3 DEF StopRun, Step
  <2>4. ~ResumeRun
    BY DEF ResumeRun, RunEndsWithSteps
  <2>5. ~Dispatches
    BY DEF Dispatches, Dispatch
  <2>6. CASE Touches
    BY <2>1, <2>6 DEF Touches
  <2>7. CASE Rules
    <3>1. PICK m \in Nodes, s \in Step :
             /\ s.gen = step[m].gen
             /\ Aggregate(run, [step EXCEPT ![m] = s])
      BY <2>7 DEF Rules
    <3>2. [step EXCEPT ![m] = s] \in [Nodes -> Step]
      BY <2>1, <3>1
    <3>3. \A n \in Nodes : [step EXCEPT ![m] = s][n].gen = step[n].gen
      BY <2>1, <3>1
    <3>4. run' \in {"stopping", "stopped"}
      BY <3>1 DEF Aggregate
    <3> QED BY <3>1, <3>2, <3>3, <3>4, AggregateKeeps
  <2> QED BY <2>2, <2>3, <2>4, <2>5, <2>6, <2>7, StoreChanges
<1> QED BY <1>1, TypeCorrect, VerdictsAgree, PTL DEF Spec, StopSticks

-----------------------------------------------------------------------------
(* No step waits behind a dead one *)

\* An undispatched step carries no attempt.
Undispatched == \A n \in Nodes : step[n].state = "pending" => Bare(step[n])

\* The least set the cascade computes is closed: whoever is left undispatched
\* waits for no step that failed, was stopped or is stopped by the cascade.
LEMMA CascadeComplete ==
    ASSUME NEW ss \in [Nodes -> Step],
           \A n \in Nodes : ss[n].state = "pending" => Bare(ss[n]),
           NEW n \in Nodes, Cascade(ss)[n].state = "pending",
           NEW m \in Predecessors(n)
    PROVE  /\ Bare(Cascade(ss)[n])
           /\ Cascade(ss)[m].state \notin {"failed", "stopped"}
<1> DEFINE Waiting == {k \in Nodes : ss[k].state = "pending" /\ Bare(ss[k])}
           Dead == {k \in Nodes : ss[k].state \in {"failed", "stopped"}}
           Closed(S) == \A k \in Waiting :
                           Predecessors(k) \cap (Dead \cup S) # {} => k \in S
<1>0. m \in Nodes
  BY DEF Predecessors
<1>1. \A k \in Blocked(ss) : Cascade(ss)[k].state = "stopped"
  BY DEF Cascade, Blocked, Step
<1>2. n \notin Blocked(ss) /\ Cascade(ss)[n] = ss[n]
  BY <1>1 DEF Cascade
<1>3. n \in Waiting
  BY <1>2
<1>4. PICK S \in SUBSET Waiting : Closed(S) /\ n \notin S
  BY <1>2, <1>3 DEF Blocked
<1>5. Blocked(ss) \subseteq S
  BY <1>4 DEF Blocked
<1>6. m \notin Dead \cup S
  BY <1>3, <1>4
<1>7. Cascade(ss)[m] = ss[m]
  BY <1>0, <1>5, <1>6 DEF Cascade
<1> QED BY <1>0, <1>2, <1>3, <1>6, <1>7

\* Wherever aggregate has the last word, both hold.
LEMMA AggregateLeaves ==
    ASSUME NEW r, NEW ss \in [Nodes -> Step], Aggregate(r, ss),
           \A n \in Nodes : ss[n].state = "pending" => Bare(ss[n])
    PROVE  Undispatched' /\ NoStrandedStep'
<1>1. CASE r = "stopping"
  BY <1>1 DEF Aggregate, Undispatched, NoStrandedStep, AllEnded, Ended
<1>2. CASE r # "stopping"
  <2>1. step' = Cascade(ss)
    BY <1>2 DEF Aggregate
  <2>2. \A n \in Nodes : Cascade(ss)[n].state = "pending" => Bare(Cascade(ss)[n])
    BY DEF Cascade, Step
  <2> QED BY <2>1, <2>2, CascadeComplete DEF Undispatched, NoStrandedStep
<1> QED BY <1>1, <1>2

\* No step of the specification strands one.
LEMMA StrandedNext ==
    TypeOK /\ Undispatched /\ NoStrandedStep /\ [Next]_vars =>
        Undispatched' /\ NoStrandedStep'
<1> SUFFICES ASSUME TypeOK, Undispatched, NoStrandedStep, [Next]_vars
             PROVE  Undispatched' /\ NoStrandedStep'
  OBVIOUS
<1>1. step \in [Nodes -> Step]
  BY DEF TypeOK
<1>0. \A n \in Nodes : Predecessors(n) \subseteq Nodes
  BY DEF Predecessors
<1>2. CASE Quiet
  BY <1>2 DEF Quiet, Undispatched, NoStrandedStep
<1>3. CASE StopRun
  BY <1>1, <1>3 DEF StopRun, Undispatched, NoStrandedStep, Bare, Step
<1>4. CASE ResumeRun
  <2>1. \A n \in Nodes : /\ step'[n].state \in {"pending", "succeeded"}
                         /\ step'[n].state = "pending" => Bare(step'[n])
    BY <1>1, <1>4 DEF ResumeRun, Reopened, Bare, Step
  <2> QED BY <1>0, <2>1 DEF Undispatched, NoStrandedStep
<1>5. CASE Dispatches
  <2>1. PICK n \in Nodes : Dispatch(n)
    BY <1>5 DEF Dispatches
  <2>2. step'[n].state = "dispatching" /\ \A m \in Nodes \ {n} : step'[m] = step[m]
    BY <1>1, <2>1 DEF Dispatch, Step
  <2> QED BY <1>0, <2>1, <2>2 DEF Dispatch, Undispatched, NoStrandedStep
<1>6. CASE Touches
  <2>1. PICK n \in Nodes, s \in Step :
           /\ ~Ended(s)
           /\ s.state = "pending" =>
                  step[n].state = "pending" /\ s.attempt = step[n].attempt
           /\ step' = [step EXCEPT ![n] = s]
           /\ run' = run \/ run # "stopping"
    BY <1>6 DEF Touches
  <2>2. step'[n] = s /\ \A m \in Nodes \ {n} : step'[m] = step[m]
    BY <1>1, <2>1
  <2> QED BY <1>0, <2>1, <2>2 DEF Undispatched, NoStrandedStep, Bare, Ended
<1>7. CASE Rules
  <2>1. PICK n \in Nodes, s \in Step :
           /\ s.state = "pending" => Bare(s)
           /\ Aggregate(run, [step EXCEPT ![n] = s])
    BY <1>7 DEF Rules
  <2>2. /\ [step EXCEPT ![n] = s] \in [Nodes -> Step]
        /\ \A m \in Nodes : [step EXCEPT ![n] = s][m].state = "pending" =>
                               Bare([step EXCEPT ![n] = s][m])
    BY <1>1, <2>1 DEF Undispatched
  <2> QED BY <2>1, <2>2, AggregateLeaves
<1> QED BY <1>2, <1>3, <1>4, <1>5, <1>6, <1>7, StoreChanges

\* Outside a stop no undispatched step ever waits for a predecessor that failed
\* or was stopped, in a graph of any shape and however its steps came to fail.
THEOREM NoneStranded == Spec => [](Undispatched /\ NoStrandedStep)
<1>1. Init => Undispatched /\ NoStrandedStep
  BY DEF Init, Undispatched, NoStrandedStep, Bare, Predecessors
<1> QED BY <1>1, StrandedNext, TypeCorrect, PTL DEF Spec

-----------------------------------------------------------------------------
(* The number of executions *)

\* A step within a budget of its own, apart from its retries, with an execution
\* to come if it waits for one.
Within(s, budget) == /\ s.gen <= budget + s.retries + 1
                     /\ s.state = "pending" => s.gen <= budget + s.retries

\* Each time the user had the run started allows one execution and the retries.
WithinBudget ==
    \A n \in Nodes : Within(step[n], (MaxRetries + 1) * resumes)

\* The budget follows, since a step has MaxRetries retries at the most.
LEMMA BudgetFollows == TypeOK /\ WithinBudget => ExecutionBudget
<1> SUFFICES ASSUME TypeOK, WithinBudget, NEW n \in Nodes
             PROVE  step[n].gen <= (MaxRetries + 1) * (resumes + 1)
  BY DEF ExecutionBudget
<1> DEFINE spent == (MaxRetries + 1) * resumes
<1>1. /\ step[n].gen \in Nat /\ step[n].retries \in 0 .. MaxRetries
      /\ MaxRetries \in Nat /\ resumes \in Nat
  BY BoundAssumption DEF TypeOK, Step, Attempts
<1>2. spent \in Nat /\ (MaxRetries + 1) * (resumes + 1) = spent + MaxRetries + 1
  BY <1>1
<1>3. step[n].gen <= spent + step[n].retries + 1
  BY DEF WithinBudget, Within
<1> HIDE DEF spent
<1> QED BY <1>1, <1>2, <1>3

\* runs.resume alone counts a resume.
LEMMA ResumesGrow ==
    TypeOK /\ [Next]_vars => resumes' = resumes \/ resumes' = resumes + 1
<1> SUFFICES ASSUME [Next]_vars PROVE resumes' = resumes \/ resumes' = resumes + 1
  OBVIOUS
<1>1. CASE UNCHANGED vars
  BY <1>1 DEF vars
<1>2. CASE Commands
  BY <1>2 DEF Commands, ReadRun, StopRun, ResumeRun, ChangeOnline
<1>3. CASE Providers
  BY <1>3 DEF Providers, TaskRuns, TaskEnds, TaskPurged, LateStart, Client
<1>4. CASE Ticking
  BY <1>4 DEF Ticking, TickBegin, StopUndispatched, SkipUnconnected,
              PrepareNothing, PrepareStop, Dispatch, PrepareOpen, Client
<1>5. CASE Calls
  BY <1>5 DEF Calls, StopAnswered, StopMisanswered, StopFails, LookupAnswered,
              LookupMisanswered, LookupFails, ChangeAnswered, ChangeMisanswered,
              ChangeFails, ChangeNotDue, StartAnswered, StartMisanswered,
              StartRefused, StartFails, CheckStop, RecheckStop, ResolveSame,
              ResolveChanged, ResolveFails, Goto, Client
<1>6. CASE Commits
  BY <1>6 DEF Commits, RejectUnstarted, RecordUnknown, CommitDiscarded,
              CommitAbsent, CommitObservation, Client
<1>7. CASE (\E n \in Nodes : Elapse(n)) \/ StoreFails \/ Restart
  BY <1>7 DEF Elapse, StoreFails, Restart, Client
<1> QED BY <1>1, <1>2, <1>3, <1>4, <1>5, <1>6, <1>7 DEF Next, Undisturbed

\* Of a step's budget the cascade changes nothing.
LEMMA AggregateBudget ==
    ASSUME NEW r, NEW ss \in [Nodes -> Step], Aggregate(r, ss), NEW n \in Nodes
    PROVE  /\ step'[n].gen = ss[n].gen /\ step'[n].retries = ss[n].retries
           /\ step'[n].state = "pending" => ss[n].state = "pending"
<1>1. /\ Cascade(ss)[n].gen = ss[n].gen
      /\ Cascade(ss)[n].retries = ss[n].retries
      /\ Cascade(ss)[n].state = "pending" => ss[n].state = "pending"
  BY DEF Cascade, Step
<1> QED BY <1>1 DEF Aggregate

\* No step of the specification exceeds the budget.
LEMMA BudgetNext ==
    TypeOK /\ Undispatched /\ WithinBudget /\ [Next]_vars => WithinBudget'
<1> SUFFICES ASSUME TypeOK, Undispatched, WithinBudget, [Next]_vars, NEW n \in Nodes
             PROVE  Within(step'[n], (MaxRetries + 1) * resumes')
  BY DEF WithinBudget
<1> DEFINE spent == (MaxRetries + 1) * resumes
<1>1. step \in [Nodes -> Step]
  BY DEF TypeOK
<1>2. \A m \in Nodes : /\ step[m].gen \in Nat
                       /\ step[m].retries \in 0 .. MaxRetries
                       /\ step[m].retries \in Nat
  BY <1>1, BoundAssumption DEF Step, Attempts
<1>3. /\ MaxRetries \in Nat /\ resumes \in Nat /\ spent \in Nat
      /\ (MaxRetries + 1) * (resumes + 1) = spent + MaxRetries + 1
  BY BoundAssumption DEF TypeOK
<1>4. \A m \in Nodes : /\ step[m].gen <= spent + step[m].retries + 1
                       /\ step[m].state = "pending" =>
                              step[m].gen <= spent + step[m].retries
  BY DEF WithinBudget, Within
<1> DEFINE after == (MaxRetries + 1) * resumes'
<1>5. after = spent \/ after = spent + MaxRetries + 1
  <2>1. resumes' = resumes \/ resumes' = resumes + 1
    BY ResumesGrow
  <2> QED BY <1>3, <2>1
<1>6. ResumeRun => after = spent + MaxRetries + 1
  BY <1>3 DEF ResumeRun
<1> HIDE DEF spent, after
<1>7. SUFFICES Within(step'[n], after)
  BY DEF after
\* A step that has used up no more than before.
<1>8. ASSUME NEW s, s.gen = step[n].gen, s.retries = step[n].retries,
             s.state = "pending" => step[n].state = "pending"
      PROVE  Within(s, after)
  BY <1>2, <1>3, <1>4, <1>5, <1>8 DEF Within
<1>9. CASE Quiet
  BY <1>8, <1>9 DEF Quiet
<1>10. CASE StopRun
  <2>1. /\ step'[n].gen = step[n].gen /\ step'[n].retries = step[n].retries
        /\ step'[n].state = step[n].state
    BY <1>1, <1>10 DEF StopRun, Step
  <2> QED BY <1>8, <2>1
<1>11. CASE ResumeRun
  <2>2. CASE step[n].state = "succeeded"
    BY <1>1, <1>8, <1>11, <2>2 DEF ResumeRun, Reopened
  <2>3. CASE step[n].state # "succeeded"
    <3>1. step'[n].gen = step[n].gen /\ step'[n].retries = 0
      BY <1>1, <1>11, <2>3 DEF ResumeRun, Reopened, Step
    <3> QED BY <1>2, <1>3, <1>4, <1>6, <1>11, <3>1 DEF Within
  <2> QED BY <2>2, <2>3
<1>12. CASE Dispatches
  <2>1. PICK m \in Nodes : Dispatch(m)
    BY <1>12 DEF Dispatches
  <2>2. CASE m # n
    BY <1>1, <1>8, <2>1, <2>2 DEF Dispatch
  <2>3. CASE m = n
    <3>1. /\ step'[n].gen = step[n].gen + 1 /\ step'[n].state = "dispatching"
          /\ step'[n].retries = step[n].retries /\ step[n].state = "pending"
      BY <1>1, <2>1, <2>3 DEF Dispatch, Ready, Step
    <3> QED BY <1>2, <1>3, <1>4, <1>5, <3>1 DEF Within
  <2> QED BY <2>2, <2>3
<1>13. CASE Touches
  <2>1. PICK m \in Nodes, s \in Step :
           /\ s.gen = step[m].gen /\ s.retries = step[m].retries
           /\ s.state = "pending" => step[m].state = "pending"
           /\ step' = [step EXCEPT ![m] = s]
    BY <1>13 DEF Touches
  <2>2. step'[n] = IF m = n THEN s ELSE step[n]
    BY <1>1, <2>1
  <2> QED BY <1>8, <2>1, <2>2
<1>14. CASE Rules
  <2>1. PICK m \in Nodes, s \in Step :
           /\ s.gen = step[m].gen
           /\ IF s.state = "pending"
              THEN ~Bare(step[m]) /\ s.retries = step[m].retries + 1
              ELSE s.retries = step[m].retries
           /\ Aggregate(run, [step EXCEPT ![m] = s])
    BY <1>14 DEF Rules
  <2> DEFINE q == [step EXCEPT ![m] = s][n]
  <2>2. q = IF m = n THEN s ELSE step[n]
    BY <1>1, <2>1
  <2>3. [step EXCEPT ![m] = s] \in [Nodes -> Step] /\ q \in Step
    BY <1>1, <2>1
  <2>4. /\ step'[n].gen = q.gen /\ step'[n].retries = q.retries
        /\ step'[n].state = "pending" => q.state = "pending"
    BY <2>1, <2>3, AggregateBudget
  <2>5. Within(q, after)
    <3>1. CASE m = n /\ s.state = "pending"
      <4>1. step[n].state # "pending"
        BY <2>1, <3>1 DEF Undispatched
      <4>2. /\ step[n].gen <= spent + step[n].retries + 1
            /\ s.gen = step[n].gen /\ s.retries = step[n].retries + 1
        BY <1>4, <2>1, <3>1
      <4>3. Within(s, after)
        BY <1>2, <1>3, <1>5, <4>2 DEF Within
      <4> QED BY <2>2, <3>1, <4>3
    <3>2. CASE ~(m = n /\ s.state = "pending")
      BY <1>8, <2>1, <2>2, <3>2
    <3> QED BY <3>1, <3>2
  <2> HIDE DEF q
  <2> QED BY <2>4, <2>5 DEF Within
<1> QED BY <1>9, <1>10, <1>11, <1>12, <1>13, <1>14, StoreChanges

\* A step is never executed more often than its retries and the user's own
\* starts and resumes allow, however its calls fail and its process restarts.
THEOREM BudgetKept == Spec => []ExecutionBudget
<1>1. Init => WithinBudget
  <2>1. (MaxRetries + 1) * 0 = 0
    BY BoundAssumption
  <2> QED BY <2>1 DEF Init, WithinBudget, Within
<1> QED BY <1>1, BudgetNext, BudgetFollows, TypeCorrect, NoneStranded,
           PTL DEF Spec

-----------------------------------------------------------------------------
(* Changes of a running step, and the revision *)

\* A change that was outstanding was confirmed, or its execution is over.
ChangeStands(s, t) ==
    s.change # "none" /\ t.change = "none" =>
        t.actual = s.config \/ Ended(t) \/ Bare(t)

\* A step in doubt stays one until it is written anew.
Doubtful(s) == s.note = "doubt" => /\ s.state \in {"dispatching", "unknown"}
                                   /\ s.change # "pending"
                                   /\ ~Bare(s)

\* How a step may be edited.
Edited(s, t) == ChangeStands(s, t) /\ (Doubtful(s) => Doubtful(t))

\* One step edited, with or without aggregate's conclusions.
LEMMA OneEdited ==
    ASSUME TypeOK, NEW n \in Nodes, NEW s \in Step, Edited(step[n], s),
           \/ step' = [step EXCEPT ![n] = s]
           \/ Aggregate(run, [step EXCEPT ![n] = s])
    PROVE  \A m \in Nodes : Edited(step[m], step'[m])
<1> DEFINE ss == [step EXCEPT ![n] = s]
<1>1. ss \in [Nodes -> Step]
  BY DEF TypeOK
<1>2. \A m \in Nodes : Edited(step[m], ss[m])
  BY DEF TypeOK, Edited, ChangeStands
<1> HIDE DEF ss
<1>3. ASSUME NEW m \in Nodes, Aggregate(run, ss) PROVE Edited(step[m], step'[m])
  <2>1. \/ step'[m] = ss[m]
        \/ step'[m].state = "stopped" /\ step'[m].note = "other"
    <3>1. \/ Cascade(ss)[m] = ss[m]
          \/ Cascade(ss)[m].state = "stopped" /\ Cascade(ss)[m].note = "other"
      BY <1>1 DEF Cascade, Step
    <3> QED BY <1>3, <3>1 DEF Aggregate
  <2> QED BY <1>2, <2>1 DEF Edited, ChangeStands, Doubtful, Ended
<1> QED BY <1>2, <1>3 DEF ss

\* What an observation makes of a step is one of four things, and each is such
\* an edit: a change is taken off the record only by its confirmation.
LEMMA ObservationEdits ==
    ASSUME TypeOK, NEW n \in Nodes
    PROVE  Edited(step[n], AfterObservation(n))
<1> DEFINE o == co.obs
           noted == Noted(n)
           s == Applied([noted EXCEPT !.state = Outcome(o), !.note = "other"], o)
<1>0. step[n] \in Step
  BY DEF TypeOK
<1>1. /\ noted.config = step[n].config /\ DOMAIN noted = DOMAIN step[n]
      /\ step[n].change # "none" => noted.change # "none"
  BY <1>0 DEF Noted, Step
<1>2. /\ DOMAIN s = DOMAIN step[n] /\ s.note = "other"
      /\ step[n].change # "none" /\ s.change = "none" =>
             s.actual = step[n].config
  BY <1>0, <1>1 DEF Applied, Step
<1>3. DOMAIN step[n] = {"state", "attempt", "gen", "retries", "change",
                        "config", "actual", "waits", "note"}
  BY <1>0 DEF Step
<1> DEFINE doubt == [noted EXCEPT !.state = "unknown", !.note = "unconfirmed",
                                  !.waits = TRUE]
           retry == [s EXCEPT !.state = "pending", !.retries = @ + 1,
                              !.attempt = 0, !.change = "none", !.waits = TRUE]
           ended == [s EXCEPT !.change = "none"]
           going == [s EXCEPT !.waits = (o.state = "unknown")]
<1>4. AfterObservation(n) = IF Unconfirmed(o) THEN doubt
                            ELSE IF Retries(n) THEN retry
                            ELSE IF Ended(s) THEN ended ELSE going
  BY DEF AfterObservation
<1> HIDE DEF noted, s, o
<1>5. doubt.note = "unconfirmed" /\ doubt.change = noted.change
  BY <1>1, <1>3
<1>6. retry.note = "other" /\ retry.attempt = 0
  BY <1>2, <1>3
<1>7. ended.note = "other" /\ ended.state = s.state
  BY <1>2, <1>3
<1>8. /\ going.note = "other" /\ going.change = s.change
      /\ going.actual = s.actual
  BY <1>2, <1>3, Zenon
<1> HIDE DEF doubt, retry, ended, going
<1> QED BY <1>1, <1>2, <1>4, <1>5, <1>6, <1>7, <1>8
        DEF Edited, ChangeStands, Doubtful, Bare, Ended

\* Every step of the specification edits the steps of the run that way.
LEMMA StepsEdited ==
    ASSUME TypeOK, [Next]_vars, NEW n \in Nodes
    PROVE  Edited(step[n], step'[n])
<1>1. step \in [Nodes -> Step] /\ \A m \in Nodes : step[m] \in Step
  BY DEF TypeOK
<1>2. ASSUME step' = step PROVE Edited(step[n], step'[n])
  BY <1>2 DEF Edited, ChangeStands
<1>3. ASSUME NEW m \in Nodes, NEW s \in Step, Edited(step[m], s),
             \/ step' = [step EXCEPT ![m] = s]
             \/ Aggregate(run, [step EXCEPT ![m] = s])
      PROVE  Edited(step[n], step'[n])
  BY <1>3, OneEdited
<1>4. CASE Commands
  <2>1. CASE ReadRun
    BY <1>2, <2>1 DEF ReadRun
  <2>2. CASE StopRun
    <3>1. /\ step'[n].change = step[n].change /\ step'[n].note = step[n].note
          /\ step'[n].state = step[n].state /\ step'[n].attempt = step[n].attempt
      BY <1>1, <2>2 DEF StopRun, Step
    <3> QED BY <3>1 DEF Edited, ChangeStands, Doubtful, Bare
  <2>3. CASE ResumeRun
    <3>1. step'[n] = Reopened(step[n]) /\ step[n] \in Step /\ Ended(step[n])
      BY <1>1, <2>3 DEF ResumeRun, AllEnded
    <3> QED BY <3>1 DEF Reopened, Edited, ChangeStands, Doubtful, Bare, Ended, Step
  <2>4. ASSUME NEW m \in Nodes, NEW c \in Configs, ChangeOnline(m, c)
        PROVE  Edited(step[n], step'[n])
    BY <1>1, <2>4 DEF ChangeOnline, Edited, ChangeStands, Doubtful, Bare, Step
  <2> QED BY <1>4, <2>1, <2>2, <2>3, <2>4 DEF Commands
<1>5. CASE Providers
  BY <1>2, <1>5 DEF Providers, TaskRuns, TaskEnds, TaskPurged, LateStart
<1>6. CASE Ticking
  <2>1. ASSUME NEW m \in Nodes, Bare(step[m]),
               Aggregate(run, [step EXCEPT ![m].state = "stopped"])
        PROVE  Edited(step[n], step'[n])
    <3> DEFINE s == [step[m] EXCEPT !.state = "stopped"]
    <3>1. /\ s \in Step /\ s.change = step[m].change /\ s.note = step[m].note
      BY <1>1 DEF Step, StepStates
    <3>2. [step EXCEPT ![m].state = "stopped"] = [step EXCEPT ![m] = s]
      BY <1>1
    <3>3. Edited(step[m], s)
      BY <2>1, <3>1 DEF Edited, ChangeStands, Doubtful
    <3> HIDE DEF s
    <3> QED BY <1>3, <2>1, <3>1, <3>2, <3>3
  <2>2. ASSUME NEW m \in Nodes, StopUndispatched(m) \/ PrepareStop(m)
        PROVE  Edited(step[n], step'[n])
    BY <1>2, <2>1, <2>2 DEF StopUndispatched, PrepareStop
  <2>3. ASSUME NEW m \in Nodes, Dispatch(m) PROVE Edited(step[n], step'[n])
    <3>1. step'[n].note = step[n].note /\ step'[n].change = step[n].change
      BY <1>1, <2>3 DEF Dispatch, Step
    <3>2. step'[n] = step[n] \/ step[n].state = "pending"
      BY <1>1, <2>3 DEF Dispatch, Ready
    <3> QED BY <3>1, <3>2 DEF Edited, ChangeStands, Doubtful
  <2>4. ASSUME NEW m \in Nodes,
               SkipUnconnected(m) \/ PrepareNothing(m) \/ PrepareOpen(m)
        PROVE  step' = step
    BY <2>4 DEF SkipUnconnected, PrepareNothing, PrepareOpen
  <2>5. CASE TickBegin
    BY <1>2, <2>5 DEF TickBegin
  <2> QED BY <1>2, <1>6, <2>2, <2>3, <2>4, <2>5 DEF Ticking
<1>7. CASE Calls
  BY <1>2, <1>7 DEF Calls, StopAnswered, StopMisanswered, StopFails,
         LookupAnswered, LookupMisanswered, LookupFails, ChangeAnswered,
         ChangeMisanswered, ChangeFails, ChangeNotDue, StartAnswered,
         StartMisanswered, StartRefused, StartFails, CheckStop, RecheckStop,
         ResolveSame, ResolveChanged, ResolveFails, Goto
<1>8. CASE Commits
  <2>1. PICK m \in Nodes : \/ RejectUnstarted(m) \/ RecordUnknown(m)
                           \/ CommitDiscarded(m) \/ CommitAbsent(m)
                           \/ CommitObservation(m)
    BY <1>8 DEF Commits
\* A step given another state, for a reason that is no doubt.
  <2>2. ASSUME NEW s \in Step, s.change = step[m].change, s.note # "doubt"
        PROVE  Edited(step[m], s)
    BY <2>2 DEF Edited, ChangeStands, Doubtful
  <2>3. CASE RejectUnstarted(m)
    <3> DEFINE q == IF run = "stopping" THEN "stopped" ELSE "failed"
               s == [step[m] EXCEPT !.state = q, !.note = "other"]
    <3>1. q \in StepStates /\ "other" \in Notes
      BY DEF StepStates, Notes
    <3>2. s \in Step /\ s.change = step[m].change /\ s.note = "other"
      <4> HIDE DEF q
      <4>1. s \in Step
        BY <1>1, <3>1, RestatedTyped
      <4> QED BY <1>1, <4>1 DEF Step
    <3>3. step' = step \/ Aggregate(run, [step EXCEPT ![m] = s])
      BY <2>3 DEF RejectUnstarted
    <3> HIDE DEF s
    <3> QED BY <1>2, <1>3, <2>2, <3>2, <3>3
  <2>4. CASE RecordUnknown(m)
    <3> DEFINE s == Doubted(step[m])
    <3>1. s \in Step
      BY <1>1, DoubtedTyped
    <3>2. /\ s.state \in {"dispatching", "unknown"} /\ s.change # "pending"
          /\ step[m].change # "none" => s.change # "none"
          /\ s.attempt = step[m].attempt
      BY <1>1 DEF Doubted, Step
    <3>3. \/ step' = step
          \/ step[m].attempt = co.attempt /\ step' = [step EXCEPT ![m] = s]
      BY <2>4 DEF RecordUnknown
    <3>4. co.attempt # 0
      BY <2>4, BoundAssumption DEF RecordUnknown, TypeOK, Generations
    <3> HIDE DEF s
    <3>5. step[m].attempt = co.attempt => Edited(step[m], s)
      BY <3>2, <3>4 DEF Edited, ChangeStands, Doubtful, Bare
    <3> QED BY <1>2, <1>3, <3>1, <3>3, <3>5
  <2>5. CASE CommitDiscarded(m)
    BY <1>2, <2>5 DEF CommitDiscarded
  <2>6. CASE CommitAbsent(m)
    <3> DEFINE dead == [step[m] EXCEPT !.state = "stopped", !.note = "other",
                                       !.waits = TRUE]
               lost == [step[m] EXCEPT !.state = "unknown", !.note = "missing",
                                       !.waits = TRUE]
    <3>1. dead \in Step /\ dead.change = step[m].change /\ dead.note = "other"
      BY <1>1 DEF Step, StepStates, Notes
    <3>2. lost \in Step /\ lost.change = step[m].change /\ lost.note = "missing"
      BY <1>1 DEF Step, StepStates, Notes
    <3>3. \/ Aggregate(run, [step EXCEPT ![m] = dead])
          \/ step' = [step EXCEPT ![m] = lost]
      BY <2>6 DEF CommitAbsent
    <3> HIDE DEF dead, lost
    <3> QED BY <1>3, <2>2, <3>1, <3>2, <3>3
  <2>7. CASE CommitObservation(m)
    <3>1. /\ AfterObservation(m) \in Step
          /\ Aggregate(run, [step EXCEPT ![m] = AfterObservation(m)])
      BY <2>7, AfterObservationTyped DEF CommitObservation
    <3> QED BY <1>3, <3>1, ObservationEdits
  <2> QED BY <2>1, <2>3, <2>4, <2>5, <2>6, <2>7
<1>9. CASE \E m \in Nodes : Elapse(m)
  BY <1>1, <1>9 DEF Elapse, Edited, ChangeStands, Doubtful, Bare, Step
<1>10. CASE UNCHANGED vars \/ StoreFails \/ Restart
  BY <1>2, <1>10 DEF vars, StoreFails, Restart
<1> QED BY <1>4, <1>5, <1>6, <1>7, <1>8, <1>9, <1>10 DEF Next, Undisturbed

\* An accepted change stays on record until the provider confirmed it or the
\* execution it was meant for is over: no failed call, refusal, doubtful answer
\* or restart loses it.
THEOREM ChangesKept == Spec => ChangeKept
<1>1. TypeOK /\ [Next]_vars =>
        [\A n \in Nodes :
            step[n].change # "none" /\ step'[n].change = "none" =>
                \/ step'[n].actual = step[n].config
                \/ Ended(step'[n])
                \/ Bare(step'[n])]_vars
  BY StepsEdited DEF Edited, ChangeStands
<1> QED BY <1>1, TypeCorrect, PTL DEF Spec, ChangeKept

-----------------------------------------------------------------------------
(* The revision *)

\* A step says it is in doubt only while it is.
DoubtHolds == \A n \in Nodes : Doubtful(step[n])

\* Where no step is stranded, a step that is not stopped or failed anew makes
\* aggregate stop none.
LEMMA NothingCascades ==
    ASSUME NEW ss \in [Nodes -> Step], NoStrandedStep, run # "stopping",
           \A m \in Nodes : ss[m].state = step[m].state
    PROVE  Cascade(ss) = ss
<1> DEFINE Waiting == {n \in Nodes : ss[n].state = "pending" /\ Bare(ss[n])}
           Dead == {n \in Nodes : ss[n].state \in {"failed", "stopped"}}
<1>1. \A n \in Waiting : Predecessors(n) \cap (Dead \cup {}) = {}
  BY DEF NoStrandedStep
<1>2. Blocked(ss) = {}
  BY <1>1 DEF Blocked
<1> QED BY <1>2 DEF Cascade

\* The fields a client sees include the state.
LEMMA VisibleState ==
    ASSUME NEW s \in Step, NEW t \in Step, Visible(s) = Visible(t)
    PROVE  s.state = t.state
<1>1. Visible(s).state = s.state /\ Visible(t).state = t.state
  BY DEF Visible, Step
<1> QED BY <1>1

\* A step of the specification that leaves the revision valid leaves every
\* step's visible fields.
LEMMA RevisionNext ==
    ASSUME TypeOK, NoStrandedStep, DoubtHolds, [Next]_vars, seen, seen',
           NEW n \in Nodes
    PROVE  Visible(step'[n]) = Visible(step[n])
<1>1. step \in [Nodes -> Step] /\ \A m \in Nodes : step[m] \in Step
  BY DEF TypeOK
<1>2. ASSUME step' = step PROVE Visible(step'[n]) = Visible(step[n])
  BY <1>2
<1>3. ASSUME NEW m \in Nodes, NEW s \in Step, Visible(s) = Visible(step[m]),
             step' = [step EXCEPT ![m] = s]
      PROVE  Visible(step'[n]) = Visible(step[n])
  BY <1>1, <1>3
<1>4. CASE Commands
  BY <1>4 DEF Commands, ReadRun, StopRun, ResumeRun, ChangeOnline, Bump
<1>5. CASE Providers
  BY <1>2, <1>5 DEF Providers, TaskRuns, TaskEnds, TaskPurged, LateStart
<1>6. CASE Ticking
  BY <1>2, <1>6 DEF Ticking, TickBegin, StopUndispatched, SkipUnconnected,
                    PrepareNothing, PrepareStop, Dispatch, PrepareOpen, Bump
<1>7. CASE Calls
  BY <1>2, <1>7 DEF Calls, StopAnswered, StopMisanswered, StopFails,
         LookupAnswered, LookupMisanswered, LookupFails, ChangeAnswered,
         ChangeMisanswered, ChangeFails, ChangeNotDue, StartAnswered,
         StartMisanswered, StartRefused, StartFails, CheckStop, RecheckStop,
         ResolveSame, ResolveChanged, ResolveFails, Goto
<1>8. CASE Commits
  <2>1. PICK m \in Nodes : \/ RejectUnstarted(m) \/ RecordUnknown(m)
                           \/ CommitDiscarded(m) \/ CommitAbsent(m)
                           \/ CommitObservation(m)
    BY <1>8 DEF Commits
  <2>2. CASE RejectUnstarted(m) \/ CommitDiscarded(m)
    BY <1>2, <2>2 DEF RejectUnstarted, CommitDiscarded, Bump
  <2>3. CASE RecordUnknown(m)
    <3> DEFINE s == Doubted(step[m])
    <3>1. s \in Step
      BY <1>1, DoubtedTyped
    <3>2. Doubtful(step[m])
      BY DEF DoubtHolds
    <3>3. step[m].note = "doubt" => Visible(s) = Visible(step[m])
      BY <1>1, <3>2 DEF Doubted, Doubtful, Visible, Step
    <3>4. \/ step' = step
          \/ step[m].note = "doubt" /\ step' = [step EXCEPT ![m] = s]
      BY <2>3 DEF RecordUnknown
    <3> HIDE DEF s
    <3> QED BY <1>2, <1>3, <3>1, <3>3, <3>4
  <2>4. CASE CommitAbsent(m)
    <3>1. ~Ended(step[m]) /\ step'[m].state = step[m].state
          /\ step'[m].note = step[m].note
      BY <2>4 DEF CommitAbsent, Current
    <3>2. run # "stopping"
      BY <1>1, <2>4, <3>1 DEF CommitAbsent, Aggregate, Ended, Step
    <3> DEFINE s == [step[m] EXCEPT !.state = "unknown", !.note = "missing",
                                    !.waits = TRUE]
    <3>3. s \in Step
      BY <1>1 DEF Step, StepStates, Notes
    <3>4. step' = [step EXCEPT ![m] = s]
      BY <2>4, <3>2 DEF CommitAbsent
    <3>5. Visible(s) = Visible(step[m])
      BY <1>1, <3>1, <3>4 DEF Visible, Step
    <3> HIDE DEF s
    <3> QED BY <1>3, <3>3, <3>4, <3>5
  <2>5. CASE CommitObservation(m)
    <3> DEFINE s == AfterObservation(m)
               ss == [step EXCEPT ![m] = s]
    <3>1. s \in Step /\ Aggregate(run, ss)
      BY <2>5, AfterObservationTyped DEF CommitObservation
    <3>2. Visible(s) = Visible(step[m])
      BY <2>5 DEF CommitObservation, BumpIf
    <3> HIDE DEF s
    <3>3. ss \in [Nodes -> Step] /\ \A k \in Nodes : ss[k].state = step[k].state
      BY <1>1, <3>1, <3>2, VisibleState
    <3>4. step' = ss
      BY <3>1, <3>3, NothingCascades DEF Aggregate
    <3> QED BY <1>3, <3>1, <3>2, <3>4
  <2> QED BY <2>1, <2>2, <2>3, <2>4, <2>5
<1>9. CASE \E m \in Nodes : Elapse(m)
  BY <1>1, <1>9 DEF Elapse, Visible, Step
<1>10. CASE UNCHANGED vars \/ StoreFails \/ Restart
  BY <1>2, <1>10 DEF vars, StoreFails, Restart
<1> QED BY <1>4, <1>5, <1>6, <1>7, <1>8, <1>9, <1>10 DEF Next, Undisturbed

\* A command that passes the revision check meets the steps its client read:
\* whatever an observation, a doubt, a retry or aggregate changes of a step that
\* a client can see makes the revision it holds a stale one.
THEOREM RevisionsFenceSteps == Spec => RevisionFencesSteps
<1>1. Init => DoubtHolds
  BY DEF Init, DoubtHolds, Doubtful
<1>2. TypeOK /\ DoubtHolds /\ [Next]_vars => DoubtHolds'
  BY StepsEdited DEF DoubtHolds, Edited
<1>3. TypeOK /\ NoStrandedStep /\ DoubtHolds /\ [Next]_vars =>
        [seen /\ seen' =>
            \A n \in Nodes : Visible(step'[n]) = Visible(step[n])]_vars
  BY RevisionNext
<1> QED BY <1>1, <1>2, <1>3, TypeCorrect, NoneStranded,
           PTL DEF Spec, RevisionFencesSteps

\* A run is "queued" only while none of its open steps has been dispatched.
QueuedIdle ==
    run = "queued" =>
        \A n \in Nodes : step[n].state = "pending" \/ Ended(step[n])

\* A run that was dispatched from is not queued again but by a resume, which
\* leaves no step open that has an attempt.
LEMMA QueuedNext ==
    TypeOK /\ Undispatched /\ QueuedIdle /\ [Next]_vars => QueuedIdle'
<1> SUFFICES ASSUME TypeOK, Undispatched, QueuedIdle, [Next]_vars,
                    run' = "queued", NEW n \in Nodes
             PROVE  step'[n].state = "pending" \/ Ended(step'[n])
  BY DEF QueuedIdle
<1>1. step \in [Nodes -> Step]
  BY DEF TypeOK
<1>2. CASE Quiet
  BY <1>2 DEF Quiet, QueuedIdle
<1>3. CASE ResumeRun
  BY <1>1, <1>3 DEF ResumeRun, Reopened, Ended, Step
<1>4. CASE Touches
  <2>1. PICK m \in Nodes, s \in Step :
           /\ ~Ended(step[m])
           /\ Bare(step[m]) => s.state = step[m].state
           /\ step' = [step EXCEPT ![m] = s]
           /\ run' = run
    BY <1>4 DEF Touches
  <2>2. step[m].state = "pending" /\ Bare(step[m])
    BY <2>1 DEF QueuedIdle, Undispatched
  <2> QED BY <1>1, <2>1, <2>2 DEF QueuedIdle
<1>5. CASE StopRun \/ Dispatches \/ Rules
  BY <1>5 DEF StopRun, Dispatches, Dispatch, Rules, Aggregate, Verdict
<1> QED BY <1>2, <1>3, <1>4, <1>5, StoreChanges

\* A step of the specification that leaves the revision valid leaves the run's
\* state, or takes it from running to attention or back.
LEMMA RevisionRunNext ==
    ASSUME TypeOK, Undispatched, NoStrandedStep, RunEndsWithSteps, QueuedIdle,
           [Next]_vars, seen, seen'
    PROVE  run' = run \/ {run, run'} \subseteq {"running", "attention"}
<1>1. step \in [Nodes -> Step] /\ \A m \in Nodes : step[m] \in Step
  BY DEF TypeOK
<1>2. CASE Commands
  BY <1>2 DEF Commands, ReadRun, StopRun, ResumeRun, ChangeOnline, Bump
<1>3. CASE Providers
  BY <1>3 DEF Providers, TaskRuns, TaskEnds, TaskPurged, LateStart
<1>4. CASE Ticking
  BY <1>4 DEF Ticking, TickBegin, StopUndispatched, SkipUnconnected,
              PrepareNothing, PrepareStop, Dispatch, PrepareOpen, Bump
<1>5. CASE Calls
  BY <1>5 DEF Calls, StopAnswered, StopMisanswered, StopFails, LookupAnswered,
       LookupMisanswered, LookupFails, ChangeAnswered, ChangeMisanswered,
       ChangeFails, ChangeNotDue, StartAnswered, StartMisanswered, StartRefused,
       StartFails, CheckStop, RecheckStop, ResolveSame, ResolveChanged,
       ResolveFails, Goto
<1>6. CASE Commits
  <2>1. PICK m \in Nodes : \/ RejectUnstarted(m) \/ RecordUnknown(m)
                           \/ CommitDiscarded(m) \/ CommitAbsent(m)
                           \/ CommitObservation(m)
    BY <1>6 DEF Commits
  <2>2. CASE RejectUnstarted(m) \/ CommitDiscarded(m) \/ RecordUnknown(m)
    BY <2>2 DEF RejectUnstarted, CommitDiscarded, RecordUnknown, Bump
  <2>3. CASE CommitAbsent(m)
    BY <2>3 DEF CommitAbsent
  <2>4. CASE CommitObservation(m)
    <3> DEFINE s == AfterObservation(m)
               ss == [step EXCEPT ![m] = s]
    <3>1. s \in Step /\ Aggregate(run, ss)
      BY <2>4, AfterObservationTyped DEF CommitObservation
    <3>2. ~Ended(step[m]) /\ step[m].state # "pending"
      BY <2>4 DEF CommitObservation, Committing, Current, TypeOK, Bare,
                  Generations, Undispatched
    <3>3. Visible(s) = Visible(step[m])
      BY <2>4 DEF CommitObservation, BumpIf
    <3> HIDE DEF s
    <3>4. ss \in [Nodes -> Step] /\ \A k \in Nodes : ss[k].state = step[k].state
      BY <1>1, <3>1, <3>3, VisibleState
    <3>5. ~AllEnded(ss) /\ ~\A k \in Nodes : ss[k].state = "succeeded"
      BY <3>2, <3>4 DEF AllEnded, Ended
    <3>6. CASE run = "stopping"
      BY <3>1, <3>5, <3>6 DEF Aggregate
    <3>7. CASE run # "stopping"
      <4>1. run' = Verdict(ss)
        BY <3>1, <3>4, <3>7, NothingCascades DEF Aggregate
      <4>2. run' \in {"running", "attention"}
        BY <3>5, <4>1 DEF Verdict
      <4>3. run \notin TerminalRuns /\ run # "queued"
        BY <3>2 DEF RunEndsWithSteps, QueuedIdle, AllEnded
      <4>4. run \in {"running", "attention"}
        BY <3>7, <4>3 DEF TypeOK, RunStates
      <4> QED BY <4>2, <4>4
    <3> QED BY <3>6, <3>7
  <2> QED BY <2>1, <2>2, <2>3, <2>4
<1>7. CASE (\E m \in Nodes : Elapse(m)) \/ UNCHANGED vars \/ StoreFails \/ Restart
  BY <1>7 DEF Elapse, vars, StoreFails, Restart
<1> QED BY <1>2, <1>3, <1>4, <1>5, <1>6, <1>7 DEF Next, Undisturbed

\* While the revision stays, the run's state does, but for running and attention:
\* an event stream that sends only heartbeats then hides no end, stop or resume.
THEOREM RevisionsFenceRun == Spec => RevisionFencesRun
<1>1. Init => QueuedIdle
  BY DEF Init, QueuedIdle, Ended
<1>2. TypeOK /\ Undispatched /\ NoStrandedStep
      /\ RunEndsWithSteps /\ QueuedIdle /\ [Next]_vars =>
        [seen /\ seen' =>
            run' = run \/ {run, run'} \subseteq {"running", "attention"}]_vars
  BY RevisionRunNext
<1> QED BY <1>1, <1>2, QueuedNext, TypeCorrect, NoneStranded, VerdictsAgree,
           PTL DEF Spec, RevisionFencesRun

=============================================================================
