--------------------------- MODULE RunCoordinator ---------------------------
(***************************************************************************)
(* The run coordinator of packages/run-control/service.ts, one accepted    *)
(* run, and the Product execution providers it talks to over HTTP.         *)
(*                                                                         *)
(* The durable run record (run, step) is changed only by the synchronous   *)
(* callbacks the code hands to StateStore.transact, so each callback is    *)
(* one action.  Every await between two callbacks is a point where user    *)
(* commands, the providers or a crash may intervene, so what the           *)
(* coordinator remembers across it (co) is part of the state.              *)
(*                                                                         *)
(* An attempt id is named by the generation it was minted with: advance    *)
(* creates the two together and neither is ever reused.                    *)
(*                                                                         *)
(* Operators named Faulty... are what a plausible mistake would make of    *)
(* the operator after them.  Next never uses one; they serve to show that  *)
(* the properties below would notice the mistake.                          *)
(***************************************************************************)
EXTENDS Integers, FiniteSets

CONSTANTS
    Nodes,          \* the nodes of the run's document
    References,     \* dataset, model and compute nodes: no execution
    Edges,          \* <<from, to>> pairs of the document
    SafeRetry,      \* nodes whose capabilities declare safeRetry
    Mutable,        \* nodes whose changed fields are all in mutableFields
    Configs,        \* the configurations a node may be given
    InitialConfig,  \* the one in the accepted document
    None,           \* an absent optional field
    AdapterSets,    \* the adapter maps a restarted process may come up with
    LateDelivery,   \* may a start outlive the HTTP call that sent it?
    Silent,         \* may a provider leave out appliedConfig?
    Purges,         \* may a provider drop the record of an ended task?
    MaxRetries,     \* automatic retries of a step (2 in the code)
    MaxResumes,     \* bound: runs.resume commands
    MaxGeneration   \* bound: executions of one step

ASSUME GraphAssumption ==
    /\ IsFiniteSet(Nodes) /\ Nodes # {}
    /\ References \subseteq Nodes
    /\ Edges \subseteq Nodes \X Nodes
    /\ SafeRetry \subseteq Nodes
    /\ Mutable \subseteq Nodes

ASSUME ConfigAssumption ==
    /\ InitialConfig \in Configs
    /\ None \notin Configs

ASSUME BoundAssumption ==
    /\ MaxRetries \in Nat /\ MaxResumes \in Nat
    /\ MaxGeneration \in Nat
    /\ LateDelivery \in BOOLEAN /\ Silent \in BOOLEAN /\ Purges \in BOOLEAN
    /\ AdapterSets \subseteq SUBSET Nodes

VARIABLES
    run,        \* run.state
    step,       \* run.steps, by node
    task,       \* the providers' records, by node and generation
    co,         \* what the coordinator holds across its awaits
    late,       \* starts still in the network after their call was given up
    adapters,   \* nodes whose adapter this process was configured with
    seen,       \* does the client's expectedRevision equal run.revision?
    resumes     \* runs.resume commands so far

vars == <<run, step, task, co, late, adapters, seen, resumes>>

-----------------------------------------------------------------------------
(* Vocabulary *)

TerminalRuns  == {"succeeded", "failed", "stopped"}
RunStates     == TerminalRuns \cup {"queued", "running", "stopping", "attention"}
TerminalSteps == {"succeeded", "failed", "stopped"}
StepStates    == TerminalSteps \cup
                 {"pending", "dispatching", "queued", "running", "unknown"}
LiveTasks     == {"queued", "running"}

\* "incomplete" is a success without every declared output, "retryable" a
\* failure the provider calls retryable, "purged" a terminal record it dropped.
EndedTasks    == {"succeeded", "incomplete", "failed", "retryable", "stopped"}
TaskStates    == LiveTasks \cup EndedTasks \cup {"absent", "purged"}

Generations   == 1 .. MaxGeneration
Attempts      == 0 .. MaxGeneration      \* 0: attemptId is absent

\* What the step's message says, as far as the code compares messages.
Notes == {"other", "doubt", "missing", "unconfirmed"}

Step == [state   : StepStates,
         attempt : Attempts,
         gen     : Attempts,
         retries : 0 .. MaxRetries,
         change  : {"none", "pending", "unknown"},
         config  : Configs,              \* desired; equals change.config
         actual  : Configs,              \* actualConfig
         waits   : BOOLEAN,              \* nextPollAt or nextAttemptAt ahead
         note    : Notes]

Observation == [state   : (TaskStates \ {"purged"}) \cup {"unknown"},
                gen     : Attempts,
                final   : BOOLEAN,       \* terminalAuthority
                applied : Configs \cup {None}]

Ended(s)  == s.state \in TerminalSteps
Bare(s)   == s.attempt = 0
AllEnded(ss) == \A n \in Nodes : Ended(ss[n])

Predecessors(n) == {m \in Nodes : <<m, n>> \in Edges}
Live(n, g) == task[n][g].state \in LiveTasks

-----------------------------------------------------------------------------
(* aggregate: the run state follows from the steps *)

\* No loop at all.
FaultyBlockedNever(ss) == {n \in {} : ss[n].state = "pending"}

\* Undispatched steps behind a failed or stopped one: the least set closed
\* under "a predecessor is dead or in the set", which the code's loop computes.
Blocked(ss) ==
    LET Waiting == {n \in Nodes : ss[n].state = "pending" /\ Bare(ss[n])}
        Dead    == {n \in Nodes : ss[n].state \in {"failed", "stopped"}}
        Closed(S) == \A n \in Waiting :
                        Predecessors(n) \cap (Dead \cup S) # {} => n \in S
    IN  {n \in Waiting : \A S \in SUBSET Waiting : Closed(S) => n \in S}

Cascade(ss) ==
    [n \in Nodes |-> IF n \in Blocked(ss)
                     THEN [ss[n] EXCEPT !.state = "stopped", !.note = "other"]
                     ELSE ss[n]]

Verdict(ss) ==
    IF \A n \in Nodes : ss[n].state = "succeeded" THEN "succeeded"
    ELSE IF AllEnded(ss) THEN "failed"
    ELSE IF \E n \in Nodes : ss[n].state \in {"failed", "unknown"}
         THEN "attention"
    ELSE "running"

\* The early return before the steps are looked at.
FaultyAggregateReturns(r, ss) ==
    IF r = "stopping" THEN run' = r /\ step' = ss
    ELSE run' = Verdict(Cascade(ss)) /\ step' = Cascade(ss)

\* The stop intent overlooked.
FaultyAggregateResumes(r, ss) ==
    run' = Verdict(Cascade(ss)) /\ step' = Cascade(ss)

Aggregate(r, ss) ==
    IF r = "stopping"
    THEN /\ run'  = IF AllEnded(ss) THEN "stopped" ELSE "stopping"
         /\ step' = ss
    ELSE /\ run'  = Verdict(Cascade(ss))
         /\ step' = Cascade(ss)

-----------------------------------------------------------------------------
(* The coordinator's position in tick and advance *)

Phases == {"rest", "scan", "prepared", "looked", "check", "resolve",
           "recheck", "starting", "reject", "erred", "observed"}

Advancing == [phase   : Phases,
              todo    : SUBSET Nodes,       \* steps the tick has yet to reach
              bare    : SUBSET Nodes,       \* those its snapshot had undispatched
                                            \* in a stopping run
              node    : Nodes \cup {None},  \* the step being advanced
              attempt : Attempts,
              fresh   : BOOLEAN,            \* prepared while dispatching
              halting : BOOLEAN,            \* prepared while stopping
              change  : Configs \cup {None},
              config  : Configs,
              refused : BOOLEAN,            \* changeFailed, or a start refused
              obs     : Observation]

NoObservation == [state |-> "absent", gen |-> 0, final |-> FALSE,
                  applied |-> None]

AtRest == [phase |-> "rest", todo |-> {}, bare |-> {}, node |-> None,
           attempt |-> 0, fresh |-> FALSE, halting |-> FALSE,
           change |-> None, config |-> InitialConfig, refused |-> FALSE,
           obs |-> NoObservation]

\* Forget the advance of the current step and go on with the tick's snapshot.
Onward(todo) ==
    [AtRest EXCEPT !.phase = IF todo = {} THEN "rest" ELSE "scan",
                   !.todo = todo, !.bare = co.bare \cap todo]

Done == co' = Onward(co.todo)

NewTask == [state |-> "absent", halt |-> FALSE, applied |-> InitialConfig]
Task    == [state : TaskStates, halt : BOOLEAN, applied : Configs]
Mail    == [node : Nodes, gen : Generations, config : Configs]

Init ==
    /\ run  = IF References = Nodes THEN "succeeded" ELSE "queued"
    /\ step = [n \in Nodes |->
                 [state   |-> IF n \in References THEN "succeeded" ELSE "pending",
                  attempt |-> 0, gen |-> 0, retries |-> 0, change |-> "none",
                  config  |-> InitialConfig, actual |-> InitialConfig,
                  waits   |-> FALSE, note |-> "other"]]
    /\ task = [n \in Nodes |-> [g \in Generations |-> NewTask]]
    /\ co = AtRest
    /\ late = {}
    /\ adapters = Nodes
    /\ seen = TRUE
    /\ resumes = 0

\* run.revision++ makes the revision the client last read a stale one.
Bump == seen' = FALSE
\* The bump forgotten for some change.
FaultyBumpIf(changed) == seen' \in {FALSE, seen}

\* The code bumps when the step's visible fields differ.  Fields this model
\* leaves out (taskId, event cursor, message text) may differ on their own.
BumpIf(changed) == seen' \in (IF changed THEN {FALSE} ELSE {FALSE, seen})

Client == <<seen, resumes>>

-----------------------------------------------------------------------------
(* User commands: runs.stop, runs.resume, the online mode of               *)
(* runs.apply_change.  Each needs the current revision.                    *)

\* runs.get, runs.observe: the client's expectedRevision is now the current.
ReadRun ==
    /\ ~seen
    /\ seen' = TRUE
    /\ UNCHANGED <<run, step, task, co, late, adapters, resumes>>

\* nextPollAt and pollFailures go, a pending step keeps its nextAttemptAt.
StopRun ==
    /\ seen
    /\ run \notin TerminalRuns
    /\ run' = "stopping"
    /\ step' = [n \in Nodes |-> IF step[n].state = "pending" THEN step[n]
                                ELSE [step[n] EXCEPT !.waits = FALSE]]
    /\ Bump
    /\ UNCHANGED <<task, co, late, resumes, adapters>>

FaultyReopened(s) ==
    [s EXCEPT !.state = "pending", !.retries = 0, !.attempt = 0,
              !.change = "none", !.waits = FALSE]

\* A resumed step: its generation stays, a success stays.
Reopened(s) ==
    IF s.state = "succeeded" THEN s
    ELSE [s EXCEPT !.state = "pending", !.retries = 0, !.attempt = 0,
                   !.change = "none", !.waits = FALSE]

ResumeRun ==
    /\ seen
    /\ resumes < MaxResumes
    /\ AllEnded(step)
    /\ \E n \in Nodes : step[n].state \in {"stopped", "failed"}
    /\ run' = "queued"
    /\ step' = [n \in Nodes |-> Reopened(step[n])]
    /\ resumes' = resumes + 1
    /\ Bump
    /\ UNCHANGED <<task, co, late, adapters>>

\* affected: the nodes reachable from n.
Downstream(n) ==
    LET Closed(S) == /\ n \in S
                     /\ \A e \in Edges : e[1] \in S => e[2] \in S
    IN  {m \in Nodes \ {n} : \A S \in SUBSET Nodes : Closed(S) => m \in S}

\* The other modes leave this run alone: they reject, or branch a new run.
ChangeOnline(n, c) ==
    /\ seen
    /\ n \in Mutable \ References
    /\ c # step[n].config
    /\ step[n].change = "none"
    /\ run # "stopping"
    /\ step[n].state = "running"
    /\ \A m \in Downstream(n) : step[m].state = "pending"
    /\ step' = [step EXCEPT ![n].change = "pending", ![n].config = c]
    /\ Bump
    /\ UNCHANGED <<run, task, co, late, resumes, adapters>>

-----------------------------------------------------------------------------
(* tick: a snapshot of the run, then its open steps one after another.     *)
(* Nodes have no order in this model, so any order of the snapshot counts. *)

TickBegin ==
    /\ co.phase = "rest"
    /\ run \notin TerminalRuns
    /\ LET open == {n \in Nodes : ~Ended(step[n])}
       IN  co' = [AtRest EXCEPT
                    !.phase = IF open = {} THEN "rest" ELSE "scan",
                    !.todo = open,
                    !.bare = IF run = "stopping"
                             THEN {n \in open : Bare(step[n])} ELSE {}]
    /\ UNCHANGED <<run, step, task, late, Client, adapters>>

\* The step as the tick has reached it.
Visit(n) == co.phase = "scan" /\ n \in co.todo

Leave(n) == co' = Onward(co.todo \ {n})

StopUndispatched(n) ==
    /\ Visit(n)
    /\ n \in co.bare
    /\ IF run = "stopping" /\ Bare(step[n]) /\ ~Ended(step[n])
       THEN /\ Aggregate(run, [step EXCEPT ![n].state = "stopped"])
            /\ Bump
       ELSE UNCHANGED <<run, step, seen>>
    /\ Leave(n)
    /\ UNCHANGED <<task, late, resumes, adapters>>

SkipUnconnected(n) ==
    /\ Visit(n)
    /\ n \notin co.bare
    /\ n \notin adapters
    /\ Leave(n)
    /\ UNCHANGED <<run, step, task, late, Client, adapters>>

-----------------------------------------------------------------------------
(* advance, first transaction: prepare *)

Advance(n) == Visit(n) /\ n \notin co.bare /\ n \in adapters

PollNotDue(s) == s.waits /\ s.state # "pending"

\* A predecessor that has been dispatched counts.
FaultyReady(n) ==
    /\ step[n].state = "pending"
    /\ ~step[n].waits
    /\ \A m \in Predecessors(n) : step[m].state # "pending"

Ready(n) ==
    /\ step[n].state = "pending"
    /\ ~step[n].waits
    /\ \A m \in Predecessors(n) : step[m].state = "succeeded"

PrepareNothing(n) ==
    /\ Advance(n)
    /\ \/ Ended(step[n])
       \/ PollNotDue(step[n])
       \/ /\ step[n].state = "pending"
          /\ ~(run = "stopping" /\ Bare(step[n]))
          /\ ~Ready(n)
    /\ Leave(n)
    /\ UNCHANGED <<run, step, task, late, Client, adapters>>

PrepareStop(n) ==
    /\ Advance(n)
    /\ ~Ended(step[n]) /\ ~PollNotDue(step[n])
    /\ run = "stopping" /\ Bare(step[n])
    /\ Aggregate(run, [step EXCEPT ![n].state = "stopped"])
    /\ Bump
    /\ Leave(n)
    /\ UNCHANGED <<task, late, resumes, adapters>>

\* structuredClone of the run and the step, kept across the provider calls.
Prepared(n, r, s) ==
    [AtRest EXCEPT !.phase = "prepared", !.todo = co.todo \ {n},
                   !.bare = co.bare, !.node = n, !.attempt = s.attempt,
                   !.fresh = (s.state = "dispatching"),
                   !.halting = (r = "stopping"),
                   !.change = IF s.change = "none" THEN None ELSE s.config,
                   !.config = s.config]

Dispatch(n) ==
    /\ Advance(n)
    /\ run # "stopping"
    /\ Ready(n)
    /\ step[n].gen < MaxGeneration
    /\ LET s == [step[n] EXCEPT !.attempt = step[n].gen + 1,
                                !.gen = step[n].gen + 1,
                                !.state = "dispatching"]
       IN  /\ step' = [step EXCEPT ![n] = s]
           /\ co' = Prepared(n, "running", s)
    /\ run' = "running"
    /\ Bump
    /\ UNCHANGED <<task, late, resumes, adapters>>

PrepareOpen(n) ==
    /\ Advance(n)
    /\ ~Ended(step[n]) /\ ~PollNotDue(step[n])
    /\ ~Bare(step[n])
    /\ step[n].state # "pending"
    /\ co' = Prepared(n, run, step[n])
    /\ UNCHANGED <<run, step, task, late, Client, adapters>>

-----------------------------------------------------------------------------
(* The Product providers (external).  A provider accepts an attempt once,  *)
(* for good, and reports an attempt it has no record of as absent.         *)

Known(n, g) == task[n][g].state \notin {"absent", "purged"}

Accept(n, g, c) ==
    IF task[n][g].state = "absent"
    THEN [task EXCEPT ![n][g] = [@ EXCEPT !.state = "queued", !.applied = c]]
    ELSE task

\* The answer an authoritative provider whose records are t gives.
TrueAnswers(t, n, g) ==
    IF t[n][g].state \in {"absent", "purged"} THEN {NoObservation}
    ELSE {[state |-> t[n][g].state, gen |-> g,
           final |-> t[n][g].state \in EndedTasks, applied |-> a] :
             a \in {t[n][g].applied} \cup (IF Silent THEN {None} ELSE {})}

\* An end the provider only presumes (terminalAuthority is false), or its
\* admission that it does not know.
Rumours(t, n, g) ==
    IF t[n][g].state \in {"absent", "purged"} THEN {}
    ELSE {[state |-> e, gen |-> g, final |-> FALSE,
           applied |-> t[n][g].applied] :
             e \in {"succeeded", "retryable", "unknown"}}

\* The answer about another execution of the node.
Misattributed(t, n, g) ==
    UNION {TrueAnswers(t, n, h) : h \in {h \in 1 .. step[n].gen :
               h # g /\ t[n][h].state \notin {"absent", "purged"}}}

TaskRuns(n, g) ==
    /\ task[n][g].state = "queued"
    /\ task' = [task EXCEPT ![n][g].state = "running"]
    /\ UNCHANGED <<run, step, co, late, Client, adapters>>

TaskEnds(n, g) ==
    /\ Live(n, g)
    /\ \E e \in EndedTasks :
        /\ e \in {"succeeded", "incomplete"} => task[n][g].state = "running"
        /\ task' = [task EXCEPT ![n][g] =
                       [@ EXCEPT !.state = e, !.halt = FALSE]]
    /\ UNCHANGED <<run, step, co, late, Client, adapters>>

TaskPurged(n, g) ==
    /\ Purges
    /\ task[n][g].state \in EndedTasks
    /\ task' = [task EXCEPT ![n][g].state = "purged"]
    /\ UNCHANGED <<run, step, co, late, Client, adapters>>

\* A start whose call was given up reaches the provider after all, or never.
LateStart(m) ==
    /\ m \in late
    /\ late' = late \ {m}
    /\ task' \in {task, Accept(m.node, m.gen, m.config)}
    /\ UNCHANGED <<run, step, co, Client, adapters>>

-----------------------------------------------------------------------------
(* advance, the provider calls *)

Calling(n) == co.phase = "prepared" /\ co.node = n

Observed(o) == co' = [co EXCEPT !.phase = "observed", !.obs = o]
Erred == co' = [co EXCEPT !.phase = "erred", !.refused = FALSE,
                          !.obs = NoObservation]

Halt(n, g) == [task EXCEPT ![n][g].halt = Live(n, g)]

StopAnswered(n) ==
    /\ Calling(n) /\ co.halting
    /\ task' = Halt(n, co.attempt)
    /\ \E o \in TrueAnswers(task', n, co.attempt) : Observed(o)
    /\ UNCHANGED <<run, step, late, Client, adapters>>

StopMisanswered(n) ==
    /\ Calling(n) /\ co.halting
    /\ task' = Halt(n, co.attempt)
    /\ \E o \in Rumours(task', n, co.attempt)
                  \cup Misattributed(task', n, co.attempt) : Observed(o)
    /\ UNCHANGED <<run, step, late, Client, adapters>>

\* The call fails or times out, with or without its effect.
StopFails(n) ==
    /\ Calling(n) /\ co.halting
    /\ task' \in {task, Halt(n, co.attempt)}
    /\ Erred
    /\ UNCHANGED <<run, step, late, Client, adapters>>

\* What follows an answered lookup: a pending change, a first start, or none.
ChangeDue(o) == co.change # None /\ o.state = "running" /\ o.applied # co.change
StartDue(o)  == o.state = "absent" /\ co.fresh

LookedUp(o) ==
    co' = [co EXCEPT !.phase = IF ChangeDue(o) THEN "looked"
                               ELSE IF StartDue(o) THEN "check"
                               ELSE "observed",
                     !.obs = o]

LookupAnswered(n) ==
    /\ Calling(n) /\ ~co.halting
    /\ \E o \in TrueAnswers(task, n, co.attempt) : LookedUp(o)
    /\ UNCHANGED <<run, step, task, late, Client, adapters>>

LookupMisanswered(n) ==
    /\ Calling(n) /\ ~co.halting
    /\ \/ \E o \in Rumours(task, n, co.attempt) : LookedUp(o)
       \/ /\ Misattributed(task, n, co.attempt) # {}  \* ATTEMPT_MISMATCH
          /\ Erred
    /\ UNCHANGED <<run, step, task, late, Client, adapters>>

LookupFails(n) ==
    /\ Calling(n) /\ ~co.halting
    /\ Erred
    /\ UNCHANGED <<run, step, task, late, Client, adapters>>

\* adapter.change applies to a task that still runs.
Adopt(n, g) == IF task[n][g].state = "running"
               THEN [task EXCEPT ![n][g].applied = co.change] ELSE task

Changing(n) == co.phase = "looked" /\ co.node = n /\ co.change # None

\* The provider changes no task it does not have: the call then fails.
ChangeAnswered(n) ==
    /\ Changing(n)
    /\ Known(n, co.attempt)
    /\ task' = Adopt(n, co.attempt)
    /\ \E o \in TrueAnswers(task', n, co.attempt) : Observed(o)
    /\ UNCHANGED <<run, step, late, Client, adapters>>

\* Unlike a lookup's, this answer is compared with the attempt only when it is
\* committed.
ChangeMisanswered(n) ==
    /\ Changing(n)
    /\ task' = Adopt(n, co.attempt)
    /\ \E o \in Rumours(task', n, co.attempt)
                  \cup Misattributed(task', n, co.attempt) : Observed(o)
    /\ UNCHANGED <<run, step, late, Client, adapters>>

\* changeFailed: the lookup's observation is still the one to persist.
ChangeFails(n) ==
    /\ Changing(n)
    /\ task' \in {task, Adopt(n, co.attempt)}
    /\ co' = [co EXCEPT !.phase = "observed", !.refused = TRUE]
    /\ UNCHANGED <<run, step, late, Client, adapters>>

\* change.nextAttemptAt lies ahead.
ChangeNotDue(n) ==
    /\ Changing(n)
    /\ step[n].change = "unknown"
    /\ co' = [co EXCEPT !.phase = "observed"]
    /\ UNCHANGED <<run, step, task, late, Client, adapters>>

Goto(phase) ==
    /\ co' = [co EXCEPT !.phase = phase]
    /\ UNCHANGED <<run, step, task, late, Client, adapters>>

\* The first read of the store: was the run stopped during the lookup?
CheckStop ==
    /\ co.phase = "check"
    /\ Goto(IF run = "stopping" THEN "reject" ELSE "resolve")

\* The target servers are unchanged, changed, or cannot be resolved now.
ResolveSame    == co.phase = "resolve" /\ Goto("recheck")
ResolveChanged == co.phase = "resolve" /\ Goto("reject")
ResolveFails   == co.phase = "resolve" /\ Goto("erred")

\* The second read: was it stopped meanwhile?  If not, the start is sent.
RecheckStop ==
    /\ co.phase = "recheck"
    /\ Goto(IF run = "stopping" THEN "reject" ELSE "starting")

Starting(n) == co.phase = "starting" /\ co.node = n

StartAnswered(n) ==
    /\ Starting(n)
    /\ task' = Accept(n, co.attempt, co.config)
    /\ \E o \in TrueAnswers(task', n, co.attempt) : Observed(o)
    /\ UNCHANGED <<run, step, late, Client, adapters>>

StartMisanswered(n) ==
    /\ Starting(n)
    /\ task' = Accept(n, co.attempt, co.config)
    /\ \E o \in Rumours(task', n, co.attempt)
                  \cup Misattributed(task', n, co.attempt) : Observed(o)
    /\ UNCHANGED <<run, step, late, Client, adapters>>

\* submissionRejected: a definitive refusal, nothing was accepted.
StartRefused(n) ==
    /\ Starting(n)
    /\ co' = [co EXCEPT !.phase = "reject", !.refused = TRUE]
    /\ UNCHANGED <<run, step, task, late, Client, adapters>>

\* What becomes of a start nobody waits for any more.
Abandon(n) ==
    \/ task' \in {task, Accept(n, co.attempt, co.config)} /\ late' = late
    \/ /\ LateDelivery
       /\ task' = task
       /\ late' = late \cup
              {[node |-> n, gen |-> co.attempt, config |-> co.config]}

StartFails(n) ==
    /\ Starting(n)
    /\ Abandon(n)
    /\ Erred
    /\ UNCHANGED <<run, step, Client, adapters>>

-----------------------------------------------------------------------------
(* advance, the closing transactions *)

\* rejectUnstarted.
RejectUnstarted(n) ==
    /\ co.phase = "reject" /\ co.node = n
    /\ IF step[n].attempt = co.attempt /\ ~Ended(step[n])
       THEN /\ Aggregate(run, [step EXCEPT ![n] =
                   [@ EXCEPT !.state = IF run = "stopping" THEN "stopped"
                                       ELSE "failed",
                             !.note = "other"]])
            /\ Bump
       ELSE UNCHANGED <<run, step, seen>>
    /\ Done
    /\ UNCHANGED <<task, late, resumes, adapters>>

\* A step whose last call had an unknown outcome.  A dispatching one stays so:
\* when its absence is confirmed the same attempt may be sent again.
Doubted(s) ==
    [s EXCEPT !.waits = TRUE,
              !.state = IF @ = "dispatching" THEN @ ELSE "unknown",
              !.change = IF @ = "none" THEN @ ELSE "unknown",
              !.note = "doubt"]

\* The catch block.
RecordUnknown(n) ==
    /\ co.phase = "erred" /\ co.node = n
    /\ IF step[n].attempt = co.attempt /\ ~Ended(step[n])
       THEN /\ step' = [step EXCEPT ![n] = Doubted(step[n])]
            /\ seen' = (seen /\ step[n].note = "doubt")
       ELSE UNCHANGED <<step, seen>>
    /\ Done
    /\ UNCHANGED <<run, task, late, resumes, adapters>>

Current(n) == /\ step[n].attempt = co.attempt
              /\ step[n].gen = co.attempt
              /\ ~Ended(step[n])

Committing(n) == co.phase = "observed" /\ co.node = n

CommitDiscarded(n) ==
    /\ Committing(n)
    /\ \/ ~Current(n)
       \/ co.obs.state # "absent" /\ co.obs.gen # step[n].attempt
    /\ Done
    /\ UNCHANGED <<run, step, task, late, Client, adapters>>

CommitAbsent(n) ==
    /\ Committing(n) /\ Current(n)
    /\ co.obs.state = "absent"
    /\ IF run = "stopping"
       THEN Aggregate(run, [step EXCEPT ![n] =
               [@ EXCEPT !.state = "stopped", !.note = "other", !.waits = TRUE]])
       ELSE /\ step' = [step EXCEPT ![n] =
                  [@ EXCEPT !.state = "unknown", !.note = "missing", !.waits = TRUE]]
            /\ run' = "attention"
    /\ seen' = (seen /\ run' = run /\ step'[n].state = step[n].state
                     /\ step'[n].note = step[n].note)
    /\ Done
    /\ UNCHANGED <<task, late, resumes, adapters>>

FaultyOutcome(o) == CASE o.state \in {"failed", "retryable"} -> "failed"
                      [] o.state = "incomplete" -> "succeeded"
                      [] OTHER -> o.state

\* The state an authoritative observation gives the step.
Outcome(o) == CASE o.state \in {"incomplete", "failed", "retryable"} -> "failed"
                [] OTHER -> o.state

\* No limit to the retries.
FaultyRetries(n) ==
    co.obs.state = "retryable" /\ n \in SafeRetry /\ run # "stopping"

\* A retryable failure of a node that may be retried becomes a new try.
Retries(n) ==
    /\ co.obs.state = "retryable"
    /\ n \in SafeRetry
    /\ step[n].retries < MaxRetries
    /\ run # "stopping"

\* Any report taken for the one that was waited for.
FaultyApplied(s, o) ==
    IF o.applied = None THEN s
    ELSE [s EXCEPT !.actual = o.applied, !.change = "none"]

\* appliedConfig becomes the actual one and settles the change it equals.
Applied(s, o) ==
    IF o.applied = None THEN s
    ELSE [s EXCEPT !.actual = o.applied,
                   !.change = IF s.config = o.applied THEN "none" ELSE @]

\* terminalAuthority not looked at.
FaultyUnconfirmed(o) == o.state = "purged"

Unconfirmed(o) == o.state \in EndedTasks /\ ~o.final

\* A change the provider refused is dropped.
FaultyNoted(n) ==
    [step[n] EXCEPT !.waits = FALSE, !.change = IF co.refused THEN "none" ELSE @]

Noted(n) ==
    [step[n] EXCEPT !.waits = FALSE,
                    !.change = IF co.refused /\ @ # "none" THEN "unknown" ELSE @]

AfterObservation(n) ==
    LET o == co.obs
        s == Applied([Noted(n) EXCEPT !.state = Outcome(o), !.note = "other"], o)
    IN  IF Unconfirmed(o)
        THEN [Noted(n) EXCEPT !.state = "unknown", !.note = "unconfirmed",
                              !.waits = TRUE]
        ELSE IF Retries(n)
        THEN [s EXCEPT !.state = "pending", !.retries = @ + 1, !.attempt = 0,
                       !.change = "none", !.waits = TRUE]
        ELSE IF Ended(s) THEN [s EXCEPT !.change = "none"]
        ELSE [s EXCEPT !.waits = (o.state = "unknown")]

Visible(s) == [s EXCEPT !.waits = FALSE]

CommitObservation(n) ==
    /\ Committing(n) /\ Current(n)
    /\ co.obs.state # "absent" /\ co.obs.gen = step[n].attempt
    /\ Aggregate(run, [step EXCEPT ![n] = AfterObservation(n)])
    /\ BumpIf(Visible(AfterObservation(n)) # Visible(step[n]))
    /\ Done
    /\ UNCHANGED <<task, late, resumes, adapters>>

-----------------------------------------------------------------------------
(* The store, time and the process *)

\* A read or a transaction of the coordinator throws.  Inside advance's try it
\* counts as an unknown outcome, elsewhere in advance the step is left as it
\* is, and outside of advance the whole tick is given up.
StoreFails ==
    /\ \/ \E n \in Nodes : Visit(n) /\ co' = IF n \in co.bare THEN AtRest
                                             ELSE Onward(co.todo \ {n})
       \/ co.phase \in {"check", "recheck"} /\ Erred
       \/ co.phase = "reject" /\ IF co.refused THEN Done ELSE Erred
       \/ co.phase \in {"erred", "observed"} /\ Done
    /\ UNCHANGED <<run, step, task, late, Client, adapters>>

\* The moment nextPollAt or nextAttemptAt names is reached.
Elapse(n) ==
    /\ step[n].waits
    /\ ~Ended(step[n])
    /\ step' = [step EXCEPT ![n].waits = FALSE]
    /\ UNCHANGED <<run, task, co, late, Client, adapters>>

\* The process dies wherever it is and comes up again, perhaps with other
\* adapters.  Only the store survives, and a start that was under way.
Restart ==
    /\ adapters' \in AdapterSets
    /\ co' = AtRest
    /\ IF co.phase = "starting" THEN Abandon(co.node)
       ELSE UNCHANGED <<task, late>>
    /\ UNCHANGED <<run, step, Client>>

-----------------------------------------------------------------------------

Commands == ReadRun \/ StopRun \/ ResumeRun
            \/ \E n \in Nodes, c \in Configs : ChangeOnline(n, c)

Providers == \/ \E n \in Nodes, g \in Generations :
                    TaskRuns(n, g) \/ TaskEnds(n, g) \/ TaskPurged(n, g)
             \/ \E m \in late : LateStart(m)

Ticking == \/ TickBegin
           \/ \E n \in Nodes : \/ StopUndispatched(n) \/ SkipUnconnected(n)
                               \/ PrepareNothing(n) \/ PrepareStop(n)
                               \/ Dispatch(n) \/ PrepareOpen(n)

Calls == \/ \E n \in Nodes :
              \/ StopAnswered(n) \/ StopMisanswered(n) \/ StopFails(n)
              \/ LookupAnswered(n) \/ LookupMisanswered(n) \/ LookupFails(n)
              \/ ChangeAnswered(n) \/ ChangeMisanswered(n) \/ ChangeFails(n)
              \/ ChangeNotDue(n)
              \/ StartAnswered(n) \/ StartMisanswered(n) \/ StartRefused(n)
              \/ StartFails(n)
         \/ CheckStop \/ RecheckStop
         \/ ResolveSame \/ ResolveChanged \/ ResolveFails

Commits == \E n \in Nodes : \/ RejectUnstarted(n) \/ RecordUnknown(n)
                            \/ CommitDiscarded(n) \/ CommitAbsent(n)
                            \/ CommitObservation(n)

Undisturbed == \/ Commands \/ Providers \/ Ticking \/ Calls \/ Commits
               \/ \E n \in Nodes : Elapse(n)

Next == Undisturbed \/ StoreFails \/ Restart

Spec == Init /\ [][Next]_vars

-----------------------------------------------------------------------------
(* Properties *)

\* Types.
TypeOK ==
    /\ run \in RunStates
    /\ step \in [Nodes -> Step]
    /\ task \in [Nodes -> [Generations -> Task]]
    /\ co \in Advancing
    /\ co.phase \notin {"rest", "scan"} =>
           co.node \in Nodes /\ co.attempt \in Generations
    /\ late \subseteq Mail
    /\ adapters \subseteq Nodes
    /\ seen \in BOOLEAN
    /\ resumes \in 0 .. MaxResumes

\* The run has ended exactly when every step has, and the end it reports is
\* theirs: no transaction forgets aggregate, and resume, which looks at the
\* steps, and stop, which looks at the run, never both apply (lines 93, 97).
RunEndsWithSteps ==
    /\ run \in TerminalRuns <=> AllEnded(step)
    /\ run = "succeeded" => \A n \in Nodes : step[n].state = "succeeded"
    /\ run = "failed" => \E n \in Nodes : step[n].state # "succeeded"

\* Outside a stop, no undispatched step waits for a predecessor that failed or
\* was stopped: it was stopped with it, however long the chain between them.
NoStrandedStep ==
    run # "stopping" =>
        \A n \in Nodes : step[n].state = "pending" =>
            \A m \in Predecessors(n) : step[m].state \notin {"failed", "stopped"}

\* Whatever a provider executes is the current attempt of a step Studio still
\* holds open: a step is never reported over, retried or resumed while an
\* execution of it lives on, whichever calls failed or restarts intervened.
NoOrphanExecution ==
    \A n \in Nodes, g \in Generations :
        Live(n, g) => step[n].attempt = g /\ ~Ended(step[n])

\* Why that is so when no start outlives its call.  A step carries the attempt
\* minted last or none, and an undispatched one none.
AttemptsMinted ==
    \A n \in Nodes : /\ step[n].attempt \in {0, step[n].gen}
                     /\ step[n].state = "pending" => Bare(step[n])

\* No provider has heard of an attempt yet to be minted.
FutureUnknown ==
    \A n \in Nodes, g \in Generations :
        g > step[n].gen => task[n][g].state = "absent"

\* The attempt the coordinator works on stays the current one of an open step
\* across all of its awaits: no command can take it away.
AttemptHeld ==
    co.phase \notin {"rest", "scan"} =>
        /\ step[co.node].attempt = co.attempt
        /\ step[co.node].gen = co.attempt
        /\ ~Ended(step[co.node])

\* What the coordinator has read of that attempt and is about to act on is
\* still true: the attempt it will start or reject does not execute, nor does
\* the one it will record as absent or as ended by the provider's authority.
ReadingsHold ==
    /\ co.phase \in {"check", "resolve", "recheck", "starting", "reject"} =>
           ~Live(co.node, co.attempt)
    /\ /\ co.phase \in {"looked", "observed"}
       /\ \/ co.obs.state = "absent"
          \/ /\ co.obs.state \in EndedTasks
             /\ co.obs.final
             /\ co.obs.gen = co.attempt
       => ~Live(co.node, co.attempt)

\* The inductive strengthening of NoOrphanExecution.
ExecutionInvariant ==
    /\ NoOrphanExecution
    /\ AttemptsMinted
    /\ FutureUnknown
    /\ AttemptHeld
    /\ ReadingsHold

\* A step never has two executions at once.
OneExecution ==
    \A n \in Nodes, g, h \in Generations : Live(n, g) /\ Live(n, h) => g = h

\* A provider is only ever given work whose predecessors all succeeded, by the
\* authority of their own provider and with every declared output.
ConfirmedInputs ==
    \A n \in Nodes, g \in Generations :
        task[n][g].state # "absent" =>
            \A m \in Predecessors(n) :
                /\ step[m].state = "succeeded"
                /\ m \notin References =>
                       task[m][step[m].gen].state \in {"succeeded", "purged"}

\* A step is executed at most 1 + MaxRetries times for each time its user had
\* the run started or resumed.
ExecutionBudget ==
    \A n \in Nodes : step[n].gen <= (MaxRetries + 1) * (resumes + 1)

\* While a step is open and no change of it is outstanding, the provider
\* executes it with the configuration Studio shows as the desired one.
SettledConfig ==
    \A n \in Nodes :
        ~Bare(step[n]) /\ ~Ended(step[n]) /\ step[n].change = "none" =>
            task[n][step[n].attempt].state \in {"absent", "purged"}
            \/ task[n][step[n].attempt].applied = step[n].config

\* What runs.apply_change may reuse in a branch (an ended step whose actual
\* configuration is the desired one) was computed with that configuration.
ReuseSound ==
    \A n \in Nodes \ References :
        step[n].state = "succeeded" /\ step[n].actual = step[n].config =>
            task[n][step[n].gen].applied = step[n].config

\* An accepted stop is never taken back by an observation, a retry or a
\* dispatch that was under way: from then on no step gets a new execution and
\* the run can only become stopped.
StopSticks ==
    [][run = "stopping" =>
          /\ run' \in {"stopping", "stopped"}
          /\ \A n \in Nodes : step'[n].gen = step[n].gen]_vars

\* A step's end is final: a late or repeated observation never changes it, only
\* an explicit resume reopens a step, and never one that succeeded.
VerdictStands ==
    [][\A n \in Nodes :
          Ended(step[n]) /\ step'[n].state # step[n].state =>
              /\ step[n].state # "succeeded"
              /\ resumes' = resumes + 1]_vars

\* A command that still passes the revision check meets the steps its client
\* read: their visible fields never change under an unchanged revision.
RevisionFencesSteps ==
    [][seen /\ seen' =>
          \A n \in Nodes : Visible(step'[n]) = Visible(step[n])]_vars

\* A client that holds the current revision knows the run's state too, save that
\* aggregate may turn running to attention, or back, without a new one.  The
\* event stream relies on it (apps/control/run-stream.ts:23): it sends nothing
\* but heartbeats while the revision stays, so no run that has ended, is being
\* stopped or was resumed is shown as at work, nor the other way round.
RevisionFencesRun ==
    [][seen /\ seen' =>
          run' = run \/ {run, run'} \subseteq {"running", "attention"}]_vars

\* An accepted change stays on record until the provider confirmed it, or the
\* execution it was meant for is over.
ChangeKept ==
    [][\A n \in Nodes :
          step[n].change # "none" /\ step'[n].change = "none" =>
              \/ step'[n].actual = step[n].config
              \/ Ended(step'[n])
              \/ Bare(step'[n])]_vars

-----------------------------------------------------------------------------
(* The refinement: the store's verdicts and the providers' executions.     *)

Fence == INSTANCE ExecutionFence WITH
    begun   <- [n \in Nodes |->
                  {g \in Generations : task[n][g].state # "absent"}],
    live    <- [n \in Nodes |-> {g \in Generations : Live(n, g)}],
    verdict <- [n \in Nodes |-> IF Ended(step[n]) THEN step[n].state ELSE "open"]

\* The coordinator and its providers, with every call that fails and every
\* restart, keep the promise of ExecutionFence about who executes what, when.
KeepsFence == Fence!Spec

-----------------------------------------------------------------------------
(* Fairness: the worker ticks every second, every call returns or times    *)
(* out, time passes, and a provider tried again and again answers at last. *)

CoordinatorFairness ==
    /\ WF_vars(TickBegin)
    /\ \A n \in Nodes : WF_vars(\/ StopUndispatched(n) \/ SkipUnconnected(n)
                               \/ PrepareNothing(n) \/ PrepareStop(n)
                               \/ Dispatch(n) \/ PrepareOpen(n))
    /\ WF_vars(Calls)
    /\ WF_vars(Commits)
    /\ \A n \in Nodes : WF_vars(Elapse(n))

ProviderFairness ==
    /\ \A n \in Nodes : /\ SF_vars(StopAnswered(n))
                        /\ SF_vars(LookupAnswered(n))
                        /\ SF_vars(StartAnswered(n))
    /\ SF_vars(ResolveSame)
    /\ \A n \in Nodes, g \in Generations :
          WF_vars(task[n][g].halt /\ TaskEnds(n, g))

FairSpec == Spec /\ CoordinatorFairness /\ ProviderFairness

\* The control process and its database are not lost for ever: from some time on
\* every step is one of those taken without an outage.  (A StoreFails may look
\* like a PrepareNothing, so its absence could not be stated directly.)
OutagesEnd == <>[][Undisturbed]_vars

TasksFinish == \A n \in Nodes, g \in Generations :
                  WF_vars(TaskRuns(n, g)) /\ WF_vars(TaskEnds(n, g))

\* Once outages end a stop is carried through, however often calls fail: every
\* open execution is confirmed ended by its provider and the run stopped.
StopEnds == OutagesEnd => (run = "stopping" ~> run = "stopped")

\* If the providers also finish what they accept, every run comes to an end by
\* itself: no step waits for ever for a poll, a retry or a dead predecessor.
RunEnds == OutagesEnd /\ TasksFinish
              => (run \notin TerminalRuns ~> run \in TerminalRuns)

=============================================================================
