---------------------------- MODULE UpdateProofs ----------------------------
(* Theorems about ServiceUpdate, for any images, offers and number of        *)
(* requests: its safety properties, and that it implements AtomicUpdate.     *)
EXTENDS ServiceUpdate, FiniteSetTheorems, TLAPS

-----------------------------------------------------------------------------
(* The inductive invariant *)

Doing == journal[h.doing]

\* Phases from which an update is carried on, not rolled back.
Won == {"candidate_healthy", "completed"}

\* What an open journal holds, and what the helper may be at.
JournalInv ==
    /\ \A k \in Kinds :
         IF Open(k) THEN journal[k].request \in Requests /\ journal[k].to \in Images
         ELSE journal[k].request = 0
    /\ ~(Open("product") /\ Open("group"))
    /\ journal["product"].phase \notin {"completed", "rolling_back"}
    /\ h.pc \notin {"idle", "recover", "prepare", "done"} => Open(h.doing)
    /\ h.pc = "prepare" => h.to \in Images /\ \A k \in Kinds : ~Open(k)
    /\ h.pc \in {"prepare", "write", "up", "healthy"} => ~h.recovering
    /\ h.pc = "recheck" => h.recovering
    /\ h.pc \in {"adopt", "recheck", "rollback", "record"} => h.doing = "group"
    /\ h.pc \in {"refused", "drop"} => h.doing = "product"

\* The phase recorded at each step of the helper.
PhaseInv ==
    /\ h.pc \in {"begin", "refused", "drop", "token"} => Doing.phase = "maintenance_pending"
    /\ h.pc \in {"write", "up", "healthy"} => Doing.phase = "applying"
    /\ h.pc = "rollback" => Doing.phase \in {"applying", "rolling_back", "rollback_healthy"}
    /\ h.pc \in {"restore", "reup", "restored"} => Doing.phase \in {"applying", "rolling_back"}
    /\ h.pc = "end" => Doing.phase \in {"applying", "candidate_healthy", "rollback_healthy"}
    /\ h.pc \in {"adopt", "recheck"} => Doing.phase \in Won
    /\ h.pc = "record" => Doing.phase = "candidate_healthy"
    /\ h.pc \in {"healthy", "adopt", "recheck", "record"} => h.result = "succeeded"
    /\ h.pc \in {"prepare", "begin", "token", "rollback", "restore", "reup", "restored"}
         => h.result # "succeeded"
    /\ h.pc = "end" => (h.result = "succeeded" <=> Doing.phase = "candidate_healthy")

\* The outcomes the broker may have been told of an open update.
Told(k) == IF journal[k].phase \in Won THEN {"SUCCESS"}
           ELSE IF journal[k].phase = "maintenance_pending" THEN {}
           ELSE {"ROLLED_BACK"}

\* No EndMaintenance of an update has been sent.
Unended(k) == \A c \in late : c.request = journal[k].request => c.what = "begin"

\* What the broker makes of a request, and what a journal says of it.
FenceInv ==
    /\ \A c \in late : request[c.request] # "unsent"
    /\ \A r \in Held : ~busy
    /\ \A r \in Requests : request[r] \in {"open", "held"} =>
         \E k \in Kinds : Open(k) /\ journal[k].request = r
    /\ \A k \in Kinds : Open(k) =>
         LET r == journal[k].request IN
         /\ request[r] \in IF journal[k].phase = "maintenance_pending"
                           THEN {"open", "stale", "held"} ELSE {"held"} \cup Told(k)
         /\ \A c \in late : c.request = r => c.what \in {"begin"} \cup Told(k)
         /\ journal[k].phase = "completed" => request[r] = "SUCCESS"
    /\ h.pc \in {"refused", "drop"} => request[Doing.request] = "stale"
    /\ h.pc = "token" => request[Doing.request] = "held"
    /\ h.pc \in {"write", "up", "healthy", "adopt", "rollback", "restore", "reup", "restored"}
         /\ ~h.recovering => request[Doing.request] = "held" /\ Unended(h.doing)
    /\ h.pc \in {"record", "clear"} => request[Doing.request] \in Outcomes
    /\ h.pc = "record" => request[Doing.request] = "SUCCESS"

\* The previous image is, or is again, the one that runs and that Compose names.
Back(k) == LET j == journal[k] IN
    /\ compose[k] \in {Tag, j.from}
    /\ container[k].image = j.from
    /\ container[k].up \/ j.from = Absent

\* So is the candidate.
Forth(k) == LET j == journal[k] IN
    compose[k] = j.to /\ container[k] = [image |-> j.to, up |-> TRUE]

\* No update is half made.
AtRest(k) == 
    /\ compose[k] \in {Tag, container[k].image}
    /\ container[k].up \/ container[k].image = Absent
    /\ k = "group" => adopted = container[k].image

\* What is on the host, by the phase of a journal ...
HostAt(k) == LET j == journal[k] IN
    IF ~Open(k) THEN AtRest(k)
    ELSE /\ j.compose \in {Tag, j.from}
         /\ j.phase \in {"maintenance_pending", "rollback_healthy"} => Back(k)
         /\ j.phase = "maintenance_pending" => compose[k] = j.compose
         /\ j.phase \in Won => Forth(k)
         /\ k = "group" /\ j.phase \notin Won => adopted = j.from
         /\ k = "group" /\ j.phase = "completed" => adopted = j.to
         /\ request[j.request] = "ROLLED_BACK" => container[k].image = j.from
         /\ \A c \in late : c.request = j.request /\ c.what = "ROLLED_BACK"
                              => container[k].image = j.from

\* ... and by the step of the helper.
HostNow ==
    /\ h.pc \in {"write", "restored"} => Back(h.doing)
    /\ h.pc = "end" /\ Doing.phase # "candidate_healthy" => Back(h.doing)
    /\ h.pc = "reup" => compose[h.doing] \in {Tag, Doing.from}
    /\ h.pc = "up" => compose[h.doing] = Doing.to
    /\ h.pc = "healthy" => Forth(h.doing)
    /\ h.doing = "group" /\ (h.pc = "record" \/ (h.pc = "end" /\ Doing.phase \in Won))
         => adopted = Doing.to
    /\ h.pc = "clear" => AtRest(h.doing)

HostInv == (\A k \in Kinds : HostAt(k)) /\ HostNow

\* The plan a journal refers to is known.
PlanInv ==
    /\ \A k \in Kinds : Open(k) /\ journal[k].planned => plan[k][journal[k].to] # "none"
    /\ h.pc = "prepare" /\ h.planned => plan[h.doing][h.to] # "none"

IInv == UpdateTypeOK /\ JournalInv /\ PhaseInv /\ FenceInv /\ HostInv /\ PlanInv

USE DEF Kinds, At, Goto, Exit, host, broker, Doing


\* Every step the helper can be at, and every phase of a journal.
HelperSteps == {"idle", "recover", "prepare", "begin", "token", "refused",
                "drop", "write", "up", "healthy", "adopt", "recheck",
                "rollback", "restore", "reup", "restored", "end",
                "record", "clear", "done"}
Phases == {"none", "maintenance_pending", "applying", "candidate_healthy",
           "completed", "rolling_back", "rollback_healthy"}

\* The helper goes to another step.
LEMMA GotoTyped ==
    ASSUME UpdateTypeOK, NEW pc \in HelperSteps
    PROVE  /\ [h EXCEPT !.pc = pc] \in Helper
           /\ \A r \in {"succeeded", "rolled_back", "failed"} :
                [h EXCEPT !.pc = pc, !.result = r] \in Helper
BY DEF UpdateTypeOK, Helper, HelperSteps

\* A helper at rest has a typed position.
LEMMA IdleTyped == Idle \in Helper
BY DEF Idle, Helper

\* The phase of a journal is advanced.
LEMMA PhaseTyped ==
    ASSUME UpdateTypeOK, NEW k \in Kinds, NEW p \in Phases
    PROVE  [journal EXCEPT ![k].phase = p] \in [Kinds -> ServiceUpdateJournal]
<1>1. [journal[k] EXCEPT !.phase = p] \in ServiceUpdateJournal
  BY DEF UpdateTypeOK, ServiceUpdateJournal, Phases
<1> QED BY <1>1 DEF UpdateTypeOK

\* So has one that starts by recovering what an earlier one left.
LEMMA ResumeTyped == [Idle EXCEPT !.pc = "recover"] \in Helper
BY DEF Idle, Helper

\* A container given another image, or stopped, is still a container.
LEMMA ContainerTyped ==
    ASSUME UpdateTypeOK, NEW k \in Kinds, NEW i \in Images \cup {Absent}, NEW up \in BOOLEAN
    PROVE  [container EXCEPT ![k] = [image |-> i, up |-> up]] \in [Kinds -> Container]
BY DEF UpdateTypeOK, Container

\* Both images a journal names, and whether a plan came with it, are typed.
LEMMA FromTyped == ASSUME UpdateTypeOK, NEW k \in Kinds
  PROVE  /\ journal[k].from \in Images \cup {Absent} /\ journal[k].to \in Images \cup {Absent}
         /\ journal[k].planned \in BOOLEAN
BY DEF UpdateTypeOK, ServiceUpdateJournal

\* What a recovery takes from a journal.
LEMMA RecoversTyped ==
    ASSUME UpdateTypeOK, NEW k \in Kinds, NEW pc \in HelperSteps, Recovers(k, pc)
    PROVE  h' \in Helper
<1>1. /\ journal[k].to \in Images \cup {Absent}
      /\ journal[k].planned \in BOOLEAN
  BY FromTyped
<1> QED BY <1>1 DEF Recovers, Helper, HelperSteps

\* Before each group the helper is at one of three steps.
LEMMA GroupTyped == \A p : GroupStep(p) \in {"begin", "recheck", "rollback"}
BY DEF GroupStep

\* Every step keeps the types.
LEMMA TypeStep == IInv /\ Next => UpdateTypeOK'
<1> SUFFICES ASSUME IInv, Next PROVE UpdateTypeOK'
  OBVIOUS
<1>1. CASE TaskStarts
  BY <1>1 DEF IInv, TaskStarts, Moved, UpdateTypeOK, PlanPhases,
     ServiceUpdateJournal, NoJournal, Container, RequestStates, Helper, Idle,
     Call, Requests, Outcomes, JournalInv, Open
<1>2. CASE TaskEnds
  BY <1>2 DEF IInv, UpdateTypeOK, TaskEnds
<1>3. ASSUME NEW c \in late, LateCall(c) PROVE UpdateTypeOK'
  BY <1>3 DEF IInv, LateCall, Begun, Ended, Moved, UpdateTypeOK, PlanPhases,
     ServiceUpdateJournal, NoJournal, Container, RequestStates, Helper, Idle,
     Call, Requests, Outcomes, JournalInv, Open
<1>4. CASE Start
  BY <1>4 DEF IInv, Start, UpdateTypeOK, ServiceUpdateJournal, Container, Helper,
     Idle, Call, Requests, Outcomes, JournalInv, Open
<1>5. CASE ImportCatalog
  BY <1>5 DEF IInv, ImportCatalog, ImportIsSafe, UpdateTypeOK, PlanPhases,
     ServiceUpdateJournal, NoJournal, Container, RequestStates, Helper, Idle,
     Call, Requests, Outcomes, JournalInv, Open
<1>6. CASE Reject
  BY <1>6 DEF IInv, Reject, Recovered, UpdateTypeOK, ServiceUpdateJournal,
     Container, Helper, Idle, Call, Requests, Outcomes, JournalInv, Open
<1>7. CASE RecoverGroup
  <2>1. h' \in Helper
    BY <1>7, IdleTyped, RecoversTyped, GroupTyped DEF IInv, RecoverGroup, HelperSteps
  <2> QED BY <1>7, <2>1 DEF IInv, UpdateTypeOK, RecoverGroup
<1>8. CASE RecoverProduct
  BY <1>8 DEF IInv, RecoverProduct, Recovers, ProductStep, UpdateTypeOK,
     ServiceUpdateJournal, Helper, Outcomes, JournalInv, Open
<1>9. ASSUME NEW o \in Offered, Check(o[1], o[2]) PROVE UpdateTypeOK'
  BY <1>9, UpdateAssumption DEF IInv, Check, Recovered, Matches, UpdateTypeOK,
     PlanPhases, ServiceUpdateJournal, NoJournal, Container, RequestStates,
     Helper, Idle, Call, Requests, Outcomes, JournalInv, Open
<1>10. ASSUME NEW o \in Offered, Stage(o[1], o[2]) PROVE UpdateTypeOK'
  BY <1>10, UpdateAssumption DEF IInv, Stage, Recovered, UpdateTypeOK, PlanPhases,
     ServiceUpdateJournal, NoJournal, Container, RequestStates, Helper, Idle,
     Call, Requests, Outcomes, JournalInv, Open
<1>11. ASSUME NEW o \in Offered, Apply(o[1], o[2]) PROVE UpdateTypeOK'
  BY <1>11, UpdateAssumption DEF IInv, Apply, Recovered, Asked, UpdateTypeOK,
     PlanPhases, ServiceUpdateJournal, NoJournal, Container, RequestStates,
     Helper, Idle, Call, Requests, Outcomes, JournalInv, Open
<1>12. ASSUME NEW o \in Offered, Update(o[2]) PROVE UpdateTypeOK'
  BY <1>12, UpdateAssumption DEF IInv, Update, Recovered, Asked, UpdateTypeOK,
     ServiceUpdateJournal, Container, Helper, Idle, Call, Requests, Outcomes,
     JournalInv, Open
<1>13. ASSUME NEW k \in Kinds, Prepare(k) PROVE UpdateTypeOK'
  BY <1>13, UpdateAssumption, GotoTyped DEF IInv, UpdateTypeOK, Prepare,
     HelperSteps, Helper, Container, ServiceUpdateJournal, RequestStates
<1>14. ASSUME NEW k \in Kinds, NotReady(k) PROVE UpdateTypeOK'
  BY <1>14 DEF IInv, NotReady, Err, UpdateTypeOK, PlanPhases,
     ServiceUpdateJournal, NoJournal, Container, RequestStates, Helper, Idle,
     Call, Requests, Outcomes, JournalInv, Open
<1>15. ASSUME NEW k \in Kinds, BeginGranted(k) PROVE UpdateTypeOK'
  BY <1>15 DEF IInv, BeginGranted, Begun, Moved, UpdateTypeOK, PlanPhases,
     ServiceUpdateJournal, NoJournal, Container, RequestStates, Helper, Idle,
     Call, Requests, Outcomes, JournalInv, Open
<1>16. ASSUME NEW k \in Kinds, BeginRefused(k) PROVE UpdateTypeOK'
  <2>1. plan' \in [Kinds -> [Images -> PlanPhases]]
    BY <1>16, UpdateAssumption DEF IInv, UpdateTypeOK, BeginRefused, Err,
       PlanPhases, Helper
  <2>2. request' \in [Requests -> RequestStates] /\ busy' \in BOOLEAN
    BY <1>16 DEF IInv, UpdateTypeOK, BeginRefused, Err, RequestStates, Outcomes,
       Requests, JournalInv, Open
  <2>3. h' \in Helper
    BY <1>16, UpdateAssumption, GotoTyped, IdleTyped, ResumeTyped DEF IInv,
       UpdateTypeOK, BeginRefused, Err, HelperSteps
  <2> QED
    BY <1>16, <2>1, <2>2, <2>3 DEF IInv, UpdateTypeOK, BeginRefused
<1>17. ASSUME NEW k \in Kinds, BeginUnknown(k) PROVE UpdateTypeOK'
  <2>1. plan' \in [Kinds -> [Images -> PlanPhases]]
    BY <1>17, UpdateAssumption DEF IInv, UpdateTypeOK, BeginUnknown, Err,
       PlanPhases, Helper
  <2>2. late' \in SUBSET Call
    BY <1>17 DEF IInv, UpdateTypeOK, BeginUnknown, Err, Call, JournalInv, Open,
       Outcomes
  <2>3. h' \in Helper
    BY <1>17, UpdateAssumption, GotoTyped, IdleTyped, ResumeTyped DEF IInv,
       UpdateTypeOK, BeginUnknown, Err, HelperSteps
  <2> QED
    BY <1>17, <2>1, <2>2, <2>3 DEF IInv, UpdateTypeOK, BeginUnknown
<1>18. CASE RefusalPlan
  <2>1. plan' \in [Kinds -> [Images -> PlanPhases]]
    BY <1>18, UpdateAssumption DEF IInv, UpdateTypeOK, RefusalPlan, Retryable,
       PlanPhases, Helper
  <2>2. h' \in Helper
    BY <1>18, UpdateAssumption, GotoTyped, IdleTyped, ResumeTyped DEF IInv,
       UpdateTypeOK, RefusalPlan, Retryable, HelperSteps
  <2> QED
    BY <1>18, <2>1, <2>2 DEF IInv, UpdateTypeOK, RefusalPlan
<1>19. CASE RefusalJournal
  BY <1>19 DEF IInv, RefusalJournal, UpdateTypeOK, PlanPhases,
     ServiceUpdateJournal, NoJournal, Container, RequestStates, Helper, Idle,
     Call, Requests, Outcomes, JournalInv, Open
<1>20. ASSUME NEW k \in Kinds, Token(k) PROVE UpdateTypeOK'
  BY <1>20, UpdateAssumption, GotoTyped, IdleTyped, PhaseTyped DEF IInv,
     UpdateTypeOK, Token, HelperSteps, Phases
<1>21. ASSUME NEW k \in Kinds, WriteCompose(k) PROVE UpdateTypeOK'
  BY <1>21 DEF IInv, WriteCompose, UpdateTypeOK, ServiceUpdateJournal, Helper,
     Outcomes, JournalInv, Open
<1>22. ASSUME NEW k \in Kinds, WriteComposeFails(k) PROVE UpdateTypeOK'
  BY <1>22 DEF IInv, WriteComposeFails, UpdateTypeOK, ServiceUpdateJournal,
     Helper, Outcomes, JournalInv, Open
<1>23. ASSUME NEW k \in Kinds, Up(k) PROVE UpdateTypeOK'
  BY <1>23 DEF IInv, Up, UpdateTypeOK, ServiceUpdateJournal, Container, Helper,
     Idle, Call, Requests, Outcomes, JournalInv, Open
<1>24. ASSUME NEW k \in Kinds, UpFails(k) PROVE UpdateTypeOK'
  <2>1. /\ compose' \in [Kinds -> Images \cup {Tag}] /\ container' \in [Kinds -> Container]
         /\ adopted' \in Images \cup {Absent}
    <3>1. CASE UNCHANGED container
      BY <1>24, <3>1 DEF IInv, UpdateTypeOK, UpFails
    <3>2. CASE container' = [container EXCEPT ![k] = [image |-> journal[k].to, up |-> FALSE]]
      BY <1>24, <3>2, ContainerTyped, FromTyped DEF IInv, UpdateTypeOK, UpFails
    <3> QED BY <1>24, <3>1, <3>2 DEF UpFails
  <2>2. h' \in Helper
    BY <1>24, UpdateAssumption, GotoTyped, IdleTyped, ResumeTyped DEF IInv,
       UpdateTypeOK, UpFails, HelperSteps
  <2> QED
    BY <1>24, <2>1, <2>2 DEF IInv, UpdateTypeOK, UpFails
<1>25. ASSUME NEW k \in Kinds, Healthy(k) PROVE UpdateTypeOK'
  BY <1>25, UpdateAssumption, GotoTyped, PhaseTyped DEF IInv, UpdateTypeOK,
     Healthy, HelperSteps, Phases
<1>26. CASE Adopt
  BY <1>26 DEF IInv, Adopt, UpdateTypeOK, ServiceUpdateJournal, Helper, Outcomes,
     JournalInv, Open
<1>27. CASE Recheck
  BY <1>27 DEF IInv, Recheck, UpdateTypeOK, ServiceUpdateJournal, Helper,
     Outcomes, JournalInv, Open
<1>28. CASE RollbackBegins
  BY <1>28, UpdateAssumption, GotoTyped, PhaseTyped DEF IInv, UpdateTypeOK,
     RollbackBegins, HelperSteps, Phases
<1>29. ASSUME NEW k \in Kinds, Restore(k) PROVE UpdateTypeOK'
  BY <1>29 DEF IInv, Restore, Previous, UpdateTypeOK, ServiceUpdateJournal,
     Helper, Outcomes, JournalInv, Open
<1>30. ASSUME NEW k \in Kinds, ReUp(k) PROVE UpdateTypeOK'
  BY <1>30 DEF IInv, ReUp, UpdateTypeOK, ServiceUpdateJournal, Container, Helper,
     Idle, Call, Requests, Outcomes, JournalInv, Open
<1>31. ASSUME NEW k \in Kinds, ReUpFails(k) PROVE UpdateTypeOK'
  <2>1. plan' \in [Kinds -> [Images -> PlanPhases]]
    BY <1>31, UpdateAssumption DEF IInv, UpdateTypeOK, ReUpFails, Err,
       PlanPhases, Helper
  <2>2. /\ compose' \in [Kinds -> Images \cup {Tag}] /\ container' \in [Kinds -> Container]
         /\ adopted' \in Images \cup {Absent}
    <3>1. CASE UNCHANGED container
      BY <1>31, <3>1 DEF IInv, UpdateTypeOK, ReUpFails
    <3>2. CASE container' = [container EXCEPT ![k] = [image |-> journal[k].from, up |-> FALSE]]
      BY <1>31, <3>2, ContainerTyped, FromTyped DEF IInv, UpdateTypeOK, ReUpFails
    <3> QED BY <1>31, <3>1, <3>2 DEF ReUpFails
  <2>3. h' \in Helper
    BY <1>31, UpdateAssumption, GotoTyped, IdleTyped, ResumeTyped DEF IInv,
       UpdateTypeOK, ReUpFails, Err, HelperSteps
  <2> QED
    BY <1>31, <2>1, <2>2, <2>3 DEF IInv, UpdateTypeOK, ReUpFails
<1>32. ASSUME NEW k \in Kinds, Restored(k) PROVE UpdateTypeOK'
  <2>1. journal' \in [Kinds -> ServiceUpdateJournal]
    BY <1>32, UpdateAssumption, PhaseTyped DEF IInv, UpdateTypeOK, Restored,
       Phases
  <2>2. /\ compose' \in [Kinds -> Images \cup {Tag}] /\ container' \in [Kinds -> Container]
         /\ adopted' \in Images \cup {Absent}
    BY <1>32, UpdateAssumption, ContainerTyped, FromTyped DEF IInv,
       UpdateTypeOK, Restored, ServiceUpdateJournal, Container, JournalInv,
       Open
  <2>3. h' \in Helper
    BY <1>32, UpdateAssumption, GotoTyped, IdleTyped, ResumeTyped DEF IInv,
       UpdateTypeOK, Restored, HelperSteps
  <2> QED
    BY <1>32, <2>1, <2>2, <2>3 DEF IInv, UpdateTypeOK, Restored
<1>33. ASSUME NEW k \in Kinds, EndAnswered(k) PROVE UpdateTypeOK'
  BY <1>33 DEF IInv, EndAnswered, Outcome, Ended, Moved, UpdateTypeOK, PlanPhases,
     ServiceUpdateJournal, NoJournal, Container, RequestStates, Helper, Idle,
     Call, Requests, Outcomes, JournalInv, Open
<1>34. ASSUME NEW k \in Kinds, EndUnknown(k) PROVE UpdateTypeOK'
  <2>1. plan' \in [Kinds -> [Images -> PlanPhases]]
    BY <1>34, UpdateAssumption DEF IInv, UpdateTypeOK, EndUnknown, Outcome,
       Err, PlanPhases, Helper
  <2>2. late' \in SUBSET Call
    BY <1>34 DEF IInv, UpdateTypeOK, EndUnknown, Outcome, Err, Call, JournalInv,
       Open, Outcomes
  <2>3. h' \in Helper
    BY <1>34, UpdateAssumption, GotoTyped, IdleTyped, ResumeTyped DEF IInv,
       UpdateTypeOK, EndUnknown, Outcome, Err, HelperSteps
  <2> QED
    BY <1>34, <2>1, <2>2, <2>3 DEF IInv, UpdateTypeOK, EndUnknown
<1>35. CASE Record
  BY <1>35, UpdateAssumption, GotoTyped, PhaseTyped DEF IInv, UpdateTypeOK,
     Record, HelperSteps, Phases
<1>36. ASSUME NEW k \in Kinds, Clear(k) PROVE UpdateTypeOK'
  <2>1. journal' \in [Kinds -> ServiceUpdateJournal]
    BY <1>36, PhaseTyped DEF IInv, UpdateTypeOK, Clear, Resume,
       ServiceUpdateJournal, NoJournal, Requests, Container, JournalInv, Open
  <2>2. h' \in Helper
    BY <1>36, UpdateAssumption, GotoTyped, IdleTyped, ResumeTyped DEF IInv,
       UpdateTypeOK, Clear, Resume, HelperSteps
  <2> QED
    BY <1>36, <2>1, <2>2 DEF IInv, UpdateTypeOK, Clear
<1>37. ASSUME NEW k \in Kinds, Done(k) PROVE UpdateTypeOK'
  <2>1. plan' \in [Kinds -> [Images -> PlanPhases]]
    BY <1>37, UpdateAssumption DEF IInv, UpdateTypeOK, Done, Resume,
       PlanPhases, Helper
  <2>2. h' \in Helper
    BY <1>37, UpdateAssumption, GotoTyped, IdleTyped, ResumeTyped DEF IInv,
       UpdateTypeOK, Done, Resume, HelperSteps
  <2> QED
    BY <1>37, <2>1, <2>2 DEF IInv, UpdateTypeOK, Done
<1>38. CASE StepFails
  BY <1>38, UpdateAssumption, IdleTyped DEF IInv, UpdateTypeOK, StepFails,
     Err, Fallible, PlanPhases
<1>39. CASE Crash
  BY <1>39 DEF IInv, Crash, Sent, Outcome, UpdateTypeOK, ServiceUpdateJournal,
     Container, Helper, Idle, Call, Requests, Outcomes, JournalInv, Open
<1> QED
  BY <1>1, <1>2, <1>3, <1>4, <1>5, <1>6, <1>7, <1>8, <1>9, <1>10, <1>11,
     <1>12, <1>13, <1>14, <1>15, <1>16, <1>17, <1>18, <1>19, <1>20, <1>21,
     <1>22, <1>23, <1>24, <1>25, <1>26, <1>27, <1>28, <1>29, <1>30, <1>31,
     <1>32, <1>33, <1>34, <1>35, <1>36, <1>37, <1>38, <1>39 DEF Next, Tasks,
     Undisturbed, Recovery, Operations, Updating, Steps, Faults, Unanswered

\* Every step keeps the journals in order.
LEMMA JournalStep == IInv /\ Next => JournalInv'
<1> SUFFICES ASSUME IInv, Next PROVE JournalInv'
  OBVIOUS
<1>1. CASE TaskStarts
  BY <1>1 DEF IInv, TaskStarts, Moved, JournalInv, PhaseInv, Open, Won
<1>2. CASE TaskEnds
  BY <1>2 DEF IInv, TaskEnds, JournalInv, PhaseInv, Open, Won
<1>3. ASSUME NEW c \in late, LateCall(c) PROVE JournalInv'
  BY <1>3 DEF IInv, LateCall, Begun, Ended, Moved, JournalInv, PhaseInv, Open, Won
<1>4. CASE Start
  BY <1>4 DEF IInv, Start, JournalInv, PhaseInv, Open, Won
<1>5. CASE ImportCatalog
  BY <1>5 DEF IInv, ImportCatalog, ImportIsSafe, JournalInv, PhaseInv, Open, Won
<1>6. CASE Reject
  BY <1>6 DEF IInv, Reject, Recovered, UpdateTypeOK, ServiceUpdateJournal,
     Container, Helper, Idle, Call, Requests, Outcomes, JournalInv, PhaseInv,
     Open, Won
<1>7. CASE RecoverGroup
  BY <1>7 DEF IInv, RecoverGroup, Recovers, GroupStep, UpdateTypeOK,
     ServiceUpdateJournal, Container, Helper, Idle, Call, Requests, Outcomes,
     JournalInv, PhaseInv, Open, Won
<1>8. CASE RecoverProduct
  BY <1>8 DEF IInv, RecoverProduct, Recovers, ProductStep, UpdateTypeOK,
     ServiceUpdateJournal, Helper, Outcomes, JournalInv, PhaseInv, Open, Won
<1>9. ASSUME NEW o \in Offered, Check(o[1], o[2]) \/ Stage(o[1], o[2]) PROVE JournalInv'
  BY <1>9 DEF IInv, Check, Recovered, Matches, Stage, UpdateTypeOK,
     ServiceUpdateJournal, Container, Helper, Idle, Call, Requests, Outcomes,
     JournalInv, PhaseInv, Open, Won
<1>10. ASSUME NEW o \in Offered, Apply(o[1], o[2]) PROVE JournalInv'
  BY <1>10, UpdateAssumption DEF IInv, Apply, Recovered, Asked, UpdateTypeOK,
     ServiceUpdateJournal, Container, Helper, Idle, Call, Requests, Outcomes,
     JournalInv, PhaseInv, Open, Won
<1>11. ASSUME NEW o \in Offered, Update(o[2]) PROVE JournalInv'
  BY <1>11, UpdateAssumption DEF IInv, Update, Recovered, Asked, UpdateTypeOK,
     ServiceUpdateJournal, Container, Helper, Idle, Call, Requests, Outcomes,
     JournalInv, PhaseInv, Open, Won
<1>12. ASSUME NEW k \in Kinds, Prepare(k) PROVE JournalInv'
  BY <1>12 DEF IInv, Prepare, Matches, UpdateTypeOK, ServiceUpdateJournal,
     Container, Helper, Idle, Call, Requests, Outcomes, JournalInv, PhaseInv,
     Open, Won
<1>13. ASSUME NEW k \in Kinds, NotReady(k) PROVE JournalInv'
  BY <1>13 DEF IInv, NotReady, Err, UpdateTypeOK, ServiceUpdateJournal, Container,
     Helper, Idle, Call, Requests, Outcomes, JournalInv, PhaseInv, Open, Won
<1>14. ASSUME NEW k \in Kinds, BeginGranted(k) PROVE JournalInv'
  BY <1>14 DEF IInv, BeginGranted, Begun, Moved, UpdateTypeOK,
     ServiceUpdateJournal, Container, Helper, Idle, Call, Requests, Outcomes,
     JournalInv, PhaseInv, Open, Won
<1>15. ASSUME NEW k \in Kinds, BeginRefused(k) PROVE JournalInv'
  BY <1>15 DEF IInv, BeginRefused, Err, UpdateTypeOK, ServiceUpdateJournal,
     Container, Helper, Idle, Call, Requests, Outcomes, JournalInv, PhaseInv,
     Open, Won
<1>16. ASSUME NEW k \in Kinds, BeginUnknown(k) PROVE JournalInv'
  BY <1>16 DEF IInv, BeginUnknown, Err, UpdateTypeOK, ServiceUpdateJournal,
     Container, Helper, Idle, Call, Requests, Outcomes, JournalInv, PhaseInv,
     Open, Won
<1>17. CASE RefusalPlan
  BY <1>17 DEF IInv, RefusalPlan, Retryable, UpdateTypeOK, ServiceUpdateJournal,
     Container, Helper, Idle, Call, Requests, Outcomes, JournalInv, PhaseInv,
     Open, Won
<1>18. CASE RefusalJournal
  BY <1>18 DEF IInv, RefusalJournal, UpdateTypeOK, PlanPhases,
     ServiceUpdateJournal, NoJournal, Container, RequestStates, Helper, Idle,
     Call, Requests, Outcomes, JournalInv, PhaseInv, Open, Won
<1>19. ASSUME NEW k \in Kinds, Token(k) PROVE JournalInv'
  BY <1>19 DEF IInv, Token, JournalInv, PhaseInv, Open, Idle, UpdateTypeOK,
     Helper, ServiceUpdateJournal
<1>20. ASSUME NEW k \in Kinds, WriteCompose(k) PROVE JournalInv'
  BY <1>20 DEF IInv, WriteCompose, UpdateTypeOK, ServiceUpdateJournal, Container,
     Helper, Idle, Call, Requests, Outcomes, JournalInv, PhaseInv, Open, Won
<1>21. ASSUME NEW k \in Kinds, WriteComposeFails(k) PROVE JournalInv'
  BY <1>21 DEF IInv, WriteComposeFails, JournalInv, PhaseInv, Open, Won
<1>22. ASSUME NEW k \in Kinds, Up(k) PROVE JournalInv'
  BY <1>22 DEF IInv, Up, JournalInv, PhaseInv, Open, Won
<1>23. ASSUME NEW k \in Kinds, UpFails(k) PROVE JournalInv'
  BY <1>23 DEF IInv, UpFails, JournalInv, PhaseInv, Open, Won
<1>24. ASSUME NEW k \in Kinds, Healthy(k) PROVE JournalInv'
  BY <1>24 DEF IInv, Healthy, JournalInv, PhaseInv, Open, Won
<1>25. CASE Adopt
  BY <1>25 DEF IInv, Adopt, JournalInv, PhaseInv, Open, Won
<1>26. CASE Recheck
  BY <1>26 DEF IInv, Recheck, JournalInv, PhaseInv, Open, Won
<1>27. CASE RollbackBegins
  BY <1>27 DEF IInv, RollbackBegins, JournalInv, PhaseInv, Open, Won
<1>28. ASSUME NEW k \in Kinds, Restore(k) PROVE JournalInv'
  BY <1>28 DEF IInv, Restore, Previous, JournalInv, PhaseInv, Open, Won
<1>29. ASSUME NEW k \in Kinds, ReUp(k) PROVE JournalInv'
  BY <1>29 DEF IInv, ReUp, JournalInv, PhaseInv, Open, Won
<1>30. ASSUME NEW k \in Kinds, ReUpFails(k) PROVE JournalInv'
  BY <1>30 DEF IInv, ReUpFails, Err, UpdateTypeOK, ServiceUpdateJournal,
     Container, Helper, Idle, Call, Requests, Outcomes, JournalInv, PhaseInv,
     Open, Won
<1>31. ASSUME NEW k \in Kinds, Restored(k) PROVE JournalInv'
  BY <1>31 DEF IInv, Restored, UpdateTypeOK, ServiceUpdateJournal, Container,
     Helper, Idle, Call, Requests, Outcomes, JournalInv, PhaseInv, Open, Won
<1>32. ASSUME NEW k \in Kinds, EndAnswered(k) PROVE JournalInv'
  BY <1>32 DEF IInv, EndAnswered, Outcome, Ended, Moved, JournalInv, PhaseInv,
     Open, Won
<1>33. ASSUME NEW k \in Kinds, EndUnknown(k) PROVE JournalInv'
  BY <1>33 DEF IInv, EndUnknown, Outcome, Err, UpdateTypeOK, ServiceUpdateJournal,
     Container, Helper, Idle, Call, Requests, Outcomes, JournalInv, PhaseInv,
     Open, Won
<1>34. CASE Record
  BY <1>34 DEF IInv, Record, UpdateTypeOK, ServiceUpdateJournal, Container,
     Helper, Idle, Call, Requests, Outcomes, JournalInv, PhaseInv, Open, Won
<1>35. ASSUME NEW k \in Kinds, Clear(k) PROVE JournalInv'
  BY <1>35 DEF IInv, Clear, Resume, UpdateTypeOK, PlanPhases,
     ServiceUpdateJournal, NoJournal, Container, RequestStates, Helper, Idle,
     Call, Requests, Outcomes, JournalInv, PhaseInv, Open, Won
<1>36. ASSUME NEW k \in Kinds, Done(k) PROVE JournalInv'
  BY <1>36 DEF IInv, Done, Resume, UpdateTypeOK, ServiceUpdateJournal, Container,
     Helper, Idle, Call, Requests, Outcomes, JournalInv, PhaseInv, Open, Won
<1>37. CASE StepFails
  BY <1>37 DEF IInv, StepFails, Fallible, Err, UpdateTypeOK, ServiceUpdateJournal,
     Container, Helper, Idle, Call, Requests, Outcomes, JournalInv, PhaseInv,
     Open, Won
<1>38. CASE Crash
  BY <1>38 DEF IInv, Crash, Sent, Outcome, UpdateTypeOK, ServiceUpdateJournal,
     Container, Helper, Idle, Call, Requests, Outcomes, JournalInv, PhaseInv,
     Open, Won
<1> QED
  BY <1>1, <1>2, <1>3, <1>4, <1>5, <1>6, <1>7, <1>8, <1>9, <1>10, <1>11,
     <1>12, <1>13, <1>14, <1>15, <1>16, <1>17, <1>18, <1>19, <1>20, <1>21,
     <1>22, <1>23, <1>24, <1>25, <1>26, <1>27, <1>28, <1>29, <1>30, <1>31,
     <1>32, <1>33, <1>34, <1>35, <1>36, <1>37, <1>38 DEF Next, Tasks,
     Undisturbed, Recovery, Operations, Updating, Steps, Faults, Unanswered

\* Every step keeps the phases.
LEMMA PhaseStep == IInv /\ Next => PhaseInv'
<1> SUFFICES ASSUME IInv, Next PROVE PhaseInv'
  OBVIOUS
<1>1. CASE TaskStarts
  BY <1>1 DEF IInv, TaskStarts, Moved, JournalInv, PhaseInv, Won, Open
<1>2. CASE TaskEnds
  BY <1>2 DEF IInv, TaskEnds, JournalInv, PhaseInv, Won, Open
<1>3. ASSUME NEW c \in late, LateCall(c) PROVE PhaseInv'
  BY <1>3 DEF IInv, LateCall, Begun, Ended, Moved, JournalInv, PhaseInv, Won, Open
<1>4. CASE Start
  BY <1>4 DEF IInv, Start, JournalInv, PhaseInv, Won, Open
<1>5. CASE ImportCatalog
  BY <1>5 DEF IInv, ImportCatalog, ImportIsSafe, JournalInv, PhaseInv, Won, Open
<1>6. CASE Reject
  BY <1>6 DEF IInv, Reject, Recovered, UpdateTypeOK, ServiceUpdateJournal,
     Container, Helper, Idle, Call, Requests, Outcomes, JournalInv, PhaseInv, Won,
     Open
<1>7. CASE RecoverGroup
  BY <1>7 DEF IInv, RecoverGroup, Recovers, GroupStep, UpdateTypeOK,
     ServiceUpdateJournal, Container, Helper, Idle, Call, Requests, Outcomes,
     JournalInv, PhaseInv, Won, Open
<1>8. CASE RecoverProduct
  BY <1>8 DEF IInv, RecoverProduct, Recovers, ProductStep, UpdateTypeOK,
     ServiceUpdateJournal, Helper, Outcomes, JournalInv, PhaseInv, Won, Open
<1>9. ASSUME NEW o \in Offered, Check(o[1], o[2]) \/ Stage(o[1], o[2]) PROVE PhaseInv'
  BY <1>9 DEF IInv, Check, Recovered, Matches, Stage, UpdateTypeOK,
     ServiceUpdateJournal, Container, Helper, Idle, Call, Requests, Outcomes,
     JournalInv, PhaseInv, Won, Open
<1>10. ASSUME NEW o \in Offered, Apply(o[1], o[2]) PROVE PhaseInv'
  BY <1>10 DEF IInv, Apply, Recovered, Asked, UpdateTypeOK, ServiceUpdateJournal,
     Container, Helper, Idle, Call, Requests, Outcomes, JournalInv, PhaseInv, Won,
     Open
<1>11. ASSUME NEW o \in Offered, Update(o[2]) PROVE PhaseInv'
  BY <1>11 DEF IInv, Update, Recovered, Asked, UpdateTypeOK, ServiceUpdateJournal,
     Container, Helper, Idle, Call, Requests, Outcomes, JournalInv, PhaseInv, Won,
     Open
<1>12. ASSUME NEW k \in Kinds, Prepare(k) PROVE PhaseInv'
  BY <1>12 DEF IInv, Prepare, Matches, UpdateTypeOK, ServiceUpdateJournal,
     Container, Helper, Idle, Call, Requests, Outcomes, JournalInv, PhaseInv, Won,
     Open
<1>13. ASSUME NEW k \in Kinds, NotReady(k) PROVE PhaseInv'
  BY <1>13 DEF IInv, NotReady, Err, UpdateTypeOK, ServiceUpdateJournal, Container,
     Helper, Idle, Call, Requests, Outcomes, JournalInv, PhaseInv, Won, Open
<1>14. ASSUME NEW k \in Kinds, BeginGranted(k) PROVE PhaseInv'
  BY <1>14 DEF IInv, BeginGranted, Begun, Moved, UpdateTypeOK,
     ServiceUpdateJournal, Container, Helper, Idle, Call, Requests, Outcomes,
     JournalInv, PhaseInv, Won, Open
<1>15. ASSUME NEW k \in Kinds, BeginRefused(k) PROVE PhaseInv'
  BY <1>15 DEF IInv, BeginRefused, Err, UpdateTypeOK, ServiceUpdateJournal,
     Container, Helper, Idle, Call, Requests, Outcomes, JournalInv, PhaseInv, Won,
     Open
<1>16. ASSUME NEW k \in Kinds, BeginUnknown(k) PROVE PhaseInv'
  BY <1>16 DEF IInv, BeginUnknown, Err, UpdateTypeOK, ServiceUpdateJournal,
     Container, Helper, Idle, Call, Requests, Outcomes, JournalInv, PhaseInv, Won,
     Open
<1>17. CASE RefusalPlan
  BY <1>17 DEF IInv, RefusalPlan, Retryable, UpdateTypeOK, ServiceUpdateJournal,
     Container, Helper, Idle, Call, Requests, Outcomes, JournalInv, PhaseInv, Won,
     Open
<1>18. CASE RefusalJournal
  BY <1>18 DEF IInv, RefusalJournal, UpdateTypeOK, ServiceUpdateJournal,
     Container, Helper, Idle, Call, Requests, Outcomes, JournalInv, PhaseInv, Won,
     Open
<1>19. ASSUME NEW k \in Kinds, Token(k) PROVE PhaseInv'
  BY <1>19 DEF IInv, Token, UpdateTypeOK, ServiceUpdateJournal, Container, Helper,
     Idle, Call, Requests, Outcomes, JournalInv, PhaseInv, Won, Open
<1>20. ASSUME NEW k \in Kinds, WriteCompose(k) PROVE PhaseInv'
  BY <1>20 DEF IInv, WriteCompose, UpdateTypeOK, ServiceUpdateJournal, Container,
     Helper, Idle, Call, Requests, Outcomes, JournalInv, PhaseInv, Won, Open
<1>21. ASSUME NEW k \in Kinds, WriteComposeFails(k) PROVE PhaseInv'
  BY <1>21 DEF IInv, WriteComposeFails, JournalInv, PhaseInv, Won, Open
<1>22. ASSUME NEW k \in Kinds, Up(k) PROVE PhaseInv'
  BY <1>22 DEF IInv, Up, JournalInv, PhaseInv, Won, Open
<1>23. ASSUME NEW k \in Kinds, UpFails(k) PROVE PhaseInv'
  BY <1>23 DEF IInv, UpFails, JournalInv, PhaseInv, Won, Open
<1>24. ASSUME NEW k \in Kinds, Healthy(k) PROVE PhaseInv'
  BY <1>24 DEF IInv, Healthy, UpdateTypeOK, ServiceUpdateJournal, Helper,
     Outcomes, JournalInv, PhaseInv, Won, Open
<1>25. CASE Adopt
  BY <1>25 DEF IInv, Adopt, UpdateTypeOK, ServiceUpdateJournal, Helper, Outcomes,
     JournalInv, PhaseInv, Won, Open
<1>26. CASE Recheck
  BY <1>26 DEF IInv, Recheck, JournalInv, PhaseInv, Won, Open
<1>27. CASE RollbackBegins
  BY <1>27 DEF IInv, RollbackBegins, UpdateTypeOK, ServiceUpdateJournal, Helper,
     Outcomes, JournalInv, PhaseInv, Won, Open
<1>28. ASSUME NEW k \in Kinds, Restore(k) PROVE PhaseInv'
  BY <1>28 DEF IInv, Restore, Previous, UpdateTypeOK, ServiceUpdateJournal,
     Helper, Outcomes, JournalInv, PhaseInv, Won, Open
<1>29. ASSUME NEW k \in Kinds, ReUp(k) PROVE PhaseInv'
  BY <1>29 DEF IInv, ReUp, JournalInv, PhaseInv, Won, Open
<1>30. ASSUME NEW k \in Kinds, ReUpFails(k) PROVE PhaseInv'
  BY <1>30 DEF IInv, ReUpFails, Err, UpdateTypeOK, ServiceUpdateJournal,
     Container, Helper, Idle, Call, Requests, Outcomes, JournalInv, PhaseInv, Won,
     Open
<1>31. ASSUME NEW k \in Kinds, Restored(k) PROVE PhaseInv'
  BY <1>31 DEF IInv, Restored, UpdateTypeOK, ServiceUpdateJournal, Container,
     Helper, Idle, Call, Requests, Outcomes, JournalInv, PhaseInv, Won, Open
<1>32. ASSUME NEW k \in Kinds, EndAnswered(k) PROVE PhaseInv'
  BY <1>32 DEF IInv, EndAnswered, Outcome, Ended, Moved, UpdateTypeOK,
     ServiceUpdateJournal, Helper, Outcomes, JournalInv, PhaseInv, Won, Open
<1>33. ASSUME NEW k \in Kinds, EndUnknown(k) PROVE PhaseInv'
  BY <1>33 DEF IInv, EndUnknown, Outcome, Err, UpdateTypeOK, ServiceUpdateJournal,
     Container, Helper, Idle, Call, Requests, Outcomes, JournalInv, PhaseInv, Won,
     Open
<1>34. CASE Record
  BY <1>34 DEF IInv, Record, UpdateTypeOK, ServiceUpdateJournal, Container,
     Helper, Idle, Call, Requests, Outcomes, JournalInv, PhaseInv, Won, Open
<1>35. ASSUME NEW k \in Kinds, Clear(k) PROVE PhaseInv'
  BY <1>35 DEF IInv, Clear, Resume, UpdateTypeOK, ServiceUpdateJournal, Container,
     Helper, Idle, Call, Requests, Outcomes, JournalInv, PhaseInv, Won, Open
<1>36. ASSUME NEW k \in Kinds, Done(k) PROVE PhaseInv'
  BY <1>36 DEF IInv, Done, Resume, UpdateTypeOK, ServiceUpdateJournal, Container,
     Helper, Idle, Call, Requests, Outcomes, JournalInv, PhaseInv, Won, Open
<1>37. CASE StepFails
  BY <1>37 DEF IInv, StepFails, Fallible, Err, UpdateTypeOK, ServiceUpdateJournal,
     Container, Helper, Idle, Call, Requests, Outcomes, JournalInv, PhaseInv, Won,
     Open
<1>38. CASE Crash
  BY <1>38 DEF IInv, Crash, Sent, Outcome, UpdateTypeOK, ServiceUpdateJournal,
     Container, Helper, Idle, Call, Requests, Outcomes, JournalInv, PhaseInv, Won,
     Open
<1> QED
  BY <1>1, <1>2, <1>3, <1>4, <1>5, <1>6, <1>7, <1>8, <1>9, <1>10, <1>11,
     <1>12, <1>13, <1>14, <1>15, <1>16, <1>17, <1>18, <1>19, <1>20, <1>21,
     <1>22, <1>23, <1>24, <1>25, <1>26, <1>27, <1>28, <1>29, <1>30, <1>31,
     <1>32, <1>33, <1>34, <1>35, <1>36, <1>37, <1>38 DEF Next, Tasks,
     Undisturbed, Recovery, Operations, Updating, Steps, Faults, Unanswered

\* Every step keeps the requests and the journals in agreement.
LEMMA FenceStep == IInv /\ Next => FenceInv'
<1> SUFFICES ASSUME IInv, Next PROVE FenceInv'
  OBVIOUS
<1>1. CASE TaskStarts
  BY <1>1 DEF IInv, TaskStarts, Moved, UpdateTypeOK, ServiceUpdateJournal,
     Container, Helper, Idle, Call, Requests, Outcomes, JournalInv, PhaseInv,
     FenceInv, Told, Unended, Won, Open, Held
<1>2. CASE TaskEnds
  BY <1>2 DEF IInv, TaskEnds, UpdateTypeOK, ServiceUpdateJournal, Helper,
     Outcomes, JournalInv, PhaseInv, FenceInv, Told, Unended, Won, Open, Held
<1>3. ASSUME NEW c \in late, LateCall(c) PROVE FenceInv'
  BY <1>3 DEF IInv, LateCall, Begun, Ended, Moved, UpdateTypeOK,
     ServiceUpdateJournal, Container, Helper, Idle, Call, Requests, Outcomes,
     JournalInv, PhaseInv, FenceInv, Told, Unended, Won, Open, Held
<1>4. CASE Start
  BY <1>4 DEF IInv, Start, UpdateTypeOK, ServiceUpdateJournal, Helper, Outcomes,
     JournalInv, PhaseInv, FenceInv, Told, Unended, Won, Open, Held
<1>5. CASE ImportCatalog
  BY <1>5 DEF IInv, ImportCatalog, ImportIsSafe, JournalInv, PhaseInv, FenceInv,
     Told, Unended, Won, Open, Held
<1>6. CASE Reject
  BY <1>6 DEF IInv, Reject, Recovered, UpdateTypeOK, ServiceUpdateJournal,
     Container, Helper, Idle, Call, Requests, Outcomes, JournalInv, PhaseInv,
     FenceInv, Told, Unended, Won, Open, Held
<1>7. CASE RecoverGroup
  BY <1>7 DEF IInv, RecoverGroup, Recovers, GroupStep, UpdateTypeOK,
     ServiceUpdateJournal, Container, Helper, Idle, Call, Requests, Outcomes,
     JournalInv, PhaseInv, FenceInv, Told, Unended, Won, Open, Held
<1>8. CASE RecoverProduct
  BY <1>8 DEF IInv, RecoverProduct, Recovers, ProductStep, UpdateTypeOK,
     ServiceUpdateJournal, Helper, Outcomes, JournalInv, PhaseInv, FenceInv, Told,
     Unended, Won, Open, Held
<1>9. ASSUME NEW o \in Offered, Check(o[1], o[2]) \/ Stage(o[1], o[2]) PROVE FenceInv'
  BY <1>9, UpdateAssumption DEF IInv, Check, Recovered, Matches, Stage,
     UpdateTypeOK, ServiceUpdateJournal, Container, Helper, Idle, Call, Requests,
     Outcomes, JournalInv, PhaseInv, FenceInv, Told, Unended, Won, Open, Held
<1>10. ASSUME NEW o \in Offered, Apply(o[1], o[2]) PROVE FenceInv'
  BY <1>10 DEF IInv, Apply, Recovered, Asked, UpdateTypeOK, ServiceUpdateJournal,
     Helper, Outcomes, JournalInv, PhaseInv, FenceInv, Told, Unended, Won, Open,
     Held
<1>11. ASSUME NEW o \in Offered, Update(o[2]) PROVE FenceInv'
  BY <1>11 DEF IInv, Update, Recovered, Asked, JournalInv, PhaseInv, FenceInv,
     Told, Unended, Won, Open, Held
<1>12. ASSUME NEW k \in Kinds, Prepare(k) PROVE FenceInv'
  BY <1>12 DEF IInv, Prepare, Matches, UpdateTypeOK, ServiceUpdateJournal, Helper,
     Outcomes, JournalInv, PhaseInv, FenceInv, Told, Unended, Won, Open, Held
<1>13. ASSUME NEW k \in Kinds, NotReady(k) PROVE FenceInv'
  BY <1>13 DEF IInv, NotReady, Err, UpdateTypeOK, ServiceUpdateJournal, Container,
     Helper, Idle, Call, Requests, Outcomes, JournalInv, PhaseInv, FenceInv, Told,
     Unended, Won, Open, Held
<1>14. ASSUME NEW k \in Kinds, BeginGranted(k) PROVE FenceInv'
  BY <1>14 DEF IInv, BeginGranted, Begun, Moved, UpdateTypeOK,
     ServiceUpdateJournal, Helper, Outcomes, JournalInv, PhaseInv, FenceInv, Told,
     Unended, Won, Open, Held
<1>15. ASSUME NEW k \in Kinds, BeginRefused(k) PROVE FenceInv'
  BY <1>15 DEF IInv, BeginRefused, Err, UpdateTypeOK, ServiceUpdateJournal,
     Container, Helper, Idle, Call, Requests, Outcomes, JournalInv, PhaseInv,
     FenceInv, Told, Unended, Won, Open, Held
<1>16. ASSUME NEW k \in Kinds, BeginUnknown(k) PROVE FenceInv'
  BY <1>16 DEF IInv, BeginUnknown, Err, UpdateTypeOK, ServiceUpdateJournal,
     Container, Helper, Idle, Call, Requests, Outcomes, JournalInv, PhaseInv,
     FenceInv, Told, Unended, Won, Open, Held
<1>17. CASE RefusalPlan
  BY <1>17 DEF IInv, RefusalPlan, Retryable, UpdateTypeOK, ServiceUpdateJournal,
     Container, Helper, Idle, Call, Requests, Outcomes, JournalInv, PhaseInv,
     FenceInv, Told, Unended, Won, Open, Held
<1>18. CASE RefusalJournal
  BY <1>18 DEF IInv, RefusalJournal, UpdateTypeOK, PlanPhases,
     ServiceUpdateJournal, NoJournal, Container, RequestStates, Helper, Idle,
     Call, Requests, Outcomes, JournalInv, PhaseInv, FenceInv, Told, Unended, Won,
     Open, Held
<1>19. ASSUME NEW k \in Kinds, Token(k) PROVE FenceInv'
  BY <1>19 DEF IInv, Token, UpdateTypeOK, ServiceUpdateJournal, Container, Helper,
     Idle, Call, Requests, Outcomes, JournalInv, PhaseInv, FenceInv, Told,
     Unended, Won, Open, Held
<1>20. ASSUME NEW k \in Kinds, WriteCompose(k) PROVE FenceInv'
  BY <1>20 DEF IInv, WriteCompose, UpdateTypeOK, ServiceUpdateJournal, Helper,
     Outcomes, JournalInv, PhaseInv, FenceInv, Told, Unended, Won, Open, Held
<1>21. ASSUME NEW k \in Kinds, WriteComposeFails(k) PROVE FenceInv'
  BY <1>21 DEF IInv, WriteComposeFails, JournalInv, PhaseInv, FenceInv, Told,
     Unended, Won, Open, Held
<1>22. ASSUME NEW k \in Kinds, Up(k) PROVE FenceInv'
  BY <1>22 DEF IInv, Up, JournalInv, PhaseInv, FenceInv, Told, Unended, Won, Open,
     Held
<1>23. ASSUME NEW k \in Kinds, UpFails(k) PROVE FenceInv'
  BY <1>23 DEF IInv, UpFails, JournalInv, PhaseInv, FenceInv, Told, Unended, Won,
     Open, Held
<1>24. ASSUME NEW k \in Kinds, Healthy(k) PROVE FenceInv'
  BY <1>24 DEF IInv, Healthy, JournalInv, PhaseInv, FenceInv, Told, Unended, Won,
     Open, Held
<1>25. CASE Adopt
  BY <1>25 DEF IInv, Adopt, UpdateTypeOK, ServiceUpdateJournal, Helper, Outcomes,
     JournalInv, PhaseInv, FenceInv, Told, Unended, Won, Open, Held
<1>26. CASE Recheck
  BY <1>26 DEF IInv, Recheck, JournalInv, PhaseInv, FenceInv, Told, Unended, Won,
     Open, Held, UpdateTypeOK, Helper
<1>27. CASE RollbackBegins
  BY <1>27 DEF IInv, RollbackBegins, JournalInv, PhaseInv, FenceInv, Told,
     Unended, Won, Open, Held
<1>28. ASSUME NEW k \in Kinds, Restore(k) PROVE FenceInv'
  BY <1>28 DEF IInv, Restore, Previous, JournalInv, PhaseInv, FenceInv, Told,
     Unended, Won, Open, Held
<1>29. ASSUME NEW k \in Kinds, ReUp(k) PROVE FenceInv'
  BY <1>29 DEF IInv, ReUp, JournalInv, PhaseInv, FenceInv, Told, Unended, Won,
     Open, Held
<1>30. ASSUME NEW k \in Kinds, ReUpFails(k) PROVE FenceInv'
  BY <1>30 DEF IInv, ReUpFails, Err, UpdateTypeOK, ServiceUpdateJournal,
     Container, Helper, Idle, Call, Requests, Outcomes, JournalInv, PhaseInv,
     FenceInv, Told, Unended, Won, Open, Held
<1>31. ASSUME NEW k \in Kinds, Restored(k) PROVE FenceInv'
  BY <1>31 DEF IInv, Restored, UpdateTypeOK, ServiceUpdateJournal, Helper,
     Outcomes, JournalInv, PhaseInv, FenceInv, Told, Unended, Won, Open, Held
<1>32. ASSUME NEW k \in Kinds, EndAnswered(k) PROVE FenceInv'
  BY <1>32 DEF IInv, EndAnswered, Outcome, Ended, Moved, UpdateTypeOK,
     ServiceUpdateJournal, Helper, Outcomes, JournalInv, PhaseInv, FenceInv, Told,
     Unended, Won, Open, Held
<1>33. ASSUME NEW k \in Kinds, EndUnknown(k) PROVE FenceInv'
  BY <1>33 DEF IInv, EndUnknown, Outcome, Err, UpdateTypeOK, PlanPhases,
     ServiceUpdateJournal, NoJournal, Container, RequestStates, Helper, Idle,
     Call, Requests, Outcomes, JournalInv, PhaseInv, FenceInv, Told, Unended, Won,
     Open, Held
<1>34. CASE Record
  BY <1>34 DEF IInv, Record, UpdateTypeOK, ServiceUpdateJournal, Helper, Outcomes,
     JournalInv, PhaseInv, FenceInv, Told, Unended, Won, Open, Held
<1>35. ASSUME NEW k \in Kinds, Clear(k) PROVE FenceInv'
  BY <1>35 DEF IInv, Clear, Resume, UpdateTypeOK, PlanPhases,
     ServiceUpdateJournal, NoJournal, Container, RequestStates, Helper, Idle,
     Call, Requests, Outcomes, JournalInv, PhaseInv, FenceInv, Told, Unended, Won,
     Open, Held
<1>36. ASSUME NEW k \in Kinds, Done(k) PROVE FenceInv'
  BY <1>36 DEF IInv, Done, Resume, UpdateTypeOK, ServiceUpdateJournal, Container,
     Helper, Idle, Call, Requests, Outcomes, JournalInv, PhaseInv, FenceInv, Told,
     Unended, Won, Open, Held
<1>37. CASE StepFails
  BY <1>37 DEF IInv, StepFails, Fallible, Err, UpdateTypeOK, ServiceUpdateJournal,
     Container, Helper, Idle, Call, Requests, Outcomes, JournalInv, PhaseInv,
     FenceInv, Told, Unended, Won, Open, Held
<1>38. CASE Crash
  <2>1. CASE h.pc = "begin"
    BY <1>38, <2>1 DEF IInv, Crash, Sent, Outcome, UpdateTypeOK, PlanPhases,
       ServiceUpdateJournal, NoJournal, Container, RequestStates, Helper, Idle,
       Call, Requests, Outcomes, JournalInv, PhaseInv, FenceInv, Told, Unended,
       Won, Open, Held
  <2>2. CASE h.pc = "end"
    BY <1>38, <2>2 DEF IInv, Crash, Sent, Outcome, UpdateTypeOK,
       ServiceUpdateJournal, Container, Helper, Idle, Call, Requests, Outcomes,
       JournalInv, PhaseInv, FenceInv, Told, Unended, Won, Open, Held
  <2>3. CASE h.pc \notin {"begin", "end"}
    BY <1>38, <2>3 DEF IInv, Crash, Sent, Outcome, UpdateTypeOK,
       ServiceUpdateJournal, Container, Helper, Idle, Call, Requests, Outcomes,
       JournalInv, PhaseInv, FenceInv, Told, Unended, Won, Open, Held
  <2> QED BY <2>1, <2>2, <2>3
<1> QED
  BY <1>1, <1>2, <1>3, <1>4, <1>5, <1>6, <1>7, <1>8, <1>9, <1>10, <1>11,
     <1>12, <1>13, <1>14, <1>15, <1>16, <1>17, <1>18, <1>19, <1>20, <1>21,
     <1>22, <1>23, <1>24, <1>25, <1>26, <1>27, <1>28, <1>29, <1>30, <1>31,
     <1>32, <1>33, <1>34, <1>35, <1>36, <1>37, <1>38 DEF Next, Tasks,
     Undisturbed, Recovery, Operations, Updating, Steps, Faults, Unanswered

\* Every step keeps the host as its journals say.
LEMMA HostStep == IInv /\ Next => HostInv'
<1> SUFFICES ASSUME IInv, Next PROVE HostInv'
  OBVIOUS
<1>1. CASE TaskStarts
  BY <1>1 DEF IInv, TaskStarts, Moved, JournalInv, PhaseInv, HostInv, HostAt,
     HostNow, Won, Open, Back, Forth, AtRest
<1>2. CASE TaskEnds
  BY <1>2 DEF IInv, TaskEnds, JournalInv, PhaseInv, HostInv, HostAt, HostNow, Won,
     Open, Back, Forth, AtRest
<1>3. ASSUME NEW c \in late, LateCall(c) PROVE HostInv'
  BY <1>3 DEF IInv, LateCall, Begun, Ended, Moved, JournalInv, PhaseInv, HostInv,
     HostAt, HostNow, Won, Open, Back, Forth, AtRest
<1>4. CASE Start
  BY <1>4 DEF IInv, Start, JournalInv, PhaseInv, HostInv, HostAt, HostNow, Won,
     Open, Back, Forth, AtRest
<1>5. CASE ImportCatalog
  BY <1>5 DEF IInv, ImportCatalog, ImportIsSafe, JournalInv, PhaseInv, HostInv,
     HostAt, HostNow, Won, Open, Back, Forth, AtRest
<1>6. CASE Reject
  BY <1>6 DEF IInv, Reject, Recovered, UpdateTypeOK, ServiceUpdateJournal,
     Container, Helper, Idle, Call, Requests, Outcomes, JournalInv, PhaseInv,
     HostInv, HostAt, HostNow, Won, Open, Back, Forth, AtRest
<1>7. CASE RecoverGroup
  BY <1>7 DEF IInv, RecoverGroup, Recovers, GroupStep, UpdateTypeOK,
     ServiceUpdateJournal, Container, Helper, Idle, Call, Requests, Outcomes,
     JournalInv, PhaseInv, HostInv, HostAt, HostNow, Won, Open, Back, Forth,
     AtRest
<1>8. CASE RecoverProduct
  BY <1>8 DEF IInv, RecoverProduct, Recovers, ProductStep, JournalInv, PhaseInv,
     HostInv, HostAt, HostNow, Won, Open, Back, Forth, AtRest
<1>9. ASSUME NEW o \in Offered, Check(o[1], o[2]) \/ Stage(o[1], o[2]) PROVE HostInv'
  BY <1>9 DEF IInv, Check, Recovered, Matches, Stage, UpdateTypeOK,
     ServiceUpdateJournal, Container, Helper, Idle, Call, Requests, Outcomes,
     JournalInv, PhaseInv, HostInv, HostAt, HostNow, Won, Open, Back, Forth,
     AtRest
<1>10. ASSUME NEW o \in Offered, Apply(o[1], o[2]) PROVE HostInv'
  BY <1>10 DEF IInv, Apply, Recovered, Asked, JournalInv, PhaseInv, HostInv,
     HostAt, HostNow, Won, Open, Back, Forth, AtRest
<1>11. ASSUME NEW o \in Offered, Update(o[2]) PROVE HostInv'
  BY <1>11 DEF IInv, Update, Recovered, Asked, JournalInv, PhaseInv, HostInv,
     HostAt, HostNow, Won, Open, Back, Forth, AtRest
<1>12. ASSUME NEW k \in Kinds, Prepare(k) PROVE HostInv'
  BY <1>12 DEF IInv, Prepare, Matches, JournalInv, PhaseInv, HostInv, HostAt,
     HostNow, Won, Open, Back, Forth, AtRest
<1>13. ASSUME NEW k \in Kinds, NotReady(k) PROVE HostInv'
  BY <1>13 DEF IInv, NotReady, Err, UpdateTypeOK, ServiceUpdateJournal, Container,
     Helper, Idle, Call, Requests, Outcomes, JournalInv, PhaseInv, HostInv,
     HostAt, HostNow, Won, Open, Back, Forth, AtRest
<1>14. ASSUME NEW k \in Kinds, BeginGranted(k) PROVE HostInv'
  BY <1>14 DEF IInv, BeginGranted, Begun, Moved, JournalInv, PhaseInv, HostInv,
     HostAt, HostNow, Won, Open, Back, Forth, AtRest
<1>15. ASSUME NEW k \in Kinds, BeginRefused(k) PROVE HostInv'
  BY <1>15 DEF IInv, BeginRefused, Err, UpdateTypeOK, ServiceUpdateJournal,
     Container, Helper, Idle, Call, Requests, Outcomes, JournalInv, PhaseInv,
     HostInv, HostAt, HostNow, Won, Open, Back, Forth, AtRest
<1>16. ASSUME NEW k \in Kinds, BeginUnknown(k) PROVE HostInv'
  BY <1>16 DEF IInv, BeginUnknown, Err, UpdateTypeOK, ServiceUpdateJournal,
     Container, Helper, Idle, Call, Requests, Outcomes, JournalInv, PhaseInv,
     HostInv, HostAt, HostNow, Won, Open, Back, Forth, AtRest
<1>17. CASE RefusalPlan
  BY <1>17 DEF IInv, RefusalPlan, Retryable, UpdateTypeOK, ServiceUpdateJournal,
     Container, Helper, Idle, Call, Requests, Outcomes, JournalInv, PhaseInv,
     HostInv, HostAt, HostNow, Won, Open, Back, Forth, AtRest
<1>18. CASE RefusalJournal
  BY <1>18 DEF IInv, RefusalJournal, UpdateTypeOK, PlanPhases,
     ServiceUpdateJournal, NoJournal, Container, RequestStates, Helper, Idle,
     Call, Requests, Outcomes, JournalInv, PhaseInv, HostInv, HostAt, HostNow,
     Won, Open, Back, Forth, AtRest
<1>19. ASSUME NEW k \in Kinds, Token(k) PROVE HostInv'
  BY <1>19 DEF IInv, Token, UpdateTypeOK, ServiceUpdateJournal, Container, Helper,
     Idle, Call, Requests, Outcomes, JournalInv, PhaseInv, HostInv, HostAt,
     HostNow, Won, Open, Back, Forth, AtRest
<1>20. ASSUME NEW k \in Kinds, WriteCompose(k) PROVE HostInv'
  BY <1>20 DEF IInv, WriteCompose, UpdateTypeOK, ServiceUpdateJournal, Helper,
     Outcomes, JournalInv, PhaseInv, HostInv, HostAt, HostNow, Won, Open, Back,
     Forth, AtRest
<1>21. ASSUME NEW k \in Kinds, WriteComposeFails(k) PROVE HostInv'
  BY <1>21 DEF IInv, WriteComposeFails, JournalInv, PhaseInv, HostInv, HostAt,
     HostNow, Won, Open, Back, Forth, AtRest
<1>22. ASSUME NEW k \in Kinds, Up(k) PROVE HostInv'
  <2>1. \A x \in Kinds \ {k} : HostAt(x)'
    BY <1>22 DEF IInv, Up, JournalInv, PhaseInv, HostInv, HostAt, HostNow, Open,
       Won, Back, Forth, AtRest
  <2>2. HostAt(k)'
    BY <1>22 DEF IInv, Up, JournalInv, PhaseInv, FenceInv, HostInv, HostAt,
       HostNow, Open, Won, Told, Unended, Back, Forth, AtRest
  <2>3. HostNow'
    BY <1>22 DEF IInv, Up, JournalInv, PhaseInv, FenceInv, HostInv, HostAt,
       HostNow, Open, Won, Told, Unended, Back, Forth, AtRest, UpdateTypeOK,
       ServiceUpdateJournal, Helper
  <2> QED BY <2>1, <2>2, <2>3 DEF HostInv
<1>23. ASSUME NEW k \in Kinds, UpFails(k) PROVE HostInv'
  <2>1. \A x \in Kinds \ {k} : HostAt(x)'
    BY <1>23 DEF IInv, UpFails, JournalInv, PhaseInv, HostInv, HostAt, HostNow,
       Open, Won, Back, Forth, AtRest, UpdateTypeOK, ServiceUpdateJournal, Helper
  <2>2. HostAt(k)'
    BY <1>23 DEF IInv, UpFails, JournalInv, PhaseInv, FenceInv, HostInv, HostAt,
       HostNow, Open, Won, Told, Unended, Back, Forth, AtRest, UpdateTypeOK,
       ServiceUpdateJournal, Helper
  <2>3. HostNow'
    BY <1>23 DEF IInv, UpFails, JournalInv, PhaseInv, FenceInv, HostInv, HostAt,
       HostNow, Open, Won, Told, Unended, Back, Forth, AtRest
  <2> QED BY <2>1, <2>2, <2>3 DEF HostInv
<1>24. ASSUME NEW k \in Kinds, Healthy(k) PROVE HostInv'
  BY <1>24 DEF IInv, Healthy, UpdateTypeOK, ServiceUpdateJournal, Helper,
     Outcomes, JournalInv, PhaseInv, HostInv, HostAt, HostNow, Won, Open, Back,
     Forth, AtRest
<1>25. CASE Adopt
  BY <1>25 DEF IInv, Adopt, UpdateTypeOK, ServiceUpdateJournal, Helper, Outcomes,
     JournalInv, PhaseInv, HostInv, HostAt, HostNow, Won, Open, Back, Forth,
     AtRest
<1>26. CASE Recheck
  BY <1>26 DEF IInv, Recheck, JournalInv, PhaseInv, HostInv, HostAt, HostNow, Won,
     Open, Back, Forth, AtRest
<1>27. CASE RollbackBegins
  BY <1>27 DEF IInv, RollbackBegins, JournalInv, PhaseInv, HostInv, HostAt,
     HostNow, Won, Open, Back, Forth, AtRest
<1>28. ASSUME NEW k \in Kinds, Restore(k) PROVE HostInv'
  BY <1>28 DEF IInv, Restore, Previous, UpdateTypeOK, ServiceUpdateJournal,
     Helper, Outcomes, JournalInv, PhaseInv, HostInv, HostAt, HostNow, Won, Open,
     Back, Forth, AtRest
<1>29. ASSUME NEW k \in Kinds, ReUp(k) PROVE HostInv'
  <2>1. \A x \in Kinds \ {k} : HostAt(x)'
    BY <1>29 DEF IInv, ReUp, JournalInv, PhaseInv, HostInv, HostAt, HostNow, Open,
       Won, Back, Forth, AtRest
  <2>2. HostAt(k)'
    BY <1>29 DEF IInv, ReUp, JournalInv, PhaseInv, HostInv, HostAt, HostNow, Open,
       Won, Back, Forth, AtRest
  <2>3. HostNow'
    BY <1>29 DEF IInv, ReUp, JournalInv, PhaseInv, HostInv, HostAt, HostNow, Open,
       Won, Back, Forth, AtRest, UpdateTypeOK, ServiceUpdateJournal, Helper
  <2> QED BY <2>1, <2>2, <2>3 DEF HostInv
<1>30. ASSUME NEW k \in Kinds, ReUpFails(k) PROVE HostInv'
  <2>1. \A x \in Kinds \ {k} : HostAt(x)'
    BY <1>30 DEF IInv, ReUpFails, Err, JournalInv, PhaseInv, HostInv, HostAt,
       HostNow, Open, Won, Back, Forth, AtRest, UpdateTypeOK,
       ServiceUpdateJournal, Helper
  <2>2. HostAt(k)'
    BY <1>30 DEF IInv, ReUpFails, Err, JournalInv, PhaseInv, HostInv, HostAt,
       HostNow, Open, Won, Back, Forth, AtRest, UpdateTypeOK,
       ServiceUpdateJournal, Helper
  <2>3. HostNow'
    BY <1>30 DEF ReUpFails, Err, HostNow, Idle
  <2> QED BY <2>1, <2>2, <2>3 DEF HostInv
<1>31. ASSUME NEW k \in Kinds, Restored(k) PROVE HostInv'
  BY <1>31 DEF IInv, Restored, JournalInv, PhaseInv, HostInv, HostAt, HostNow,
     Won, Open, Back, Forth, AtRest
<1>32. ASSUME NEW k \in Kinds, EndAnswered(k) PROVE HostInv'
  BY <1>32 DEF IInv, EndAnswered, Outcome, Ended, Moved, JournalInv, PhaseInv,
     HostInv, HostAt, HostNow, Won, Open, Back, Forth, AtRest
<1>33. ASSUME NEW k \in Kinds, EndUnknown(k) PROVE HostInv'
  BY <1>33 DEF IInv, EndUnknown, Outcome, Err, UpdateTypeOK, ServiceUpdateJournal,
     Container, Helper, Idle, Call, Requests, Outcomes, JournalInv, PhaseInv,
     HostInv, HostAt, HostNow, Won, Open, Back, Forth, AtRest
<1>34. CASE Record
  BY <1>34 DEF IInv, Record, UpdateTypeOK, ServiceUpdateJournal, Helper, Outcomes,
     JournalInv, PhaseInv, HostInv, HostAt, HostNow, Won, Open, Back, Forth,
     AtRest
<1>35. ASSUME NEW k \in Kinds, Clear(k) PROVE HostInv'
  BY <1>35 DEF IInv, Clear, Resume, UpdateTypeOK, PlanPhases,
     ServiceUpdateJournal, NoJournal, Container, RequestStates, Helper, Idle,
     Call, Requests, Outcomes, JournalInv, PhaseInv, HostInv, HostAt, HostNow,
     Won, Open, Back, Forth, AtRest
<1>36. ASSUME NEW k \in Kinds, Done(k) PROVE HostInv'
  BY <1>36 DEF IInv, Done, Resume, UpdateTypeOK, ServiceUpdateJournal, Container,
     Helper, Idle, Call, Requests, Outcomes, JournalInv, PhaseInv, HostInv,
     HostAt, HostNow, Won, Open, Back, Forth, AtRest
<1>37. CASE StepFails
  BY <1>37 DEF IInv, StepFails, Fallible, Err, UpdateTypeOK, ServiceUpdateJournal,
     Container, Helper, Idle, Call, Requests, Outcomes, JournalInv, PhaseInv,
     HostInv, HostAt, HostNow, Won, Open, Back, Forth, AtRest
<1>38. CASE Crash
  BY <1>38 DEF IInv, Crash, Sent, Outcome, UpdateTypeOK, ServiceUpdateJournal,
     Container, Helper, Idle, Call, Requests, Outcomes, JournalInv, PhaseInv,
     HostInv, HostAt, HostNow, Won, Open, Back, Forth, AtRest
<1> QED
  BY <1>1, <1>2, <1>3, <1>4, <1>5, <1>6, <1>7, <1>8, <1>9, <1>10, <1>11,
     <1>12, <1>13, <1>14, <1>15, <1>16, <1>17, <1>18, <1>19, <1>20, <1>21,
     <1>22, <1>23, <1>24, <1>25, <1>26, <1>27, <1>28, <1>29, <1>30, <1>31,
     <1>32, <1>33, <1>34, <1>35, <1>36, <1>37, <1>38 DEF Next, Tasks,
     Undisturbed, Recovery, Operations, Updating, Steps, Faults, Unanswered

\* Every step keeps the plans journals refer to.
LEMMA PlanStep == IInv /\ Next => PlanInv'
<1> SUFFICES ASSUME IInv, Next PROVE PlanInv'
  OBVIOUS
<1>1. CASE TaskStarts
  BY <1>1 DEF IInv, TaskStarts, Moved, JournalInv, PlanInv, Open, PhaseInv
<1>2. CASE TaskEnds
  BY <1>2 DEF IInv, TaskEnds, JournalInv, PlanInv, Open, PhaseInv
<1>3. ASSUME NEW c \in late, LateCall(c) PROVE PlanInv'
  BY <1>3 DEF IInv, LateCall, Begun, Ended, Moved, JournalInv, PlanInv, Open,
     PhaseInv
<1>4. CASE Start
  BY <1>4 DEF IInv, Start, JournalInv, PlanInv, Open, PhaseInv
<1>5. CASE ImportCatalog
  BY <1>5 DEF IInv, ImportCatalog, ImportIsSafe, UpdateTypeOK,
     ServiceUpdateJournal, Container, Helper, Idle, Call, Requests, Outcomes,
     JournalInv, PlanInv, Open, PhaseInv
<1>6. CASE Reject
  BY <1>6 DEF IInv, Reject, Recovered, UpdateTypeOK, ServiceUpdateJournal,
     Container, Helper, Idle, Call, Requests, Outcomes, JournalInv, PlanInv, Open,
     PhaseInv
<1>7. CASE RecoverGroup
  BY <1>7 DEF IInv, RecoverGroup, Recovers, GroupStep, UpdateTypeOK,
     ServiceUpdateJournal, Container, Helper, Idle, Call, Requests, Outcomes,
     JournalInv, PlanInv, Open, PhaseInv
<1>8. CASE RecoverProduct
  BY <1>8 DEF IInv, RecoverProduct, Recovers, ProductStep, UpdateTypeOK,
     ServiceUpdateJournal, Helper, Outcomes, JournalInv, PlanInv, Open, PhaseInv
<1>9. ASSUME NEW o \in Offered, Check(o[1], o[2]) \/ Stage(o[1], o[2]) PROVE PlanInv'
  BY <1>9 DEF IInv, Check, Recovered, Matches, Stage, UpdateTypeOK,
     ServiceUpdateJournal, Container, Helper, Idle, Call, Requests, Outcomes,
     JournalInv, PlanInv, Open, PhaseInv
<1>10. ASSUME NEW o \in Offered, Apply(o[1], o[2]) PROVE PlanInv'
  BY <1>10 DEF IInv, Apply, Recovered, Asked, UpdateTypeOK, ServiceUpdateJournal,
     Helper, Outcomes, JournalInv, PlanInv, Open, PhaseInv
<1>11. ASSUME NEW o \in Offered, Update(o[2]) PROVE PlanInv'
  BY <1>11 DEF IInv, Update, Recovered, Asked, JournalInv, PlanInv, Open, PhaseInv
<1>12. ASSUME NEW k \in Kinds, Prepare(k) PROVE PlanInv'
  BY <1>12 DEF IInv, Prepare, Matches, JournalInv, PlanInv, Open, PhaseInv
<1>13. ASSUME NEW k \in Kinds, NotReady(k) PROVE PlanInv'
  BY <1>13 DEF IInv, NotReady, Err, UpdateTypeOK, ServiceUpdateJournal, Container,
     Helper, Idle, Call, Requests, Outcomes, JournalInv, PlanInv, Open, PhaseInv
<1>14. ASSUME NEW k \in Kinds, BeginGranted(k) PROVE PlanInv'
  BY <1>14 DEF IInv, BeginGranted, Begun, Moved, UpdateTypeOK,
     ServiceUpdateJournal, Container, Helper, Idle, Call, Requests, Outcomes,
     JournalInv, PlanInv, Open, PhaseInv
<1>15. ASSUME NEW k \in Kinds, BeginRefused(k) PROVE PlanInv'
  BY <1>15 DEF IInv, BeginRefused, Err, UpdateTypeOK, ServiceUpdateJournal,
     Container, Helper, Idle, Call, Requests, Outcomes, JournalInv, PlanInv, Open,
     PhaseInv
<1>16. ASSUME NEW k \in Kinds, BeginUnknown(k) PROVE PlanInv'
  BY <1>16 DEF IInv, BeginUnknown, Err, UpdateTypeOK, ServiceUpdateJournal,
     Container, Helper, Idle, Call, Requests, Outcomes, JournalInv, PlanInv, Open,
     PhaseInv
<1>17. CASE RefusalPlan
  BY <1>17 DEF IInv, RefusalPlan, Retryable, UpdateTypeOK, ServiceUpdateJournal,
     Container, Helper, Idle, Call, Requests, Outcomes, JournalInv, PlanInv, Open,
     PhaseInv
<1>18. CASE RefusalJournal
  BY <1>18 DEF IInv, RefusalJournal, UpdateTypeOK, PlanPhases,
     ServiceUpdateJournal, NoJournal, Container, RequestStates, Helper, Idle,
     Call, Requests, Outcomes, JournalInv, PlanInv, Open, PhaseInv
<1>19. ASSUME NEW k \in Kinds, Token(k) PROVE PlanInv'
  BY <1>19 DEF IInv, Token, UpdateTypeOK, ServiceUpdateJournal, Container, Helper,
     Idle, Call, Requests, Outcomes, JournalInv, PlanInv, Open, PhaseInv
<1>20. ASSUME NEW k \in Kinds, WriteCompose(k) PROVE PlanInv'
  BY <1>20 DEF IInv, WriteCompose, UpdateTypeOK, ServiceUpdateJournal, Container,
     Helper, Idle, Call, Requests, Outcomes, JournalInv, PlanInv, Open, PhaseInv
<1>21. ASSUME NEW k \in Kinds, WriteComposeFails(k) PROVE PlanInv'
  BY <1>21 DEF IInv, WriteComposeFails, JournalInv, PlanInv, Open, PhaseInv
<1>22. ASSUME NEW k \in Kinds, Up(k) PROVE PlanInv'
  BY <1>22 DEF IInv, Up, JournalInv, PlanInv, Open, PhaseInv
<1>23. ASSUME NEW k \in Kinds, UpFails(k) PROVE PlanInv'
  BY <1>23 DEF IInv, UpFails, JournalInv, PlanInv, Open, PhaseInv
<1>24. ASSUME NEW k \in Kinds, Healthy(k) PROVE PlanInv'
  BY <1>24 DEF IInv, Healthy, JournalInv, PlanInv, Open, PhaseInv
<1>25. CASE Adopt
  BY <1>25 DEF IInv, Adopt, JournalInv, PlanInv, Open, PhaseInv
<1>26. CASE Recheck
  BY <1>26 DEF IInv, Recheck, JournalInv, PlanInv, Open, PhaseInv
<1>27. CASE RollbackBegins
  BY <1>27 DEF IInv, RollbackBegins, JournalInv, PlanInv, Open, PhaseInv
<1>28. ASSUME NEW k \in Kinds, Restore(k) PROVE PlanInv'
  BY <1>28 DEF IInv, Restore, Previous, JournalInv, PlanInv, Open, PhaseInv
<1>29. ASSUME NEW k \in Kinds, ReUp(k) PROVE PlanInv'
  BY <1>29 DEF IInv, ReUp, JournalInv, PlanInv, Open, PhaseInv
<1>30. ASSUME NEW k \in Kinds, ReUpFails(k) PROVE PlanInv'
  BY <1>30 DEF IInv, ReUpFails, Err, UpdateTypeOK, ServiceUpdateJournal,
     Container, Helper, Idle, Call, Requests, Outcomes, JournalInv, PlanInv, Open,
     PhaseInv
<1>31. ASSUME NEW k \in Kinds, Restored(k) PROVE PlanInv'
  BY <1>31 DEF IInv, Restored, UpdateTypeOK, ServiceUpdateJournal, Container,
     Helper, Idle, Call, Requests, Outcomes, JournalInv, PlanInv, Open, PhaseInv
<1>32. ASSUME NEW k \in Kinds, EndAnswered(k) PROVE PlanInv'
  BY <1>32 DEF IInv, EndAnswered, Outcome, Ended, Moved, JournalInv, PlanInv,
     Open, PhaseInv
<1>33. ASSUME NEW k \in Kinds, EndUnknown(k) PROVE PlanInv'
  BY <1>33 DEF IInv, EndUnknown, Outcome, Err, UpdateTypeOK, ServiceUpdateJournal,
     Container, Helper, Idle, Call, Requests, Outcomes, JournalInv, PlanInv, Open,
     PhaseInv
<1>34. CASE Record
  BY <1>34 DEF IInv, Record, UpdateTypeOK, ServiceUpdateJournal, Container,
     Helper, Idle, Call, Requests, Outcomes, JournalInv, PlanInv, Open, PhaseInv
<1>35. ASSUME NEW k \in Kinds, Clear(k) PROVE PlanInv'
  BY <1>35 DEF IInv, Clear, Resume, UpdateTypeOK, PlanPhases,
     ServiceUpdateJournal, NoJournal, Container, RequestStates, Helper, Idle,
     Call, Requests, Outcomes, JournalInv, PlanInv, Open, PhaseInv
<1>36. ASSUME NEW k \in Kinds, Done(k) PROVE PlanInv'
  BY <1>36 DEF IInv, Done, Resume, UpdateTypeOK, ServiceUpdateJournal, Container,
     Helper, Idle, Call, Requests, Outcomes, JournalInv, PlanInv, Open, PhaseInv
<1>37. CASE StepFails
  BY <1>37 DEF IInv, StepFails, Fallible, Err, UpdateTypeOK, ServiceUpdateJournal,
     Container, Helper, Idle, Call, Requests, Outcomes, JournalInv, PlanInv, Open,
     PhaseInv
<1>38. CASE Crash
  BY <1>38 DEF IInv, Crash, Sent, Outcome, UpdateTypeOK, ServiceUpdateJournal,
     Container, Helper, Idle, Call, Requests, Outcomes, JournalInv, PlanInv, Open,
     PhaseInv
<1> QED
  BY <1>1, <1>2, <1>3, <1>4, <1>5, <1>6, <1>7, <1>8, <1>9, <1>10, <1>11,
     <1>12, <1>13, <1>14, <1>15, <1>16, <1>17, <1>18, <1>19, <1>20, <1>21,
     <1>22, <1>23, <1>24, <1>25, <1>26, <1>27, <1>28, <1>29, <1>30, <1>31,
     <1>32, <1>33, <1>34, <1>35, <1>36, <1>37, <1>38 DEF Next, Tasks,
     Undisturbed, Recovery, Operations, Updating, Steps, Faults, Unanswered

\* The inductive invariant holds when no update has begun.
LEMMA InitInv == Init => IInv
<1> SUFFICES ASSUME Init PROVE IInv
  OBVIOUS
<1>1. UpdateTypeOK
  BY UpdateAssumption, IdleTyped DEF Init, UpdateTypeOK, NoJournal, PlanPhases,
     ServiceUpdateJournal, Container, RequestStates
<1>2. JournalInv /\ PhaseInv /\ FenceInv /\ PlanInv
  BY DEF Init, JournalInv, PhaseInv, FenceInv, PlanInv, NoJournal, Open, Idle,
     Held
<1>3. HostInv
  BY DEF Init, HostInv, HostAt, HostNow, AtRest, NoJournal, Open, Idle
<1> QED BY <1>1, <1>2, <1>3 DEF IInv

\* It is about the variables only, so a stuttering step keeps it.
LEMMA StutterInv == IInv /\ UNCHANGED vars => IInv'
BY DEF IInv, vars, UpdateTypeOK, JournalInv, PhaseInv, FenceInv, HostInv, HostAt,
   HostNow, PlanInv, Open, Held, Told, Unended, Back, Forth, AtRest

\* Every step keeps it: the lemmas of the actions, put together.
LEMMA StepInv == IInv /\ [Next]_vars => IInv'
BY TypeStep, JournalStep, PhaseStep, FenceStep, HostStep, PlanStep, StutterInv DEF IInv

\* So it holds in every behaviour.
LEMMA Invariant == Spec => []IInv
BY InitInv, StepInv, PTL DEF Spec

-----------------------------------------------------------------------------
(* The safety properties *)

\* Every reachable state is well typed.
THEOREM UpdatesTyped == Spec => []UpdateTypeOK
BY Invariant, PTL DEF IInv

\* No fence is held, or can still be granted, that no journal names: whatever
\* is interrupted or not answered, the next operation knows of it.
THEOREM NoLostFence == Spec => []FenceJournaled
<1>1. IInv => FenceJournaled
  BY DEF IInv, FenceInv, FenceJournaled
<1> QED BY <1>1, Invariant, PTL

\* One unfinished update at most, whatever was interrupted.
THEOREM OneAtATime == Spec => []OneUpdate
<1>1. IInv => OneUpdate
  <2> SUFFICES ASSUME IInv PROVE OneUpdate
    OBVIOUS
  <2> DEFINE S == {k \in Kinds : Open(k)}
  <2>1. S = {} \/ S = {"product"} \/ S = {"group"}
    BY DEF IInv, JournalInv
  <2>2. Cardinality(S) \in {0, 1}
    BY <2>1, FS_EmptySet, FS_Singleton
  <2> QED BY <2>2 DEF OneUpdate
<1> QED BY <1>1, Invariant, PTL

\* Without a journal the Compose file, the container and the compatibility
\* state agree.
THEOREM NothingHalfMade == Spec => []Settled
<1>1. IInv => Settled
  BY DEF IInv, HostInv, HostAt, AtRest, Settled
<1> QED BY <1>1, Invariant, PTL

\* No task runs while an apply recreates containers.
THEOREM AppliesFenced == Spec => []FencedApply
<1>1. IInv => FencedApply
  BY DEF IInv, JournalInv, FenceInv, FencedApply, Held, UpdateTypeOK, Helper
<1> QED BY <1>1, Invariant, PTL

\* No catalog is activated under an update that a stored plan describes.
THEOREM PlansKept == Spec => []PlanKept
<1>1. IInv => PlanKept
  BY DEF IInv, PlanInv, PlanKept
<1> QED BY <1>1, Invariant, PTL

-----------------------------------------------------------------------------
(* The refinement *)

\* Two updates are never under way together, so the journal that holds the
\* fence is the only open one.
LEMMA OneHolder ==
    ASSUME IInv, NEW k \in Kinds, journal[k].request \in Held
    PROVE  /\ Open(k)
           /\ \A x \in Kinds : journal[x].request \in Held => x = k
           /\ Held = {journal[k].request}
BY DEF IInv, JournalInv, FenceInv, Held, Requests

\* While a journal holds the fence, the abstract fence names its update.
LEMMA FenceIs ==
    ASSUME IInv, NEW k \in Kinds, journal[k].request \in Held
    PROVE  /\ FenceSeen = [kind |-> k, to |-> journal[k].to]
           /\ FenceSeen # Absent
<1>1. FenceSeen = [kind |-> k, to |-> journal[k].to]
  BY OneHolder DEF FenceSeen
<1>2. journal[k].to \in Images
  BY OneHolder DEF IInv, JournalInv
<1> QED BY <1>1, <1>2, UpdateAssumption

\* When none holds it, the abstract fence is down.
LEMMA FenceFree ==
    ASSUME \A k \in Kinds : journal[k].request \notin Held
    PROVE  FenceSeen = Absent
BY DEF FenceSeen

\* The initial states are initial states of AtomicUpdate.
LEMMA AtomicInit == Init => Atomic!Init
<1> SUFFICES ASSUME Init PROVE Atomic!Init
  OBVIOUS
<1>1. Held = {}
  BY DEF Init, Held
<1>2. \A k \in Kinds : ImageSeen(k) = container[k].image /\ container[k].image \in Images \cup {Absent}
  BY <1>1, UpdateAssumption DEF Init, ImageSeen
<1> QED BY <1>1, <1>2, FenceFree DEF Init, Atomic!Init

\* What the tasks see: the fence and the images.
Seen == <<[k \in Kinds |-> ImageSeen(k)], FenceSeen>>

\* A journal that holds the fence before and after a step names one update.
Same == /\ Held' = Held
        /\ \A k \in Kinds : /\ journal'[k].request \in Held <=> journal[k].request \in Held
                            /\ journal[k].request \in Held => /\ journal'[k].from = journal[k].from
                                                              /\ journal'[k].to = journal[k].to
                            /\ Open(k)' /\ journal'[k].request \in Held
                                 <=> Open(k) /\ journal[k].request \in Held
                            /\ journal[k].request \notin Held
                                 => container'[k].image = container[k].image

\* A step that changes neither host nor journal is invisible above.
LEMMA Unseen == ASSUME Same, IInv PROVE Seen' = Seen
<1>1. \A k \in Kinds : ImageSeen(k)' = ImageSeen(k)
  BY OneHolder DEF Same, ImageSeen
<1>2. FenceSeen' = FenceSeen
  <2>1. CASE \E k \in Kinds : journal[k].request \in Held
    <3>1. PICK k \in Kinds : journal[k].request \in Held
      BY <2>1
    <3>2. \A x \in Kinds : journal'[x].request \in Held' <=> x = k
      BY <3>1, OneHolder DEF Same
    <3>3. FenceSeen' = [kind |-> k, to |-> journal'[k].to]
      BY <3>2 DEF FenceSeen
    <3> QED BY <3>1, <3>3, FenceIs DEF Same
  <2>2. CASE ~\E k \in Kinds : journal[k].request \in Held
    BY <2>2 DEF Same, FenceSeen
  <2> QED BY <2>1, <2>2
<1> QED BY <1>1, <1>2 DEF Seen

\* The fence is acquired: AtomicUpdate's Begin.
LEMMA AtomicBegins ==
    ASSUME IInv, IInv', NEW r \in Requests, request[r] = "open", ~busy, Held = {},
           request' = [Moved(r) EXCEPT ![r] = "held"],
           UNCHANGED <<journal, container, busy>>
    PROVE  Atomic!Next
<1>1. PICK k \in Kinds : Open(k) /\ journal[k].request = r
  BY DEF IInv, FenceInv
<1>2. journal[k].phase = "maintenance_pending" /\ container[k].image = journal[k].from
  BY <1>1 DEF IInv, FenceInv, HostInv, HostAt, Told, Back
<1>3. Held' = {r}
  BY DEF Held, Moved, IInv, UpdateTypeOK
<1>4. \A x \in Kinds : journal[x].request = r <=> x = k
  BY <1>1 DEF IInv, JournalInv, Requests
<1>5. \A x \in Kinds : ImageSeen(x)' = ImageSeen(x)
  BY <1>1, <1>2, <1>3, <1>4 DEF ImageSeen, Open
<1>6. FenceSeen = Absent
  BY FenceFree
<1>7. FenceSeen' = [kind |-> k, to |-> journal[k].to]
  BY <1>3, <1>4 DEF FenceSeen
<1>8. journal[k].to \in Images
  BY <1>1 DEF IInv, JournalInv
<1>9. Atomic!Begin(k, journal[k].to)
  BY <1>5, <1>6, <1>7 DEF Atomic!Begin
<1> QED BY <1>8, <1>9 DEF Atomic!Next

\* The fence is released: its Commit or its RollBack, by the outcome.
LEMMA AtomicEnds ==
    ASSUME IInv, NEW k \in Kinds, journal[k].request \in Held, NEW o \in Outcomes,
           request' = [Moved(journal[k].request) EXCEPT ![journal[k].request] = o],
           UNCHANGED <<journal, container, busy>>,
           o = "SUCCESS" => container[k].image = journal[k].to,
           o = "ROLLED_BACK" => container[k].image = journal[k].from
    PROVE  Atomic!Next
<1>1. Open(k) /\ Held = {journal[k].request} /\ journal[k].request \in Requests
  BY OneHolder DEF Held
<1>2. Held' = {}
  BY <1>1 DEF Held, Moved, Outcomes, IInv, UpdateTypeOK
<1>3. FenceSeen = [kind |-> k, to |-> journal[k].to] /\ FenceSeen # Absent
  BY FenceIs
<1>4. FenceSeen' = Absent
  BY <1>2 DEF FenceSeen
<1>5. \A x \in Kinds : ImageSeen(x)' = container[x].image
  BY <1>2 DEF ImageSeen
<1>6. ImageSeen(k) = journal[k].from /\ \A x \in Kinds \ {k} : ImageSeen(x) = container[x].image
  BY <1>1, OneHolder DEF ImageSeen
<1>7. CASE o = "SUCCESS"
  <2>1. Atomic!Commit
    BY <1>3, <1>4, <1>5, <1>6, <1>7 DEF Atomic!Commit
  <2> QED BY <2>1 DEF Atomic!Next
<1>8. CASE o = "ROLLED_BACK"
  <2>1. Atomic!RollBack
    BY <1>3, <1>4, <1>5, <1>6, <1>8 DEF Atomic!RollBack
  <2> QED BY <2>1 DEF Atomic!Next
<1> QED BY <1>7, <1>8 DEF Outcomes

\* What the helper does besides leaves the fence and the images that are seen
\* as they are.
LEMMA QuietSteps ==
    ASSUME IInv, Next, ~TaskStarts, ~TaskEnds, \A c \in late : ~LateCall(c),
           \A k \in Kinds : ~BeginGranted(k) /\ ~EndAnswered(k)
    PROVE  Same /\ busy' = busy
<1>1. CASE Start
  BY <1>1 DEF Same, Held, Open, Start
<1>2. CASE ImportCatalog
  BY <1>2 DEF Same, Held, Open, ImportCatalog
<1>3. CASE RecoverGroup
  BY <1>3 DEF Same, Held, Open, RecoverGroup
<1>4. CASE RecoverProduct
  BY <1>4 DEF Same, Held, Open, RecoverProduct
<1>5. CASE Reject
  BY <1>5 DEF Same, Held, Open, Reject
<1>6. ASSUME NEW o \in Offered, Check(o[1], o[2]) \/ Stage(o[1], o[2]) PROVE Same /\ busy' = busy
  BY <1>6 DEF Same, Held, Open, Check, Stage
<1>7. ASSUME NEW o \in Offered, Apply(o[1], o[2]) PROVE Same /\ busy' = busy
  BY <1>7 DEF Same, Held, Open, Apply
<1>8. ASSUME NEW o \in Offered, Update(o[2]) PROVE Same /\ busy' = busy
  BY <1>8 DEF Same, Held, Open, Update
<1>9. ASSUME NEW k \in Kinds, Prepare(k) PROVE Same /\ busy' = busy
  BY <1>9 DEF IInv, Prepare, Matches, Same, JournalInv, PhaseInv, FenceInv, Told,
     Unended, Won, Open, Held
<1>10. ASSUME NEW k \in Kinds, NotReady(k) PROVE Same /\ busy' = busy
  BY <1>10 DEF Same, Held, Open, NotReady
<1>11. ASSUME NEW k \in Kinds, BeginRefused(k) PROVE Same /\ busy' = busy
  BY <1>11 DEF IInv, BeginRefused, Err, Same, JournalInv, PhaseInv, FenceInv,
     Told, Unended, Won, Open, Held
<1>12. ASSUME NEW k \in Kinds, BeginUnknown(k) PROVE Same /\ busy' = busy
  BY <1>12 DEF Same, Held, Open, BeginUnknown
<1>13. CASE RefusalPlan
  BY <1>13 DEF Same, Held, Open, RefusalPlan
<1>14. CASE RefusalJournal
  BY <1>14 DEF IInv, RefusalJournal, Same, JournalInv, PhaseInv, FenceInv, Told,
     Unended, Won, Open, Held
<1>15. ASSUME NEW k \in Kinds, Token(k) PROVE Same /\ busy' = busy
  BY <1>15 DEF IInv, Token, Same, JournalInv, PhaseInv, FenceInv, Told, Unended,
     Won, Open, Held
<1>16. ASSUME NEW k \in Kinds, WriteCompose(k) PROVE Same /\ busy' = busy
  BY <1>16 DEF Same, Held, Open, WriteCompose
<1>17. ASSUME NEW k \in Kinds, WriteComposeFails(k) PROVE Same /\ busy' = busy
  BY <1>17 DEF Same, Held, Open, WriteComposeFails
<1>18. ASSUME NEW k \in Kinds, Up(k) PROVE Same /\ busy' = busy
  BY <1>18 DEF IInv, Up, Same, JournalInv, PhaseInv, FenceInv, Told, Unended, Won,
     Open, Held
<1>19. ASSUME NEW k \in Kinds, UpFails(k) PROVE Same /\ busy' = busy
  BY <1>19 DEF IInv, UpFails, Same, UpdateTypeOK, JournalInv, PhaseInv, FenceInv,
     Told, Unended, Won, Open, Held, Outcomes, ServiceUpdateJournal
<1>20. ASSUME NEW k \in Kinds, Healthy(k) PROVE Same /\ busy' = busy
  BY <1>20 DEF IInv, Healthy, Same, JournalInv, PhaseInv, FenceInv, Told, Unended,
     Won, Open, Held
<1>21. CASE Adopt
  BY <1>21 DEF Same, Held, Open, Adopt
<1>22. CASE Recheck
  BY <1>22 DEF Same, Held, Open, Recheck
<1>23. CASE RollbackBegins
  BY <1>23 DEF IInv, RollbackBegins, Same, JournalInv, PhaseInv, FenceInv, Told,
     Unended, Won, Open, Held
<1>24. ASSUME NEW k \in Kinds, Restore(k) PROVE Same /\ busy' = busy
  BY <1>24 DEF Same, Held, Open, Restore
<1>25. ASSUME NEW k \in Kinds, ReUp(k) PROVE Same /\ busy' = busy
  BY <1>25 DEF IInv, ReUp, Same, JournalInv, PhaseInv, FenceInv, HostInv, HostAt,
     HostNow, Told, Unended, Won, Open, Held, Back, Forth, AtRest
<1>26. ASSUME NEW k \in Kinds, ReUpFails(k) PROVE Same /\ busy' = busy
  BY <1>26 DEF IInv, ReUpFails, Err, Same, UpdateTypeOK, JournalInv, PhaseInv,
     FenceInv, HostInv, HostAt, HostNow, Told, Unended, Won, Open, Held, Back,
     Forth, AtRest, Outcomes, ServiceUpdateJournal
<1>27. ASSUME NEW k \in Kinds, Restored(k) PROVE Same /\ busy' = busy
  BY <1>27 DEF IInv, Restored, Same, JournalInv, PhaseInv, FenceInv, HostInv,
     HostAt, HostNow, Told, Unended, Won, Open, Held, Back, Forth, AtRest
<1>28. ASSUME NEW k \in Kinds, EndUnknown(k) PROVE Same /\ busy' = busy
  BY <1>28 DEF Same, Held, Open, EndUnknown
<1>29. CASE Record
  BY <1>29 DEF IInv, Record, Same, JournalInv, PhaseInv, FenceInv, Told, Unended,
     Won, Open, Held
<1>30. ASSUME NEW k \in Kinds, Clear(k) PROVE Same /\ busy' = busy
  BY <1>30 DEF IInv, Clear, Resume, Same, UpdateTypeOK, JournalInv, PhaseInv,
     FenceInv, Told, Unended, Won, Open, Held, Outcomes, ServiceUpdateJournal
<1>31. ASSUME NEW k \in Kinds, Done(k) PROVE Same /\ busy' = busy
  BY <1>31 DEF Same, Held, Open, Done
<1>32. CASE StepFails
  BY <1>32 DEF Same, Held, Open, StepFails
<1>33. CASE Crash
  BY <1>33 DEF Same, Held, Open, Crash
<1> QED
  BY <1>1, <1>2, <1>3, <1>4, <1>5, <1>6, <1>7, <1>8, <1>9, <1>10, <1>11,
     <1>12, <1>13, <1>14, <1>15, <1>16, <1>17, <1>18, <1>19, <1>20, <1>21,
     <1>22, <1>23, <1>24, <1>25, <1>26, <1>27, <1>28, <1>29, <1>30, <1>31,
     <1>32, <1>33 DEF Next, Tasks, Undisturbed, Recovery, Operations,
     Updating, Steps, Faults, Unanswered

\* What a call to begin makes of the requests.
LEMMA BegunSeen ==
    ASSUME IInv, IInv', NEW r \in Requests, request' = Begun(r),
           UNCHANGED <<journal, container, busy>>
    PROVE  Atomic!Next \/ UNCHANGED Atomic!vars
<1>1. CASE request[r] = "open" /\ ~busy /\ Held = {}
  BY <1>1, AtomicBegins DEF Begun
<1>2. CASE ~(request[r] = "open" /\ ~busy /\ Held = {})
  <2>1. Same
    BY <1>2 DEF Begun, Same, Held, Open
  <2> QED BY <2>1, Unseen DEF Seen, Atomic!vars
<1> QED BY <1>1, <1>2

\* What a call to end makes of them.
LEMMA EndedSeen ==
    ASSUME IInv, NEW r \in Requests, NEW o \in Outcomes, request' = Ended(r, o),
           UNCHANGED <<journal, container, busy>>,
           \A k \in Kinds : Open(k) /\ journal[k].request = r =>
             /\ o = "SUCCESS" => container[k].image = journal[k].to
             /\ o = "ROLLED_BACK" => container[k].image = journal[k].from
    PROVE  Atomic!Next \/ UNCHANGED Atomic!vars
<1>1. CASE request[r] = "held"
  <2>1. PICK k \in Kinds : Open(k) /\ journal[k].request = r
    BY <1>1 DEF IInv, FenceInv
  <2> QED BY <1>1, <2>1, AtomicEnds DEF Ended, Held
<1>2. CASE request[r] # "held"
  <2>1. Same
    BY <1>2 DEF Ended, Same, Held, Open
  <2> QED BY <2>1, Unseen DEF Seen, Atomic!vars
<1> QED BY <1>1, <1>2

\* An outcome the broker is told, now or late, is that of the host.
LEMMA ToldTrue ==
    ASSUME IInv, NEW k \in Kinds, Open(k), NEW o \in Outcomes,
           \/ EndAnswered(k) /\ o = Outcome
           \/ \E c \in late : c.what = o /\ c.request = journal[k].request
    PROVE  /\ o = "SUCCESS" => container[k] = [image |-> journal[k].to, up |-> TRUE]
           /\ o = "ROLLED_BACK" => container[k].image = journal[k].from
<1>1. CASE EndAnswered(k) /\ o = Outcome
  BY <1>1 DEF IInv, EndAnswered, Outcome, PhaseInv, HostInv, HostAt, HostNow, Won,
     Forth, Back
<1>2. CASE \E c \in late : c.what = o /\ c.request = journal[k].request
  BY <1>2 DEF IInv, FenceInv, HostInv, HostAt, Told, Won, Forth
<1> QED BY <1>1, <1>2

\* Every step is a step of AtomicUpdate or leaves what it speaks of alone.
LEMMA AtomicStep == IInv /\ IInv' /\ Next => Atomic!Next \/ UNCHANGED Atomic!vars
<1> SUFFICES ASSUME IInv, IInv', Next PROVE Atomic!Next \/ UNCHANGED Atomic!vars
  OBVIOUS
<1>1. CASE TaskStarts
  <2>1. Same
    BY <1>1 DEF TaskStarts, Moved, Same, Held, Open, IInv, UpdateTypeOK
  <2>2. FenceSeen = Absent
    BY <1>1, FenceFree DEF TaskStarts
  <2>3. Atomic!TaskStarts
    BY <1>1, <2>1, <2>2, Unseen DEF TaskStarts, Atomic!TaskStarts, Seen
  <2> QED BY <2>3 DEF Atomic!Next
<1>2. CASE TaskEnds
  <2>1. Same
    BY <1>2 DEF TaskEnds, Same, Held, Open
  <2>2. Atomic!TaskEnds
    BY <1>2, <2>1, Unseen DEF TaskEnds, Atomic!TaskEnds, Seen
  <2> QED BY <2>2 DEF Atomic!Next
<1>3. ASSUME NEW c \in late, LateCall(c) PROVE Atomic!Next \/ UNCHANGED Atomic!vars
  <2>1. c \in Call
    BY DEF IInv, UpdateTypeOK
  <2>2. CASE c.what = "begin"
    BY <1>3, <2>1, <2>2, BegunSeen DEF LateCall, Call
  <2>3. CASE c.what # "begin"
    <3>1. c.what \in Outcomes /\ c.request \in Requests
      BY <2>1, <2>3 DEF Call
    <3>2. \A k \in Kinds : Open(k) /\ journal[k].request = c.request =>
             /\ c.what = "SUCCESS" => container[k].image = journal[k].to
             /\ c.what = "ROLLED_BACK" => container[k].image = journal[k].from
      BY <3>1, ToldTrue
    <3> QED BY <1>3, <2>3, <3>1, <3>2, EndedSeen DEF LateCall
  <2> QED BY <2>2, <2>3
<1>4. ASSUME NEW k \in Kinds, BeginGranted(k) PROVE Atomic!Next \/ UNCHANGED Atomic!vars
  <2>1. journal[k].request \in Requests
    BY <1>4 DEF BeginGranted, IInv, JournalInv
  <2> QED BY <1>4, <2>1, BegunSeen DEF BeginGranted
<1>5. ASSUME NEW k \in Kinds, EndAnswered(k) PROVE Atomic!Next \/ UNCHANGED Atomic!vars
  <2>1. Open(k) /\ journal[k].request \in Requests /\ Outcome \in Outcomes
    BY <1>5 DEF EndAnswered, IInv, JournalInv, Outcome, Outcomes
  <2>2. \A x \in Kinds : Open(x) /\ journal[x].request = journal[k].request => x = k
    BY <2>1 DEF IInv, JournalInv
  <2> QED BY <1>5, <2>1, <2>2, ToldTrue, EndedSeen DEF EndAnswered
<1>6. CASE Same /\ busy' = busy
  BY <1>6, Unseen DEF Seen, Atomic!vars
<1> QED BY <1>1, <1>2, <1>3, <1>4, <1>5, <1>6, QuietSteps

\* The updater implements AtomicUpdate: to the tasks on the host an update is
\* one step, whatever fails, crashes or comes late.
THEOREM ImplementsAtomicUpdate == Spec => UpdatesAtomic
<1>1. IInv /\ IInv' /\ [Next]_vars => [Atomic!Next]_(Atomic!vars)
  <2>1. UNCHANGED vars => UNCHANGED Atomic!vars
    BY DEF vars, Atomic!vars, ImageSeen, FenceSeen, Open, Held
  <2> QED BY <2>1, AtomicStep
<1> QED BY <1>1, AtomicInit, Invariant, PTL DEF Spec, UpdatesAtomic, Atomic!Spec

\* The broker is told of a success only of a candidate that runs and is
\* healthy, of a rollback only when the previous image is back.
THEOREM OutcomesTrue == Spec => OutcomeTrue
<1> DEFINE Truth == \A k \in Kinds : LET j == journal[k] IN
         j.request # 0 /\ request[j.request] = "held" =>
           /\ request'[j.request] = "SUCCESS" =>
                  container[k] = [image |-> j.to, up |-> TRUE]
           /\ request'[j.request] = "ROLLED_BACK" =>
                  container[k].image = j.from
<1>1. IInv /\ IInv' /\ Next => Truth
  <2> SUFFICES ASSUME IInv, IInv', Next, NEW k \in Kinds, journal[k].request # 0,
                      request[journal[k].request] = "held",
                      NEW o \in Outcomes, request'[journal[k].request] = o
               PROVE  /\ o = "SUCCESS" => container[k] = [image |-> journal[k].to, up |-> TRUE]
                      /\ o = "ROLLED_BACK" => container[k].image = journal[k].from
    BY DEF Outcomes
  <2>1. Open(k) /\ journal[k].request \in Requests /\ journal[k].request \in Held
    BY DEF IInv, JournalInv, Held
  <2>2. ~Same /\ ~(request' = request)
    BY <2>1 DEF Same, Held, Outcomes
  <2>3. CASE TaskStarts \/ TaskEnds
    BY <2>1, <2>2, <2>3 DEF TaskStarts, TaskEnds
  <2>4. ASSUME NEW c \in late, LateCall(c)
        PROVE  c.request = journal[k].request /\ c.what = o
    BY <2>1, <2>4 DEF LateCall, Begun, Ended, Moved, Outcomes, IInv, UpdateTypeOK
  <2>5. ASSUME NEW x \in Kinds, BeginGranted(x) PROVE FALSE
    BY <2>1, <2>5 DEF BeginGranted, Begun, Moved, Outcomes, IInv, UpdateTypeOK
  <2>6. ASSUME NEW x \in Kinds, EndAnswered(x) PROVE x = k /\ o = Outcome
    <3>1. journal[x].request = journal[k].request /\ o = Outcome
      BY <2>1, <2>6 DEF EndAnswered, Ended, Moved, Outcomes, IInv, UpdateTypeOK, Outcome
    <3> QED BY <3>1, <2>1, OneHolder
  <2> QED BY <2>1, <2>2, <2>3, <2>4, <2>5, <2>6, ToldTrue, QuietSteps
<1>2. IInv /\ IInv' /\ [Next]_vars => [Truth]_vars
  BY <1>1
<1> QED BY <1>2, Invariant, PTL DEF Spec, OutcomeTrue

=============================================================================
