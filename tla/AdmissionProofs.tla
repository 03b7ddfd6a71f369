--------------------------- MODULE AdmissionProofs ---------------------------
(* Theorems about RunAdmission: for any number of intentions, requests and     *)
(* revisions, a start makes one run, of the plan its client was shown, on a    *)
(* node found where that plan says.                                            *)
EXTENDS RunAdmission, SequenceTheorems, TLAPS

-----------------------------------------------------------------------------
(* The invariant *)

\* The current revision of a registration that is not archived gives its
\* connection.
Registered == ~server.archived => past[server.revision] = server.conn

\* The phases in which a request holds a graph revision, a registration's
\* revision, and a node for its answer.
Preview(c)  == c.phase = "answer" /\ ~c.start
HasGraph(c) == c.phase \in {"resolve", "status", "observe", "recheck", "accept"}
               \/ Preview(c)
HasFirst(c) == c.phase \in {"status", "observe", "recheck", "accept"} \/ Preview(c)

\* What a request has read is still true, as far as the registration it first
\* read is the current one; what it was accepted or answered with for good.
Honest(c) ==
    /\ c.phase # "free" => c.key \in Keys
    /\ c.start => c.key \in Keys /\ plan[c.key] # None
    /\ HasGraph(c) => c.graph \in Graphs
    /\ HasFirst(c) => c.first \in Revisions /\ c.first <= server.revision
    /\ c.phase = "observe" /\ c.conn # None /\ c.first = server.revision
           => c.conn = server.conn
    /\ c.phase = "recheck" /\ c.found # None /\ c.first = server.revision
           => c.found[1] = server.conn
    /\ c.phase = "accept" => c.start /\ Meant(c) /\ c.found # None
    /\ Preview(c) => c.found # None /\ c.found[1] = past[c.first]
    /\ c.phase = "answer" /\ c.start
           => c.run \in DOMAIN runs /\ runs[c.run].key = c.key

Requests == \A q \in Slots : Honest(call[q])

\* Receipts and runs name each other.
Receipted ==
    /\ \A r \in DOMAIN runs : receipts[runs[r].key] = r
    /\ \A k \in Keys : receipts[k] # 0 =>
           receipts[k] \in DOMAIN runs /\ runs[receipts[k]].key = k

\* No plan names a registration to come.
Registrations == \A k \in Keys : plan[k] # None => plan[k].revision <= server.revision

AdmissionInv ==
    /\ AdmissionTypeOK
    /\ Registered /\ Requests /\ Receipted /\ Registrations
    /\ StartsOnce /\ TargetsTrue

-----------------------------------------------------------------------------
(* The initial states *)

LEMMA InitInv == Init => AdmissionInv
<1> SUFFICES ASSUME Init PROVE AdmissionInv
  OBVIOUS
<1>1. PICK c \in Connections :
        /\ server = [revision |-> 1, conn |-> c, archived |-> FALSE]
        /\ past = [r \in Revisions |-> IF r = 1 THEN c ELSE None]
  BY DEF Init, ServerInit
<1>2. 1 \in Revisions /\ 1 \in Graphs
  BY ServerAssumption, AdmissionAssumption DEF Revisions, Graphs
<1>3. AdmissionTypeOK
  <2>1. ServerTypeOK
    BY <1>1, <1>2 DEF Init, ServerInit, ServerTypeOK
  <2>2. runs \in Seq(Run) /\ Len(runs) = 0
    BY DEF Init
  <2>3. Free \in Call
    BY DEF Free, Call
  <2> QED BY <1>2, <2>1, <2>2, <2>3, AdmissionAssumption DEF Init, AdmissionTypeOK
<1>4. Registered
  BY <1>1, <1>2 DEF Registered
<1>5. Requests
  BY DEF Init, Requests, Honest, HasGraph, HasFirst, Preview, Free
<1>6. DOMAIN runs = {}
  BY DEF Init
<1>7. Receipted /\ Registrations /\ StartsOnce /\ TargetsTrue
  BY <1>6 DEF Init, Receipted, Registrations, StartsOnce, TargetsTrue
<1> QED BY <1>3, <1>4, <1>5, <1>7 DEF AdmissionInv

-----------------------------------------------------------------------------
(* The steps that change one request and nothing else *)

\* Request q becomes c.
Turns(q, c) ==
    call' = [call EXCEPT ![q] = c] /\ UNCHANGED <<Service, Clients>>

\* Such a step keeps the invariant if what the request now holds is honest.
LEMMA TurnStep ==
    ASSUME AdmissionInv, NEW q \in Slots, NEW c \in Call, Honest(c), Turns(q, c)
    PROVE  AdmissionInv'
<1>1. UNCHANGED <<server, past, host, graph, runs, receipts, plan, told>>
  BY DEF Turns, Service, Clients
<1>2. call \in [Slots -> Call] /\ call' = [call EXCEPT ![q] = c]
  BY DEF AdmissionInv, AdmissionTypeOK, Turns
<1>3. AdmissionTypeOK'
  BY <1>1, <1>2 DEF AdmissionInv, AdmissionTypeOK, ServerTypeOK
<1>4. Requests'
  <2> SUFFICES ASSUME NEW p \in Slots PROVE Honest(call[p])'
    BY DEF Requests
  <2>1. CASE p = q
    BY <1>1, <1>2, <2>1 DEF Honest, HasGraph, HasFirst, Preview, Meant
  <2>2. CASE p # q
    <3>1. Honest(call[p]) /\ call'[p] = call[p]
      BY <1>2, <2>2 DEF AdmissionInv, Requests
    <3> QED BY <1>1, <3>1 DEF Honest, HasGraph, HasFirst, Preview, Meant
  <2> QED BY <2>1, <2>2
<1>5. Registered' /\ Receipted' /\ Registrations' /\ StartsOnce' /\ TargetsTrue'
  BY <1>1 DEF AdmissionInv, Registered, Receipted, Registrations, StartsOnce, TargetsTrue
<1> QED BY <1>3, <1>4, <1>5 DEF AdmissionInv

\* What a request holds is a record of its fields.
LEMMA CallFields ==
    ASSUME AdmissionInv, NEW q \in Slots
    PROVE  /\ call[q] \in Call /\ Honest(call[q])
           /\ Honest(Free) /\ Free \in Call
<1>1. Honest(Free) /\ Free \in Call
  BY DEF Free, Call, Honest, HasGraph, HasFirst, Preview
<1> QED BY <1>1 DEF AdmissionInv, AdmissionTypeOK, Requests

\* A request as it is sent, and as a start is answered.
LEMMA SentFields ==
    ASSUME NEW k \in Keys, NEW b \in BOOLEAN
    PROVE  LET c == [Free EXCEPT !.phase = "arrived", !.key = k, !.start = b]
           IN  c \in Call /\ c.phase = "arrived" /\ c.key = k /\ c.start = b
<1>1. Free \in Call
  BY DEF Free, Call
<1> QED BY <1>1 DEF Call

LEMMA AnswerFields ==
    ASSUME NEW k \in Keys, NEW r \in RunIds
    PROVE  LET c == [Free EXCEPT !.phase = "answer", !.start = TRUE,
                                 !.key = k, !.run = r]
           IN  /\ c \in Call /\ c.phase = "answer" /\ c.key = k
               /\ c.start /\ c.run = r
<1>1. Free \in Call
  BY DEF Free, Call
<1> DEFINE t == TRUE
           c == [Free EXCEPT !.phase = "answer", !.start = t, !.key = k, !.run = r]
<1>2. t \in BOOLEAN /\ t
  OBVIOUS
<1> HIDE DEF t
<1>3. /\ c \in Call /\ c.phase = "answer" /\ c.key = k
      /\ c.start = t /\ c.run = r
  BY <1>1, <1>2 DEF Call
<1> QED BY <1>2, <1>3 DEF t

\* A request that is sent, lost, or read for: each keeps the invariant.
LEMMA SendStep ==
    ASSUME AdmissionInv, NEW q \in Slots, NEW k \in Keys, Send(q, k)
    PROVE  AdmissionInv'
<1> DEFINE b == plan[k] # None
           c == [Free EXCEPT !.phase = "arrived", !.key = k, !.start = b]
<1>1. Turns(q, c)
  BY DEF Send, Turns
<1>2. b \in BOOLEAN /\ (b => plan[k] # None)
  OBVIOUS
<1> HIDE DEF b
<1>3. c \in Call /\ c.phase = "arrived" /\ c.key = k /\ c.start = b
  BY <1>2, SentFields
<1> HIDE DEF c
<1>4. Honest(c)
  BY <1>2, <1>3 DEF Honest, HasGraph, HasFirst, Preview
<1> QED BY <1>1, <1>3, <1>4, TurnStep

LEMMA LostStep ==
    ASSUME AdmissionInv, NEW q \in Slots, Lost(q)
    PROVE  AdmissionInv'
BY CallFields, TurnStep DEF Lost, Turns

\* A start with a receipt is answered with its run.
LEMMA AnswerTurn ==
    ASSUME AdmissionInv, NEW q \in Slots, call[q].phase # "free",
           receipts[call[q].key] # 0, AnswerRun(q, receipts[call[q].key]),
           UNCHANGED <<Service, Clients>>, call[q].start
    PROVE  AdmissionInv'
<1> DEFINE k == call[q].key
           c == [Free EXCEPT !.phase = "answer", !.start = TRUE,
                             !.key = k, !.run = receipts[k]]
<1>1. k \in Keys /\ receipts[k] \in DOMAIN runs /\ runs[receipts[k]].key = k
      /\ plan[k] # None
  BY CallFields DEF Honest, AdmissionInv, Receipted
<1>2. receipts[k] \in RunIds
  BY <1>1 DEF AdmissionInv, AdmissionTypeOK
<1>3. Turns(q, c)
  BY DEF AnswerRun, Turns
<1>4. /\ c \in Call /\ c.phase = "answer" /\ c.key = k
      /\ c.start /\ c.run = receipts[k]
  BY <1>1, <1>2, AnswerFields
<1> HIDE DEF c
<1>5. Honest(c)
  BY <1>1, <1>4 DEF Honest, HasGraph, HasFirst, Preview
<1> QED BY <1>3, <1>4, <1>5, TurnStep

LEMMA ReplayStep ==
    ASSUME AdmissionInv, NEW q \in Slots, Replay(q)
    PROVE  AdmissionInv'
<1>1. call[q] \in Call /\ Honest(call[q])
  BY CallFields
<1>2. CASE call[q].start /\ receipts[call[q].key] # 0
  BY <1>2, AnswerTurn DEF Replay
<1>3. CASE ~(call[q].start /\ receipts[call[q].key] # 0)
  <2> DEFINE c == [call[q] EXCEPT !.phase = "graph"]
  <2>1. c \in Call
    BY <1>1 DEF Call
  <2>2. Honest(c)
    BY <1>1 DEF Replay, Call, Honest, HasGraph, HasFirst, Preview
  <2>3. Turns(q, c)
    BY <1>1, <1>3 DEF Replay, Goto, Turns, Call, AdmissionInv, AdmissionTypeOK
  <2> QED BY <2>1, <2>2, <2>3, TurnStep
<1> QED BY <1>2, <1>3

LEMMA ReadGraphStep ==
    ASSUME AdmissionInv, NEW q \in Slots, ReadGraph(q)
    PROVE  AdmissionInv'
<1>1. call[q] \in Call /\ Honest(call[q])
  BY CallFields
<1> DEFINE c == [call[q] EXCEPT !.phase = "resolve", !.graph = graph]
<1>2. graph \in Graphs
  BY DEF AdmissionInv, AdmissionTypeOK
<1>3. c \in Call
  BY <1>1, <1>2 DEF Call
<1>4. Honest(c)
  BY <1>1, <1>2 DEF ReadGraph, Call, Honest, HasGraph, HasFirst, Preview
<1>5. Turns(q, c)
  BY <1>1 DEF ReadGraph, Turns, Call, AdmissionInv, AdmissionTypeOK
<1> QED BY <1>3, <1>4, <1>5, TurnStep

LEMMA ResolveStep ==
    ASSUME AdmissionInv, NEW q \in Slots, Resolve(q)
    PROVE  AdmissionInv'
<1>1. call[q] \in Call /\ Honest(call[q])
  BY CallFields
<1> DEFINE c == [call[q] EXCEPT !.phase = "status", !.first = server.revision]
<1>2. server.revision \in Revisions /\ server.revision <= server.revision
  BY DEF AdmissionInv, AdmissionTypeOK, ServerTypeOK, Revisions
<1>3. c \in Call
  BY <1>1, <1>2 DEF Call
<1>4. Honest(c)
  BY <1>1, <1>2 DEF Resolve, Call, Honest, HasGraph, HasFirst, Preview
<1>5. Turns(q, c)
  BY <1>1 DEF Resolve, Turns, Call, AdmissionInv, AdmissionTypeOK
<1> QED BY <1>3, <1>4, <1>5, TurnStep

LEMMA StatusStep ==
    ASSUME AdmissionInv, NEW q \in Slots, Status(q)
    PROVE  AdmissionInv'
<1>1. call[q] \in Call /\ Honest(call[q])
  BY CallFields
<1> DEFINE c == [call[q] EXCEPT !.phase = "observe", !.conn = Asked]
<1>2. Asked \in Connections \cup {None} /\ (Asked # None => Asked = server.conn)
  BY DEF Asked, AdmissionInv, AdmissionTypeOK, ServerTypeOK
<1>3. c \in Call
  BY <1>1, <1>2 DEF Call
<1>4. Honest(c)
  BY <1>1, <1>2 DEF Status, Call, Honest, HasGraph, HasFirst, Preview
<1>5. Turns(q, c)
  BY <1>1 DEF Status, Turns, Call, AdmissionInv, AdmissionTypeOK
<1> QED BY <1>3, <1>4, <1>5, TurnStep

\* An observation finds a node over the connection that was asked.
LEMMA ObservedTyped ==
    ASSUME ServerTypeOK, NEW c \in Connections \cup {None}
    PROVE  /\ Observed(c) \in NodeRefs \cup {None}
           /\ Observed(c) # None => c # None /\ Observed(c)[1] = c
BY DEF Observed, ServerTypeOK, NodeRefs

LEMMA ObserveStep ==
    ASSUME AdmissionInv, NEW q \in Slots, Observe(q)
    PROVE  AdmissionInv'
<1>1. call[q] \in Call /\ Honest(call[q])
  BY CallFields
<1> DEFINE o == Observed(call[q].conn)
           c == [call[q] EXCEPT !.phase = "recheck", !.conn = None, !.found = o]
<1>2. /\ o \in NodeRefs \cup {None}
      /\ o # None => call[q].conn # None /\ o[1] = call[q].conn
  BY <1>1, ObservedTyped DEF Call, AdmissionInv, AdmissionTypeOK
<1>3. Turns(q, c)
  BY <1>1 DEF Observe, Turns, Call, AdmissionInv, AdmissionTypeOK
<1> HIDE DEF o
<1>4. c \in Call
  BY <1>1, <1>2 DEF Call
<1>5. Honest(c)
  BY <1>1, <1>2 DEF Observe, Call, Honest, HasGraph, HasFirst, Preview
<1> QED BY <1>3, <1>4, <1>5, TurnStep

\* Where the registration still is the one first read, the node was found over
\* the connection it gives.
LEMMA RecheckStep ==
    ASSUME AdmissionInv, NEW q \in Slots, Recheck(q)
    PROVE  AdmissionInv'
<1>1. call[q] \in Call /\ Honest(call[q])
  BY CallFields
<1>2. /\ call[q].phase = "recheck" /\ call[q].found # None
      /\ server.revision = call[q].first /\ ~server.archived
      /\ call[q].start => Meant(call[q])
  BY DEF Recheck, Stands
<1>3. call[q].found[1] = past[call[q].first]
  BY <1>1, <1>2 DEF Honest, AdmissionInv, Registered
<1> DEFINE phase == IF call[q].start THEN "accept" ELSE "answer"
           c == [call[q] EXCEPT !.phase = phase]
<1>4. Turns(q, c)
  BY <1>1 DEF Recheck, Goto, Turns, Call, AdmissionInv, AdmissionTypeOK
<1>5. phase \in {"accept", "answer"} /\ (phase = "accept" <=> call[q].start)
  OBVIOUS
<1> HIDE DEF phase
<1>6. c \in Call
  BY <1>1, <1>5 DEF Call
<1>7. /\ c.phase = phase /\ c.key = call[q].key /\ c.start = call[q].start
      /\ c.graph = call[q].graph /\ c.first = call[q].first
      /\ c.found = call[q].found
  BY <1>1 DEF Call
<1>8. Meant(c) <=> Meant(call[q])
  BY <1>7 DEF Meant
<1> HIDE DEF c
<1>9. Honest(c)
  BY <1>1, <1>2, <1>3, <1>5, <1>7, <1>8 DEF Honest, HasGraph, HasFirst, Preview
<1> QED BY <1>4, <1>6, <1>9, TurnStep

-----------------------------------------------------------------------------
(* The other steps *)

\* What a request holds is as true of new plans, runs and registrations, if
\* they leave alone what it refers to.
LEMMA StaysHonest ==
    ASSUME NEW c, Honest(c), server.revision <= server'.revision,
           server'.revision \in Nat, server.revision \in Nat,
           server'.revision = server.revision => server'.conn = server.conn,
           \A r \in Revisions : r <= server.revision => past'[r] = past[r],
           c.start => plan'[c.key] = plan[c.key],
           DOMAIN runs \subseteq DOMAIN runs',
           \A r \in DOMAIN runs : runs'[r].key = runs[r].key
    PROVE  \A d : d = c => Honest(d)'
BY DEF Honest, HasGraph, HasFirst, Preview, Meant, Revisions, Graphs

\* What is known of an accepted run.
LEMMA RunFields ==
    ASSUME AdmissionInv, NEW r \in DOMAIN runs
    PROVE  /\ r \in 1..Len(runs) /\ Len(runs) \in Nat
           /\ runs[r] \in Run /\ runs[r].plan \in Plan /\ runs[r].key \in Keys
<1>1. runs \in Seq(Run)
  BY DEF AdmissionInv, AdmissionTypeOK
<1>2. r \in 1..Len(runs) /\ Len(runs) \in Nat
  BY <1>1, LenProperties
<1>3. runs[r] \in Run
  BY <1>1, <1>2, ElementOfSeq
<1> QED BY <1>2, <1>3 DEF Run

\* The client takes an answer: the run it holds was made for its intention, and
\* a plan it did not have names a node found where the plan says.
LEMMA AnsweredStep ==
    ASSUME AdmissionInv, NEW q \in Slots, Answered(q)
    PROVE  AdmissionInv'
<1> DEFINE c == call[q]
<1>1. /\ c \in Call /\ Honest(c) /\ c.phase = "answer" /\ c.key \in Keys
      /\ Free \in Call /\ Honest(Free)
  BY CallFields DEF Answered, Honest
<1>2. /\ UNCHANGED <<server, past, host, graph, runs, receipts>>
      /\ call' = [call EXCEPT ![q] = Free]
  BY DEF Answered, Service
<1>3. /\ plan \in [Keys -> Plan \cup {None}] /\ told \in [Keys -> {0} \cup RunIds]
      /\ call \in [Slots -> Call] /\ server.revision \in Nat
      /\ DOMAIN runs \subseteq RunIds
  <2>1. Len(runs) \in Nat /\ DOMAIN runs = 1..Len(runs) /\ Len(runs) <= MaxRuns
    BY LenProperties DEF AdmissionInv, AdmissionTypeOK
  <2> QED BY <2>1, AdmissionAssumption
          DEF AdmissionInv, AdmissionTypeOK, ServerTypeOK, Revisions, RunIds
<1>4. \A k \in Keys : plan[k] # None => plan'[k] = plan[k]
  BY <1>3 DEF Answered
<1>5. \A k \in Keys : plan'[k] # plan[k] =>
         /\ plan'[k] \in Plan /\ plan'[k].revision <= server.revision
         /\ plan'[k].node[1] = past[plan'[k].revision]
  <2> SUFFICES ASSUME NEW k \in Keys, plan'[k] # plan[k]
               PROVE  /\ plan'[k] \in Plan /\ plan'[k].revision <= server.revision
                      /\ plan'[k].node[1] = past[plan'[k].revision]
    OBVIOUS
  <2>1. ~c.start /\ plan'[k] = [graph |-> c.graph, revision |-> c.first, node |-> c.found]
    BY <1>1, <1>3 DEF Answered
  <2>2. /\ c.graph \in Graphs /\ c.first \in Revisions /\ c.first <= server.revision
        /\ c.found \in NodeRefs /\ c.found[1] = past[c.first]
    BY <1>1, <2>1 DEF Honest, HasGraph, HasFirst, Preview, Call
  <2> HIDE DEF c
  <2> QED BY <2>1, <2>2 DEF Plan
<1>6. /\ told' \in [Keys -> {0} \cup RunIds]
      /\ \A k \in Keys : told'[k] # told[k] =>
             told'[k] \in DOMAIN runs /\ runs[told'[k]].key = k
  <2>1. CASE c.start
    <3>1. c.run \in DOMAIN runs /\ runs[c.run].key = c.key
      BY <1>1, <2>1 DEF Honest
    <3>2. told' = [told EXCEPT ![c.key] = c.run]
      BY <2>1 DEF Answered
    <3> HIDE DEF c
    <3> QED BY <1>1, <1>3, <3>1, <3>2
  <2>2. CASE ~c.start
    BY <1>3, <2>2 DEF Answered
  <2> QED BY <2>1, <2>2
<1>7. plan' \in [Keys -> Plan \cup {None}]
  <2>1. CASE c.start
    BY <1>3, <2>1 DEF Answered
  <2>2. CASE ~c.start
    <3>1. /\ DOMAIN plan' = Keys /\ plan' = [k \in Keys |-> plan'[k]]
      BY <1>3, <2>2 DEF Answered
    <3>2. \A k \in Keys : plan'[k] \in Plan \cup {None}
      BY <1>3, <1>5
    <3> QED BY <3>1, <3>2
  <2> QED BY <2>1, <2>2
<1> HIDE DEF c
<1>8. AdmissionTypeOK'
  BY <1>1, <1>2, <1>3, <1>6, <1>7 DEF AdmissionInv, AdmissionTypeOK, ServerTypeOK
<1>9. Requests'
  <2> SUFFICES ASSUME NEW p \in Slots PROVE Honest(call[p])'
    BY DEF Requests
  <2>1. \A d : Honest(d) => \A e : e = d => Honest(e)'
    BY <1>2, <1>3, <1>4, StaysHonest DEF Honest
  <2>2. Honest(call[p])
    BY CallFields
  <2>3. CASE p = q
    BY <1>1, <1>2, <1>3, <2>1, <2>3
  <2>4. CASE p # q
    BY <1>2, <1>3, <2>1, <2>2, <2>4
  <2> QED BY <2>3, <2>4
<1>10. Registered' /\ Receipted'
  BY <1>2 DEF AdmissionInv, Registered, Receipted
<1>11. Registrations' /\ TargetsTrue'
  <2> SUFFICES ASSUME NEW k \in Keys, plan'[k] # None
               PROVE  /\ plan'[k].revision <= server.revision
                      /\ plan'[k].node[1] = past[plan'[k].revision]
    BY <1>2 DEF Registrations, TargetsTrue
  <2>1. CASE plan'[k] = plan[k]
    BY <2>1 DEF AdmissionInv, Registrations, TargetsTrue
  <2> QED BY <1>5, <2>1
<1>12. StartsOnce'
  <2>1. \A r \in DOMAIN runs : runs[r].plan = plan'[runs[r].key]
    <3> SUFFICES ASSUME NEW r \in DOMAIN runs PROVE runs[r].plan = plan'[runs[r].key]
      OBVIOUS
    <3>1. runs[r].plan \in Plan /\ runs[r].key \in Keys
      BY RunFields
    <3>2. runs[r].plan = plan[runs[r].key] /\ plan[runs[r].key] # None
      BY <3>1, AbsentAssumption DEF AdmissionInv, StartsOnce
    <3> QED BY <1>4, <3>1, <3>2
  <2>2. \A k \in Keys : told'[k] # 0 => told'[k] \in DOMAIN runs /\ runs[told'[k]].key = k
    BY <1>6 DEF AdmissionInv, StartsOnce
  <2> QED BY <1>2, <2>1, <2>2 DEF AdmissionInv, StartsOnce
<1> QED BY <1>8, <1>9, <1>10, <1>11, <1>12 DEF AdmissionInv

\* One transaction: an intention that has no run yet gets one, of the plan its
\* client means, unless an active run of its author works at that plan.
LEMMA AcceptStep ==
    ASSUME AdmissionInv, NEW q \in Slots, Accept(q)
    PROVE  AdmissionInv'
<1> DEFINE k == call[q].key
           n == Len(runs) + 1
           f == Fingerprint(q)
           r0 == [plan |-> f, key |-> k, active |-> TRUE, resumed |-> FALSE]
<1>1. /\ call[q] \in Call /\ Honest(call[q]) /\ call[q].phase = "accept"
      /\ k \in Keys /\ call[q].start /\ plan[k] # None
  BY CallFields DEF Accept, Honest
<1>2. CASE receipts[k] # 0
  BY <1>1, <1>2, AnswerTurn DEF Accept, Service
<1>3. CASE receipts[k] = 0
  <2>1. /\ ~Duplicate(q) /\ Len(runs) < MaxRuns
        /\ runs' = Append(runs, r0)
        /\ receipts' = [receipts EXCEPT ![k] = n]
        /\ AnswerRun(q, n)
        /\ UNCHANGED <<server, past, host, graph, plan, told>>
    BY <1>3 DEF Accept, Clients
  <2>2. f = plan[k] /\ f \in Plan
    <3>1. f = plan[k]
      BY <1>1 DEF Honest, Meant, Fingerprint
    <3> QED BY <1>1, <3>1 DEF AdmissionInv, AdmissionTypeOK
  <2>3. r0 \in Run /\ r0.plan = f /\ r0.key = k /\ r0.active /\ ~r0.resumed
    <3> HIDE DEF f, k
    <3> QED BY <1>1, <2>2 DEF Run
  <2>4. /\ runs \in Seq(Run) /\ Len(runs) \in Nat /\ DOMAIN runs = 1..Len(runs)
        /\ n \in RunIds /\ n # 0
    BY <2>1, LenProperties, AdmissionAssumption DEF AdmissionInv, AdmissionTypeOK, RunIds
  <2> HIDE DEF f, r0
  <2>5. /\ runs' \in Seq(Run) /\ Len(runs') = n /\ DOMAIN runs' = 1..n
        /\ runs'[n] = r0 /\ \A r \in DOMAIN runs : runs'[r] = runs[r]
    BY <2>1, <2>3, <2>4, AppendProperties, LenProperties
  <2> HIDE DEF n
  <2>6. /\ receipts \in [Keys -> {0} \cup RunIds]
        /\ receipts' \in [Keys -> {0} \cup RunIds]
        /\ receipts'[k] = n /\ \A j \in Keys : j # k => receipts'[j] = receipts[j]
    BY <1>1, <2>1, <2>4 DEF AdmissionInv, AdmissionTypeOK
  <2> DEFINE c == [Free EXCEPT !.phase = "answer", !.start = TRUE,
                               !.key = k, !.run = n]
  <2>7. call \in [Slots -> Call] /\ call' = [call EXCEPT ![q] = c]
    BY <2>1 DEF AnswerRun, AdmissionInv, AdmissionTypeOK
  <2>8. c \in Call /\ c.phase = "answer" /\ c.key = k /\ c.start /\ c.run = n
    <3>1. k \in Keys /\ n \in RunIds
      BY <1>1, <2>4
    <3> HIDE DEF k
    <3> QED BY <3>1, AnswerFields
  <2> HIDE DEF c, k
  <2>9. AdmissionTypeOK'
    <3>1. n <= MaxRuns
      BY <2>4 DEF RunIds
    <3> QED BY <2>1, <2>5, <2>6, <2>7, <2>8, <3>1
            DEF AdmissionInv, AdmissionTypeOK, ServerTypeOK
  <2>10. DOMAIN runs = DOMAIN runs' \ {n} /\ n \in DOMAIN runs' /\ n \notin DOMAIN runs
    BY <2>4, <2>5 DEF n
  <2>11. Requests'
    <3> SUFFICES ASSUME NEW p \in Slots PROVE Honest(call[p])'
      BY DEF Requests
    <3>1. CASE p = q
      <4>1. call'[p] = c
        BY <2>7, <3>1
      <4>2. runs'[n].key = k
        BY <2>3, <2>5
      <4> QED BY <1>1, <2>1, <2>8, <2>10, <4>1, <4>2 DEF Honest, HasGraph, HasFirst, Preview
    <3>2. CASE p # q
      <4>1. call'[p] = call[p] /\ Honest(call[p])
        BY <2>7, <3>2, CallFields
      <4>2. server.revision \in Nat
        BY DEF AdmissionInv, AdmissionTypeOK, ServerTypeOK, Revisions
      <4>3. \A r \in DOMAIN runs : runs'[r].key = runs[r].key
        BY <2>5
      <4>4. server.revision <= server.revision
        BY <4>2
      <4> QED BY <2>1, <2>10, <4>1, <4>2, <4>3, <4>4, StaysHonest
    <3> QED BY <3>1, <3>2
  <2>12. \A r \in DOMAIN runs : runs[r].key \in Keys /\ runs[r].key # k
    <3> SUFFICES ASSUME NEW r \in DOMAIN runs PROVE runs[r].key \in Keys /\ runs[r].key # k
      OBVIOUS
    <3>1. runs[r].key \in Keys
      BY RunFields
    <3>2. receipts[runs[r].key] = r /\ r # 0
      BY <2>4 DEF AdmissionInv, Receipted
    <3> QED BY <1>3, <3>1, <3>2 DEF k
  <2>13. Receipted'
    <3>1. ASSUME NEW r \in DOMAIN runs' PROVE receipts'[runs'[r].key] = r
      <4>1. CASE r = n
        BY <2>3, <2>5, <2>6, <4>1
      <4>2. CASE r # n
        <5>1. r \in DOMAIN runs /\ runs'[r] = runs[r]
          BY <2>5, <2>10, <3>1, <4>2
        <5> QED BY <2>6, <2>12, <5>1 DEF AdmissionInv, Receipted
      <4> QED BY <4>1, <4>2
    <3>2. ASSUME NEW j \in Keys, receipts'[j] # 0
          PROVE  receipts'[j] \in DOMAIN runs' /\ runs'[receipts'[j]].key = j
      <4>1. CASE j = k
        BY <2>3, <2>5, <2>6, <2>10, <4>1
      <4>2. CASE j # k
        <5>1. receipts'[j] = receipts[j]
          BY <2>6, <3>2, <4>2
        <5>2. receipts[j] \in DOMAIN runs /\ runs[receipts[j]].key = j
          BY <3>2, <5>1 DEF AdmissionInv, Receipted
        <5> QED BY <2>5, <2>10, <5>1, <5>2
      <4> QED BY <4>1, <4>2
    <3> QED BY <3>1, <3>2 DEF Receipted
  <2>14. StartsOnce'
    <3>1. ASSUME NEW r \in DOMAIN runs', NEW s \in DOMAIN runs',
                 runs'[r].key = runs'[s].key
          PROVE  r = s
      BY <2>3, <2>5, <2>10, <2>12, <3>1 DEF AdmissionInv, StartsOnce
    <3>2. ASSUME NEW r \in DOMAIN runs' PROVE runs'[r].plan = plan'[runs'[r].key]
      BY <2>1, <2>2, <2>3, <2>5, <2>10, <3>2 DEF AdmissionInv, StartsOnce
    <3>3. ASSUME NEW j \in Keys, told'[j] # 0
          PROVE  told'[j] \in DOMAIN runs' /\ runs'[told'[j]].key = j
      BY <2>1, <2>5, <2>10, <3>3 DEF AdmissionInv, StartsOnce
    <3>4. ASSUME NEW r \in DOMAIN runs', NEW s \in DOMAIN runs',
                 runs'[r].active, runs'[s].active, runs'[r].plan = runs'[s].plan,
                 Author[runs'[r].key] = Author[runs'[s].key]
          PROVE  r = s \/ runs'[r].resumed \/ runs'[s].resumed
      <4>1. \A t \in DOMAIN runs :
               ~(runs[t].active /\ Author[runs[t].key] = Author[k] /\ runs[t].plan = f)
        BY <2>1 DEF Duplicate, f, k
      <4>2. CASE r = n \/ s = n
        BY <2>3, <2>5, <2>10, <3>4, <4>1, <4>2
      <4>3. CASE r # n /\ s # n
        <5>1. /\ r \in DOMAIN runs /\ s \in DOMAIN runs
              /\ runs'[r] = runs[r] /\ runs'[s] = runs[s]
          BY <2>5, <2>10, <4>3
        <5> QED BY <3>4, <5>1 DEF AdmissionInv, StartsOnce
      <4> QED BY <4>2, <4>3
    <3> QED BY <3>1, <3>2, <3>3, <3>4 DEF StartsOnce
  <2>15. Registered' /\ Registrations' /\ TargetsTrue'
    BY <2>1 DEF AdmissionInv, Registered, Registrations, TargetsTrue
  <2> QED BY <2>9, <2>11, <2>13, <2>14, <2>15 DEF AdmissionInv
<1> QED BY <1>2, <1>3

\* A run that ends or is resumed keeps its plan and its intention, and a resumed
\* one is marked.
LEMMA RunStep ==
    ASSUME AdmissionInv, NEW r \in DOMAIN runs, EndRun(r) \/ Resume(r)
    PROVE  AdmissionInv'
<1>1. UNCHANGED <<server, past, host, graph, receipts, plan, told, call>>
  BY DEF EndRun, Resume, Clients
<1>2. PICK t \in Run :
        /\ runs' = [runs EXCEPT ![r] = t]
        /\ t.plan = runs[r].plan /\ t.key = runs[r].key
        /\ t.active => t.resumed
        /\ runs[r].resumed => t.resumed
  <2>1. runs[r] \in Run
    BY RunFields
  <2>2. CASE EndRun(r)
    <3> DEFINE b == FALSE
               t == [runs[r] EXCEPT !.active = b]
    <3>1. runs' = [runs EXCEPT ![r] = t]
      BY <2>2 DEF EndRun
    <3>2. b \in BOOLEAN /\ ~b
      OBVIOUS
    <3> HIDE DEF b
    <3>3. /\ t \in Run /\ t.active = b /\ t.plan = runs[r].plan
          /\ t.key = runs[r].key /\ t.resumed = runs[r].resumed
      BY <2>1, <3>2 DEF Run
    <3> QED BY <3>1, <3>2, <3>3
  <2>3. CASE Resume(r)
    <3> DEFINE b == TRUE
               t == [runs[r] EXCEPT !.active = b, !.resumed = b]
    <3>1. runs' = [runs EXCEPT ![r] = t]
      <4>1. runs' = [runs EXCEPT ![r].active = TRUE, ![r].resumed = TRUE]
        BY <2>3 DEF Resume
      <4> QED BY <4>1, <2>1, RunFields DEF Run
    <3>2. b \in BOOLEAN /\ b
      OBVIOUS
    <3> HIDE DEF b
    <3>3. /\ t \in Run /\ t.resumed = b /\ t.plan = runs[r].plan
          /\ t.key = runs[r].key
      BY <2>1, <3>2 DEF Run
    <3> QED BY <3>1, <3>2, <3>3
  <2> QED BY <2>2, <2>3
<1>3. /\ runs \in Seq(Run) /\ Len(runs) \in Nat /\ DOMAIN runs = 1..Len(runs)
  BY LenProperties DEF AdmissionInv, AdmissionTypeOK
<1>4. /\ runs' \in Seq(Run) /\ Len(runs') = Len(runs) /\ DOMAIN runs' = DOMAIN runs
      /\ runs'[r] = t /\ \A s \in DOMAIN runs : s # r => runs'[s] = runs[s]
  BY <1>2, <1>3, ExceptSeq
<1>5. \A s \in DOMAIN runs :
         /\ runs'[s].plan = runs[s].plan /\ runs'[s].key = runs[s].key
         /\ runs[s].resumed => runs'[s].resumed
         /\ runs'[s].active => runs[s].active \/ runs'[s].resumed
  BY <1>2, <1>4
<1>6. AdmissionTypeOK'
  BY <1>1, <1>4 DEF AdmissionInv, AdmissionTypeOK, ServerTypeOK
<1>7. Requests'
  <2> SUFFICES ASSUME NEW p \in Slots PROVE Honest(call[p])'
    BY DEF Requests
  <2>1. call'[p] = call[p] /\ Honest(call[p])
    BY <1>1, CallFields
  <2>2. server.revision \in Nat /\ server.revision <= server.revision
    BY DEF AdmissionInv, AdmissionTypeOK, ServerTypeOK, Revisions
  <2> QED BY <1>1, <1>4, <1>5, <2>1, <2>2, StaysHonest
<1>8. Registered' /\ Registrations' /\ TargetsTrue'
  BY <1>1 DEF AdmissionInv, Registered, Registrations, TargetsTrue
<1>9. Receipted'
  BY <1>1, <1>4, <1>5 DEF AdmissionInv, Receipted
<1>10. StartsOnce'
  <2>1. \A k \in Keys : told'[k] # 0 => told'[k] \in DOMAIN runs'
                                         /\ runs'[told'[k]].key = k
    BY <1>1, <1>4, <1>5 DEF AdmissionInv, StartsOnce
  <2>2. ASSUME NEW i \in DOMAIN runs, NEW j \in DOMAIN runs,
               runs'[i].active, runs'[j].active, runs'[i].plan = runs'[j].plan,
               Author[runs'[i].key] = Author[runs'[j].key]
        PROVE  i = j \/ runs'[i].resumed \/ runs'[j].resumed
    BY <1>5, <2>2 DEF AdmissionInv, StartsOnce
  <2> QED BY <1>1, <1>4, <1>5, <2>1, <2>2 DEF AdmissionInv, StartsOnce
<1> QED BY <1>6, <1>7, <1>8, <1>9, <1>10 DEF AdmissionInv

\* A new registration is another revision: what was found under an earlier one
\* is no longer taken for the current one's, and earlier ones keep theirs.
LEMMA ServerStep ==
    ASSUME AdmissionInv, Servers
    PROVE  AdmissionInv'
<1>1. UNCHANGED <<graph, runs, receipts, plan, told, call>>
  BY DEF Servers, Clients
<1>2. /\ server \in [revision : Revisions, conn : Connections, archived : BOOLEAN]
      /\ past \in [Revisions -> Connections \cup {None}]
      /\ host \in [Connections -> Hosts \cup {None}]
      /\ server.revision \in Nat
  BY DEF AdmissionInv, AdmissionTypeOK, ServerTypeOK, Revisions
<1>3. /\ ServerTypeOK' /\ Registered'
      /\ server'.revision \in Nat /\ server.revision <= server'.revision
      /\ server'.revision = server.revision => server'.conn = server.conn
      /\ \A r \in Revisions : r <= server.revision => past'[r] = past[r]
  <2>1. ASSUME NEW c \in Connections, UpdateServer(c)
        PROVE  <1>3
    <3>1. server.revision + 1 \in Revisions
      BY <1>2, <2>1, ServerAssumption DEF UpdateServer, Writable, Revisions
    <3>2. /\ server' \in [revision : Revisions, conn : Connections, archived : BOOLEAN]
          /\ server'.revision = server.revision + 1 /\ server'.conn = c
      BY <1>2, <2>1, <3>1 DEF UpdateServer
    <3>3. past' = [past EXCEPT ![server.revision + 1] = c] /\ host' = host
      BY <2>1 DEF UpdateServer
    <3> QED BY <1>2, <3>1, <3>2, <3>3 DEF ServerTypeOK, Registered, Revisions
  <2>2. ASSUME ArchiveServer
        PROVE  <1>3
    <3>1. server.revision + 1 \in Revisions
      BY <1>2, <2>2, ServerAssumption DEF ArchiveServer, Writable, Revisions
    <3> DEFINE b == TRUE
               s == [server EXCEPT !.revision = @ + 1, !.archived = b]
    <3>2. server' = s /\ past' = past /\ host' = host
      BY <2>2 DEF ArchiveServer
    <3>3. b \in BOOLEAN /\ b
      OBVIOUS
    <3> HIDE DEF b
    <3>4. /\ s \in [revision : Revisions, conn : Connections, archived : BOOLEAN]
          /\ s.revision = server.revision + 1 /\ s.archived = b
      BY <1>2, <3>1, <3>3
    <3> HIDE DEF s
    <3> QED BY <1>2, <3>1, <3>2, <3>3, <3>4 DEF ServerTypeOK, Registered, Revisions
  <2>3. ASSUME NEW c \in Connections, NEW h \in Hosts \cup {None}, HostChanges(c, h)
        PROVE  <1>3
    BY <1>2, <2>3 DEF HostChanges, ServerTypeOK, Registered, AdmissionInv
  <2> QED BY <2>1, <2>2, <2>3 DEF Servers, ServerNext
<1>4. AdmissionTypeOK'
  BY <1>1, <1>3 DEF AdmissionInv, AdmissionTypeOK
<1>5. Requests'
  <2> SUFFICES ASSUME NEW p \in Slots PROVE Honest(call[p])'
    BY DEF Requests
  <2>1. call'[p] = call[p] /\ Honest(call[p])
    BY <1>1, CallFields
  <2> QED BY <1>1, <1>2, <1>3, <2>1, StaysHonest
<1>6. Receipted' /\ StartsOnce'
  BY <1>1 DEF AdmissionInv, Receipted, StartsOnce
<1>7. Registrations' /\ TargetsTrue'
  <2> SUFFICES ASSUME NEW k \in Keys, plan[k] # None
               PROVE  /\ plan[k].revision <= server'.revision
                      /\ plan[k].node[1] = past'[plan[k].revision]
    BY <1>1 DEF Registrations, TargetsTrue
  <2>1. /\ plan[k] \in Plan /\ plan[k].revision <= server.revision
        /\ plan[k].node[1] = past[plan[k].revision]
    BY DEF AdmissionInv, AdmissionTypeOK, Registrations, TargetsTrue
  <2>2. plan[k].revision \in Revisions /\ plan[k].revision \in Nat
    BY <2>1 DEF Plan, Revisions
  <2> QED BY <1>2, <1>3, <2>1, <2>2
<1> QED BY <1>3, <1>4, <1>5, <1>6, <1>7 DEF AdmissionInv

\* An edit of the pipeline changes what later requests read, and nothing else.
LEMMA EditStep == AdmissionInv /\ (EditGraph \/ UNCHANGED vars) => AdmissionInv'
<1> SUFFICES ASSUME AdmissionInv, EditGraph \/ UNCHANGED vars PROVE AdmissionInv'
  OBVIOUS
<1>1. UNCHANGED <<server, past, host, runs, receipts, plan, told, call>>
  BY DEF EditGraph, vars, Clients
<1>2. graph' \in Graphs
  BY AdmissionAssumption DEF EditGraph, vars, AdmissionInv, AdmissionTypeOK, Graphs
<1>3. AdmissionTypeOK'
  BY <1>1, <1>2 DEF AdmissionInv, AdmissionTypeOK, ServerTypeOK
<1>4. Requests'
  BY <1>1 DEF AdmissionInv, Requests, Honest, HasGraph, HasFirst, Preview, Meant
<1>5. Registered' /\ Receipted' /\ Registrations' /\ StartsOnce' /\ TargetsTrue'
  BY <1>1 DEF AdmissionInv, Registered, Receipted, Registrations, StartsOnce, TargetsTrue
<1> QED BY <1>3, <1>4, <1>5 DEF AdmissionInv

-----------------------------------------------------------------------------
(* The theorems *)

\* Every step of a client, the service, the registry or a host keeps the
\* invariant.
LEMMA InvNext == AdmissionInv /\ [Next]_vars => AdmissionInv'
<1> SUFFICES ASSUME AdmissionInv, [Next]_vars PROVE AdmissionInv'
  OBVIOUS
<1>1. CASE UNCHANGED vars \/ EditGraph
  BY <1>1, EditStep
<1>2. CASE \E q \in Slots, k \in Keys : Send(q, k)
  BY <1>2, SendStep
<1>3. CASE \E q \in Slots : \/ Answered(q) \/ Lost(q) \/ Replay(q) \/ ReadGraph(q)
                            \/ Resolve(q) \/ Status(q) \/ Observe(q) \/ Recheck(q)
                            \/ Accept(q)
  BY <1>3, AnsweredStep, LostStep, ReplayStep, ReadGraphStep, ResolveStep,
     StatusStep, ObserveStep, RecheckStep, AcceptStep
<1>4. CASE Servers
  BY <1>4, ServerStep
<1>5. CASE \E r \in DOMAIN runs : EndRun(r) \/ Resume(r)
  BY <1>5, RunStep
<1> QED BY <1>1, <1>2, <1>3, <1>4, <1>5 DEF Next

\* The inductive invariant: what each request holds is as true as the code takes
\* it to be, and receipts, runs and registrations agree.
THEOREM AdmissionHolds == Spec => []AdmissionInv
BY InitInv, InvNext, PTL DEF Spec

\* However a client repeats its requests, the state stays one the code expects:
\* in particular a node that is recorded was really found.
THEOREM AdmissionTyped == Spec => []AdmissionTypeOK
<1>1. AdmissionInv => AdmissionTypeOK
  BY DEF AdmissionInv
<1> QED BY <1>1, AdmissionHolds, PTL

\* For any number of intentions, of requests under way and of answers lost, an
\* intention makes one run, of the plan its client was shown, and its client is
\* told of no other; two runs of an author work at one plan only after a resume.
THEOREM StartedOnce == Spec => []StartsOnce
<1>1. AdmissionInv => StartsOnce
  BY DEF AdmissionInv
<1> QED BY <1>1, AdmissionHolds, PTL

\* A plan that a client was shown names a node found over the connection of the
\* very registration it names, whatever was registered during the observation.
THEOREM TargetsHold == Spec => []TargetsTrue
<1>1. AdmissionInv => TargetsTrue
  BY DEF AdmissionInv
<1> QED BY <1>1, AdmissionHolds, PTL

=============================================================================
