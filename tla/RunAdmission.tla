---------------------------- MODULE RunAdmission ----------------------------
(***************************************************************************)
(* How a run comes to be: runs.preflight and runs.start of                 *)
(* packages/run-control/service.ts, which read the pipeline, have the      *)
(* server of a placement resolved by ServerControl and accept the run in   *)
(* one transaction, for clients that repeat a request whose answer they    *)
(* did not get.                                                            *)
(*                                                                         *)
(* One pipeline with one task placed on one registered server.  A revision *)
(* of the graph names one content.  Every await is between two actions; a  *)
(* request is lost together with its answer, or with the process.          *)
(***************************************************************************)
EXTENDS ServerControl, Sequences

CONSTANTS
    Keys,       \* idempotency keys: a client's intentions to start a run
    Author,     \* by key, who it belongs to
    Slots,      \* bound: requests under way at once
    MaxGraph,   \* bound: revisions of the pipeline
    MaxRuns     \* bound: accepted runs

ASSUME AdmissionAssumption ==
    MaxGraph \in Nat \ {0} /\ MaxRuns \in Nat /\ None \notin Keys

VARIABLES
    graph,      \* the pipeline's current graphRevision
    runs,       \* the accepted runs, in order
    receipts,   \* by key, the run it was answered with, or 0
    plan,       \* by key, the preflight its client was shown and means
    told,       \* by key, the run its client was told of, or 0
    call        \* the requests under way

vars == <<server, past, host, graph, runs, receipts, plan, told, call>>

Service == <<server, past, host, graph, runs, receipts>>
Clients == <<plan, told>>

-----------------------------------------------------------------------------
(* Vocabulary *)

Graphs == 1 .. MaxGraph
RunIds == 1 .. MaxRuns

\* What the preflight's fingerprint stands for.
Plan == [graph : Graphs, revision : Revisions, node : NodeRefs]

ASSUME AbsentAssumption == None \notin NodeRefs \cup Plan

Run == [plan : Plan, key : Keys, active : BOOLEAN, resumed : BOOLEAN]

\* start: is it a runs.start?  graph, first, conn and found are what was read.
Call == [phase : {"free", "arrived", "graph", "resolve", "status", "observe",
                  "recheck", "accept", "answer"},
         key   : Keys \cup {None},
         start : BOOLEAN,
         graph : {0} \cup Graphs,
         first : {0} \cup Revisions,
         conn  : Connections \cup {None},
         found : NodeRefs \cup {None},
         run   : {0} \cup RunIds]

Free == [phase |-> "free", key |-> None, start |-> FALSE, graph |-> 0,
         first |-> 0, conn |-> None, found |-> None, run |-> 0]

AdmissionTypeOK ==
    /\ ServerTypeOK
    /\ graph \in Graphs
    /\ runs \in Seq(Run) /\ Len(runs) <= MaxRuns
    /\ receipts \in [Keys -> {0} \cup RunIds]
    /\ plan \in [Keys -> Plan \cup {None}]
    /\ told \in [Keys -> {0} \cup RunIds]
    /\ call \in [Slots -> Call]

Init ==
    /\ ServerInit
    /\ graph = 1
    /\ runs = <<>>
    /\ receipts = [k \in Keys |-> 0]
    /\ plan = [k \in Keys |-> None]
    /\ told = [k \in Keys |-> 0]
    /\ call = [q \in Slots |-> Free]

-----------------------------------------------------------------------------
(* Clients *)

\* A preflight for a new intention, or its start, once more if need be.
Send(q, k) ==
    /\ call[q].phase = "free"
    /\ told[k] = 0
    /\ call' = [call EXCEPT ![q] =
                   [Free EXCEPT !.phase = "arrived", !.key = k,
                                !.start = (plan[k] # None)]]
    /\ UNCHANGED <<Service, Clients>>

\* The client hears of its run, or of a plan it did not have.
Answered(q) ==
    LET c == call[q]
    IN  /\ c.phase = "answer"
        /\ IF c.start
           THEN /\ told' = [told EXCEPT ![c.key] = c.run]
                /\ UNCHANGED plan
           ELSE /\ plan' = [plan EXCEPT ![c.key] =
                               IF @ # None THEN @
                               ELSE [graph |-> c.graph, revision |-> c.first,
                                     node |-> c.found]]
                /\ UNCHANGED told
        /\ call' = [call EXCEPT ![q] = Free]
        /\ UNCHANGED Service

\* A request ends without an answer the client gets, at any point: it is
\* refused, given up, or lost with the process.
Lost(q) ==
    /\ call[q].phase # "free"
    /\ call' = [call EXCEPT ![q] = Free]
    /\ UNCHANGED <<Service, Clients>>

-----------------------------------------------------------------------------
(* The service's handling of a request, await by await *)

Goto(q, phase) == call' = [call EXCEPT ![q].phase = phase]

\* A start is answered with its run.
AnswerRun(q, r) ==
    call' = [call EXCEPT ![q] = [Free EXCEPT !.phase = "answer", !.start = TRUE,
                                             !.key = call[q].key, !.run = r]]

\* The receipt is looked up before anything else.
Replay(q) ==
    /\ call[q].phase = "arrived"
    /\ IF call[q].start /\ receipts[call[q].key] # 0
       THEN AnswerRun(q, receipts[call[q].key])
       ELSE Goto(q, "graph")
    /\ UNCHANGED <<Service, Clients>>

\* pipelines.get: a start is refused unless the graph is the one it names.
ReadGraph(q) ==
    /\ call[q].phase = "graph"
    /\ call[q].start => plan[call[q].key].graph = graph
    /\ call' = [call EXCEPT ![q].phase = "resolve", ![q].graph = graph]
    /\ UNCHANGED <<Service, Clients>>

\* servers.resolve: the registration is read,
Resolve(q) ==
    /\ call[q].phase = "resolve"
    /\ ~server.archived
    /\ call' = [call EXCEPT ![q].phase = "status", ![q].first = server.revision]
    /\ UNCHANGED <<Service, Clients>>

\* read again for its connection,
Status(q) ==
    /\ call[q].phase = "status"
    /\ call' = [call EXCEPT ![q].phase = "observe", ![q].conn = Asked]
    /\ UNCHANGED <<Service, Clients>>

\* the host asked,
Observe(q) ==
    /\ call[q].phase = "observe"
    /\ call' = [call EXCEPT ![q].phase = "recheck", ![q].conn = None,
                            ![q].found = Observed(call[q].conn)]
    /\ UNCHANGED <<Service, Clients>>

\* The fingerprint covers graph, registration and node.
Meant(c) == plan[c.key] = [graph |-> c.graph, revision |-> c.first,
                           node |-> c.found]

\* and the registration read a third time.  A preflight is answered with what
\* was found; a start goes on if that is the plan it was sent with.
Recheck(q) ==
    LET c == call[q]
    IN  /\ c.phase = "recheck"
        /\ Stands(c.first)
        /\ c.found # None
        /\ c.start => Meant(c)
        /\ Goto(q, IF c.start THEN "accept" ELSE "answer")
        /\ UNCHANGED <<Service, Clients>>

Fingerprint(q) == [graph |-> call[q].graph, revision |-> call[q].first,
                   node |-> call[q].found]

Duplicate(q) ==
    \E r \in DOMAIN runs : /\ runs[r].active
                           /\ Author[runs[r].key] = Author[call[q].key]
                           /\ runs[r].plan = Fingerprint(q)

\* The receipt is not looked up again inside the transaction.
FaultyAccept(q) ==
    /\ call[q].phase = "accept"
    /\ ~Duplicate(q)
    /\ Len(runs) < MaxRuns
    /\ runs' = Append(runs, [plan |-> Fingerprint(q), key |-> call[q].key,
                             active |-> TRUE, resumed |-> FALSE])
    /\ receipts' = [receipts EXCEPT ![call[q].key] = Len(runs) + 1]
    /\ AnswerRun(q, Len(runs) + 1)
    /\ UNCHANGED <<server, past, host, graph, Clients>>

\* The transaction: the receipt once more, then the duplicate check.
Accept(q) ==
    /\ call[q].phase = "accept"
    /\ IF receipts[call[q].key] # 0
       THEN AnswerRun(q, receipts[call[q].key]) /\ UNCHANGED <<runs, receipts>>
       ELSE /\ ~Duplicate(q)
            /\ Len(runs) < MaxRuns
            /\ runs' = Append(runs, [plan |-> Fingerprint(q),
                                     key |-> call[q].key,
                                     active |-> TRUE, resumed |-> FALSE])
            /\ receipts' = [receipts EXCEPT ![call[q].key] = Len(runs) + 1]
            /\ AnswerRun(q, Len(runs) + 1)
    /\ UNCHANGED <<server, past, host, graph, Clients>>

-----------------------------------------------------------------------------
(* What goes on meanwhile *)

EditGraph ==
    /\ graph < MaxGraph
    /\ graph' = graph + 1
    /\ UNCHANGED <<server, past, host, runs, receipts, Clients, call>>

\* RunCoordinator brings a run to its end; runs.resume opens it again.
EndRun(r) ==
    /\ runs[r].active
    /\ runs' = [runs EXCEPT ![r].active = FALSE]
    /\ UNCHANGED <<server, past, host, graph, receipts, Clients, call>>

Resume(r) ==
    /\ ~runs[r].active
    /\ runs' = [runs EXCEPT ![r].active = TRUE, ![r].resumed = TRUE]
    /\ UNCHANGED <<server, past, host, graph, receipts, Clients, call>>

Servers == ServerNext /\ UNCHANGED <<graph, runs, receipts, Clients, call>>

Next ==
    \/ \E q \in Slots, k \in Keys : Send(q, k)
    \/ \E q \in Slots : \/ Answered(q) \/ Lost(q)
                        \/ Replay(q) \/ ReadGraph(q) \/ Resolve(q) \/ Status(q)
                        \/ Observe(q) \/ Recheck(q) \/ Accept(q)
    \/ EditGraph \/ Servers
    \/ \E r \in DOMAIN runs : EndRun(r) \/ Resume(r)

Spec == Init /\ [][Next]_vars

-----------------------------------------------------------------------------
(* Properties *)

\* A start repeated, overtaken or answered late makes one run: the one its
\* client is told of, of the plan the client was shown.  Two runs of an author
\* work at one plan only if one was resumed.
StartsOnce ==
    /\ \A r, s \in DOMAIN runs : runs[r].key = runs[s].key => r = s
    /\ \A r \in DOMAIN runs : runs[r].plan = plan[runs[r].key]
    /\ \A k \in Keys : told[k] # 0 => told[k] \in DOMAIN runs
                                      /\ runs[told[k]].key = k
    /\ \A r, s \in DOMAIN runs :
          /\ runs[r].active /\ runs[s].active /\ runs[r].plan = runs[s].plan
          /\ Author[runs[r].key] = Author[runs[s].key]
          => r = s \/ runs[r].resumed \/ runs[s].resumed

\* A plan shown to a client, and so a run accepted of it, names a node that was
\* found over the connection that the revision it names gives, whatever was
\* registered while the host was asked.
TargetsTrue ==
    \A k \in Keys : plan[k] # None => plan[k].node[1] = past[plan[k].revision]

=============================================================================
