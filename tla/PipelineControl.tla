--------------------------- MODULE PipelineControl ---------------------------
(* The pipeline service (packages/pipeline-control) and one pipeline of a      *)
(* workspace: a document with a graph and a layout, each with its revision,    *)
(* the history of its changes, the redo stack and the receipts. Every command  *)
(* is one transaction; the automatic layout computes before it.                *)
(*                                                                             *)
(* A document has a value per node (its label and settings), its edges and a   *)
(* place per node. The order of arrays, the name, the type catalog and the     *)
(* permissions are left out; a patch makes one edit.                           *)
EXTENDS Integers, FiniteSets, SequencesExt

CONSTANTS Nodes, Values, Places,
          Wires,          \* the edges the ports of the nodes allow
          Actors, Creator,
          Blank,          \* the document the pipeline was created with
          Absent, None,
          MaxReceipts,    \* 1000: then the store takes no more writes
          MaxRedo         \* 50: redo entries of an actor

ASSUME PipelineAssumption ==
    /\ Creator \in Actors
    /\ Wires \subseteq Nodes \X Nodes
    /\ Absent \notin Values \cup Places
    /\ MaxReceipts \in Nat /\ MaxRedo \in Nat \ {0}

VARIABLES record,     \* the stored record
          history,    \* history entries; an entry's id is its index
          redo,       \* redo entries
          receipts,   \* receipts of the writes, the oldest first
          arranged    \* layouts computed and not yet stored

service == <<record, history, redo, receipts, arranged>>

Graph == [nodes : [Nodes -> Values \cup {Absent}], edges : SUBSET Wires]
Layout == [Nodes -> Places \cup {Absent}]
Document == [graph : Graph, places : Layout]

Record == [doc : Document, graphRev : Nat, layoutRev : Nat]

\* parsePipeline: an edge joins nodes of the document, and exactly the nodes of
\* the document have a place.
Valid(doc) ==
    /\ \A e \in doc.graph.edges : \A n \in {e[1], e[2]} : doc.graph.nodes[n] # Absent
    /\ \A n \in Nodes : doc.graph.nodes[n] = Absent <=> doc.places[n] = Absent

ASSUME BlankAssumption == Blank \in Document /\ Valid(Blank)

Edit == [op : {"add"}, node : Nodes, value : Values, place : Places]
        \cup [op : {"update"}, node : Nodes, value : Values]
        \cup [op : {"remove"}, node : Nodes]
        \cup [op : {"connect", "disconnect"}, wire : Wires]

Save == [graph : Graph \cup {None}, places : Layout \cup {None}, merge : BOOLEAN]

\* What a client sends: the revisions its author has seen, and a key that
\* names the write.
RequestOf(name, body) ==
    [name : {name}, actor : Actors, key : Nat, graphRev : Nat, layoutRev : Nat,
     body : body]

Request == RequestOf("save", Save) \cup RequestOf("patch", Edit)
           \cup RequestOf("layout", Document)
           \cup RequestOf("undo", {None}) \cup RequestOf("redo", {None})

HistoryEntry == [actor : Actors, command : {"create", "save", "patch", "layout",
                                            "undo", "redo"},
                 before : Record \cup {None}, undone : BOOLEAN]

RedoEntry == [actor : Actors, document : Document, undoneDocument : Document,
              target : Nat]

Receipt == [request : Request, result : Record]

Created == [doc |-> Blank, graphRev |-> 1, layoutRev |-> 1]

Init ==
    /\ record = Created
    /\ history = <<[actor |-> Creator, command |-> "create",
                     before |-> None, undone |-> FALSE]>>
    /\ redo = <<>>
    /\ receipts = <<>>
    /\ arranged = {}

-----------------------------------------------------------------------------
(* The three-way merge *)

Incident(g, n) == {e \in g.edges : n \in {e[1], e[2]}}

Changed(f, g) == {n \in Nodes : f[n] # g[n]}

\* The edits that lead from base to incoming do not touch what the edits that
\* lead from base to current have changed, or agree with them.
Independent(base, incoming, current) ==
    /\ \A n \in Changed(base.nodes, incoming.nodes) :
         /\ current.nodes[n] \in {base.nodes[n], incoming.nodes[n]}
         /\ Incident(base, n) = Incident(current, n)
    /\ base.edges # incoming.edges =>
         /\ current.edges \in {base.edges, incoming.edges}
         /\ \A e \in (base.edges \ incoming.edges) \cup (incoming.edges \ base.edges) :
              \A n \in {e[1], e[2]} : base.nodes[n] = current.nodes[n]

\* mergeIndependentGraph, where the edits are independent.
MergedGraph(base, incoming, current) ==
    [nodes |-> [n \in Nodes |-> IF base.nodes[n] # incoming.nodes[n]
                                THEN incoming.nodes[n] ELSE current.nodes[n]],
     edges |-> IF base.edges # incoming.edges THEN incoming.edges ELSE current.edges]

MergedLayout(base, incoming, current) ==
    [n \in Nodes |-> IF base[n] # incoming[n] THEN incoming[n] ELSE current[n]]

\* A whole document; a place moved since is never overwritten.
Mergeable(base, incoming, current) ==
    /\ Independent(base.graph, incoming.graph, current.graph)
    /\ \A n \in Changed(base.places, incoming.places) : current.places[n] = base.places[n]

MergedDocument(base, incoming, current) ==
    [graph  |-> MergedGraph(base.graph, incoming.graph, current.graph),
     places |-> MergedLayout(base.places, incoming.places, current.places)]

-----------------------------------------------------------------------------
(* Commands *)

\* The revisions of the request are the current ones.
UpToDate(q, graph, layout) ==
    /\ graph => record.graphRev = q.graphRev
    /\ layout => record.layoutRev = q.layoutRev

Bump(same) == IF same THEN 0 ELSE 1

\* A change that is neither undo nor redo empties the redo stack.
FaultyStanding(q, doc, redos) == redos
Standing(q, doc, redos) ==
    IF doc # record.doc /\ q.name \notin {"undo", "redo"} THEN <<>> ELSE redos

\* The end of every write: revisions grow with what has changed, a change gets
\* a history entry, the receipt is kept.
RecordOf(doc) ==
    [doc |-> doc, graphRev |-> record.graphRev + Bump(record.doc.graph = doc.graph),
     layoutRev |-> record.layoutRev + Bump(record.doc.places = doc.places)]

Commit(q, doc, past, redos) ==
    LET next == RecordOf(doc)
    IN  /\ Valid(doc)
        /\ record' = next
        /\ history' = IF doc # record.doc
                      THEN Append(past, [actor |-> q.actor, command |-> q.name,
                                         before |-> record, undone |-> FALSE])
                      ELSE past
        /\ redo' = Standing(q, doc, redos)
        /\ receipts' = Append(receipts, [request |-> q, result |-> next])
        /\ arranged' = arranged \ {q}

\* The last entry from before a change of that graph revision.
At(rev) == {i \in DOMAIN history : /\ history[i].before # None
                                   /\ history[i].before.graphRev = rev}

FaultyBaseline(rev) == record.doc.graph
Baseline(rev) == history[Max(At(rev))].before.doc.graph

\* A graph of an older revision is merged when the client asks for that.
Stale(q) == /\ q.body.graph # None /\ q.body.merge
            /\ q.graphRev # record.graphRev

SaveGraph(q) ==
    IF q.body.graph = None THEN record.doc.graph
    ELSE IF Stale(q)
    THEN MergedGraph(Baseline(q.graphRev), q.body.graph, record.doc.graph)
    ELSE q.body.graph

SaveDocument(q) ==
    /\ q.name = "save"
    /\ IF Stale(q)
       THEN /\ At(q.graphRev) # {}
            /\ Independent(Baseline(q.graphRev), q.body.graph, record.doc.graph)
            /\ UpToDate(q, FALSE, q.body.places # None)
       ELSE UpToDate(q, q.body.graph # None, q.body.places # None)
    /\ Commit(q, [graph |-> SaveGraph(q),
                  places |-> IF q.body.places = None THEN record.doc.places
                             ELSE q.body.places], history, redo)

\* An edit applies to a document that has, or has not, what it names.
Applies(e, doc) ==
    LET nodes == doc.graph.nodes
    IN  CASE e.op = "add"        -> nodes[e.node] = Absent
          [] e.op = "update"     -> nodes[e.node] # Absent
          [] e.op = "remove"     -> nodes[e.node] # Absent
          [] e.op = "connect"    -> e.wire \notin doc.graph.edges
          [] e.op = "disconnect" -> e.wire \in doc.graph.edges

Edited(e, doc) ==
    CASE e.op = "add"        -> [doc EXCEPT !.graph.nodes[e.node] = e.value,
                                            !.places[e.node] = e.place]
      [] e.op = "update"     -> [doc EXCEPT !.graph.nodes[e.node] = e.value]
      [] e.op = "remove"     -> [graph |-> [nodes |-> [doc.graph.nodes EXCEPT ![e.node] = Absent],
                                            edges |-> doc.graph.edges
                                                        \ Incident(doc.graph, e.node)],
                                 places |-> [doc.places EXCEPT ![e.node] = Absent]]
      [] e.op = "connect"    -> [doc EXCEPT !.graph.edges = @ \cup {e.wire}]
      [] e.op = "disconnect" -> [doc EXCEPT !.graph.edges = @ \ {e.wire}]

Patch(q) ==
    /\ q.name = "patch"
    /\ UpToDate(q, TRUE, q.body.op \in {"add", "remove"})
    /\ Applies(q.body, record.doc)
    /\ Commit(q, Edited(q.body, record.doc), history, redo)

\* The layout is computed from a document read before the transaction; both
\* revisions are checked before and in it.
Arrange(q) ==
    /\ q.name = "layout"
    /\ UpToDate(q, TRUE, TRUE)
    /\ q.body.graph = record.doc.graph /\ Valid(q.body)
    /\ arranged' = arranged \cup {q}
    /\ UNCHANGED <<record, history, redo, receipts>>

LayoutDocument(q) ==
    /\ q \in arranged
    /\ UpToDate(q, TRUE, TRUE)
    /\ Commit(q, q.body, history, redo)

\* What an actor may undo: changes that are neither undo nor redo.
Undoable(u) ==
    {i \in DOMAIN history : /\ history[i].actor = u /\ ~history[i].undone
                            /\ history[i].command \notin {"undo", "redo"}}

\* The document a change has left behind.
FaultyAfter(i) == record.doc
After(i) == IF i < Len(history) THEN history[i + 1].before.doc ELSE record.doc

Mine(u) == {i \in DOMAIN redo : redo[i].actor = u}

\* At most MaxRedo entries of an actor are kept; the oldest gives way.
Pushed(entry) ==
    LET mine == Mine(entry.actor)
        kept == IF Cardinality(mine) >= MaxRedo THEN RemoveAt(redo, Min(mine)) ELSE redo
    IN  Append(kept, entry)

\* pipelines.undo: the inverse of the actor's last change that is not undone,
\* merged into the current document.
UndoChange(q) ==
    /\ q.name = "undo"
    /\ UpToDate(q, TRUE, TRUE)
    /\ Undoable(q.actor) # {}
    /\ LET last == Max(Undoable(q.actor))
           before == history[last].before
           doc == MergedDocument(After(last), before.doc, record.doc)
       IN  /\ before # None
           /\ Mergeable(After(last), before.doc, record.doc)
           /\ Commit(q, doc, [history EXCEPT ![last].undone = TRUE],
                     Pushed([actor |-> q.actor, document |-> record.doc,
                             undoneDocument |-> doc, target |-> last]))

\* pipelines.redo: the actor's last undo, taken back the same way.
RedoChange(q) ==
    /\ q.name = "redo"
    /\ UpToDate(q, TRUE, TRUE)
    /\ Mine(q.actor) # {}
    /\ LET index == Max(Mine(q.actor))
           entry == redo[index]
       IN  /\ history[entry.target].undone
           /\ history[entry.target].actor = q.actor
           /\ Mergeable(entry.undoneDocument, entry.document, record.doc)
           /\ Commit(q, MergedDocument(entry.undoneDocument, entry.document, record.doc),
                     [history EXCEPT ![entry.target].undone = FALSE],
                     RemoveAt(redo, index))

-----------------------------------------------------------------------------
(* Requests *)

FaultyReplays(q) == {}
Replays(q) == {i \in DOMAIN receipts : /\ receipts[i].request.key = q.key
                                       /\ receipts[i].request.actor = q.actor}

\* A write happens once per key; a repetition is answered from its receipt.
Accept(q) ==
    /\ Replays(q) = {}
    /\ Len(receipts) < MaxReceipts
    /\ \/ SaveDocument(q) \/ Patch(q) \/ LayoutDocument(q)
       \/ UndoChange(q) \/ RedoChange(q)

Replay(q, result) ==
    /\ \E i \in Replays(q) : /\ receipts[i].request = q
                             /\ receipts[i].result = result
    /\ UNCHANGED service

\* A request is refused, for a reason of its own or because the store is busy;
\* a layout is forgotten with it.
Refuse(q) ==
    /\ arranged' = arranged \ {q}
    /\ UNCHANGED <<record, history, redo, receipts>>

Next == \E q \in Request : Accept(q) \/ Arrange(q) \/ Refuse(q)

Spec == Init /\ [][Next]_service

-----------------------------------------------------------------------------
(* Properties *)

PipelineTypeOK ==
    /\ record \in Record
    /\ history \in Seq(HistoryEntry)
    /\ redo \in Seq(RedoEntry)
    /\ receipts \in Seq(Receipt)
    /\ arranged \in SUBSET Request

\* Everything that was ever stored and is still known somewhere.
Records == {record} \cup {history[i].before : i \in DOMAIN history \ {1}}
                    \cup {receipts[i].result : i \in DOMAIN receipts}

\* A revision names one content: two records with the same graph revision have
\* the same graph, with the same layout revision the same places. Every check
\* of an expected revision and every baseline of a merge relies on it.
RevisionNames ==
    \A r, s \in Records :
        /\ r.graphRev = s.graphRev => r.doc.graph = s.doc.graph
        /\ r.layoutRev = s.layoutRev => r.doc.places = s.doc.places

\* A redo entry stands for one undone change of its actor, and those of an
\* actor lie in the order in which their redo is possible: the last undone on
\* top, the changes going back in time.
RedoMatches ==
    \A i \in DOMAIN redo :
        /\ redo[i].target \in DOMAIN history
        /\ history[redo[i].target].undone
        /\ history[redo[i].target].actor = redo[i].actor
        /\ \A j \in DOMAIN redo :
             i < j /\ redo[j].actor = redo[i].actor => redo[j].target < redo[i].target

HistorySound == RevisionNames /\ RedoMatches

\* The write that a step has accepted.
Accepted(q) == Len(receipts') > Len(receipts) /\ receipts'[Len(receipts')].request = q

\* It was accepted before, under the same key of the same actor.
Repeated(q) == \E i \in DOMAIN receipts : /\ receipts[i].request.actor = q.actor
                                          /\ receipts[i].request.key = q.key

\* What a write replaces is what its author has seen: whatever it changes, in
\* graph or layout, is as it was at the revisions the author refers to, however
\* long the request was under way and whatever was stored meanwhile.  And it is
\* applied once, however often it was sent.
NoBlindOverwrite ==
    [][\A q \in {receipts'[i].request : i \in DOMAIN receipts'} : Accepted(q) =>
        /\ ~Repeated(q)
        /\ \A r \in Records :
             /\ r.graphRev = q.graphRev =>
                  \A n \in Changed(record.doc.graph.nodes, record'.doc.graph.nodes) :
                    r.doc.graph.nodes[n] = record.doc.graph.nodes[n]
             /\ r.graphRev = q.graphRev /\ record'.doc.graph.edges # record.doc.graph.edges
                  => r.doc.graph.edges = record.doc.graph.edges
             /\ r.layoutRev = q.layoutRev =>
                  \A n \in Changed(record.doc.places, record'.doc.places) :
                    r.doc.places[n] = record.doc.places[n]]_service

\* An undo takes back what its actor's change did and a redo what the undo did,
\* node by node; what others have changed besides stays.
UndoOwn ==
    [][\A i \in DOMAIN history : history'[i].undone # history[i].undone =>
        LET before == history[i].before.doc
            from == IF history'[i].undone THEN After(i) ELSE before
            to   == IF history'[i].undone THEN before ELSE After(i)
        IN  /\ \A n \in Changed(record.doc.graph.nodes, record'.doc.graph.nodes) :
                 /\ record.doc.graph.nodes[n] = from.graph.nodes[n]
                 /\ record'.doc.graph.nodes[n] = to.graph.nodes[n]
            /\ \A n \in Changed(record.doc.places, record'.doc.places) :
                 /\ record.doc.places[n] = from.places[n]
                 /\ record'.doc.places[n] = to.places[n]]_service
=============================================================================
