---------------------------- MODULE PipelineEditor ----------------------------
(* The pipeline editor of the web client (usePipelineDocument.ts,              *)
(* PipelineControls.tsx) working on a pipeline of PipelineControl, while other *)
(* clients write to it: a person who edits on the canvas, saves, undoes and    *)
(* redoes, requests that are under way meanwhile and may get lost, the opening *)
(* of the server's version, from the menu or from the assistant's window, and  *)
(* a poll of it.                                                               *)
EXTENDS PipelineControl

CONSTANTS Me,           \* the actor at the editor
          Clients,      \* the actors who also work through other clients
          Allowed,      \* the edits each actor may want to make
          Moves,        \* the places each actor may want to move nodes to
          MaxWork,      \* bound: what was spent, the editor's writes, stored writes
          MaxPast       \* 50: documents the local undo can go back to

ASSUME EditorAssumption ==
    /\ Me \in Actors /\ Clients \subseteq Actors
    /\ \A u \in Clients \cup {Me} : /\ Allowed[u] \subseteq Edit
                                   /\ Moves[u] \subseteq Nodes \X Places
    /\ MaxWork \in Nat /\ MaxPast \in Nat \ {0}

VARIABLES doc,      \* the document on the canvas
          base,     \* the server's record the editor last applied
          past, future,  \* the local undo and redo stacks
          call,     \* the request under way: what was asked and sent, the answer
          opening,  \* the opening under way: the document it began on, the answer
          poll,     \* a version read by the background poll, not yet handled
          last,     \* the write that was sent last, with its key
          late,     \* writes the editor gave up, still in the network
          spent     \* edits, reads and requests given up so far (for the bound)

canvas == <<doc, past, future>>
vars == <<record, history, redo, receipts, arranged,
          doc, base, past, future, call, opening, poll, last, late, spent>>

EditorInit ==
    /\ Init
    /\ doc = Blank
    /\ base = Created
    /\ past = <<>> /\ future = <<>>
    /\ call = None /\ opening = None /\ poll = None /\ last = None
    /\ late = {} /\ spent = 0

Asked == IF last = None THEN 0 ELSE last.key

WithinBound == Len(receipts) + spent + Asked < MaxWork

Spend == WithinBound /\ spent' = spent + 1

-----------------------------------------------------------------------------
(* Other clients: they read, write with the revisions they have read and, by   *)
(* NoBlindOverwrite, change nothing else; a stale write changes nothing.       *)

Fresh == MaxWork + Len(receipts)

ToolRequest(u, name, body) ==
    [name |-> name, actor |-> u, key |-> Fresh, graphRev |-> record.graphRev,
     layoutRev |-> record.layoutRev, body |-> body]

Moved(d, m) == [d EXCEPT !.places[m[1]] = m[2]]

Movable(d, m) == d.places[m[1]] \notin {m[2], Absent}

ToolWrite(u) ==
    \/ \E e \in Allowed[u] : Accept(ToolRequest(u, "patch", e))
    \/ \E m \in Moves[u] :
         /\ Movable(record.doc, m)
         /\ Accept(ToolRequest(u, "save", [graph |-> None, merge |-> FALSE,
                                           places |-> Moved(record.doc, m).places]))

ToolUndo(u) == \E name \in {"undo", "redo"} : Accept(ToolRequest(u, name, None))

ToolLayout(u) ==
    \/ \E m \in Moves[u] : /\ arranged = {}
                           /\ Movable(record.doc, m)
                           /\ Arrange(ToolRequest(u, "layout", Moved(record.doc, m)))
    \/ \E q \in arranged : q.actor = u /\ (Accept(q) \/ Refuse(q))

Tools ==
    /\ WithinBound
    /\ \E u \in Clients : ToolWrite(u) \/ ToolUndo(u) \/ ToolLayout(u)
    /\ UNCHANGED <<doc, base, past, future, call, opening, poll, last, late, spent>>

-----------------------------------------------------------------------------
(* The canvas *)

FaultyKept(stack, d) == Append(stack, d)
Kept(stack, d) == Append(IF Len(stack) >= MaxPast THEN Tail(stack) ELSE stack, d)

\* recordChange: a change can be undone, and ends what could be redone.
RecordChange(d) ==
    /\ doc' = d
    /\ past' = IF d = doc THEN past ELSE Kept(past, doc)
    /\ future' = IF d = doc THEN future ELSE <<>>

Elsewhere == UNCHANGED service /\ UNCHANGED <<base, call, opening, poll, last, late>>

EditCanvas ==
    /\ Spend
    /\ \/ \E e \in Allowed[Me] : /\ Applies(e, doc) /\ Edited(e, doc) # doc
                                 /\ Valid(Edited(e, doc))
                                 /\ RecordChange(Edited(e, doc))
       \/ \E m \in Moves[Me] : Movable(doc, m) /\ RecordChange(Moved(doc, m))
    /\ Elsewhere

UndoLocal ==
    /\ past # <<>>
    /\ doc' = Last(past) /\ past' = Front(past) /\ future' = Kept(future, doc)
    /\ Elsewhere /\ UNCHANGED spent

RedoLocal ==
    /\ future # <<>>
    /\ doc' = Last(future) /\ future' = Front(future) /\ past' = Kept(past, doc)
    /\ Elsewhere /\ UNCHANGED spent

\* rebaseHistory: the local steps, from the latest back, as long as each is
\* independent of what the server's document has changed.
Rebasable(from, to, current) ==
    /\ Independent(from.graph, to.graph, current.graph)
    /\ \A n \in Changed(from.places, to.places) :
         current.places[n] \in {from.places[n], to.places[n]}

Rebased(stack, d, remote) ==
    LET N == Len(stack)
        Step(k) == IF k = 0 THEN d ELSE stack[N + 1 - k]
        on[k \in 0..N] ==
            IF k = 0 THEN remote
            ELSE IF on[k-1] = None \/ ~Rebasable(Step(k-1), Step(k), on[k-1]) THEN None
            ELSE MergedDocument(Step(k-1), Step(k), on[k-1])
        kept == Cardinality({k \in 1..N : on[k] # None})
    IN  [i \in 1..kept |-> on[kept + 1 - i]]

\* loadServerDocument
Load(d) ==
    /\ doc' = d
    /\ past' = Rebased(past, doc, d)
    /\ future' = Rebased(future, doc, d)

-----------------------------------------------------------------------------
(* Requests of the editor, one at a time *)

\* A write repeated unchanged keeps its key, any other gets a new one.
KeyFor(name, body) ==
    IF last # None /\ last.name = name /\ last.body = body
       /\ last.graphRev = base.graphRev /\ last.layoutRev = base.layoutRev
    THEN last.key ELSE Asked + 1

Ask(name, body) ==
    LET q == [name |-> name, actor |-> Me, key |-> KeyFor(name, body),
              graphRev |-> base.graphRev, layoutRev |-> base.layoutRev, body |-> body]
    IN  /\ call = None
        /\ WithinBound \/ q.key = Asked
        /\ call' = [request |-> q, sent |-> doc, answer |-> None]
        /\ last' = q
        /\ UNCHANGED service /\ UNCHANGED canvas
        /\ UNCHANGED <<base, opening, poll, late, spent>>

AskSave ==
    Ask("save", [graph |-> IF doc.graph = base.doc.graph THEN None ELSE doc.graph,
                 places |-> IF doc.places = base.doc.places THEN None ELSE doc.places,
                 merge |-> TRUE])

\* Only where nothing local is unsaved.
AskUndo == \E name \in {"undo", "redo"} : doc = base.doc /\ Ask(name, None)

Unanswered == call # None /\ call.answer = None

Answering(answer) ==
    /\ call' = [call EXCEPT !.answer = answer]
    /\ UNCHANGED canvas /\ UNCHANGED <<base, opening, poll, last, late, spent>>

Deliver ==
    /\ Unanswered
    /\ \/ Accept(call.request) /\ Answering(record')
       \/ \E i \in DOMAIN receipts : /\ Replay(call.request, receipts[i].result)
                                     /\ Answering(receipts[i].result)

Quiet == call' = None /\ UNCHANGED canvas /\ UNCHANGED <<base, opening, poll, last>>

\* The request is refused, or the editor gives it up: before it has arrived,
\* or after it was executed.
Fail ==
    /\ call # None
    /\ \/ UNCHANGED <<late, spent>>
       \/ /\ Unanswered
          /\ late' = late \cup {call.request}
          /\ Spend
    /\ Quiet /\ UNCHANGED service

DeliverLate ==
    \E q \in late :
        /\ late' = late \ {q}
        /\ Accept(q) \/ Refuse(q)
        /\ UNCHANGED canvas /\ UNCHANGED <<base, call, opening, poll, last, spent>>

Answered(name) == call # None /\ call.answer # None /\ call.request.name \in name

\* A new base restarts the poll.
Based(r) == base' = r /\ poll' = None /\ UNCHANGED <<last, late, spent>>
Concluded(r) == Based(r) /\ call' = None /\ UNCHANGED opening

\* mergeSaveAcknowledgement: of graph and layout, what was not edited since the
\* request is taken from the answer.
FaultyAcknowledged(sent, d, ack) == ack
Acknowledged(sent, d, ack) ==
    [graph  |-> IF d.graph = sent.graph THEN ack.graph ELSE d.graph,
     places |-> IF d.places = sent.places THEN ack.places ELSE d.places]

SaveAnswered ==
    /\ Answered({"save"})
    /\ LET merged == Acknowledged(call.sent, doc, call.answer.doc)
       IN  \/ doc = call.sent /\ Load(call.answer.doc) /\ Concluded(call.answer)
           \/ /\ doc # call.sent /\ Valid(merged)
              /\ RecordChange(merged) /\ Concluded(call.answer)
           \/ doc # call.sent /\ ~Valid(merged) /\ Quiet /\ UNCHANGED <<late, spent>>
    /\ UNCHANGED service

UndoAnswered ==
    /\ Answered({"undo", "redo"})
    /\ Concluded(call.answer)
    /\ IF doc = call.sent THEN Load(call.answer.doc) ELSE UNCHANGED canvas
    /\ UNCHANGED service

-----------------------------------------------------------------------------
(* openServerPipeline: a read beside whatever else is under way, since only    *)
(* the menu's openings wait for the other requests, not the assistant's.  Of   *)
(* several openings at most one is applied: it replaces the canvas the others  *)
(* began on.  So one at a time is followed.                                    *)

AskOpen ==
    /\ opening = None
    /\ opening' = [sent |-> doc, answer |-> None]
    /\ Spend
    /\ UNCHANGED service /\ UNCHANGED canvas /\ UNCHANGED <<base, call, poll, last, late>>

OpenRead ==
    /\ opening # None /\ opening.answer = None
    /\ opening' = [opening EXCEPT !.answer = record]
    /\ UNCHANGED service /\ UNCHANGED canvas
    /\ UNCHANGED <<base, call, poll, last, late, spent>>

\* The canvas is replaced only where it is still what the opening began on (by
\* identity in the code); the person confirms that unsaved edits go.
OpenAnswered ==
    /\ opening # None /\ opening.answer # None
    /\ doc = opening.sent
    /\ Load(opening.answer.doc) /\ Based(opening.answer)
    /\ opening' = None
    /\ UNCHANGED service /\ UNCHANGED call

\* The read fails, the canvas was edited meanwhile, or the person declines.
OpenDropped ==
    /\ opening # None /\ opening' = None
    /\ UNCHANGED service /\ UNCHANGED canvas
    /\ UNCHANGED <<base, call, poll, last, late, spent>>

-----------------------------------------------------------------------------
(* The poll *)

PollRead ==
    /\ poll = None /\ call = None
    /\ <<record.graphRev, record.layoutRev>> # <<base.graphRev, base.layoutRev>>
    /\ poll' = record
    /\ UNCHANGED service /\ UNCHANGED canvas
    /\ UNCHANGED <<base, call, opening, last, late, spent>>

\* Applied only to a canvas without edits of its own, and while no request of
\* the menu is under way; else at most a notice.
PollAnswered ==
    /\ poll # None /\ poll' = None
    /\ \/ /\ call = None /\ doc = base.doc
          /\ Load(poll.doc) /\ base' = poll
       \/ /\ call # None \/ opening # None \/ doc # base.doc
          /\ UNCHANGED canvas /\ UNCHANGED base
    /\ UNCHANGED service /\ UNCHANGED <<call, opening, last, late, spent>>

-----------------------------------------------------------------------------

Person == EditCanvas \/ UndoLocal \/ RedoLocal \/ AskSave \/ AskUndo \/ AskOpen

Network == Deliver \/ Fail \/ DeliverLate \/ OpenRead \/ OpenDropped

Answers == SaveAnswered \/ UndoAnswered \/ OpenAnswered
           \/ PollRead \/ PollAnswered

EditorNext == Tools \/ Person \/ Network \/ Answers

EditorSpec == EditorInit /\ [][EditorNext]_vars

-----------------------------------------------------------------------------
(* Properties *)

\* Types; whatever the editor holds of the server was once stored there, so
\* that its revisions name it.
EditorTypeOK ==
    /\ PipelineTypeOK
    /\ doc \in Document
    /\ base \in Records
    /\ \A stack \in {past, future} : stack \in Seq(Document) /\ Len(stack) <= MaxPast
    /\ \A asked \in {call, opening} \ {None} :
         asked.sent \in Document /\ asked.answer \in Records \cup {None}
    /\ poll \in Records \cup {None}
    /\ late \subseteq Request

\* An answer changes on the canvas only what the person has not edited since
\* what it answers was asked, or since the base when it comes from the poll.
LocalEditsKept ==
    [][LET before == IF call' # call THEN call.sent
                     ELSE IF opening' # opening THEN opening.sent ELSE base.doc
       IN  base' # base =>
             /\ \A n \in Changed(doc.graph.nodes, doc'.graph.nodes) :
                  doc.graph.nodes[n] = before.graph.nodes[n]
             /\ doc'.graph.edges # doc.graph.edges => doc.graph.edges = before.graph.edges
             /\ \A n \in Changed(doc.places, doc'.places) :
                  doc.places[n] = before.places[n]]_vars

\* "Independent node edits are merged; a conflict ... is refused, not
\* overwritten" (docs/distributed-control.md:13): where each actor writes values
\* of its own, a save replaces the value of another only by one of its author.
Own(u, value) == \E e \in Allowed[u] : e.op = "update" /\ e.value = value

CollaboratorsKept ==
    [][\A n \in Nodes :
         LET q == receipts'[Len(receipts')].request
             old == record.doc.graph.nodes[n]
             new == record'.doc.graph.nodes[n]
         IN  old # new /\ q.name = "save" => Own(q.actor, old) \/ Own(q.actor, new)]_vars
=============================================================================
