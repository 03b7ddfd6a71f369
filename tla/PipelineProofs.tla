---------------------------- MODULE PipelineProofs ----------------------------
(* Theorems about PipelineControl, for any documents, actors and bounds.      *)
EXTENDS PipelineControl, FiniteSetTheorems, SequenceTheorems, WellFoundedInduction, TLAPS

-----------------------------------------------------------------------------
(* Sequences and their indices *)

\* A set of natural numbers that is not empty has a least element.
LEMMA LeastNatural ==
    ASSUME NEW S \in SUBSET Nat, S # {}
    PROVE  \E x \in S : \A y \in S : x <= y
<1>1. PICK x \in S : \A y \in S : ~(<<y, x>> \in OpToRel(<, Nat))
  BY NatLessThanWellFounded, WFMin
<1>2. \A y \in S : <<y, x>> \in OpToRel(<, Nat) <=> y < x
  BY DEF OpToRel
<1>3. \A y \in S : ~(y < x)
  BY <1>1, <1>2
<1> QED BY <1>3

\* Min yields the least element of a set of natural numbers.
LEMMA MinLeast ==
    ASSUME NEW S \in SUBSET Nat, S # {}
    PROVE  Min(S) \in S /\ \A y \in S : Min(S) <= y
BY LeastNatural DEF Min

\* Max yields the greatest index of a set of indices.
LEMMA MaxGreatest ==
    ASSUME NEW n \in Nat, NEW S \in SUBSET (1..n), S # {}
    PROVE  Max(S) \in S /\ \A y \in S : y <= Max(S)
<1> DEFINE T == {n - x : x \in S}
<1>1. \A x \in S : x \in 1..n /\ n - x \in Nat
  OBVIOUS
<1>2. T \in SUBSET Nat /\ T # {}
  BY <1>1
<1>3. PICK t \in T : \A u \in T : t <= u
  BY <1>2, LeastNatural
<1>4. PICK x \in S : t = n - x
  OBVIOUS
<1>5. \A y \in S : n - x <= n - y
  BY <1>3, <1>4
<1>6. \A y \in S : y <= x
  BY <1>1, <1>5
<1> QED BY <1>6 DEF Max

\* RemoveAt takes one element out and keeps the order of the others.
LEMMA RemoveAtKeeps ==
    ASSUME NEW S, NEW s \in Seq(S), NEW i \in 1..Len(s)
    PROVE  /\ RemoveAt(s, i) \in Seq(S)
           /\ Len(RemoveAt(s, i)) = Len(s) - 1
           /\ \A j \in 1..(Len(s) - 1) :
                RemoveAt(s, i)[j] = IF j < i THEN s[j] ELSE s[j + 1]
<1> DEFINE a == SubSeq(s, 1, i-1)
           b == SubSeq(s, i+1, Len(s))
<1>1. a \in Seq(S) /\ Len(a) = i - 1 /\ \A j \in 1..(i - 1) : a[j] = s[j]
  BY SubSeqProperties
<1>2. b \in Seq(S) /\ Len(b) = Len(s) - i /\ \A j \in 1..(Len(s) - i) : b[j] = s[i + j]
  BY SubSeqProperties
<1>3. RemoveAt(s, i) = a \o b
  BY DEF RemoveAt
<1> HIDE DEF a, b
<1>4. /\ a \o b \in Seq(S) /\ Len(a \o b) = Len(a) + Len(b)
      /\ \A j \in 1..(Len(a) + Len(b)) :
           (a \o b)[j] = IF j <= Len(a) THEN a[j] ELSE b[j - Len(a)]
  BY <1>1, <1>2, ConcatProperties
<1>5. Len(s) \in Nat /\ i \in Nat /\ Len(a) + Len(b) = Len(s) - 1
  BY <1>1, <1>2
<1>6. ASSUME NEW j \in 1..(Len(s) - 1)
      PROVE  (a \o b)[j] = IF j < i THEN s[j] ELSE s[j + 1]
  <2>1. CASE j < i
    BY <1>1, <1>4, <1>5, <2>1
  <2>2. CASE ~(j < i)
    <3> DEFINE l == j - (i - 1)
    <3>1. l \in 1..(Len(s) - i) /\ i + l = j + 1
      BY <1>5, <2>2
    <3>2. (a \o b)[j] = b[l]
      BY <1>1, <1>4, <1>5, <2>2
    <3> HIDE DEF l
    <3>3. b[l] = s[i + l]
      BY <1>2, <3>1
    <3> QED BY <2>2, <3>1, <3>2, <3>3
  <2> QED BY <2>1, <2>2
<1> QED BY <1>3, <1>4, <1>5, <1>6
-----------------------------------------------------------------------------
(* The inductive invariant *)

\* The history begins with the creation, every later entry with a record.
Told == /\ 1 \in DOMAIN history
        /\ history[1].before = None
        /\ \A i \in DOMAIN history \ {1} : history[i].before \in Record
        /\ \A q \in arranged : q.name = "layout"

\* Revisions only grow, and grow with every change.
Latest ==
    \A r \in Records :
        /\ r \in Record
        /\ r.graphRev <= record.graphRev /\ r.layoutRev <= record.layoutRev
        /\ r.graphRev = record.graphRev => r.doc.graph = record.doc.graph
        /\ r.layoutRev = record.layoutRev => r.doc.places = record.doc.places

\* Where a redo entry would change something it takes back what the undo did,
\* as the documents before and after the change that was undone have it.
TakesBack(entry) ==
    LET before == history[entry.target].before.doc
        after  == After(entry.target)
    IN  /\ \A n \in Changed(entry.undoneDocument.graph.nodes, entry.document.graph.nodes) :
             /\ entry.undoneDocument.graph.nodes[n] = before.graph.nodes[n]
             /\ entry.document.graph.nodes[n] = after.graph.nodes[n]
        /\ \A n \in Changed(entry.undoneDocument.places, entry.document.places) :
             /\ entry.undoneDocument.places[n] = before.places[n]
             /\ entry.document.places[n] = after.places[n]

\* The changes an actor may undo are older than those it may redo.
Stacked ==
    \A i \in DOMAIN redo :
        /\ redo[i].target # 1
        /\ \A x \in Undoable(redo[i].actor) : x < redo[i].target
        /\ TakesBack(redo[i])

IInv == PipelineTypeOK /\ Told /\ Latest /\ HistorySound /\ Stacked

-----------------------------------------------------------------------------
(* Types of the operators *)

\* What a request of each name carries.
LEMMA RequestTyped ==
    ASSUME NEW q \in Request
    PROVE  /\ q.actor \in Actors /\ q.graphRev \in Nat /\ q.layoutRev \in Nat
           /\ q.name \in {"save", "patch", "layout", "undo", "redo"}
           /\ q.name = "save" => q.body \in Save
           /\ q.name = "patch" => q.body \in Edit
           /\ q.name = "layout" => q.body \in Document
BY DEF Request, RequestOf

\* A merge of graphs is a graph.
LEMMA MergedGraphTyped ==
    ASSUME NEW a \in Graph, NEW b \in Graph, NEW c \in Graph
    PROVE  MergedGraph(a, b, c) \in Graph
BY DEF MergedGraph, Graph

\* A merge of documents is a document.
LEMMA MergedTyped ==
    ASSUME NEW a \in Document, NEW b \in Document, NEW c \in Document
    PROVE  MergedDocument(a, b, c) \in Document
<1>1. MergedGraph(a.graph, b.graph, c.graph) \in Graph
  BY MergedGraphTyped DEF Document
<1>2. MergedLayout(a.places, b.places, c.places) \in Layout
  BY DEF MergedLayout, Document, Layout
<1> QED BY <1>1, <1>2 DEF MergedDocument, Document

\* An edited document is a document.
LEMMA EditedTyped ==
    ASSUME NEW e \in Edit, NEW d \in Document
    PROVE  Edited(e, d) \in Document
<1>1. d.graph \in Graph /\ d.places \in Layout
  BY DEF Document
<1>2. d.graph.nodes \in [Nodes -> Values \cup {Absent}] /\ d.graph.edges \in SUBSET Wires
  BY <1>1 DEF Graph
<1>3. CASE e.op = "add"
  <2>1. e.node \in Nodes /\ e.value \in Values /\ e.place \in Places
    BY <1>3 DEF Edit
  <2> QED BY <1>2, <1>3, <2>1 DEF Edited, Document, Graph, Layout
<1>4. CASE e.op = "update"
  <2>1. e.node \in Nodes /\ e.value \in Values
    BY <1>4 DEF Edit
  <2> QED BY <1>2, <1>4, <2>1 DEF Edited, Document, Graph, Layout
<1>5. CASE e.op = "remove"
  <2>1. e.node \in Nodes
    BY <1>5 DEF Edit
  <2> QED BY <1>1, <1>2, <1>5, <2>1 DEF Edited, Document, Graph, Layout
<1>6. CASE e.op \in {"connect", "disconnect"}
  <2>1. e.wire \in Wires
    BY <1>6 DEF Edit
  <2> QED BY <1>2, <1>6, <2>1 DEF Edited, Document, Graph, Layout
<1> QED BY <1>3, <1>4, <1>5, <1>6 DEF Edit

\* The next record: a revision stays only with its content.
LEMMA NextRecord ==
    ASSUME record \in Record, NEW d \in Document
    PROVE  LET r == RecordOf(d) IN
           /\ r \in Record /\ r.doc = d
           /\ record.graphRev <= r.graphRev /\ record.layoutRev <= r.layoutRev
           /\ r.graphRev = record.graphRev => d.graph = record.doc.graph
           /\ d.graph = record.doc.graph => r.graphRev = record.graphRev
           /\ r.layoutRev = record.layoutRev => d.places = record.doc.places
           /\ d.places = record.doc.places => r.layoutRev = record.layoutRev
BY DEF RecordOf, Bump, Record

-----------------------------------------------------------------------------
(* A write *)

\* What a write makes of the history it appends to: undone apart, its own.
Past(past) == /\ past \in Seq(HistoryEntry)
              /\ Len(past) = Len(history)
              /\ \A i \in DOMAIN history : /\ past[i].before = history[i].before
                                           /\ past[i].actor = history[i].actor
                                           /\ past[i].command = history[i].command

\* What it stores: an entry for a change, and a receipt.
Wrote(q, d, past) ==
    /\ PipelineTypeOK'
    /\ Len(history) <= Len(history') /\ Len(history') <= Len(history) + 1
    /\ \A i \in DOMAIN history : history'[i] = past[i]
    /\ \A i \in DOMAIN history' \ DOMAIN history :
         /\ history'[i].before = record /\ history'[i].command = q.name
         /\ history'[i].actor = q.actor /\ d # record.doc
    /\ d # record.doc => Len(history') = Len(history) + 1
    /\ \A i \in DOMAIN receipts : receipts'[i] = receipts[i]
    /\ receipts'[Len(receipts) + 1] = [request |-> q, result |-> record']
    /\ Len(receipts') = Len(receipts) + 1

\* Every write keeps the types and only appends.
LEMMA Committed ==
    ASSUME IInv, NEW q \in Request, NEW d \in Document, NEW past, Past(past),
           NEW redos \in Seq(RedoEntry), Commit(q, d, past, redos)
    PROVE  Wrote(q, d, past)
<1> USE DEF Wrote
<1>1. record \in Record /\ record' = RecordOf(d) /\ record' \in Record
  BY NextRecord DEF IInv, PipelineTypeOK, Commit
<1>2. redo' \in Seq(RedoEntry)
  BY DEF Commit, Standing
<1>3. arranged' \in SUBSET Request
  BY DEF Commit, IInv, PipelineTypeOK
<1>4. [request |-> q, result |-> record'] \in Receipt
  BY <1>1 DEF Receipt
<1>5. /\ receipts' \in Seq(Receipt) /\ Len(receipts') = Len(receipts) + 1
      /\ \A i \in DOMAIN receipts : receipts'[i] = receipts[i]
      /\ receipts'[Len(receipts) + 1] = [request |-> q, result |-> record']
  BY <1>1, <1>4, AppendProperties DEF Commit, IInv, PipelineTypeOK
<1>6. CASE d = record.doc
  <2>1. history' = past
    BY <1>6 DEF Commit
  <2> QED BY <1>1, <1>2, <1>3, <1>5, <1>6, <2>1 DEF Past, PipelineTypeOK, IInv
<1>7. CASE d # record.doc
  <2> DEFINE e == [actor |-> q.actor, command |-> q.name, before |-> record, undone |-> FALSE]
  <2>1. e \in HistoryEntry
    BY <1>1, RequestTyped DEF HistoryEntry
  <2>2. history' = Append(past, e)
    BY <1>7 DEF Commit
  <2>3. /\ history' \in Seq(HistoryEntry) /\ Len(history') = Len(history) + 1
        /\ \A i \in 1..Len(history) : history'[i] = past[i]
        /\ history'[Len(history) + 1] = e
    BY <2>1, <2>2, AppendProperties DEF Past
  <2>4. /\ DOMAIN history = 1..Len(history) /\ Len(history) \in Nat
        /\ DOMAIN history' = 1..(Len(history) + 1)
    BY <2>3 DEF IInv, PipelineTypeOK
  <2>5. \A i \in DOMAIN history' \ DOMAIN history : i = Len(history) + 1
    BY <2>4
  <2> HIDE DEF e
  <2>6. \A i \in DOMAIN history' \ DOMAIN history : history'[i] = e
    BY <2>3, <2>5
  <2>7. e.before = record /\ e.command = q.name /\ e.actor = q.actor
    BY DEF e
  <2>8. PipelineTypeOK'
    BY <1>1, <1>2, <1>3, <1>5, <2>3 DEF PipelineTypeOK
  <2> QED BY <1>5, <1>7, <2>3, <2>4, <2>6, <2>7, <2>8
<1> QED BY <1>6, <1>7

\* Records are only added to, by the one that is stored.
LEMMA RecordsGrow ==
    ASSUME IInv, NEW q \in Request, NEW d \in Document, NEW past, Past(past),
           NEW redos \in Seq(RedoEntry), Commit(q, d, past, redos)
    PROVE  Records' \subseteq Records \cup {record'}
<1>0. Wrote(q, d, past)
  BY Committed
<1>1. /\ \A i \in DOMAIN history : history'[i].before = history[i].before
      /\ \A i \in DOMAIN history' \ DOMAIN history : history'[i].before = record
  BY <1>0 DEF Wrote, Past
<1>2. \A i \in DOMAIN receipts' : receipts'[i].result \in Records \cup {record'}
  <2>1. SUFFICES ASSUME NEW i \in DOMAIN receipts'
                 PROVE  receipts'[i].result \in Records \cup {record'}
    OBVIOUS
  <2>2. DOMAIN receipts = 1..Len(receipts) /\ DOMAIN receipts' = 1..(Len(receipts) + 1)
        /\ Len(receipts) \in Nat
    BY <1>0 DEF Wrote, PipelineTypeOK, IInv
  <2>3. CASE i \in DOMAIN receipts
    BY <1>0, <2>3 DEF Wrote, Records
  <2>4. CASE i = Len(receipts) + 1
    BY <1>0, <2>4 DEF Wrote
  <2> QED BY <2>2, <2>3, <2>4
<1>3. \A i \in DOMAIN history' \ {1} : history'[i].before \in Records
  BY <1>1 DEF Records
<1> QED BY <1>2, <1>3 DEF Records

\* After a write revisions still name their contents, those of the new record
\* being the greatest.
LEMMA WriteNames ==
    ASSUME IInv, NEW q \in Request, NEW d \in Document, NEW past, Past(past),
           NEW redos \in Seq(RedoEntry), Commit(q, d, past, redos)
    PROVE  Told' /\ Latest' /\ RevisionNames'
<1>0. Wrote(q, d, past)
  BY Committed
<1>1. record \in Record /\ record \in Records /\ record' = RecordOf(d)
  BY DEF IInv, PipelineTypeOK, Commit, Records
<1>2. \A r \in Records :
        /\ r \in Record
        /\ r.graphRev \in Nat /\ r.layoutRev \in Nat
        /\ r.graphRev <= record.graphRev /\ r.layoutRev <= record.layoutRev
        /\ r.graphRev = record.graphRev => r.doc.graph = record.doc.graph
        /\ r.layoutRev = record.layoutRev => r.doc.places = record.doc.places
  BY DEF IInv, Latest, Record
<1>3. /\ record' \in Record /\ record'.graphRev \in Nat /\ record'.layoutRev \in Nat
      /\ record.graphRev \in Nat /\ record.layoutRev \in Nat
      /\ record.graphRev <= record'.graphRev /\ record.layoutRev <= record'.layoutRev
      /\ record'.graphRev = record.graphRev => record'.doc.graph = record.doc.graph
      /\ record'.layoutRev = record.layoutRev => record'.doc.places = record.doc.places
  BY <1>1, NextRecord DEF Record
<1>4. \A r \in Records :
        /\ r.graphRev <= record'.graphRev /\ r.layoutRev <= record'.layoutRev
        /\ r.graphRev = record'.graphRev => r.doc.graph = record'.doc.graph
        /\ r.layoutRev = record'.layoutRev => r.doc.places = record'.doc.places
  BY <1>2, <1>3
<1>5. Latest'
  BY <1>2, <1>3, <1>4, RecordsGrow DEF Latest
<1>6. RevisionNames'
  BY <1>3, <1>4, RecordsGrow DEF IInv, HistorySound, RevisionNames
<1>7. Told'
  <2>1. DOMAIN history \subseteq DOMAIN history'
    BY <1>0 DEF Wrote, IInv, PipelineTypeOK
  <2>2. \A i \in DOMAIN history' \ DOMAIN history : history'[i].before \in Record
    BY <1>0, <1>1 DEF Wrote
  <2>3. \A i \in DOMAIN history : history'[i].before = history[i].before
    BY <1>0 DEF Wrote, Past
  <2>4. arranged' \subseteq arranged
    BY DEF Commit
  <2> QED BY <2>1, <2>2, <2>3, <2>4 DEF IInv, Told
<1> QED BY <1>5, <1>6, <1>7

\* A write leaves what earlier changes have left behind as it was.
LEMMA AfterKept ==
    ASSUME IInv, NEW q \in Request, NEW d \in Document, NEW past, Past(past),
           NEW redos \in Seq(RedoEntry), Commit(q, d, past, redos),
           NEW i \in DOMAIN history
    PROVE  After(i)' = After(i)
<1>0. Wrote(q, d, past)
  BY Committed
<1>1. /\ DOMAIN history = 1..Len(history) /\ Len(history) \in Nat
      /\ DOMAIN history' = 1..Len(history') /\ Len(history') \in Nat
      /\ Len(history) <= Len(history')
  BY <1>0 DEF Wrote, IInv, PipelineTypeOK
<1>2. record'.doc = d
  BY DEF Commit, RecordOf
<1>3. CASE i < Len(history)
  <2>1. i + 1 \in DOMAIN history /\ i < Len(history')
    BY <1>1, <1>3
  <2>2. history'[i + 1].before = history[i + 1].before
    BY <1>0, <2>1 DEF Wrote, Past
  <2> QED BY <1>3, <2>1, <2>2 DEF After
<1>4. CASE i = Len(history) /\ d # record.doc
  <2>1. Len(history') = Len(history) + 1
    BY <1>0, <1>4 DEF Wrote
  <2>2. i + 1 \in DOMAIN history' \ DOMAIN history
    BY <1>1, <1>4, <2>1
  <2>3. history'[i + 1].before = record
    BY <1>0, <2>2 DEF Wrote
  <2> QED BY <1>1, <1>4, <2>1, <2>3 DEF After
<1>5. CASE i = Len(history) /\ d = record.doc
  <2>1. history' = past /\ Len(history') = Len(history)
    BY <1>5 DEF Commit, Past
  <2> QED BY <1>1, <1>2, <1>5, <2>1 DEF After
<1> QED BY <1>1, <1>3, <1>4, <1>5

-----------------------------------------------------------------------------
(* Saves, patches and layouts *)

\* The baseline of a merge is a graph that was stored under that revision.
LEMMA BaselineStored ==
    ASSUME IInv, NEW rev, At(rev) # {}
    PROVE  \E r \in Records : r \in Record /\ r.graphRev = rev /\ Baseline(rev) = r.doc.graph
<1>1. Len(history) \in Nat /\ At(rev) \subseteq 1..Len(history)
  BY DEF IInv, PipelineTypeOK, At
<1>2. Max(At(rev)) \in At(rev)
  BY <1>1, MaxGreatest
<1>3. Max(At(rev)) \in DOMAIN history \ {1}
  BY <1>2 DEF At, IInv, Told
<1> QED BY <1>2, <1>3 DEF At, IInv, Told, Records, Baseline

\* Each stores a document and leaves history and redo stack to Commit.
LEMMA DirectWrites ==
    ASSUME IInv, NEW q \in Request, SaveDocument(q) \/ Patch(q) \/ LayoutDocument(q)
    PROVE  \E d \in Document : /\ Commit(q, d, history, redo)
                               /\ q.name \in {"save", "patch", "layout"}
<1>1. /\ record.doc \in Document /\ record.doc.graph \in Graph
      /\ record.doc.places \in Layout
  BY DEF IInv, PipelineTypeOK, Record, Document
<1>2. CASE SaveDocument(q)
  <2> DEFINE d == [graph |-> SaveGraph(q),
                   places |-> IF q.body.places = None THEN record.doc.places
                              ELSE q.body.places]
  <2>1. q.body \in Save
    BY <1>2, RequestTyped DEF SaveDocument
  <2>2. SaveGraph(q) \in Graph
    <3>1. CASE q.body.graph = None
      BY <1>1, <3>1 DEF SaveGraph
    <3>2. CASE q.body.graph # None /\ Stale(q)
      <4>1. Baseline(q.graphRev) \in Graph
        BY <1>2, <3>2, BaselineStored DEF SaveDocument, Record, Document
      <4>2. q.body.graph \in Graph
        BY <2>1, <3>2 DEF Save
      <4> QED BY <1>1, <3>2, <4>1, <4>2, MergedGraphTyped DEF SaveGraph
    <3>3. CASE q.body.graph # None /\ ~Stale(q)
      BY <2>1, <3>3 DEF SaveGraph, Save
    <3> QED BY <3>1, <3>2, <3>3
  <2>3. d \in Document
    BY <1>1, <2>1, <2>2 DEF Document, Save
  <2> QED BY <1>2, <2>3 DEF SaveDocument
<1>3. CASE Patch(q)
  <2>1. Edited(q.body, record.doc) \in Document
    BY <1>1, <1>3, RequestTyped, EditedTyped DEF Patch
  <2> QED BY <1>3, <2>1 DEF Patch
<1>4. CASE LayoutDocument(q)
  <2>1. q.name = "layout"
    BY <1>4 DEF LayoutDocument, IInv, Told
  <2> QED BY <1>4, <2>1, RequestTyped DEF LayoutDocument
<1> QED BY <1>2, <1>3, <1>4

\* A history the write does not touch is its past.
LEMMA OwnPast == ASSUME IInv PROVE Past(history)
BY DEF Past, IInv, PipelineTypeOK

\* They empty the redo stack where they change the document.
LEMMA DirectStep ==
    ASSUME IInv, NEW q \in Request, NEW d \in Document, Commit(q, d, history, redo),
           q.name \in {"save", "patch", "layout"}
    PROVE  RedoMatches' /\ Stacked'
<1>1. CASE d # record.doc
  <2>1. redo' = <<>>
    BY <1>1 DEF Commit, Standing
  <2> QED BY <2>1 DEF RedoMatches, Stacked
<1>2. CASE d = record.doc
  <2>1. redo' = redo /\ history' = history
    BY <1>2 DEF Commit, Standing
  <2>2. record'.doc = record.doc
    BY <1>2 DEF Commit, RecordOf
  <2>3. RedoMatches'
    BY <2>1 DEF RedoMatches, IInv, HistorySound
  <2>4. Stacked'
    BY <2>1, <2>2 DEF Stacked, TakesBack, After, Undoable, IInv
  <2> QED BY <2>3, <2>4
<1> QED BY <1>1, <1>2

-----------------------------------------------------------------------------
(* The redo stack *)

\* Part of another sequence, in its order, without the element at a place.
Part(s, t, gap) ==
    \E f \in [DOMAIN s -> DOMAIN t] :
        \A j \in DOMAIN s : /\ s[j] = t[f[j]] /\ f[j] # gap
                            /\ \A i \in DOMAIN s : i < j => f[i] < f[j]

\* RemoveAt leaves such a part.
LEMMA RemoveAtPart ==
    ASSUME NEW S, NEW s \in Seq(S), NEW i \in 1..Len(s)
    PROVE  Part(RemoveAt(s, i), s, i)
<1> DEFINE f == [j \in 1..(Len(s) - 1) |-> IF j < i THEN j ELSE j + 1]
<1>1. Len(s) \in Nat /\ i \in Nat /\ DOMAIN s = 1..Len(s)
  OBVIOUS
<1>2. f \in [1..(Len(s) - 1) -> 1..Len(s)]
  BY <1>1
<1>3. \A j \in 1..(Len(s) - 1) :
        f[j] # i /\ \A k \in 1..(Len(s) - 1) : k < j => f[k] < f[j]
  BY <1>1
<1>4. /\ DOMAIN RemoveAt(s, i) = 1..(Len(s) - 1)
      /\ \A j \in 1..(Len(s) - 1) : RemoveAt(s, i)[j] = s[f[j]]
  BY <1>1, RemoveAtKeeps
<1> HIDE DEF f
<1> QED BY <1>1, <1>2, <1>3, <1>4 DEF Part

\* What Pushed keeps below the new entry.
LEMMA PushedPart ==
    ASSUME IInv, NEW e \in RedoEntry
    PROVE  \E kept \in Seq(RedoEntry) : Part(kept, redo, 0) /\ Pushed(e) = Append(kept, e)
<1> DEFINE mine == Mine(e.actor)
<1>1. redo \in Seq(RedoEntry) /\ Len(redo) \in Nat /\ DOMAIN redo = 1..Len(redo)
  BY DEF IInv, PipelineTypeOK
<1>2. CASE Cardinality(mine) >= MaxRedo
  <2>1. mine # {}
    BY <1>2, FS_EmptySet, PipelineAssumption
  <2>2. mine \in SUBSET Nat /\ mine \subseteq 1..Len(redo)
    BY <1>1 DEF Mine
  <2>3. Min(mine) \in 1..Len(redo)
    BY <2>1, <2>2, MinLeast
  <2>4. RemoveAt(redo, Min(mine)) \in Seq(RedoEntry)
    BY <1>1, <2>3, RemoveAtKeeps
  <2>5. Part(RemoveAt(redo, Min(mine)), redo, Min(mine))
    BY <1>1, <2>3, RemoveAtPart
  <2>6. Part(RemoveAt(redo, Min(mine)), redo, 0)
    BY <1>1, <2>5 DEF Part
  <2> QED BY <1>2, <2>4, <2>6 DEF Pushed
<1>3. CASE ~(Cardinality(mine) >= MaxRedo)
  <2>1. Part(redo, redo, 0)
    <3> DEFINE f == [j \in DOMAIN redo |-> j]
    <3>1. f \in [DOMAIN redo -> DOMAIN redo]
      OBVIOUS
    <3>2. \A j \in DOMAIN redo : redo[j] = redo[f[j]] /\ f[j] # 0
      BY <1>1
    <3>3. \A i, j \in DOMAIN redo : i < j => f[i] < f[j]
      OBVIOUS
    <3> HIDE DEF f
    <3> QED BY <3>1, <3>2, <3>3 DEF Part
  <2> QED BY <1>1, <1>3, <2>1 DEF Pushed
<1> QED BY <1>2, <1>3

-----------------------------------------------------------------------------
(* Undo and redo *)

\* A redo entry is in order: RedoMatches and Stacked, of one entry.
InOrder(e) ==
    /\ e.target \in DOMAIN history /\ e.target # 1
    /\ history[e.target].undone /\ history[e.target].actor = e.actor
    /\ \A x \in Undoable(e.actor) : x < e.target
    /\ TakesBack(e)

\* The entries are, and in the right order among themselves.
LEMMA EntriesInOrder ==
    IInv => \A i \in DOMAIN redo :
              /\ InOrder(redo[i])
              /\ \A j \in DOMAIN redo :
                   i < j /\ redo[j].actor = redo[i].actor => redo[j].target < redo[i].target
BY DEF IInv, HistorySound, RedoMatches, Stacked, InOrder

\* A merge takes what the incoming document has where it changes anything.
LEMMA MergeTakes ==
    ASSUME NEW a \in Document, NEW b \in Document, NEW c \in Document, Mergeable(a, b, c)
    PROVE  LET d == MergedDocument(a, b, c) IN
           /\ \A n \in Changed(c.graph.nodes, d.graph.nodes) :
                c.graph.nodes[n] = a.graph.nodes[n] /\ d.graph.nodes[n] = b.graph.nodes[n]
           /\ \A n \in Changed(c.places, d.places) :
                c.places[n] = a.places[n] /\ d.places[n] = b.places[n]
BY DEF Mergeable, Independent, MergedDocument, MergedGraph, MergedLayout, Changed

\* The document a change has left behind is a document.
LEMMA AfterTyped ==
    ASSUME IInv, NEW i \in DOMAIN history
    PROVE  After(i) \in Document
<1>1. record.doc \in Document /\ DOMAIN history = 1..Len(history) /\ Len(history) \in Nat
  BY DEF IInv, PipelineTypeOK, Record
<1>2. i < Len(history) => i + 1 \in DOMAIN history \ {1}
  BY <1>1
<1> QED BY <1>1, <1>2 DEF After, IInv, Told, Record

\* What an undo has to work with.
LEMMA UndoWrites ==
    ASSUME IInv, NEW q \in Request, UndoChange(q)
    PROVE  \E last \in Undoable(q.actor), d \in Document, redos \in Seq(RedoEntry) :
             LET before == history[last].before
                 e == [actor |-> q.actor, document |-> record.doc,
                       undoneDocument |-> d, target |-> last]
                 past == [history EXCEPT ![last].undone = TRUE]
             IN  /\ q.name = "undo" /\ last # 1 /\ before \in Record
                 /\ \A x \in Undoable(q.actor) : x <= last
                 /\ d = MergedDocument(After(last), before.doc, record.doc)
                 /\ Mergeable(After(last), before.doc, record.doc)
                 /\ redos = Pushed(e) /\ e \in RedoEntry
                 /\ Past(past) /\ Commit(q, d, past, redos)
<1> DEFINE last == Max(Undoable(q.actor))
           before == history[last].before
           d == MergedDocument(After(last), before.doc, record.doc)
           e == [actor |-> q.actor, document |-> record.doc,
                 undoneDocument |-> d, target |-> last]
           past == [history EXCEPT ![last].undone = TRUE]
<1>1. /\ Len(history) \in Nat /\ DOMAIN history = 1..Len(history)
      /\ history \in Seq(HistoryEntry) /\ record.doc \in Document
  BY DEF IInv, PipelineTypeOK, Record
<1>2. Undoable(q.actor) # {} /\ Undoable(q.actor) \in SUBSET (1..Len(history))
  BY <1>1 DEF UndoChange, Undoable
<1>3. last \in Undoable(q.actor) /\ \A x \in Undoable(q.actor) : x <= last
  BY <1>1, <1>2, MaxGreatest
<1>4. before # None /\ Mergeable(After(last), before.doc, record.doc)
      /\ Commit(q, d, past, Pushed(e)) /\ q.name = "undo"
  BY DEF UndoChange
<1>5. last \in DOMAIN history /\ last # 1 /\ before \in Record
  BY <1>3, <1>4 DEF Undoable, IInv, Told
<1>6. d \in Document
  BY <1>1, <1>5, AfterTyped, MergedTyped DEF Record
<1> HIDE DEF last, d
<1>7. e \in RedoEntry
  BY <1>1, <1>5, <1>6, RequestTyped DEF RedoEntry
<1>8. Pushed(e) \in Seq(RedoEntry)
  <2>1. PICK kept \in Seq(RedoEntry) : Pushed(e) = Append(kept, e)
    BY <1>7, PushedPart
  <2> QED BY <1>7, <2>1, AppendProperties
<1>9. Past(past)
  <2>1. history[last] \in HistoryEntry
    BY <1>1, <1>5
  <2>2. [history[last] EXCEPT !.undone = TRUE] \in HistoryEntry
    BY <2>1 DEF HistoryEntry
  <2> QED BY <1>1, <1>5, <2>1, <2>2 DEF Past, HistoryEntry
<1> HIDE DEF e, past
<1>10. /\ e = [actor |-> q.actor, document |-> record.doc,
               undoneDocument |-> d, target |-> last]
       /\ past = [history EXCEPT ![last].undone = TRUE]
       /\ d = MergedDocument(After(last), before.doc, record.doc)
  BY DEF e, past, d
<1> QED BY <1>3, <1>4, <1>5, <1>6, <1>7, <1>8, <1>9, <1>10

\* What a redo has to work with.
LEMMA RedoWrites ==
    ASSUME IInv, NEW q \in Request, RedoChange(q)
    PROVE  \E index \in Mine(q.actor), d \in Document, redos \in Seq(RedoEntry) :
             LET e == redo[index]
                 past == [history EXCEPT ![e.target].undone = FALSE]
             IN  /\ q.name = "redo" /\ e \in RedoEntry
                 /\ \A i \in Mine(q.actor) : i <= index
                 /\ d = MergedDocument(e.undoneDocument, e.document, record.doc)
                 /\ Mergeable(e.undoneDocument, e.document, record.doc)
                 /\ redos = RemoveAt(redo, index)
                 /\ Past(past) /\ Commit(q, d, past, redos)
<1> DEFINE index == Max(Mine(q.actor))
           e == redo[index]
           d == MergedDocument(e.undoneDocument, e.document, record.doc)
           past == [history EXCEPT ![e.target].undone = FALSE]
<1>1. /\ Len(redo) \in Nat /\ DOMAIN redo = 1..Len(redo) /\ redo \in Seq(RedoEntry)
      /\ history \in Seq(HistoryEntry) /\ record.doc \in Document
  BY DEF IInv, PipelineTypeOK, Record
<1>2. Mine(q.actor) # {} /\ Mine(q.actor) \in SUBSET (1..Len(redo))
  BY <1>1 DEF RedoChange, Mine
<1>3. index \in Mine(q.actor) /\ \A i \in Mine(q.actor) : i <= index
  BY <1>1, <1>2, MaxGreatest
<1>4. Mergeable(e.undoneDocument, e.document, record.doc)
      /\ Commit(q, d, past, RemoveAt(redo, index)) /\ q.name = "redo"
  BY DEF RedoChange
<1>5. index \in DOMAIN redo /\ e \in RedoEntry
  BY <1>1, <1>3 DEF Mine
<1>6. d \in Document
  BY <1>1, <1>5, MergedTyped DEF RedoEntry
<1>7. RemoveAt(redo, index) \in Seq(RedoEntry)
  BY <1>1, <1>5, RemoveAtKeeps
<1> HIDE DEF index, d
<1>8. e.target \in DOMAIN history
  BY <1>5, EntriesInOrder DEF InOrder
<1>9. Past(past)
  <2>1. history[e.target] \in HistoryEntry
    BY <1>1, <1>8
  <2>2. [history[e.target] EXCEPT !.undone = FALSE] \in HistoryEntry
    BY <2>1 DEF HistoryEntry
  <2> QED BY <1>1, <1>8, <2>1, <2>2 DEF Past, HistoryEntry
<1>10. d = MergedDocument(e.undoneDocument, e.document, record.doc)
  BY DEF d
<1> HIDE DEF past
<1>11. past = [history EXCEPT ![e.target].undone = FALSE]
  BY DEF past
<1> QED BY <1>3, <1>4, <1>5, <1>6, <1>7, <1>9, <1>10, <1>11

\* An entry stays in order where the write neither redoes its change nor makes
\* a later change of its actor undoable.
LEMMA StaysInOrder ==
    ASSUME IInv, NEW q \in Request, NEW d \in Document, NEW past, Past(past),
           NEW redos \in Seq(RedoEntry), Commit(q, d, past, redos),
           q.name \in {"undo", "redo"},
           NEW e, InOrder(e), past[e.target].undone,
           \A x \in DOMAIN history :
             ~past[x].undone /\ history[x].actor = e.actor
             /\ history[x].command \notin {"undo", "redo"} => x < e.target
    PROVE  InOrder(e)'
<1>1. Wrote(q, d, past)
  BY Committed
<1>2. DOMAIN history \subseteq DOMAIN history'
  BY <1>1 DEF Wrote, IInv, PipelineTypeOK
<1>3. /\ e.target \in DOMAIN history /\ e.target # 1 /\ history[e.target].actor = e.actor
      /\ TakesBack(e)
  BY DEF InOrder
<1>4. /\ \A i \in DOMAIN history : /\ history'[i].before = history[i].before
                                   /\ history'[i].actor = history[i].actor
                                   /\ history'[i].command = history[i].command
                                   /\ history'[i].undone = past[i].undone
  BY <1>1 DEF Wrote, Past
<1>5. \A i \in DOMAIN history' \ DOMAIN history : history'[i].command \in {"undo", "redo"}
  BY <1>1 DEF Wrote
<1>6. \A x \in Undoable(e.actor)' : x < e.target
  BY <1>4, <1>5 DEF Undoable
<1>7. After(e.target)' = After(e.target)
  BY <1>3, AfterKept
<1>8. TakesBack(e)'
  BY <1>3, <1>4, <1>7 DEF TakesBack
<1> QED BY <1>2, <1>3, <1>4, <1>6, <1>8 DEF InOrder

\* In that order redo entries are what the invariant asks for.
LEMMA OrderStep ==
    ASSUME \A i \in DOMAIN redo' : \A o : o = redo'[i] => InOrder(o)',
           \A i, j \in DOMAIN redo' :
             i < j /\ redo'[j].actor = redo'[i].actor => redo'[j].target < redo'[i].target
    PROVE  RedoMatches' /\ Stacked'
BY DEF RedoMatches, Stacked, InOrder

\* An undo puts its entry on top.
LEMMA UndoStep ==
    ASSUME IInv, NEW q \in Request, UndoChange(q)
    PROVE  RedoMatches' /\ Stacked'
<1>1. PICK last \in Undoable(q.actor), d \in Document, redos \in Seq(RedoEntry) :
             LET before == history[last].before
                 e == [actor |-> q.actor, document |-> record.doc,
                       undoneDocument |-> d, target |-> last]
                 past == [history EXCEPT ![last].undone = TRUE]
             IN  /\ q.name = "undo" /\ last # 1 /\ before \in Record
                 /\ \A x \in Undoable(q.actor) : x <= last
                 /\ d = MergedDocument(After(last), before.doc, record.doc)
                 /\ Mergeable(After(last), before.doc, record.doc)
                 /\ redos = Pushed(e) /\ e \in RedoEntry
                 /\ Past(past) /\ Commit(q, d, past, redos)
  BY UndoWrites
<1> DEFINE before == history[last].before
           e == [actor |-> q.actor, document |-> record.doc,
                 undoneDocument |-> d, target |-> last]
           past == [history EXCEPT ![last].undone = TRUE]
<1>2. PICK kept \in Seq(RedoEntry) : Part(kept, redo, 0) /\ redos = Append(kept, e)
  BY <1>1, PushedPart
<1>3. redo' = redos
  BY <1>1 DEF Commit, Standing
<1>4. /\ history \in Seq(HistoryEntry) /\ last \in DOMAIN history /\ ~history[last].undone
      /\ history[last].actor = q.actor
      /\ past[last].undone
      /\ \A x \in DOMAIN history : x # last => past[x].undone = history[x].undone
  <2>1. last \in DOMAIN history /\ history \in Seq(HistoryEntry)
    BY DEF IInv, PipelineTypeOK, Undoable
  <2>2. history[last] \in HistoryEntry
    BY <2>1
  <2>3. past[last].undone
    BY <2>1, <2>2 DEF HistoryEntry
  <2> QED BY <2>1, <2>3 DEF Undoable
<1>5. Past(past) /\ Commit(q, d, past, redos) /\ q.name \in {"undo", "redo"}
  BY <1>1
<1>6. Wrote(q, d, past)
  BY <1>5, Committed
<1> HIDE DEF past
<1>7. ASSUME NEW i \in DOMAIN redo, NEW o, o = redo[i]
      PROVE  InOrder(o)' /\ (o.actor = q.actor => last < o.target)
  <2>1. InOrder(o)
    BY <1>7, EntriesInOrder
  <2>2. past[o.target].undone
    BY <1>4, <2>1 DEF InOrder
  <2>3. \A x \in DOMAIN history :
             ~past[x].undone /\ history[x].actor = o.actor
             /\ history[x].command \notin {"undo", "redo"} => x < o.target
    BY <1>4, <2>1 DEF InOrder, Undoable
  <2>4. InOrder(o)'
    BY <1>5, <2>1, <2>2, <2>3, StaysInOrder
  <2>5. o.actor = q.actor => last < o.target
    BY <2>1 DEF InOrder
  <2> QED BY <2>4, <2>5
<1>8. ASSUME NEW o, o = e PROVE InOrder(o)'
  <2>1. /\ o.target = last /\ o.actor = q.actor /\ o.document = record.doc
        /\ o.undoneDocument = d
    BY <1>8
  <2>2. last \in DOMAIN history' /\ last # 1
    BY <1>1, <1>4, <1>6 DEF Wrote, IInv, PipelineTypeOK
  <2>3. history'[last].undone /\ history'[last].actor = q.actor
    BY <1>4, <1>5, <1>6 DEF Wrote, Past
  <2>4. ASSUME NEW x \in Undoable(q.actor)' PROVE x \in Undoable(q.actor) /\ x # last
    <3>1. /\ x \in DOMAIN history' /\ history'[x].actor = q.actor /\ ~history'[x].undone
          /\ history'[x].command \notin {"undo", "redo"}
      BY DEF Undoable
    <3>2. x \in DOMAIN history
      BY <1>5, <1>6, <3>1 DEF Wrote
    <3>3. history'[x] = past[x] /\ past[x].actor = history[x].actor
          /\ past[x].command = history[x].command
      BY <1>5, <1>6, <3>2 DEF Wrote, Past
    <3> QED BY <1>4, <3>1, <3>2, <3>3 DEF Undoable
  <2>5. \A x \in Undoable(q.actor)' : x < last
    BY <1>1, <1>4, <2>4 DEF Undoable, IInv, PipelineTypeOK
  <2>6. After(o.target)' = After(o.target) /\ history'[o.target].before = before
    BY <1>4, <1>5, <1>6, <2>1, AfterKept DEF Wrote, Past
  <2>7. TakesBack(o)'
    <3>1. After(last) \in Document /\ before.doc \in Document /\ record.doc \in Document
      BY <1>1, <1>4, AfterTyped DEF Record, IInv, PipelineTypeOK
    <3>2. /\ \A n \in Changed(record.doc.graph.nodes, d.graph.nodes) :
                /\ record.doc.graph.nodes[n] = After(last).graph.nodes[n]
                /\ d.graph.nodes[n] = before.doc.graph.nodes[n]
          /\ \A n \in Changed(record.doc.places, d.places) :
                /\ record.doc.places[n] = After(last).places[n]
                /\ d.places[n] = before.doc.places[n]
      <4>1. /\ d = MergedDocument(After(last), before.doc, record.doc)
            /\ Mergeable(After(last), before.doc, record.doc)
        BY <1>1
      <4> HIDE DEF before
      <4> QED BY <3>1, <4>1, MergeTakes
    <3>3. After(o.target) = After(last)
      BY <2>1 DEF After
    <3> DEFINE a == After(o.target)'
               b == history'[o.target].before.doc
    <3>4. a = After(last) /\ b = before.doc
      BY <2>6, <3>3
    <3> HIDE DEF a, b
    <3>5. /\ \A n \in Changed(o.undoneDocument.graph.nodes, o.document.graph.nodes) :
                /\ o.undoneDocument.graph.nodes[n] = b.graph.nodes[n]
                /\ o.document.graph.nodes[n] = a.graph.nodes[n]
          /\ \A n \in Changed(o.undoneDocument.places, o.document.places) :
                /\ o.undoneDocument.places[n] = b.places[n]
                /\ o.document.places[n] = a.places[n]
      BY <2>1, <3>2, <3>4 DEF Changed
    <3> QED BY <3>5 DEF TakesBack, a, b
  <2> QED BY <2>1, <2>2, <2>3, <2>5, <2>7 DEF InOrder
<1>9. PICK f \in [DOMAIN kept -> DOMAIN redo] :
        \A j \in DOMAIN kept : /\ kept[j] = redo[f[j]]
                              /\ \A i \in DOMAIN kept : i < j => f[i] < f[j]
  BY <1>2 DEF Part
<1> HIDE DEF e
<1>10. /\ DOMAIN kept = 1..Len(kept) /\ Len(kept) \in Nat
       /\ DOMAIN redo' = 1..(Len(kept) + 1) /\ redo'[Len(kept) + 1] = e
       /\ \A j \in DOMAIN kept : redo'[j] = kept[j]
  <2>1. e \in RedoEntry
    BY <1>1 DEF e
  <2> QED BY <1>2, <1>3, <2>1, AppendProperties
<1>11. e.target = last /\ e.actor = q.actor
  BY DEF e
<1>12. \A i \in DOMAIN redo' : \A o : o = redo'[i] => InOrder(o)'
  BY <1>7, <1>8, <1>9, <1>10
<1>13. \A i, j \in DOMAIN redo' :
         i < j /\ redo'[j].actor = redo'[i].actor => redo'[j].target < redo'[i].target
  <2> SUFFICES ASSUME NEW i \in DOMAIN redo', NEW j \in DOMAIN redo',
                      i < j, redo'[j].actor = redo'[i].actor
               PROVE  redo'[j].target < redo'[i].target
    OBVIOUS
  <2>1. i \in DOMAIN kept /\ redo'[i] = redo[f[i]] /\ f[i] \in DOMAIN redo
    BY <1>9, <1>10
  <2>2. CASE j \in DOMAIN kept
    <3>1. f[j] \in DOMAIN redo /\ redo'[j] = redo[f[j]] /\ f[i] < f[j]
      BY <1>9, <1>10, <2>1, <2>2
    <3> QED BY <2>1, <3>1, EntriesInOrder
  <2>3. CASE j = Len(kept) + 1
    BY <1>7, <1>10, <1>11, <2>1, <2>3
  <2> QED BY <1>10, <2>2, <2>3
<1> QED BY <1>12, <1>13, OrderStep

\* A redo takes the entry on top out.
LEMMA RedoStep ==
    ASSUME IInv, NEW q \in Request, RedoChange(q)
    PROVE  RedoMatches' /\ Stacked'
<1>1. PICK index \in Mine(q.actor), d \in Document, redos \in Seq(RedoEntry) :
             LET e == redo[index]
                 past == [history EXCEPT ![e.target].undone = FALSE]
             IN  /\ q.name = "redo" /\ e \in RedoEntry
                 /\ \A i \in Mine(q.actor) : i <= index
                 /\ d = MergedDocument(e.undoneDocument, e.document, record.doc)
                 /\ Mergeable(e.undoneDocument, e.document, record.doc)
                 /\ redos = RemoveAt(redo, index)
                 /\ Past(past) /\ Commit(q, d, past, redos)
  BY RedoWrites
<1> DEFINE e == redo[index]
           past == [history EXCEPT ![e.target].undone = FALSE]
<1>2. redo' = RemoveAt(redo, index)
  BY <1>1 DEF Commit, Standing
<1>3. /\ redo \in Seq(RedoEntry) /\ index \in DOMAIN redo /\ e.actor = q.actor
      /\ index \in 1..Len(redo)
  BY DEF IInv, PipelineTypeOK, Mine
<1>4. InOrder(e)
  BY <1>3, EntriesInOrder
<1>5. /\ e.target \in DOMAIN history
      /\ ~past[e.target].undone
      /\ \A x \in DOMAIN history : x # e.target => past[x].undone = history[x].undone
  <2>1. e.target \in DOMAIN history /\ history \in Seq(HistoryEntry)
    BY <1>4 DEF IInv, PipelineTypeOK, InOrder
  <2>2. history[e.target] \in HistoryEntry
    BY <2>1
  <2>3. ~past[e.target].undone
    BY <2>1, <2>2 DEF HistoryEntry
  <2> QED BY <2>1, <2>3
<1>6. Past(past) /\ Commit(q, d, past, redos) /\ q.name \in {"undo", "redo"}
  BY <1>1
<1> HIDE DEF past
<1>7. ASSUME NEW i \in DOMAIN redo, i # index, NEW o, o = redo[i] PROVE InOrder(o)'
  <2>1. InOrder(o)
    BY <1>7, EntriesInOrder
  <2>2. ASSUME o.actor = q.actor PROVE e.target < o.target
    <3>1. i <= index /\ i \in Nat /\ index \in Nat
      BY <1>1, <1>3, <1>7, <2>2 DEF Mine
    <3>2. i < index
      BY <1>7, <3>1
    <3> QED BY <1>3, <1>7, <2>2, <3>2, EntriesInOrder
  <2>3. o.target # e.target
    BY <1>3, <1>4, <2>1, <2>2 DEF InOrder, IInv, PipelineTypeOK
  <2>4. past[o.target].undone
    BY <1>5, <2>1, <2>3 DEF InOrder
  <2>5. \A x \in DOMAIN history :
             ~past[x].undone /\ history[x].actor = o.actor
             /\ history[x].command \notin {"undo", "redo"} => x < o.target
    BY <1>3, <1>4, <1>5, <2>1, <2>2 DEF InOrder, Undoable
  <2> QED BY <1>6, <2>1, <2>4, <2>5, StaysInOrder
<1>8. PICK f \in [DOMAIN redo' -> DOMAIN redo] :
        \A j \in DOMAIN redo' : /\ redo'[j] = redo[f[j]] /\ f[j] # index
                                /\ \A i \in DOMAIN redo' : i < j => f[i] < f[j]
  BY <1>2, <1>3, RemoveAtPart DEF Part
<1>9. \A i \in DOMAIN redo' : \A o : o = redo'[i] => InOrder(o)'
  BY <1>7, <1>8
<1>10. \A i, j \in DOMAIN redo' :
         i < j /\ redo'[j].actor = redo'[i].actor => redo'[j].target < redo'[i].target
  BY <1>8, EntriesInOrder
<1> QED BY <1>9, <1>10, OrderStep

-----------------------------------------------------------------------------
(* The invariant *)

\* The pipeline as it is created.
LEMMA InitInv == Init => IInv
<1> SUFFICES ASSUME Init PROVE IInv
  OBVIOUS
<1> DEFINE h == [actor |-> Creator, command |-> "create", before |-> None, undone |-> FALSE]
<1>1. record = Created /\ history = <<h>> /\ redo = <<>> /\ receipts = <<>> /\ arranged = {}
  BY DEF Init
<1>2. Created \in Record
  BY BlankAssumption DEF Created, Record
<1>3. h \in HistoryEntry
  BY PipelineAssumption DEF HistoryEntry
<1> HIDE DEF h
<1>4. PipelineTypeOK
  BY <1>1, <1>2, <1>3 DEF PipelineTypeOK
<1>5. h.before = None
  BY DEF h
<1>6. Told
  BY <1>1, <1>5 DEF Told
<1>7. Records = {Created}
  BY <1>1 DEF Records
<1>8. Latest /\ RevisionNames
  BY <1>1, <1>2, <1>7 DEF Latest, RevisionNames, Record
<1>9. RedoMatches /\ Stacked
  BY <1>1 DEF RedoMatches, Stacked
<1> QED BY <1>4, <1>6, <1>8, <1>9 DEF IInv, HistorySound

\* What is neither a write nor a layout to be stored changes nothing.
LEMMA IdleStep ==
    ASSUME IInv, UNCHANGED <<record, history, redo, receipts>>,
           arranged' \in SUBSET Request, \A q \in arranged' : q.name = "layout"
    PROVE  IInv'
<1>1. PipelineTypeOK' /\ Told'
  BY DEF IInv, PipelineTypeOK, Told
<1>2. Records' = Records
  BY DEF Records
<1>3. Latest' /\ RevisionNames'
  BY <1>2 DEF IInv, Latest, HistorySound, RevisionNames
<1>4. RedoMatches' /\ Stacked'
  BY DEF IInv, HistorySound, RedoMatches, Stacked, TakesBack, After, Undoable
<1> QED BY <1>1, <1>3, <1>4 DEF IInv, HistorySound

\* The commands keep the invariant.
LEMMA AcceptStep ==
    ASSUME IInv, NEW q \in Request, Accept(q)
    PROVE  IInv'
<1>1. CASE SaveDocument(q) \/ Patch(q) \/ LayoutDocument(q)
  <2>1. PICK d \in Document : /\ Commit(q, d, history, redo)
                              /\ q.name \in {"save", "patch", "layout"}
    BY <1>1, DirectWrites
  <2>2. Past(history) /\ redo \in Seq(RedoEntry)
    BY OwnPast DEF IInv, PipelineTypeOK
  <2>3. PipelineTypeOK'
    BY <2>1, <2>2, Committed DEF Wrote
  <2>4. Told' /\ Latest' /\ RevisionNames'
    BY <2>1, <2>2, WriteNames
  <2>5. RedoMatches' /\ Stacked'
    BY <2>1, DirectStep
  <2> QED BY <2>3, <2>4, <2>5 DEF IInv, HistorySound
<1>2. CASE UndoChange(q)
  <2> DEFINE past(i) == [history EXCEPT ![i].undone = TRUE]
  <2>1. PICK last \in Undoable(q.actor), d \in Document, redos \in Seq(RedoEntry) :
             Past(past(last)) /\ Commit(q, d, past(last), redos)
    BY <1>2, UndoWrites
  <2> HIDE DEF past
  <2>2. PipelineTypeOK'
    BY <2>1, Committed DEF Wrote
  <2>3. Told' /\ Latest' /\ RevisionNames'
    BY <2>1, WriteNames
  <2>4. RedoMatches' /\ Stacked'
    BY <1>2, UndoStep
  <2> QED BY <2>2, <2>3, <2>4 DEF IInv, HistorySound
<1>3. CASE RedoChange(q)
  <2> DEFINE past(i) == [history EXCEPT ![redo[i].target].undone = FALSE]
  <2>1. PICK index \in Mine(q.actor), d \in Document, redos \in Seq(RedoEntry) :
             Past(past(index)) /\ Commit(q, d, past(index), redos)
    BY <1>3, RedoWrites
  <2> HIDE DEF past
  <2>2. PipelineTypeOK'
    BY <2>1, Committed DEF Wrote
  <2>3. Told' /\ Latest' /\ RevisionNames'
    BY <2>1, WriteNames
  <2>4. RedoMatches' /\ Stacked'
    BY <1>3, RedoStep
  <2> QED BY <2>2, <2>3, <2>4 DEF IInv, HistorySound
<1> QED BY <1>1, <1>2, <1>3 DEF Accept

\* Every step does.
LEMMA StepInv == IInv /\ [Next]_service => IInv'
<1> SUFFICES ASSUME IInv, [Next]_service PROVE IInv'
  OBVIOUS
<1>1. ASSUME NEW q \in Request, Arrange(q) PROVE IInv'
  BY <1>1, IdleStep DEF Arrange, IInv, PipelineTypeOK, Told
<1>2. ASSUME NEW q \in Request, Refuse(q) PROVE IInv'
  BY <1>2, IdleStep DEF Refuse, IInv, PipelineTypeOK, Told
<1>3. CASE UNCHANGED service
  BY <1>3, IdleStep DEF service, IInv, PipelineTypeOK, Told
<1> QED BY <1>1, <1>2, <1>3, AcceptStep DEF Next

\* The invariant holds.
LEMMA Invariant == Spec => []IInv
BY InitInv, StepInv, PTL DEF Spec

-----------------------------------------------------------------------------
(* Theorems *)

\* Every reachable state is well typed.
THEOREM PipelineTyped == Spec => []PipelineTypeOK
<1>1. IInv => PipelineTypeOK
  BY DEF IInv
<1> QED BY <1>1, Invariant, PTL

\* A revision names one content, and redo entries stand for undone changes of
\* their actor, in the order in which they can be redone.
THEOREM HistoryHolds == Spec => []HistorySound
<1>1. IInv => HistorySound
  BY DEF IInv
<1> QED BY <1>1, Invariant, PTL

\* No write replaces what its author has not seen, whether it is checked
\* against the current revisions or merged from an older one.
THEOREM NothingOverwritten == Spec => NoBlindOverwrite
<1> DEFINE Seen(q) == \A r \in Records :
          /\ r.graphRev = q.graphRev =>
               \A n \in Changed(record.doc.graph.nodes, record'.doc.graph.nodes) :
                 r.doc.graph.nodes[n] = record.doc.graph.nodes[n]
          /\ r.graphRev = q.graphRev /\ record'.doc.graph.edges # record.doc.graph.edges
               => r.doc.graph.edges = record.doc.graph.edges
          /\ r.layoutRev = q.layoutRev =>
               \A n \in Changed(record.doc.places, record'.doc.places) :
                 r.doc.places[n] = record.doc.places[n]
<1>1. ASSUME IInv, NEW q \in Request, Accept(q) PROVE Seen(q)
  <2>1. ASSUME NEW r \in Records
        PROVE  /\ r.graphRev = record.graphRev => r.doc.graph = record.doc.graph
               /\ r.layoutRev = record.layoutRev => r.doc.places = record.doc.places
    BY <1>1 DEF IInv, Latest
  <2>2. CASE UndoChange(q) \/ RedoChange(q) \/ LayoutDocument(q)
    BY <2>1, <2>2 DEF UndoChange, RedoChange, LayoutDocument, UpToDate
  <2>3. CASE Patch(q)
    <3>1. record.graphRev = q.graphRev /\ record'.doc = Edited(q.body, record.doc)
      BY <2>3 DEF Patch, UpToDate, Commit, RecordOf
    <3>2. q.body.op \in {"add", "remove"} => record.layoutRev = q.layoutRev
      BY <2>3 DEF Patch, UpToDate
    <3>3. q.body.op \in {"add", "update", "remove", "connect", "disconnect"}
      BY <1>1, <2>3, RequestTyped DEF Patch, Edit
    <3>4. q.body.op \notin {"add", "remove"} => record'.doc.places = record.doc.places
      BY <1>1, <3>1, <3>3 DEF Edited, IInv, PipelineTypeOK, Record, Document
    <3> QED BY <2>1, <3>1, <3>2, <3>4 DEF Changed
  <2>4. CASE SaveDocument(q)
    <3>1. /\ record'.doc.graph = SaveGraph(q)
          /\ record'.doc.places = IF q.body.places = None THEN record.doc.places
                                  ELSE q.body.places
      BY <2>4 DEF SaveDocument, Commit, RecordOf
    <3>2. q.body.places # None => record.layoutRev = q.layoutRev
      BY <2>4 DEF SaveDocument, UpToDate
    <3>3. CASE q.body.graph = None
      BY <2>1, <3>1, <3>2, <3>3 DEF SaveGraph, Changed
    <3>4. CASE q.body.graph # None /\ ~Stale(q)
      <4>1. record.graphRev = q.graphRev
        BY <2>4, <3>4 DEF SaveDocument, UpToDate
      <4> QED BY <2>1, <3>1, <3>2, <4>1 DEF Changed
    <3>5. CASE Stale(q)
      <4>1. At(q.graphRev) # {}
            /\ Independent(Baseline(q.graphRev), q.body.graph, record.doc.graph)
        BY <2>4, <3>5 DEF SaveDocument
      <4>2. PICK b \in Records : /\ b.graphRev = q.graphRev
                                 /\ Baseline(q.graphRev) = b.doc.graph
        BY <1>1, <4>1, BaselineStored
      <4>3. \A r \in Records : r.graphRev = q.graphRev => r.doc.graph = b.doc.graph
        BY <1>1, <4>2 DEF IInv, HistorySound, RevisionNames
      <4>4. record'.doc.graph = MergedGraph(b.doc.graph, q.body.graph, record.doc.graph)
        BY <3>1, <3>5, <4>2 DEF SaveGraph, Stale
      <4>5. Independent(b.doc.graph, q.body.graph, record.doc.graph)
        BY <4>1, <4>2
      <4>6. \A n \in Changed(record.doc.graph.nodes, record'.doc.graph.nodes) :
              b.doc.graph.nodes[n] = record.doc.graph.nodes[n]
        <5> SUFFICES ASSUME NEW n \in Nodes,
                            record.doc.graph.nodes[n] # record'.doc.graph.nodes[n]
                     PROVE  b.doc.graph.nodes[n] = record.doc.graph.nodes[n]
          BY DEF Changed
        <5>1. record'.doc.graph.nodes[n]
                = IF b.doc.graph.nodes[n] # q.body.graph.nodes[n]
                  THEN q.body.graph.nodes[n] ELSE record.doc.graph.nodes[n]
          BY <4>4 DEF MergedGraph
        <5> QED BY <4>5, <5>1 DEF Independent, Changed
      <4>7. record'.doc.graph.edges # record.doc.graph.edges
              => b.doc.graph.edges = record.doc.graph.edges
        BY <4>4, <4>5 DEF MergedGraph, Independent
      <4> QED BY <2>1, <3>1, <3>2, <4>3, <4>6, <4>7 DEF Changed
    <3> QED BY <3>3, <3>4, <3>5
  <2> QED BY <1>1, <2>2, <2>3, <2>4 DEF Accept
<1>2. ASSUME IInv, Next, NEW q \in {receipts'[i].request : i \in DOMAIN receipts'}, Accepted(q)
      PROVE  ~Repeated(q) /\ Seen(q)
  <2>1. PICK p \in Request : Accept(p) \/ Arrange(p) \/ Refuse(p)
    BY <1>2 DEF Next
  <2>2. receipts' # receipts
    BY <1>2 DEF Accepted, IInv, PipelineTypeOK
  <2>3. Accept(p)
    BY <2>1, <2>2 DEF Arrange, Refuse
  <2>4. receipts' = Append(receipts, [request |-> p, result |-> record'])
    BY <2>3 DEF Accept, SaveDocument, Patch, LayoutDocument, UndoChange, RedoChange, Commit
  <2>5. q = p
    BY <1>2, <2>4 DEF Accepted, IInv, PipelineTypeOK
  <2>6. ~Repeated(p)
    BY <2>3 DEF Accept, Replays, Repeated
  <2> QED BY <1>1, <1>2, <2>3, <2>5, <2>6
<1>3. IInv /\ [Next]_service =>
        [\A q \in {receipts'[i].request : i \in DOMAIN receipts'} :
            Accepted(q) => /\ ~Repeated(q)
                           /\ Seen(q)]_service
  BY <1>2
<1> QED BY <1>3, Invariant, PTL DEF Spec, NoBlindOverwrite

\* An undo takes back what its actor's change did, a redo what the undo did.
THEOREM UndoneOwn == Spec => UndoOwn
<1> DEFINE Turned(i) ==
        LET before == history[i].before.doc
            from == IF history'[i].undone THEN After(i) ELSE before
            to   == IF history'[i].undone THEN before ELSE After(i)
        IN  /\ \A n \in Changed(record.doc.graph.nodes, record'.doc.graph.nodes) :
                 /\ record.doc.graph.nodes[n] = from.graph.nodes[n]
                 /\ record'.doc.graph.nodes[n] = to.graph.nodes[n]
            /\ \A n \in Changed(record.doc.places, record'.doc.places) :
                 /\ record.doc.places[n] = from.places[n]
                 /\ record'.doc.places[n] = to.places[n]
<1>1. ASSUME IInv, NEW q \in Request, Accept(q), NEW i \in DOMAIN history,
             history'[i].undone # history[i].undone
      PROVE  Turned(i)
  <2>1. CASE SaveDocument(q) \/ Patch(q) \/ LayoutDocument(q)
    <3>1. PICK d \in Document : Commit(q, d, history, redo)
      BY <1>1, <2>1, DirectWrites
    <3>2. Wrote(q, d, history)
      BY <1>1, <3>1, OwnPast, Committed DEF IInv, PipelineTypeOK
    <3> QED BY <1>1, <3>2 DEF Wrote
  <2>2. CASE UndoChange(q)
    <3>1. PICK last \in Undoable(q.actor), d \in Document, redos \in Seq(RedoEntry) :
            LET past == [history EXCEPT ![last].undone = TRUE]
            IN  /\ history[last].before \in Record
                /\ d = MergedDocument(After(last), history[last].before.doc, record.doc)
                /\ Mergeable(After(last), history[last].before.doc, record.doc)
                /\ Past(past) /\ Commit(q, d, past, redos)
      BY <1>1, <2>2, UndoWrites
    <3> DEFINE past == [history EXCEPT ![last].undone = TRUE]
               before == history[last].before.doc
    <3>2. Past(past) /\ Commit(q, d, past, redos) /\ Mergeable(After(last), before, record.doc)
          /\ d = MergedDocument(After(last), before, record.doc) /\ before \in Document
      BY <3>1 DEF Record
    <3>3. history \in Seq(HistoryEntry) /\ last \in DOMAIN history /\ record.doc \in Document
      BY <1>1 DEF IInv, PipelineTypeOK, Record, Undoable
    <3>4. history[last] \in HistoryEntry
      BY <3>3
    <3>5. past[last].undone /\ \A x \in DOMAIN history : x # last => past[x] = history[x]
      BY <3>3, <3>4 DEF HistoryEntry
    <3> HIDE DEF past
    <3>6. history'[i] = past[i]
      <4>1. Wrote(q, d, past)
        BY <1>1, <3>2, Committed
      <4> QED BY <1>1, <4>1 DEF Wrote
    <3>7. i = last /\ history'[i].undone
      BY <1>1, <3>5, <3>6
    <3>8. record'.doc = d
      BY <3>2 DEF Commit, RecordOf
    <3>9. After(last) \in Document
      BY <1>1, <3>3, AfterTyped
    <3> HIDE DEF before
    <3>10. /\ \A n \in Changed(record.doc.graph.nodes, d.graph.nodes) :
                /\ record.doc.graph.nodes[n] = After(last).graph.nodes[n]
                /\ d.graph.nodes[n] = before.graph.nodes[n]
           /\ \A n \in Changed(record.doc.places, d.places) :
                /\ record.doc.places[n] = After(last).places[n]
                /\ d.places[n] = before.places[n]
      BY <3>2, <3>3, <3>9, MergeTakes
    <3> QED BY <3>7, <3>8, <3>10 DEF before
  <2>3. CASE RedoChange(q)
    <3>1. PICK index \in Mine(q.actor), d \in Document, redos \in Seq(RedoEntry) :
            LET e == redo[index]
                past == [history EXCEPT ![e.target].undone = FALSE]
            IN  /\ e \in RedoEntry
                /\ d = MergedDocument(e.undoneDocument, e.document, record.doc)
                /\ Mergeable(e.undoneDocument, e.document, record.doc)
                /\ Past(past) /\ Commit(q, d, past, redos)
      BY <1>1, <2>3, RedoWrites
    <3> DEFINE e == redo[index]
               past == [history EXCEPT ![e.target].undone = FALSE]
    <3>2. Past(past) /\ Commit(q, d, past, redos) /\ Mergeable(e.undoneDocument, e.document, record.doc)
          /\ d = MergedDocument(e.undoneDocument, e.document, record.doc)
          /\ e.undoneDocument \in Document /\ e.document \in Document
      BY <3>1 DEF RedoEntry
    <3>3. InOrder(e) /\ history \in Seq(HistoryEntry) /\ record.doc \in Document
      BY <1>1, EntriesInOrder DEF IInv, PipelineTypeOK, Record, Mine
    <3>4. e.target \in DOMAIN history /\ history[e.target] \in HistoryEntry /\ TakesBack(e)
      BY <3>3 DEF InOrder
    <3>5. ~past[e.target].undone /\ \A x \in DOMAIN history : x # e.target => past[x] = history[x]
      BY <3>3, <3>4 DEF HistoryEntry
    <3> HIDE DEF past, e
    <3>6. history'[i] = past[i]
      <4>1. Wrote(q, d, past)
        BY <1>1, <3>2, Committed
      <4> QED BY <1>1, <4>1 DEF Wrote
    <3>7. i = e.target /\ ~history'[i].undone
      BY <1>1, <3>5, <3>6
    <3>8. record'.doc = d
      BY <3>2 DEF Commit, RecordOf
    <3>9. /\ \A n \in Changed(record.doc.graph.nodes, d.graph.nodes) :
                /\ record.doc.graph.nodes[n] = e.undoneDocument.graph.nodes[n]
                /\ d.graph.nodes[n] = e.document.graph.nodes[n]
          /\ \A n \in Changed(record.doc.places, d.places) :
                /\ record.doc.places[n] = e.undoneDocument.places[n]
                /\ d.places[n] = e.document.places[n]
      BY <3>2, <3>3, MergeTakes
    <3>10. After(e.target) = After(i) /\ history[e.target] = history[i]
      BY <3>7
    <3> QED BY <3>4, <3>7, <3>8, <3>9, <3>10 DEF TakesBack, Changed
  <2> QED BY <1>1, <2>1, <2>2, <2>3 DEF Accept
<1>2. ASSUME IInv, Next PROVE \A i \in DOMAIN history :
        history'[i].undone # history[i].undone => Turned(i)
  <2>1. PICK q \in Request : Accept(q) \/ Arrange(q) \/ Refuse(q)
    BY <1>2 DEF Next
  <2>2. CASE Accept(q)
    BY <1>1, <1>2, <2>2
  <2>3. CASE Arrange(q) \/ Refuse(q)
    BY <2>3 DEF Arrange, Refuse
  <2> QED BY <2>1, <2>2, <2>3
<1>3. IInv /\ [Next]_service =>
        [\A i \in DOMAIN history : history'[i].undone # history[i].undone => Turned(i)]_service
  BY <1>2
<1> QED BY <1>3, Invariant, PTL DEF Spec, UndoOwn

=============================================================================
