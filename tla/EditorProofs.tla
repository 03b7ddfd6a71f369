----------------------------- MODULE EditorProofs -----------------------------
(* Theorems about PipelineEditor: the editor and the other clients only do     *)
(* what the service allows, so that what holds for the service holds with      *)
(* them; what the editor keeps is well typed; no answer takes away local edits.*)
EXTENDS PipelineEditor, PipelineProofs

-----------------------------------------------------------------------------
(* Rebasing the local steps *)

\* Of the steps back from document d: the k-th document, and what the k-th step
\* makes of a rebased document v.
StepBack(stack, d, k) == IF k = 0 THEN d ELSE stack[Len(stack) + 1 - k]

Rebase(stack, d, k, v) ==
    IF v = None \/ ~Rebasable(StepBack(stack, d, k - 1), StepBack(stack, d, k), v)
    THEN None
    ELSE MergedDocument(StepBack(stack, d, k - 1), StepBack(stack, d, k), v)

\* The rebased steps, as far as n.
Chain(stack, d, remote, n, g) ==
    \A k \in 0..n : g[k] = IF k = 0 THEN remote ELSE Rebase(stack, d, k, g[k - 1])

MaybeDocument == Document \cup {None}

\* Each is a document, or there is none.
LEMMA RebaseTyped ==
    ASSUME NEW stack \in Seq(Document), NEW d \in Document,
           NEW k \in 1..Len(stack), NEW v \in MaybeDocument
    PROVE  Rebase(stack, d, k, v) \in MaybeDocument
<1>1. Len(stack) \in Nat /\ \A i \in 1..Len(stack) : stack[i] \in Document
  BY LenProperties, ElementOfSeq
<1>2. StepBack(stack, d, k) \in Document
  BY <1>1 DEF StepBack
<1>3. StepBack(stack, d, k - 1) \in Document
  <2>1. k # 1 => Len(stack) + 1 - (k - 1) \in 1..Len(stack)
    BY <1>1
  <2>2. k - 1 = 0 <=> k = 1
    BY <1>1
  <2> QED BY <1>1, <2>1, <2>2 DEF StepBack
<1> QED BY <1>2, <1>3, MergedTyped DEF Rebase, MaybeDocument

\* The recursion by which the rebased steps are defined has a solution: there is
\* no least number of steps without one.
LEMMA ChainExists ==
    ASSUME NEW stack \in Seq(Document), NEW d \in Document, NEW remote \in Document
    PROVE  \E g \in [0..Len(stack) -> MaybeDocument] : Chain(stack, d, remote, Len(stack), g)
<1> DEFINE N == Len(stack)
           D == MaybeDocument
           Upto(n) == \E g \in [0..n -> D] : Chain(stack, d, remote, n, g)
           Bad == {n \in 0..N : ~Upto(n)}
<1>0. N \in Nat /\ remote \in D
  BY LenProperties DEF MaybeDocument
<1> HIDE DEF N, D
<1>1. SUFFICES ASSUME Bad # {} PROVE FALSE
  <2>1. N \in 0..N
    BY <1>0
  <2> HIDE DEF Upto
  <2>2. Upto(N)
    BY <1>1, <2>1
  <2> QED BY <2>2 DEF Upto, N, D
<1>2. PICK n \in Bad : \A m \in Bad : n <= m
  <2>1. Bad \in SUBSET Nat
    <3> HIDE DEF Upto
    <3> QED BY <1>0
  <2> HIDE DEF Bad
  <2> QED BY <1>1, <2>1, LeastNatural
<1>3. n \in 0..N /\ ~Upto(n)
  OBVIOUS
<1>4. n # 0
  <2> DEFINE g == [k \in 0..0 |-> remote]
  <2>1. g \in [0..0 -> D] /\ \A k \in 0..0 : k = 0 /\ g[k] = remote
    BY <1>0
  <2>2. Chain(stack, d, remote, 0, g)
    BY <2>1 DEF Chain
  <2>3. Upto(0)
    BY <2>1, <2>2
  <2> HIDE DEF Upto
  <2> QED BY <1>3, <2>3
<1>5. Upto(n - 1)
  <2> HIDE DEF Upto
  <2>1. n - 1 \in 0..N /\ ~(n <= n - 1)
    BY <1>0, <1>3, <1>4
  <2> QED BY <1>2, <2>1
<1>6. PICK g \in [0..(n - 1) -> D] : Chain(stack, d, remote, n - 1, g)
  BY <1>5
<1>7. g[n - 1] \in D /\ n \in 1..N /\ n - 1 \in 0..(n - 1)
  BY <1>0, <1>3, <1>4
<1> DEFINE top == Rebase(stack, d, n, g[n - 1])
           h == [k \in 0..n |-> IF k < n THEN g[k] ELSE top]
<1>8. top \in D
  BY <1>7, RebaseTyped DEF N, D
<1> HIDE DEF top
<1>9. h \in [0..n -> D]
  BY <1>0, <1>3, <1>8
<1>10. \A k \in 0..n : h[k] = IF k = 0 THEN remote ELSE Rebase(stack, d, k, h[k - 1])
  <2> SUFFICES ASSUME NEW k \in 0..n
               PROVE  h[k] = IF k = 0 THEN remote ELSE Rebase(stack, d, k, h[k - 1])
    OBVIOUS
  <2>1. CASE k < n
    <3>1. k \in 0..(n - 1) /\ h[k] = g[k]
      BY <1>0, <1>3, <2>1
    <3>2. g[k] = IF k = 0 THEN remote ELSE Rebase(stack, d, k, g[k - 1])
      BY <1>6, <3>1 DEF Chain
    <3>3. k # 0 => h[k - 1] = g[k - 1]
      BY <1>0, <1>3, <3>1
    <3> HIDE DEF h
    <3> QED BY <3>1, <3>2, <3>3
  <2>2. CASE k = n
    <3>1. h[n] = top /\ h[n - 1] = g[n - 1]
      BY <1>0, <1>3, <1>4
    <3> HIDE DEF h
    <3> QED BY <1>4, <2>2, <3>1 DEF top
  <2> QED BY <1>0, <1>3, <2>1, <2>2
<1> HIDE DEF h
<1>11. Chain(stack, d, remote, n, h)
  BY <1>10 DEF Chain
<1> QED BY <1>3, <1>9, <1>11

\* A set of indices that holds, with an index, all below it.
LEMMA Prefix ==
    ASSUME NEW N \in Nat, NEW T \in SUBSET (1..N),
           \A k \in T : \A j \in 1..k : j \in T
    PROVE  /\ Cardinality(T) \in 0..N /\ T = 1..Cardinality(T)
<1>1. CASE T = {}
  BY <1>1, FS_EmptySet
<1>2. CASE T # {}
  <2>1. Max(T) \in T /\ \A y \in T : y <= Max(T)
    BY <1>2, MaxGreatest
  <2> DEFINE m == Max(T)
  <2> HIDE DEF m
  <2>2. m \in T /\ \A y \in T : y <= m
    BY <2>1 DEF m
  <2>3. T = 1..m
    <3> HIDE DEF m
    <3>1. T \subseteq 1..m
      BY <2>2
    <3>2. 1..m \subseteq T
      BY <2>2
    <3> QED BY <3>1, <3>2
  <2>4. Cardinality(1..m) = m
    <3>1. m \in Int /\ 1 <= m
      BY <2>2
    <3>2. Cardinality(1..m) = IF 1 > m THEN 0 ELSE m - 1 + 1
      BY <3>1, FS_Interval
    <3> HIDE DEF m
    <3>3. (m - 1) + 1 = m /\ ~(1 > m)
      BY <3>1
    <3> QED BY <3>2, <3>3
  <2> QED BY <2>2, <2>3, <2>4
<1> QED BY <1>1, <1>2

\* The rebased steps are documents, no more than there were.
LEMMA RebasedTyped ==
    ASSUME NEW stack \in Seq(Document), NEW d \in Document, NEW remote \in Document
    PROVE  /\ Rebased(stack, d, remote) \in Seq(Document)
           /\ Len(Rebased(stack, d, remote)) <= Len(stack)
<1> DEFINE N == Len(stack)
           Of(g) == g = [k \in 0..N |-> IF k = 0 THEN remote
                                       ELSE Rebase(stack, d, k, g[k - 1])]
           on == CHOOSE g : Of(g)
           Some == {k \in 1..N : on[k] # None}
<1>1. Rebased(stack, d, remote)
        = [i \in 1..Cardinality(Some) |-> on[Cardinality(Some) + 1 - i]]
  BY DEF Rebased, Rebase, StepBack
<1>2. N \in Nat
  BY LenProperties
<1>3. PICK g \in [0..N -> MaybeDocument] : Chain(stack, d, remote, N, g)
  BY ChainExists
<1> HIDE DEF N
<1>4. Of(g)
  BY <1>3 DEF Chain
<1>5. Of(on)
  <2> HIDE DEF Of
  <2> QED BY <1>4
<1> HIDE DEF on
<1>6. \A k \in 0..N : on[k] = IF k = 0 THEN remote ELSE Rebase(stack, d, k, on[k - 1])
  BY <1>5
<1> HIDE DEF Of
<1>7. \A k \in 0..N : on[k] \in MaybeDocument
  <2> DEFINE Bad == {k \in 0..N : on[k] \notin MaybeDocument}
  <2> SUFFICES ASSUME Bad # {} PROVE FALSE
    OBVIOUS
  <2>1. PICK k \in Bad : \A j \in Bad : k <= j
    <3>1. Bad \in SUBSET Nat
      BY <1>2
    <3> QED BY <3>1, LeastNatural
  <2>2. k \in 0..N /\ on[k] \notin MaybeDocument
    OBVIOUS
  <2>3. k # 0
    BY <1>6, <2>2 DEF MaybeDocument
  <2>4. k \in 1..N /\ k - 1 \in 0..N /\ ~(k <= k - 1)
    BY <1>2, <2>2, <2>3
  <2>5. on[k - 1] \in MaybeDocument
    BY <2>1, <2>4
  <2>6. Rebase(stack, d, k, on[k - 1]) \in MaybeDocument
    BY <2>4, <2>5, RebaseTyped DEF N
  <2> QED BY <1>6, <2>2, <2>3, <2>6
<1>8. \A k \in 1..N : on[k - 1] = None => on[k] = None
  <2> SUFFICES ASSUME NEW k \in 1..N, on[k - 1] = None PROVE on[k] = None
    OBVIOUS
  <2>1. k \in 0..N /\ k # 0
    BY <1>2
  <2>2. on[k] = Rebase(stack, d, k, on[k - 1])
    BY <1>6, <2>1
  <2> QED BY <2>2 DEF Rebase
<1>9. \A k \in Some : \A j \in 1..k : j \in Some
  <2> SUFFICES ASSUME NEW k \in Some, {j \in 1..k : j \notin Some} # {} PROVE FALSE
    OBVIOUS
  <2> DEFINE Gaps == {j \in 1..k : j \notin Some}
  <2>1. k \in 1..N /\ on[k] # None
    OBVIOUS
  <2>2. Gaps \in SUBSET (1..k) /\ k \in Nat
    BY <1>2, <2>1
  <2>3. PICK j \in Gaps : \A y \in Gaps : y <= j
    BY <2>2, MaxGreatest
  <2>4. j \in 1..k /\ j \in 1..N /\ on[j] = None /\ j # k
    BY <1>2, <2>1, <2>3
  <2>5. j + 1 \in 1..k /\ j + 1 \in 1..N /\ (j + 1) - 1 = j /\ ~(j + 1 <= j)
    BY <1>2, <2>1, <2>4
  <2>6. on[j + 1] = None
    BY <1>8, <2>4, <2>5
  <2> QED BY <2>3, <2>5, <2>6
<1> DEFINE kept == Cardinality(Some)
<1>10. kept \in 0..N /\ Some = 1..kept
  <2>1. Some \in SUBSET (1..N)
    OBVIOUS
  <2> HIDE DEF Some
  <2> QED BY <1>2, <1>9, <2>1, Prefix
<1> HIDE DEF kept
<1>11. \A i \in 1..kept : on[kept + 1 - i] \in Document
  <2> SUFFICES ASSUME NEW i \in 1..kept PROVE on[kept + 1 - i] \in Document
    OBVIOUS
  <2>1. kept + 1 - i \in 1..kept /\ kept + 1 - i \in 0..N
    BY <1>2, <1>10
  <2>2. on[kept + 1 - i] # None
    BY <1>10, <2>1
  <2> QED BY <1>7, <2>1, <2>2 DEF MaybeDocument
<1>12. Rebased(stack, d, remote) = [i \in 1..kept |-> on[kept + 1 - i]]
  BY <1>1 DEF kept
<1> DEFINE r == [i \in 1..kept |-> on[kept + 1 - i]]
<1>13. r \in Seq(Document) /\ Len(r) = kept
  <2>1. kept \in Nat
    BY <1>2, <1>10
  <2> QED BY <1>11, <2>1
<1> QED BY <1>2, <1>10, <1>12, <1>13 DEF N

-----------------------------------------------------------------------------
(* The invariant of the editor *)

Stack == {s \in Seq(Document) : Len(s) <= MaxPast}

Calls == [request : Request, sent : Document, answer : Records \cup {None}]

Openings == [sent : Document, answer : Records \cup {None}]

CanvasOK == doc \in Document /\ past \in Stack /\ future \in Stack

WireOK == /\ base \in Records /\ poll \in Records \cup {None}
          /\ call \in Calls \cup {None} /\ opening \in Openings \cup {None}
          /\ last \in Request \cup {None} /\ late \subseteq Request

EditorInv == IInv /\ CanvasOK /\ WireOK

-----------------------------------------------------------------------------
(* Types of the operators *)

\* What was stored is a record.
LEMMA StoredTyped ==
    ASSUME IInv, NEW r \in Records
    PROVE  /\ r \in Record /\ r.doc \in Document
           /\ r.graphRev \in Nat /\ r.layoutRev \in Nat
BY DEF IInv, Latest, Record

\* The stored record is one of them.
LEMMA StoredNow ==
    ASSUME IInv
    PROVE  /\ record \in Records /\ record \in Record /\ record.doc \in Document
           /\ \A i \in DOMAIN receipts : receipts[i].result \in Records
BY DEF IInv, PipelineTypeOK, Records, Record

\* A moved document is a document.
LEMMA MovedTyped ==
    ASSUME NEW d \in Document, NEW m \in Nodes \X Places
    PROVE  Moved(d, m) \in Document
BY DEF Moved, Document, Layout

\* The local stacks stay within their limit.
LEMMA KeptTyped ==
    ASSUME NEW s \in Stack, NEW d \in Document
    PROVE  Kept(s, d) \in Stack
<1>1. MaxPast \in Nat /\ MaxPast # 0
  BY EditorAssumption
<1>2. s \in Seq(Document) /\ Len(s) \in Nat /\ Len(s) <= MaxPast
  BY LenProperties DEF Stack
<1>3. CASE Len(s) >= MaxPast
  <2>1. Tail(s) \in Seq(Document) /\ Len(Tail(s)) = Len(s) - 1
    BY <1>1, <1>2, <1>3, HeadTailProperties
  <2>2. Append(Tail(s), d) \in Seq(Document) /\ Len(Append(Tail(s), d)) = Len(s)
    BY <1>2, <2>1, AppendProperties
  <2> QED BY <1>2, <1>3, <2>2 DEF Kept, Stack
<1>4. CASE ~(Len(s) >= MaxPast)
  <2>1. Append(s, d) \in Seq(Document) /\ Len(Append(s, d)) = Len(s) + 1
    BY <1>2, AppendProperties
  <2> QED BY <1>1, <1>2, <1>4, <2>1 DEF Kept, Stack
<1> QED BY <1>3, <1>4

\* The top of a stack, and what is below it.
LEMMA TopTyped ==
    ASSUME NEW s \in Stack, s # <<>>
    PROVE  Last(s) \in Document /\ Front(s) \in Stack
<1>1. s \in Seq(Document) /\ Len(s) \in Nat /\ Len(s) # 0 /\ Len(s) <= MaxPast
  BY LenProperties, EmptySeq DEF Stack
<1>2. Front(s) \in Seq(Document) /\ Len(Front(s)) = Len(s) - 1
  <2> DEFINE n == Len(s) - 1
  <2>1. n \in Nat /\ \A i \in 1..n : s[i] \in Document
    BY <1>1, ElementOfSeq
  <2> HIDE DEF n
  <2>2. SubSeq(s, 1, n) \in Seq(Document) /\ Len(SubSeq(s, 1, n)) = IF 1 <= n THEN n - 1 + 1 ELSE 0
    BY <2>1, SubSeqProperties
  <2>3. Len(SubSeq(s, 1, n)) = n
    BY <2>1, <2>2
  <2> QED BY <2>2, <2>3 DEF Front, n
<1>3. s[Len(s)] \in Document
  BY <1>1, ElementOfSeq
<1> QED BY <1>1, <1>2, <1>3, EditorAssumption DEF Last, Stack

\* A merge of a save's answer is a document.
LEMMA AcknowledgedTyped ==
    ASSUME NEW a \in Document, NEW b \in Document, NEW c \in Document
    PROVE  Acknowledged(a, b, c) \in Document
BY DEF Acknowledged, Document

\* A change of the canvas, and a document loaded, keep its types.
LEMMA ChangeTyped ==
    ASSUME CanvasOK, NEW d \in Document, RecordChange(d)
    PROVE  CanvasOK'
<1>1. Kept(past, doc) \in Stack
  BY KeptTyped DEF CanvasOK
<1>2. <<>> \in Stack
  BY EmptySeq, EditorAssumption DEF Stack
<1> QED BY <1>1, <1>2 DEF CanvasOK, RecordChange

LEMMA LoadTyped ==
    ASSUME CanvasOK, NEW d \in Document, Load(d)
    PROVE  CanvasOK'
<1>1. ASSUME NEW s \in Stack PROVE Rebased(s, doc, d) \in Stack
  <2>1. s \in Seq(Document) /\ Len(s) \in Nat /\ Len(s) <= MaxPast /\ doc \in Document
    BY LenProperties DEF Stack, CanvasOK
  <2>2. Rebased(s, doc, d) \in Seq(Document) /\ Len(Rebased(s, doc, d)) <= Len(s)
    BY <2>1, RebasedTyped
  <2>3. Len(Rebased(s, doc, d)) \in Nat
    BY <2>2, LenProperties
  <2> QED BY <2>1, <2>2, <2>3, EditorAssumption DEF Stack
<1> QED BY <1>1 DEF CanvasOK, Load

\* What another client sends is a request.
LEMMA ToolTyped ==
    ASSUME EditorInv, NEW u \in Clients,
           NEW name \in {"save", "patch", "layout", "undo", "redo"}, NEW body,
           name = "save" => body \in Save, name = "patch" => body \in Edit,
           name = "layout" => body \in Document,
           name \in {"undo", "redo"} => body = None
    PROVE  ToolRequest(u, name, body) \in Request
<1>1. record.graphRev \in Nat /\ record.layoutRev \in Nat
  BY StoredNow, StoredTyped DEF EditorInv
<1>2. Fresh \in Nat /\ u \in Actors
  BY EditorAssumption DEF EditorInv, IInv, PipelineTypeOK, Fresh
<1> QED BY <1>1, <1>2 DEF ToolRequest, Request, RequestOf

-----------------------------------------------------------------------------
(* What the service does meanwhile *)

\* An accepted request commits a document.
LEMMA AcceptCommits ==
    ASSUME IInv, NEW q \in Request, Accept(q)
    PROVE  \E d \in Document, redos \in Seq(RedoEntry) :
              \E h : Past(h) /\ Commit(q, d, h, redos)
<1>1. CASE SaveDocument(q) \/ Patch(q) \/ LayoutDocument(q)
  <2>1. redo \in Seq(RedoEntry)
    BY DEF IInv, PipelineTypeOK
  <2> QED BY <1>1, <2>1, DirectWrites, OwnPast
<1>2. CASE UndoChange(q)
  BY <1>2, UndoWrites
<1>3. CASE RedoChange(q)
  BY <1>3, RedoWrites
<1> QED BY <1>1, <1>2, <1>3 DEF Accept

\* What was stored stays known.
LEMMA RecordsStay ==
    ASSUME IInv, [Next]_service
    PROVE  Records \subseteq Records'
<1>1. CASE UNCHANGED <<record, history, receipts>>
  BY <1>1 DEF Records
<1>2. ASSUME NEW q \in Request, Accept(q) PROVE Records \subseteq Records'
  <2>0. PICK d \in Document, redos \in Seq(RedoEntry) :
               \E h : Past(h) /\ Commit(q, d, h, redos)
    BY <1>2, AcceptCommits
  <2>1. PICK h : Past(h) /\ Commit(q, d, h, redos)
    BY <2>0
  <2>2. Wrote(q, d, h)
    BY <2>1, Committed
  <2>3. /\ DOMAIN history = 1..Len(history) /\ Len(history) \in Nat /\ 1 \in DOMAIN history
        /\ DOMAIN history' = 1..Len(history') /\ Len(history') \in Nat
        /\ Len(history) <= Len(history')
        /\ DOMAIN receipts = 1..Len(receipts) /\ Len(receipts) \in Nat
        /\ DOMAIN receipts' = 1..Len(receipts') /\ Len(receipts') = Len(receipts) + 1
    BY <2>2 DEF Wrote, IInv, PipelineTypeOK, Told
  <2>4. \A i \in DOMAIN history \ {1} : history[i].before \in Records'
    <3> SUFFICES ASSUME NEW i \in DOMAIN history \ {1} PROVE history[i].before \in Records'
      OBVIOUS
    <3>1. i \in DOMAIN history' \ {1}
      BY <2>3
    <3>2. history'[i].before = history[i].before
      BY <2>1, <2>2 DEF Wrote, Past
    <3> QED BY <3>1, <3>2 DEF Records
  <2>5. \A i \in DOMAIN receipts : receipts[i].result \in Records'
    <3> SUFFICES ASSUME NEW i \in DOMAIN receipts PROVE receipts[i].result \in Records'
      OBVIOUS
    <3>1. i \in DOMAIN receipts'
      BY <2>3
    <3>2. receipts'[i] = receipts[i]
      BY <2>2 DEF Wrote
    <3> QED BY <3>1, <3>2 DEF Records
  <2>6. record \in Records'
    <3>1. CASE d = record.doc
      <4>1. record' = record
        BY <2>1, <3>1, StoredNow DEF Commit, RecordOf, Bump, Record
      <4> QED BY <4>1 DEF Records
    <3>2. CASE d # record.doc
      <4>1. Len(history') = Len(history) + 1
        BY <2>2, <3>2 DEF Wrote
      <4> DEFINE i == Len(history) + 1
      <4>2. i \in DOMAIN history' \ DOMAIN history /\ i # 1
        BY <2>3, <4>1
      <4>3. history'[i].before = record
        BY <2>2, <4>2 DEF Wrote
      <4> QED BY <4>2, <4>3 DEF Records
    <3> QED BY <3>1, <3>2
  <2> QED BY <2>4, <2>5, <2>6 DEF Records
<1>3. ASSUME NEW q \in Request, Arrange(q) \/ Refuse(q) PROVE Records \subseteq Records'
  BY <1>1, <1>3 DEF Arrange, Refuse
<1> QED BY <1>1, <1>2, <1>3 DEF Next, service

\* What the editor holds of the server stays known.
LEMMA WireStays ==
    ASSUME IInv, [Next]_service, WireOK, UNCHANGED <<base, poll, call, opening, last, late>>
    PROVE  WireOK'
<1>1. Records \subseteq Records'
  BY RecordsStay
<1>2. Calls \subseteq Calls' /\ Openings \subseteq Openings'
  BY <1>1 DEF Calls, Openings
<1> QED BY <1>1, <1>2 DEF WireOK

-----------------------------------------------------------------------------
(* The steps *)

\* A step of another client is one of the service.
LEMMA ToolsStep ==
    ASSUME EditorInv, Tools
    PROVE  Next /\ UNCHANGED <<doc, base, past, future, call, opening, poll, last, late>>
<1>0. SUFFICES Next
  BY DEF Tools
<1>1. PICK u \in Clients : ToolWrite(u) \/ ToolUndo(u) \/ ToolLayout(u)
  BY DEF Tools
<1>2. record.doc \in Document /\ Allowed[u] \subseteq Edit /\ Moves[u] \subseteq Nodes \X Places
  BY StoredNow, EditorAssumption DEF EditorInv
<1>3. CASE ToolWrite(u)
  <2>1. ASSUME NEW e \in Allowed[u], Accept(ToolRequest(u, "patch", e)) PROVE Next
    <3>1. ToolRequest(u, "patch", e) \in Request
      BY <1>2, ToolTyped
    <3> QED BY <2>1, <3>1 DEF Next
  <2>2. ASSUME NEW m \in Moves[u],
               Accept(ToolRequest(u, "save", [graph |-> None, merge |-> FALSE,
                                              places |-> Moved(record.doc, m).places]))
        PROVE  Next
    <3> DEFINE body == [graph |-> None, merge |-> FALSE,
                        places |-> Moved(record.doc, m).places]
    <3>1. Moved(record.doc, m).places \in Layout
      BY <1>2, MovedTyped DEF Document
    <3>2. body \in Save
      BY <3>1 DEF Save
    <3> HIDE DEF body
    <3>3. ToolRequest(u, "save", body) \in Request
      BY <3>2, ToolTyped
    <3> QED BY <2>2, <3>3 DEF Next, body
  <2> QED BY <1>3, <2>1, <2>2 DEF ToolWrite
<1>4. CASE ToolUndo(u)
  <2>1. PICK name \in {"undo", "redo"} : Accept(ToolRequest(u, name, None))
    BY <1>4 DEF ToolUndo
  <2>2. ToolRequest(u, name, None) \in Request
    BY ToolTyped
  <2> QED BY <2>1, <2>2 DEF Next
<1>5. CASE ToolLayout(u)
  <2>1. ASSUME NEW m \in Moves[u], Arrange(ToolRequest(u, "layout", Moved(record.doc, m)))
        PROVE  Next
    <3>1. Moved(record.doc, m) \in Document
      BY <1>2, MovedTyped
    <3>2. ToolRequest(u, "layout", Moved(record.doc, m)) \in Request
      BY <3>1, ToolTyped
    <3> QED BY <2>1, <3>2 DEF Next
  <2>2. ASSUME NEW q \in arranged, Accept(q) \/ Refuse(q) PROVE Next
    BY <2>2 DEF Next, EditorInv, IInv, PipelineTypeOK
  <2> QED BY <1>5, <2>1, <2>2 DEF ToolLayout
<1> QED BY <1>1, <1>3, <1>4, <1>5 DEF Tools

\* What the editor asks is a request.
LEMMA AskStep ==
    ASSUME EditorInv, NEW name \in {"save", "undo", "redo"}, NEW body,
           name = "save" => body \in Save, name # "save" => body = None, Ask(name, body)
    PROVE  UNCHANGED service /\ CanvasOK' /\ WireOK'
<1> DEFINE q == [name |-> name, actor |-> Me, key |-> KeyFor(name, body),
                 graphRev |-> base.graphRev, layoutRev |-> base.layoutRev, body |-> body]
<1>1. /\ call' = [request |-> q, sent |-> doc, answer |-> None] /\ last' = q
      /\ UNCHANGED service /\ UNCHANGED canvas
      /\ UNCHANGED <<base, opening, poll, late, spent>>
  BY DEF Ask
<1>2. base.graphRev \in Nat /\ base.layoutRev \in Nat
  BY StoredTyped DEF EditorInv, WireOK
<1>3. last # None => last.key \in Nat
  BY DEF EditorInv, WireOK, Request, RequestOf
<1>4. KeyFor(name, body) \in Nat
  BY <1>3 DEF KeyFor, Asked
<1>5. q \in Request
  <2> DEFINE k == KeyFor(name, body)
  <2>1. k \in Nat
    BY <1>4
  <2> HIDE DEF k
  <2>2. [name |-> name, actor |-> Me, key |-> k, graphRev |-> base.graphRev,
         layoutRev |-> base.layoutRev, body |-> body] \in Request
    BY <1>2, <2>1, EditorAssumption DEF Request, RequestOf
  <2> QED BY <2>2 DEF k
<1> HIDE DEF q
<1>6. call' \in Calls
  BY <1>1, <1>5 DEF Calls, EditorInv, CanvasOK
<1>7. Records' = Records /\ Calls' = Calls /\ Openings' = Openings
  BY <1>1 DEF service, Records, Calls, Openings
<1> QED BY <1>1, <1>5, <1>6, <1>7 DEF EditorInv, WireOK, CanvasOK, canvas

\* Of the person.
LEMMA PersonStep ==
    ASSUME EditorInv, Person
    PROVE  UNCHANGED service /\ CanvasOK' /\ WireOK'
<1>0. CanvasOK /\ IInv /\ WireOK
  BY DEF EditorInv
<1>1. ASSUME Elsewhere PROVE UNCHANGED service /\ WireOK'
  BY <1>0, <1>1, WireStays DEF Elsewhere
<1>2. CASE EditCanvas
  <2>1. ASSUME NEW e \in Allowed[Me], RecordChange(Edited(e, doc)) PROVE CanvasOK'
    <3>1. e \in Edit
      BY EditorAssumption
    <3>2. Edited(e, doc) \in Document
      BY <1>0, <3>1, EditedTyped DEF CanvasOK
    <3> QED BY <1>0, <2>1, <3>2, ChangeTyped
  <2>2. ASSUME NEW m \in Moves[Me], RecordChange(Moved(doc, m)) PROVE CanvasOK'
    <3>1. m \in Nodes \X Places
      BY EditorAssumption
    <3>2. Moved(doc, m) \in Document
      BY <1>0, <3>1, MovedTyped DEF CanvasOK
    <3> QED BY <1>0, <2>2, <3>2, ChangeTyped
  <2> QED BY <1>1, <1>2, <2>1, <2>2 DEF EditCanvas
<1>3. CASE UndoLocal
  <2>1. Last(past) \in Document /\ Front(past) \in Stack /\ Kept(future, doc) \in Stack
    BY <1>0, <1>3, TopTyped, KeptTyped DEF UndoLocal, CanvasOK
  <2> QED BY <1>1, <1>3, <2>1 DEF UndoLocal, CanvasOK
<1>4. CASE RedoLocal
  <2>1. Last(future) \in Document /\ Front(future) \in Stack /\ Kept(past, doc) \in Stack
    BY <1>0, <1>4, TopTyped, KeptTyped DEF RedoLocal, CanvasOK
  <2> QED BY <1>1, <1>4, <2>1 DEF RedoLocal, CanvasOK
<1>5. CASE AskSave
  <2> DEFINE body == [graph |-> IF doc.graph = base.doc.graph THEN None ELSE doc.graph,
                      places |-> IF doc.places = base.doc.places THEN None ELSE doc.places,
                      merge |-> TRUE]
  <2>1. doc.graph \in Graph /\ doc.places \in Layout
    BY <1>0 DEF CanvasOK, Document
  <2>2. body \in Save /\ Ask("save", body)
    BY <1>5, <2>1 DEF Save, AskSave
  <2> HIDE DEF body
  <2> QED BY <2>2, AskStep
<1>6. CASE AskUndo
  BY <1>6, AskStep DEF AskUndo
<1>7. CASE AskOpen
  <2>1. opening' = [sent |-> doc, answer |-> None] /\ UNCHANGED service
        /\ UNCHANGED canvas /\ UNCHANGED <<base, call, poll, last, late>>
    BY <1>7 DEF AskOpen
  <2>2. Records' = Records /\ Calls' = Calls /\ opening' \in Openings'
    BY <1>0, <2>1 DEF service, Records, Calls, Openings, CanvasOK
  <2> QED BY <1>0, <2>1, <2>2 DEF WireOK, CanvasOK, canvas
<1> QED BY <1>2, <1>3, <1>4, <1>5, <1>6, <1>7 DEF Person

\* Of the network: what arrives is a request, if late.
LEMMA NetworkStep ==
    ASSUME EditorInv, Network
    PROVE  [Next]_service /\ CanvasOK' /\ WireOK'
<1>0. CanvasOK /\ IInv /\ WireOK
  BY DEF EditorInv
<1>1. [Next]_service
  <2>1. CASE Deliver
    <3>1. call # None => call.request \in Request
      BY <1>0 DEF WireOK, Calls
    <3> QED BY <2>1, <3>1 DEF Deliver, Unanswered, Replay, Next
  <2>2. CASE Fail
    BY <2>2 DEF Fail
  <2>3. CASE DeliverLate
    BY <1>0, <2>3 DEF DeliverLate, WireOK, Next
  <2>4. CASE OpenRead \/ OpenDropped
    BY <2>4 DEF OpenRead, OpenDropped
  <2> QED BY <2>1, <2>2, <2>3, <2>4 DEF Network
<1>2. IInv' /\ Records \subseteq Records'
  BY <1>0, <1>1, StepInv, RecordsStay
<1>3. UNCHANGED canvas
  BY DEF Network, Deliver, Answering, Fail, Quiet, DeliverLate, OpenRead, OpenDropped
<1>4. CanvasOK'
  BY <1>0, <1>3 DEF canvas, CanvasOK
<1>5. UNCHANGED <<base, poll, last>>
  BY DEF Network, Deliver, Answering, Fail, Quiet, DeliverLate, OpenRead, OpenDropped
<1>6. call' \in Calls' \cup {None}
  <2>1. CASE Deliver
    <3>1. PICK answer \in Records' : call # None /\ call' = [call EXCEPT !.answer = answer]
      <4>1. record' \in Records'
        BY <1>2, StoredNow DEF Records
      <4>2. \A i \in DOMAIN receipts : receipts[i].result \in Records'
        BY <1>0, <1>2, StoredNow
      <4> QED BY <2>1, <4>1, <4>2 DEF Deliver, Unanswered, Answering
    <3>2. call \in Calls
      BY <1>0, <3>1 DEF WireOK
    <3> QED BY <3>1, <3>2 DEF Calls
  <2>2. CASE Fail
    BY <2>2 DEF Fail, Quiet
  <2>3. CASE DeliverLate \/ OpenRead \/ OpenDropped
    <3>1. call' = call
      BY <2>3 DEF DeliverLate, OpenRead, OpenDropped
    <3> QED BY <1>0, <1>2, <3>1 DEF WireOK, Calls
  <2> QED BY <2>1, <2>2, <2>3 DEF Network
<1>7. late' \subseteq Request
  <2>1. CASE Fail
    BY <1>0, <2>1 DEF Fail, Unanswered, WireOK, Calls
  <2>2. CASE Deliver \/ DeliverLate \/ OpenRead \/ OpenDropped
    BY <1>0, <2>2 DEF Deliver, Answering, DeliverLate, OpenRead, OpenDropped, WireOK
  <2> QED BY <2>1, <2>2 DEF Network
<1>8. opening' \in Openings' \cup {None}
  <2>1. CASE OpenRead
    <3>1. opening \in Openings /\ opening' = [opening EXCEPT !.answer = record]
      BY <1>0, <2>1 DEF OpenRead, WireOK
    <3>2. record \in Records'
      BY <1>0, <1>2, StoredNow
    <3> QED BY <3>1, <3>2 DEF Openings
  <2>2. CASE OpenDropped
    BY <2>2 DEF OpenDropped
  <2>3. CASE Deliver \/ Fail \/ DeliverLate
    <3>1. opening' = opening
      BY <2>3 DEF Deliver, Answering, Fail, Quiet, DeliverLate
    <3> QED BY <1>0, <1>2, <3>1 DEF WireOK, Openings
  <2> QED BY <2>1, <2>2, <2>3 DEF Network
<1> QED BY <1>0, <1>1, <1>2, <1>4, <1>5, <1>6, <1>7, <1>8 DEF WireOK

\* Of what the editor makes of an answer.
LEMMA AnswersStep ==
    ASSUME EditorInv, Answers
    PROVE  UNCHANGED service /\ CanvasOK' /\ WireOK'
<1>0. CanvasOK /\ IInv /\ WireOK
  BY DEF EditorInv
<1>1. UNCHANGED service
  BY DEF Answers, SaveAnswered, UndoAnswered, OpenAnswered, PollRead, PollAnswered
<1> SUFFICES CanvasOK' /\ WireOK'
  BY <1>1
<1>2. Records' = Records /\ Calls' = Calls /\ Openings' = Openings
  BY <1>1 DEF service, Records, Calls, Openings
<1>3. ASSUME call # None, call.answer # None
      PROVE  /\ call.sent \in Document /\ call.answer \in Records
             /\ call.answer.doc \in Document
  <2>1. call \in Calls
    BY <1>0, <1>3 DEF WireOK
  <2>2. call.sent \in Document /\ call.answer \in Records
    BY <1>3, <2>1 DEF Calls
  <2> QED BY <1>0, <2>2, StoredTyped
<1>4. ASSUME NEW r \in Records, Concluded(r) PROVE WireOK'
  BY <1>0, <1>2, <1>4 DEF Concluded, Based, WireOK
<1>5. ASSUME Quiet, UNCHANGED <<late, spent>> PROVE CanvasOK' /\ WireOK'
  BY <1>0, <1>2, <1>5 DEF Quiet, WireOK, CanvasOK, canvas
<1>6. CASE SaveAnswered
  <2>1. call # None /\ call.answer # None
    BY <1>6 DEF SaveAnswered, Answered
  <2> DEFINE merged == Acknowledged(call.sent, doc, call.answer.doc)
  <2>2. merged \in Document
    BY <1>0, <1>3, <2>1, AcknowledgedTyped DEF CanvasOK
  <2>3. \/ Load(call.answer.doc) /\ Concluded(call.answer)
        \/ RecordChange(merged) /\ Concluded(call.answer)
        \/ Quiet /\ UNCHANGED <<late, spent>>
    BY <1>6 DEF SaveAnswered
  <2> HIDE DEF merged
  <2> QED BY <1>0, <1>3, <1>4, <1>5, <2>1, <2>2, <2>3, LoadTyped, ChangeTyped
<1>7. CASE UndoAnswered
  <2>1. call # None /\ call.answer # None /\ Concluded(call.answer)
        /\ (Load(call.answer.doc) \/ UNCHANGED canvas)
    BY <1>7 DEF UndoAnswered, Answered
  <2> QED BY <1>0, <1>3, <1>4, <2>1, LoadTyped DEF canvas, CanvasOK
<1>8. CASE OpenAnswered
  <2>1. opening \in Openings /\ opening.answer \in Records
    BY <1>0, <1>8 DEF OpenAnswered, WireOK, Openings
  <2>2. opening.answer.doc \in Document
    BY <1>0, <2>1, StoredTyped
  <2>3. /\ Load(opening.answer.doc) /\ Based(opening.answer)
        /\ opening' = None /\ UNCHANGED call
    BY <1>8 DEF OpenAnswered
  <2>4. CanvasOK'
    BY <1>0, <2>2, <2>3, LoadTyped
  <2> QED BY <1>0, <1>2, <2>1, <2>3, <2>4 DEF Based, WireOK
<1>9. CASE PollRead
  <2>1. poll' = record /\ UNCHANGED canvas
        /\ UNCHANGED <<base, call, opening, last, late, spent>>
    BY <1>9 DEF PollRead
  <2> QED BY <1>0, <1>2, <2>1, StoredNow DEF WireOK, CanvasOK, canvas
<1>10. CASE PollAnswered
  <2>1. poll \in Records /\ poll.doc \in Document
    BY <1>0, <1>10, StoredTyped DEF PollAnswered, WireOK
  <2>2. /\ poll' = None /\ UNCHANGED <<call, opening, last, late, spent>>
        /\ \/ Load(poll.doc) /\ base' = poll
           \/ UNCHANGED canvas /\ UNCHANGED base
    BY <1>10 DEF PollAnswered
  <2>3. CanvasOK'
    BY <1>0, <2>1, <2>2, LoadTyped DEF CanvasOK, canvas
  <2> QED BY <1>0, <1>2, <2>1, <2>2, <2>3 DEF WireOK
<1> QED BY <1>6, <1>7, <1>8, <1>9, <1>10 DEF Answers

\* The invariant holds at first, and every step keeps it and is one of the
\* service, or none.
LEMMA EditorStarts == EditorInit => Init /\ EditorInv
<1> SUFFICES ASSUME EditorInit PROVE EditorInv
  BY DEF EditorInit
<1>1. IInv
  BY InitInv DEF EditorInit
<1>2. base \in Records
  BY DEF EditorInit, Init, Records
<1>3. <<>> \in Stack
  BY EmptySeq, EditorAssumption DEF Stack
<1> QED BY <1>1, <1>2, <1>3, BlankAssumption DEF EditorInit, EditorInv, CanvasOK, WireOK

LEMMA EditorStep ==
    ASSUME EditorInv, [EditorNext]_vars
    PROVE  [Next]_service /\ EditorInv'
<1>0. CanvasOK /\ IInv /\ WireOK
  BY DEF EditorInv
<1>1. ASSUME [Next]_service, CanvasOK', WireOK' PROVE [Next]_service /\ EditorInv'
  BY <1>0, <1>1, StepInv DEF EditorInv
<1>2. CASE Tools
  <2>1. Next /\ UNCHANGED <<doc, base, past, future, call, opening, poll, last, late>>
    BY <1>2, ToolsStep
  <2>2. WireOK'
    BY <1>0, <2>1, WireStays
  <2>3. CanvasOK'
    BY <1>0, <2>1 DEF CanvasOK
  <2> QED BY <1>1, <2>1, <2>2, <2>3
<1>3. CASE Person
  BY <1>1, <1>3, PersonStep
<1>4. CASE Network
  BY <1>1, <1>4, NetworkStep
<1>5. CASE Answers
  BY <1>1, <1>5, AnswersStep
<1>6. CASE UNCHANGED vars
  <2>1. /\ UNCHANGED service
        /\ UNCHANGED <<doc, past, future, base, poll, call, opening, last, late>>
    BY <1>6 DEF vars, service
  <2>2. WireOK' /\ CanvasOK'
    BY <1>0, <2>1, WireStays DEF CanvasOK
  <2> QED BY <1>1, <2>1, <2>2
<1> QED BY <1>2, <1>3, <1>4, <1>5, <1>6 DEF EditorNext

LEMMA EditorInvariant == EditorSpec => []EditorInv
BY EditorStarts, EditorStep, PTL DEF EditorSpec

-----------------------------------------------------------------------------
(* Theorems *)

\* Every reachable state of the editor and the service is well typed, and what
\* the editor holds of the server was stored there.
THEOREM EditorTyped == EditorSpec => []EditorTypeOK
<1>1. EditorInv => EditorTypeOK
  BY DEF EditorInv, EditorTypeOK, IInv, CanvasOK, WireOK, Calls, Openings, Stack
<1> QED BY <1>1, EditorInvariant, PTL

\* The editor and the other clients, whatever they lose, repeat or have arrive
\* late, do nothing to the pipeline that the service does not allow.
THEOREM EditorImplements == EditorSpec => Spec
BY EditorStarts, EditorStep, EditorInvariant, PTL DEF EditorSpec, Spec

\* So what holds of the service holds with the editor: its history is sound,
THEOREM EditorHistory == EditorSpec => []HistorySound
BY EditorImplements, HistoryHolds, PTL

\* no write of the editor, in time or late, or of another client replaces what
\* its author has not seen,
THEOREM EditorOverwritesNothing == EditorSpec => NoBlindOverwrite
BY EditorImplements, NothingOverwritten, PTL

\* and an undo takes back what its actor did.
THEOREM EditorUndoesOwn == EditorSpec => UndoOwn
BY EditorImplements, UndoneOwn, PTL

\* What an answer changes on the canvas was not edited since what it answers was
\* asked, or since the base.
THEOREM EditsKept == EditorSpec => LocalEditsKept
<1> DEFINE before == IF call' # call THEN call.sent
                     ELSE IF opening' # opening THEN opening.sent ELSE base.doc
           Preserved == base' # base =>
             /\ \A n \in Changed(doc.graph.nodes, doc'.graph.nodes) :
                  doc.graph.nodes[n] = before.graph.nodes[n]
             /\ doc'.graph.edges # doc.graph.edges => doc.graph.edges = before.graph.edges
             /\ \A n \in Changed(doc.places, doc'.places) :
                  doc.places[n] = before.places[n]
<1>1. ASSUME doc' = doc PROVE Preserved
  BY <1>1 DEF Changed
<1>2. ASSUME doc = before PROVE Preserved
  BY <1>2
<1>3. ASSUME base' = base PROVE Preserved
  BY <1>3
<1>4. ASSUME EditorNext PROVE Preserved
  <2>1. CASE SaveAnswered
    <3> DEFINE merged == Acknowledged(call.sent, doc, call.answer.doc)
    <3>1. /\ before = call.sent
          /\ \/ doc = call.sent
             \/ doc' = merged
             \/ base' = base
      BY <2>1 DEF SaveAnswered, Answered, RecordChange, Concluded, Quiet
    <3>2. CASE doc' = merged
      <4>1. /\ doc'.graph # doc.graph => doc.graph = call.sent.graph
            /\ doc'.places # doc.places => doc.places = call.sent.places
        BY <3>2 DEF Acknowledged
      <4> QED BY <3>1, <4>1 DEF Changed
    <3> QED BY <1>2, <1>3, <3>1, <3>2
  <2>2. CASE UndoAnswered
    <3>1. before = call.sent /\ (doc = call.sent \/ doc' = doc)
      BY <2>2 DEF UndoAnswered, Answered, Concluded, canvas
    <3> QED BY <1>1, <1>2, <3>1
  <2>3. CASE OpenAnswered
    <3>1. before = opening.sent /\ doc = opening.sent
      BY <2>3 DEF OpenAnswered
    <3> QED BY <1>2, <3>1
  <2>4. CASE PollAnswered
    <3>1. (before = base.doc /\ doc = base.doc) \/ base' = base
      BY <2>4 DEF PollAnswered
    <3> QED BY <1>2, <1>3, <3>1
  <2>5. CASE Tools \/ Person \/ Network \/ PollRead
    <3>1. base' = base
      BY <2>5 DEF Tools, Person, EditCanvas, UndoLocal, RedoLocal, Elsewhere, AskSave,
                  AskUndo, Ask, AskOpen, Network, Deliver, Answering, Fail, Quiet,
                  DeliverLate, OpenRead, OpenDropped, PollRead
    <3> QED BY <1>3, <3>1
  <2> QED BY <1>4, <2>1, <2>2, <2>3, <2>4, <2>5 DEF EditorNext, Answers
<1>5. [EditorNext]_vars => [Preserved]_vars
  BY <1>4
<1> QED BY <1>5, PTL DEF EditorSpec, LocalEditsKept

=============================================================================
