---------------------------- MODULE ModelSchema ----------------------------
(***************************************************************************)
(* What a model's schema is made of (internal/domain/model/schema): the    *)
(* tree of nodes, the traversal that judges a document against it (Admit), *)
(* the change level that gates what a write may add (Extend), the delta a  *)
(* write appends to the extension log (Diff) and the replay of the log     *)
(* (Apply).  Requests read the folded schema, judge a document against     *)
(* what they read, and append their delta behind deltas they have not      *)
(* seen.  ModelCatalog shows when rows of the log become visible; here the *)
(* rows are trees, and a schema is more than a set of fields.              *)
(*                                                                         *)
(* A node is the set of kinds its path was observed as, the scalar types   *)
(* of the LEAF branch, the children of the OBJECT branch, the element of   *)
(* the ARRAY branch (a sequence of at most one node) and the nullable      *)
(* marker.  A scalar value is its inferred type; names stand for field     *)
(* names, and Unspellable for those a query path could not address.        *)
(***************************************************************************)
EXTENDS Integers, FiniteSets, FiniteSetsExt, Sequences, SequencesExt

CONSTANTS
    Unspellable,         \* field names IsSegmentName refuses
    MaxValidationDepth,  \* documents nested this deep are refused
    SWriter,             \* the requests that write
    MaxDeltas,           \* bound: rows of the extension log
    SLoad                \* what a behaviour starts from: schema, level, keys, documents

VARIABLES
    sload,   \* the member of SLoad this behaviour runs
    deltas,  \* the extension log: a sequence of deltas, each a set of operations
    view,    \* the schema each writer has read (<<>> before it reads)
    taken,   \* the documents that were accepted
    grown,   \* the extended schemas the deltas were computed from
    broken   \* a delta could not be computed

svars == <<sload, deltas, view, taken, grown, broken>>

(***************************************************************************)
(* Nodes                                                                   *)
(***************************************************************************)
Empty == [kinds |-> {}, types |-> {}, child |-> <<>>, elem |-> <<>>, nullable |-> FALSE]
ObjectNode(c) == [Empty EXCEPT !.kinds = {"OBJECT"}, !.child = c]
ArrayNode(e) == [Empty EXCEPT !.kinds = {"ARRAY"}, !.elem = e]

\* Numeric members of one family are one type: the widest.
Collapse(ts) == IF "LONG" \in ts THEN ts \ {"INTEGER"} ELSE ts

\* A concrete type declares the LEAF branch and drops the marker; NULL alone is
\* the marker, and says nothing where a LEAF is declared.
AddScalarTypes(n, ts) ==
    LET concrete == ts \ {"NULL"}
    IN  IF concrete # {}
        THEN [n EXCEPT !.kinds = @ \cup {"LEAF"}, !.types = Collapse(@ \cup concrete), !.nullable = FALSE]
        ELSE [n EXCEPT !.nullable = @ \/ ("NULL" \in ts /\ "LEAF" \notin n.kinds)]
LeafNode(t) == AddScalarTypes(Empty, {t})

DeclaredTypes(n) ==
    IF "LEAF" \in n.kinds THEN n.types ELSE IF n.nullable THEN {"NULL"} ELSE {}

\* Union, branch by branch.
RECURSIVE Merge(_, _)
MergeOpt(a, b) == IF a = <<>> THEN b ELSE IF b = <<>> THEN a ELSE <<Merge(a[1], b[1])>>
Merge(a, b) ==
    [kinds    |-> a.kinds \cup b.kinds,
     types    |-> Collapse(a.types \cup b.types),
     child    |-> [x \in DOMAIN a.child \cup DOMAIN b.child |->
                      IF x \notin DOMAIN a.child THEN b.child[x]
                      ELSE IF x \notin DOMAIN b.child THEN a.child[x]
                      ELSE Merge(a.child[x], b.child[x])],
     elem     |-> MergeOpt(a.elem, b.elem),
     nullable |-> (a.nullable \/ b.nullable) /\ "LEAF" \notin a.kinds \cup b.kinds]

(***************************************************************************)
(* Admit: what the model would have to become to hold a document           *)
(***************************************************************************)
changeLevelRank(level) ==
    CASE level = "ARRAY_LENGTH" -> 0 [] level = "ARRAY_ELEMENTS" -> 1
      [] level = "TYPE" -> 2 [] level = "STRUCTURAL" -> 3 [] OTHER -> -1
levelPermits(configured, required) == changeLevelRank(configured) >= changeLevelRank(required)

\* The types that hold a value: a string of temporal shape is held by its own
\* temporal type and by STRING, a number by every type wide enough.
Holders(t) ==
    CASE t = "INTEGER" -> {"INTEGER", "LONG"} [] t = "DATE" -> {"DATE", "STRING"} [] OTHER -> {t}
holdsScalar(declared, v) == declared \cap Holders(v.type) # {}

\* A verdict: whether the traversal got through, the sparse overlay (at most
\* one node) and the changes recorded on the way.
Change(reason, level) == [reason |-> reason, level |-> level]
Verdict(overlay, changes) == [ok |-> TRUE, overlay |-> overlay, changes |-> changes]
Refusal == [ok |-> FALSE, overlay |-> <<>>, changes |-> {}]

admitNull(m, level) ==
    IF m.nullable \/ "LEAF" \in m.kinds THEN Verdict(<<>>, {})
    ELSE Verdict(<<LeafNode("NULL")>>, {Change("Nullable", level)})

RECURSIVE describeAt(_, _, _), admitNode(_, _, _, _, _)

\* A path gains a kind it does not declare.
wrongKind(m, v, depth, level, goOn) ==
    LET cost == Change("NewKind", IF m.kinds = {} THEN level ELSE "STRUCTURAL")
        sub  == describeAt(v, depth, goOn)
    IN  IF v.tag = "scalar" THEN Verdict(<<LeafNode(v.type)>>, {cost})
        ELSE [sub EXCEPT !.changes = @ \cup {cost}]

admitScalar(m, v, depth, level, goOn) ==
    IF "LEAF" \notin m.kinds THEN wrongKind(m, v, depth, level, goOn)
    ELSE IF holdsScalar(m.types, v) THEN Verdict(<<>>, {})
    ELSE Verdict(<<LeafNode(v.type)>>, {Change("LeafType", level)})

\* A field the model does not declare; strict validation notes an
\* unspellable name and goes on (goOn, continueOnInvalidName), an extension aborts.
newField(x, v, depth, goOn) ==
    LET sub == describeAt(v, depth + 1, goOn)
    IN  CASE x \notin Unspellable -> [sub EXCEPT !.changes = @ \cup {Change("NewField", "STRUCTURAL")}]
          [] goOn -> Verdict(<<>>, {Change("InvalidFieldName", "STRUCTURAL")})
          [] OTHER   -> Refusal

\* The verdict on a container from the verdicts on its members.
Gathered(sub, overlay, changes) ==
    IF \E x \in DOMAIN sub : ~sub[x].ok THEN Refusal
    ELSE Verdict(overlay, changes \cup UNION {sub[x].changes : x \in DOMAIN sub})
objectOverlay(sub) ==
    LET moved == {x \in DOMAIN sub : sub[x].overlay # <<>>}
    IN  Gathered(sub, IF moved = {} THEN <<>> ELSE <<ObjectNode([x \in moved |-> sub[x].overlay[1]])>>, {})

admitObject(m, v, depth, goOn) ==
    objectOverlay([x \in DOMAIN v.fields |->
        IF x \in DOMAIN m.child THEN admitNode(m.child[x], v.fields[x], depth + 1, "TYPE", goOn)
        ELSE newField(x, v.fields[x], depth, goOn)])

\* Each element is judged on its own; an array never seen with content learns
\* its element, and learns NULL from an empty one.
Wrapped(elem) == IF elem = <<>> THEN <<>> ELSE <<ArrayNode(elem)>>
arrayOverlay(learns, sub) ==
    Gathered(sub, Wrapped(IF learns /\ sub = <<>> THEN <<LeafNode("NULL")>>
                          ELSE FoldLeft(LAMBDA acc, r : MergeOpt(acc, r.overlay), <<>>, sub)),
             IF learns THEN {Change("ArrayElement", "ARRAY_ELEMENTS")} ELSE {})

admitArray(m, v, depth, goOn) ==
    arrayOverlay(m.elem = <<>>, [i \in DOMAIN v.items |->
        IF m.elem = <<>> THEN describeAt(v.items[i], depth + 1, goOn)
        ELSE admitNode(m.elem[1], v.items[i], depth + 1, "ARRAY_ELEMENTS", goOn)])

admitNode(m, v, depth, level, goOn) ==
    CASE depth >= MaxValidationDepth -> Refusal
      [] v.tag = "null"   -> admitNull(m, level)
      [] v.tag = "scalar" -> admitScalar(m, v, depth, level, goOn)
      [] v.tag = "object" /\ "OBJECT" \in m.kinds -> admitObject(m, v, depth, goOn)
      [] v.tag = "array" /\ "ARRAY" \in m.kinds   -> admitArray(m, v, depth, goOn)
      [] OTHER -> wrongKind(m, v, depth, level, goOn)

\* The node a value implies on its own.  Of the changes inside, only the names
\* that could not be spelled are reported.
Described(inner) ==
    IF ~inner.ok THEN Refusal
    ELSE Verdict(IF inner.overlay = <<>> THEN <<ObjectNode(<<>>)>> ELSE inner.overlay,
                 {c \in inner.changes : c.reason = "InvalidFieldName"})
describeAt(v, depth, goOn) ==
    IF depth >= MaxValidationDepth THEN Refusal
    ELSE Described(CASE v.tag = "object" -> admitObject(ObjectNode(<<>>), v, depth, goOn)
                     [] v.tag = "array"  -> admitArray(ArrayNode(<<>>), v, depth, goOn)
                     [] OTHER            -> admitNode(Empty, v, depth, "TYPE", goOn))

Validate(m, v) ==
    LET r == admitNode(m, v, 0, "TYPE", TRUE) IN r.ok /\ r.changes = {}

\* The extended model, or <<>> when the document is refused.
Extend(m, v, level) ==
    LET r == admitNode(m, v, 0, "TYPE", FALSE)
    IN  IF ~r.ok \/ \E c \in r.changes : ~levelPermits(level, c.level) THEN <<>>
        ELSE IF r.changes = {} THEN <<m>>
        ELSE MergeOpt(<<m>>, r.overlay)

\* The schema of a list of sample documents.
walkSampleData(docs) ==
    FoldLeft(LAMBDA n, v : Merge(n, describeAt(v, 0, FALSE).overlay[1]), ObjectNode(<<>>), docs)

(***************************************************************************)
(* Diff: the operations that take one schema to another                    *)
(***************************************************************************)
Op(kind, path) == [kind |-> kind, path |-> path, name |-> "", types |-> {}, node |-> Empty]
NewBroadenType(path, ts) == [Op("broaden_type", path) EXCEPT !.types = ts]
NewAddArrayItemType(path, ts) == [Op("add_array_item_type", path) EXCEPT !.types = ts]
NewAddProperty(path, x, n) == [Op("add_property", path) EXCEPT !.name = x, !.node = n]
isolateBranch(n, k) ==
    CASE k = "LEAF"   -> AddScalarTypes(Empty, n.types)
      [] k = "OBJECT" -> ObjectNode(n.child)
      [] k = "ARRAY"  -> ArrayNode(n.elem)
NewAddKindBranch(path, n, k) == [Op("add_kind_branch", path) EXCEPT !.node = isolateBranch(n, k)]

\* A difference: whether it can be expressed, and the operations.
Ops(set) == [ok |-> TRUE, ops |-> set]
NotAdditive == [ok |-> FALSE, ops |-> {}]
Join(ds) == IF \E d \in ds : ~d.ok THEN NotAdditive ELSE Ops(UNION {d.ops : d \in ds})
typeDifference(new, old) == new \ old
isScalarOnly(n) == n.kinds \cap {"OBJECT", "ARRAY"} = {}

RECURSIVE diffNode(_, _, _)

diffObject(path, o, n) ==
    IF ~(DOMAIN o.child \subseteq DOMAIN n.child) THEN NotAdditive
    ELSE Join({IF x \in DOMAIN o.child
               THEN diffNode(Append(path, x), o.child[x], n.child[x])
               ELSE Ops({NewAddProperty(path, x, n.child[x])}) : x \in DOMAIN n.child})

\* encodeTypeNames refuses an empty list.
itemTypes(path, ts) == IF ts = {} THEN NotAdditive ELSE Ops({NewAddArrayItemType(path, ts)})

diffArray(path, o, n) ==
    CASE o.elem = <<>> /\ n.elem = <<>> -> Ops({})
      [] n.elem = <<>> /\ o.elem # <<>> -> NotAdditive
      [] o.elem = <<>> /\ n.elem # <<>> ->
             IF isScalarOnly(n.elem[1]) THEN itemTypes(path, DeclaredTypes(n.elem[1]))
             ELSE Ops({NewAddKindBranch(path, n, "ARRAY")})
      [] OTHER ->
             LET added == typeDifference(DeclaredTypes(n.elem[1]), DeclaredTypes(o.elem[1]))
             IN  IF isScalarOnly(o.elem[1]) /\ isScalarOnly(n.elem[1])
                 THEN IF added = {} THEN Ops({}) ELSE itemTypes(path, added)
                 ELSE diffNode(Append(path, "[]"), o.elem[1], n.elem[1])

\* A kind on a node that declares none is spelled broaden_type when it is the
\* scalar one; every other new kind is a branch.
diffNode(path, o, n) ==
    LET added == IF "LEAF" \in o.kinds THEN typeDifference(n.types, o.types)
                 ELSE IF o.kinds = {} THEN n.types ELSE {}
        gained == {k \in n.kinds \ o.kinds : k # "LEAF" \/ o.kinds # {}}
        lost   == \/ ~(o.kinds \subseteq n.kinds)
                  \/ o.nullable /\ ~n.nullable /\ "LEAF" \notin n.kinds
    IN  IF lost THEN NotAdditive
        ELSE Join({Ops(IF n.nullable /\ ~o.nullable THEN {NewBroadenType(path, {"NULL"})} ELSE {}),
                   Ops(IF added # {} THEN {NewBroadenType(path, added)} ELSE {}),
                   Ops({NewAddKindBranch(path, n, k) : k \in gained})}
                  \cup (IF "OBJECT" \in o.kinds THEN {diffObject(path, o, n)} ELSE {})
                  \cup (IF "ARRAY" \in o.kinds THEN {diffArray(path, o, n)} ELSE {}))

Diff(o, n) == diffNode(<<>>, o, n)

(***************************************************************************)
(* Apply: replaying a delta                                                *)
(***************************************************************************)
\* The node at a path, as a sequence of at most one.
RECURSIVE resolvePath(_, _)
resolvePath(n, path) ==
    IF path = <<>> THEN <<n>>
    ELSE LET x == Head(path)
         IN  CASE x = "[]" -> IF n.elem = <<>> THEN <<>> ELSE resolvePath(n.elem[1], Tail(path))
               [] x # "[]" /\ x \in DOMAIN n.child -> resolvePath(n.child[x], Tail(path))
               [] OTHER -> <<>>

\* The tree with another node at a path that resolves.
RECURSIVE Put(_, _, _)
Put(n, path, new) ==
    IF path = <<>> THEN new
    ELSE IF Head(path) = "[]" THEN [n EXCEPT !.elem = <<Put(@[1], Tail(path), new)>>]
    ELSE [n EXCEPT !.child[Head(path)] = Put(@, Tail(path), new)]

\* What an operation makes of the node it resolved; <<>> is an error.
applyAddProperty(n, op) ==
    IF "OBJECT" \notin n.kinds \/ op.name = "" THEN <<>>
    ELSE <<[n EXCEPT !.child = [x \in DOMAIN @ \cup {op.name} |->
               IF x # op.name THEN n.child[x]
               ELSE IF x \in DOMAIN n.child THEN Merge(n.child[x], op.node) ELSE op.node]]>>

\* Faulty: types are refused on a node that declares only a container.
applyBroadenLeafOnly(n, op) ==
    IF "NULL" \notin op.types /\ n.kinds \cap {"OBJECT", "ARRAY"} # {} /\ "LEAF" \notin n.kinds
    THEN <<>> ELSE <<AddScalarTypes(n, op.types)>>
applyBroadenType(n, op) == <<AddScalarTypes(n, op.types)>>

applyAddArrayItemType(n, op) ==
    IF "ARRAY" \notin n.kinds THEN <<>>
    ELSE <<[n EXCEPT !.elem = <<AddScalarTypes(IF @ = <<>> THEN Empty ELSE @[1], op.types)>>]>>

applyAddKindBranch(n, op) ==
    IF Cardinality(op.node.kinds) # 1 THEN <<>> ELSE <<Merge(n, op.node)>>

applyOp(root, op) ==
    LET target == resolvePath(root, op.path)
        new == CASE op.kind = "add_property"        -> applyAddProperty(target[1], op)
                 [] op.kind = "broaden_type"        -> applyBroadenType(target[1], op)
                 [] op.kind = "add_array_item_type" -> applyAddArrayItemType(target[1], op)
                 [] op.kind = "add_kind_branch"     -> applyAddKindBranch(target[1], op)
    IN  IF target = <<>> THEN <<>> ELSE IF new = <<>> THEN <<>> ELSE <<Put(root, op.path, new[1])>>

\* One error ends the replay.  Diff ranges over Go maps, so the order of the
\* operations in a delta is the runtime's.
applyNext(root, op) == IF root = <<>> THEN <<>> ELSE applyOp(root[1], op)
Apply(root, delta) == FoldSet(LAMBDA op, acc : applyNext(acc, op), root, delta)

\* The schema the first i rows of the log stand for, and the whole log.
FoldedTo(i) == FoldLeft(LAMBDA acc, d : Apply(acc, d.ops), <<sload.base>>, SubSeq(deltas, 1, i))
Folded == FoldedTo(Len(deltas))

(***************************************************************************)
(* Requests                                                                *)
(***************************************************************************)
\* A keyed path is a scalar leaf below objects only.
ValidateUniqueKeys(n, keys) ==
    \A p \in keys : LET f == resolvePath(n, p) IN f # <<>> /\ isScalarOnly(f[1])

SInit ==
    /\ sload \in SLoad
    /\ deltas = <<>> /\ taken = {} /\ grown = {} /\ broken = FALSE
    /\ view = [w \in SWriter |-> <<>>]

\* A writer reads the descriptor it will judge its document against.
readSchema(w) ==
    /\ sload.docs # {} /\ view[w] = <<>> /\ Folded # <<>>
    /\ view' = [view EXCEPT ![w] = <<Folded[1], Len(deltas)>>]
    /\ UNCHANGED <<sload, deltas, taken, grown, broken>>

\* Without a change level the document must fit as it is.
validateStrict(w, v) ==
    /\ view[w] # <<>> /\ sload.level = ""
    /\ taken' = IF Validate(view[w][1], v) THEN taken \cup {v} ELSE taken
    /\ view' = [view EXCEPT ![w] = <<>>]
    /\ UNCHANGED <<sload, deltas, grown, broken>>

\* With one, the schema is extended by what the document needs, if the level and
\* the unique keys allow it, and the difference goes to the log.
refuse(w) == view' = [view EXCEPT ![w] = <<>>] /\ UNCHANGED <<sload, deltas, taken, grown, broken>>

appendDelta(w, v, extended, diff) ==
    /\ view' = [view EXCEPT ![w] = <<>>]
    /\ deltas' = IF diff.ops = {} THEN deltas ELSE Append(deltas, [seen |-> view[w][2], ops |-> diff.ops])
    /\ taken' = IF diff.ok THEN taken \cup {v} ELSE taken
    /\ grown' = IF diff.ok THEN grown \cup {extended} ELSE grown
    /\ broken' = (broken \/ ~diff.ok)
    /\ UNCHANGED sload

extendBy(w, v, ext) ==
    IF ext = <<>> THEN refuse(w)
    ELSE IF ~ValidateUniqueKeys(ext[1], sload.keys) THEN refuse(w)
    ELSE appendDelta(w, v, ext[1], Diff(view[w][1], ext[1]))

extendSchema(w, v) ==
    /\ view[w] # <<>> /\ sload.level # "" /\ Len(deltas) < MaxDeltas
    /\ extendBy(w, v, Extend(view[w][1], v, sload.level))

SNext == \E w \in SWriter : readSchema(w) \/ \E v \in sload.docs : validateStrict(w, v) \/ extendSchema(w, v)

-----------------------------------------------------------------------------
\* What a change level lets happen to a node: below STRUCTURAL a node that
\* declares a kind keeps its kinds and its fields, and its types and marker
\* move only at the level its position costs.
RECURSIVE Within(_, _, _, _)
Within(level, o, n, cost) ==
    IF o.kinds = {} THEN n = o \/ levelPermits(level, cost)
    ELSE /\ n.kinds = o.kinds
         /\ DOMAIN n.child = DOMAIN o.child
         /\ (DeclaredTypes(n) # DeclaredTypes(o) \/ n.nullable # o.nullable) => levelPermits(level, cost)
         /\ \A x \in DOMAIN o.child : Within(level, o.child[x], n.child[x], "TYPE")
         /\ IF o.elem = <<>> THEN n.elem = <<>> \/ levelPermits(level, "ARRAY_ELEMENTS")
            ELSE Within(level, o.elem[1], n.elem[1], "ARRAY_ELEMENTS")

(* Every extension could be written as a delta, the log replays without an error,
   and the replay is the union of the schemas the writers meant, although each
   computed its delta from a schema that lacks the deltas of the others: the
   operations of a delta commute, and so do two deltas neither of whose writers
   had seen the other's. *)
LogReplays ==
    /\ ~broken
    /\ Folded = <<FoldSet(Merge, sload.base, grown)>>
    /\ \A i \in DOMAIN deltas : \A p, q \in deltas[i].ops :
           applyNext(applyNext(FoldedTo(i - 1), p), q) = applyNext(applyNext(FoldedTo(i - 1), q), p)
    /\ \A i \in DOMAIN deltas \ {1} :
           deltas[i].seen < i - 1 =>
               FoldedTo(i) = Apply(Apply(FoldedTo(i - 2), deltas[i].ops), deltas[i - 1].ops)

(* The stored schema holds every document that was accepted against an earlier
   one, stays within what the change level of the model allows over the schema it
   started from, and never makes a keyed path anything but a scalar leaf, also
   where two writers extend the same path at the same time. *)
SchemaSound ==
    /\ \A v \in taken : Validate(Folded[1], v)
    /\ sload.level # "STRUCTURAL" => Within(sload.level, sload.base, Folded[1], "TYPE")
    /\ ValidateUniqueKeys(Folded[1], sload.keys)

(* A log of schema extensions written concurrently means what its writers meant. *)
ExtensionsFold == LogReplays /\ SchemaSound
=============================================================================
