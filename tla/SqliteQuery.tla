----------------------------- MODULE SqliteQuery -----------------------------
(***************************************************************************)
(* The query side of plugins/sqlite: the planner that splits a filter into *)
(* a SQL WHERE clause and a residual, Search and Iterate over the committed*)
(* tables and over a transaction's overlay, and the native GROUP BY.       *)
(*                                                                         *)
(* vers[e] is the entity's history in entity_versions; the entities table  *)
(* is its last row.  A transaction's buffer is a set of <<entity, doc>>.   *)
(* A SQL expression is the set of its value: empty for NULL.  SQL order is *)
(* storage class first (numbers before texts), then value.                 *)
(***************************************************************************)
EXTENDS FilterKernel

LOCAL INSTANCE SequencesExt

leafExact(op) == op \in {"is_null", "not_null"}

isPushable(op) ==
    op \in {"eq", "gt", "lt", "gte", "lte", "contains", "starts_with", "ends_with",
            "is_null", "not_null", "between", "between_inclusive"}

isComparisonOp(op) == op \in Comparisons

pathHasWildcard(f) == f.wildcard

isLeafPushable(f) ==
    /\ isPushable(f.op)
    /\ ~pathHasWildcard(f)
    /\ IF f.temporal THEN f.source = "meta" \/ ~isComparisonOp(f.op)
                     ELSE Cardinality(f.declared) <= 1 \/ ~isComparisonOp(f.op)

RECURSIVE allPushedExact(_)
allPushedExact(f) ==
    IF f.op \in Groups
    THEN f.kids # <<>> /\ \A i \in DOMAIN f.kids : allPushedExact(f.kids[i])
    ELSE leafExact(f.op)

RECURSIVE isFullyPushable(_)
isFullyPushable(f) ==
    IF f.op \in Groups
    THEN f.kids # <<>> /\ \A i \in DOMAIN f.kids : isFullyPushable(f.kids[i])
    ELSE isLeafPushable(f)

-----------------------------------------------------------------------------
RECURSIVE dissect(_)

dissectAnd(f) ==
    LET parts == [i \in DOMAIN f.kids |-> dissect(f.kids[i])]
    IN  Split(Conjoined(FlattenSeq([i \in DOMAIN parts |-> parts[i].pushed])),
              Conjoined(FlattenSeq([i \in DOMAIN parts |-> parts[i].residual])))

dissectOr(f) ==
    IF f.kids # <<>> /\ \A i \in DOMAIN f.kids : isFullyPushable(f.kids[i])
    THEN Split(<<f>>, <<>>) ELSE Split(<<>>, <<f>>)

dissect(f) ==
    CASE f.op = "AND" -> dissectAnd(f)
      [] f.op = "OR"  -> dissectOr(f)
      [] OTHER -> IF isLeafPushable(f) THEN Split(<<f>>, <<>>) ELSE Split(<<>>, <<f>>)

(* Unless every pushed leaf is exact and nothing is left over, the whole   *)
(* filter is checked again in Go.  Whether it can be is asked first, for   *)
(* every plan: an exact one is never checked again.                        *)
planQuery(f) ==
    LET d == dissect(f)
        exact == d.residual = <<>> /\ \A i \in DOMAIN d.pushed : allPushedExact(d.pushed[i])
    IN  IF ~Prepares(f) THEN Unplannable
        ELSE Plan(d.pushed, IF exact THEN <<>> ELSE <<f>>)

planFor(f) == IF f.op = "" THEN Plan(<<>>, <<>>) ELSE planQuery(f)

-----------------------------------------------------------------------------
fieldExpr(f, doc) == {x \in {Member(doc, f.path)} : ~Blank(x)}

isTextStorageClass(kind) == kind = "text"

operandText(v) == TextOf(v)

(* A json.Number becomes an INTEGER or a REAL, anything else is bound as it is. *)
bindArg(v) == IF v[1] = "num" THEN <<"num", Float(v[2])>> ELSE v

comparisonBind(f, v) ==
    IF \E kind \in f.declared : f.declared = {kind} /\ isTextStorageClass(kind)
    THEN <<"text", operandText(v)>> ELSE bindArg(v)

(* Where a value stands in SQLite's order: json_extract of a boolean is    *)
(* the INTEGER 1 or 0, of an object its text.                              *)
ClassOrder(x) ==
    CASE x[1] = "num"  -> Float(x[2])
      [] x[1] = "bool" -> IF x[2] THEN 1 ELSE 0
      [] OTHER         -> 1000 + Rank(TextOf(x))

sqlOpForTemporal(op) == Relaxed(op)

temporalLeafToSQL(f, doc) ==
    \E x \in fieldExpr(f, doc) :
        Test(sqlOpForTemporal(f.op), Millis(x[2]), Millis(f.arg[2]), Millis(f.hi[2]))

(* Faulty variant of leafToSQL: strict operators are pushed as they are. *)
strictLeafToSQL(f, doc) ==
    LET col == fieldExpr(f, doc)
    IN  CASE f.op = "is_null"  -> col = {}
          [] f.op = "not_null" -> col # {}
          [] ~leafExact(f.op) /\ f.temporal -> temporalLeafToSQL(f, doc)
          [] ~f.temporal /\ f.op \in StringOps ->
                \E x \in col : Occurs(f.op, TextOf(x), operandText(f.arg))
          [] OTHER ->
                \E x \in col : Test(f.op, ClassOrder(x),
                    ClassOrder(comparisonBind(f, f.arg)), ClassOrder(comparisonBind(f, f.hi)))

leafToSQL(f, doc) ==
    LET col == fieldExpr(f, doc)
    IN  CASE f.op = "is_null"  -> col = {}
          [] f.op = "not_null" -> col # {}
          [] ~leafExact(f.op) /\ f.temporal -> temporalLeafToSQL(f, doc)
          [] ~f.temporal /\ f.op \in StringOps ->
                \E x \in col : Occurs(f.op, TextOf(x), operandText(f.arg))
          [] OTHER ->
                \E x \in col : Test(Relaxed(f.op), ClassOrder(x),
                    ClassOrder(comparisonBind(f, f.arg)), ClassOrder(comparisonBind(f, f.hi)))

RECURSIVE toSQL(_, _)

(* No children join to no predicate at all. *)
joinChildren(kids, sep, doc) ==
    \/ kids = <<>>
    \/ sep = "AND" /\ \A i \in DOMAIN kids : toSQL(kids[i], doc)
    \/ sep = "OR"  /\ \E i \in DOMAIN kids : toSQL(kids[i], doc)

toSQL(f, doc) ==
    IF f.op \in Groups THEN joinChildren(f.kids, f.op, doc) ELSE leafToSQL(f, doc)

(* The rows of a base query that the WHERE clause keeps, and of those the  *)
(* rows the re-check in Go keeps.                                          *)
Where(plan, base) == {r \in base : \A i \in DOMAIN plan.where : toSQL(plan.where[i], r[2])}

evaluateFilter(plan, rows) == {r \in rows : \A i \in DOMAIN plan.post : Match(plan.post[i], r[2])}

-----------------------------------------------------------------------------
(* The entities table keeps the last row of each entity. *)
searchCurrentStateBase(vers) ==
    {<<e, Last(vers[e]).doc>> : e \in {x \in Stored(vers) : ~Last(vers[x]).del}}

(* The highest version stamped at or before the instant, unless deleted. *)
searchSnapshotBase(vers, at) ==
    LET rows(e)   == {i \in DOMAIN vers[e] : vers[e][i].at <= at}
        latest(e) == CHOOSE i \in rows(e) : \A j \in rows(e) : j <= i
        found     == {e \in Stored(vers) : rows(e) # {} /\ ~vers[e][latest(e)].del}
    IN  {<<e, vers[e][latest(e)].doc>> : e \in found}

searchPointInTimeBase(vers, q) == searchSnapshotBase(vers, q.pit)

validateFilterPaths(f) == PathsValid(f)

validateGroupAndAggregatePaths(group, field) == {group, field} \subseteq ScalarPaths

searchCommitted(vers, q) ==
    LET plan == planFor(q.filter)
        base == IF q.pit = Now THEN searchCurrentStateBase(vers) ELSE searchPointInTimeBase(vers, q)
        sql  == Where(plan, base)
    IN  IF plan.err # "nil" THEN Rows(plan.err, {})
        ELSE Bounded(evaluateFilter(plan, IF plan.post = <<>> THEN FirstRows(sql, q.limit + 1) ELSE sql),
                     q.limit)

TxCheck(tx) ==
    CASE tx.st = "rolledBack" -> "ErrTxRolledBack"
      [] tx.st = "committed"  -> "ErrTxAlreadyCommitted"
      [] tx.st = "open"       -> "nil"

Suppressed(tx, f) == tx.dels \cup {r[1] : r \in tx.buf}

Adds(tx, f) == {r \in tx.buf : r[1] \notin tx.dels /\ Match(f, r[2])}

searchTxOverlay(vers, tx, q) ==
    LET plan      == planFor(q.filter)
        committed == evaluateFilter(plan, Where(plan, searchSnapshotBase(vers, tx.snap)))
    IN  IF plan.err # "nil" THEN Rows(plan.err, {})
        ELSE IF TxCheck(tx) # "nil" THEN Rows(TxCheck(tx), {})
        ELSE MergeBounded(committed, Adds(tx, q.filter), Suppressed(tx, q.filter), q.limit)

Search(vers, tx, q) ==
    CASE q.limit <= 0 -> Rows("ErrLimit", {})
      [] q.limit > 0 /\ ~validateFilterPaths(q.filter) -> Rows("ErrInvalidFilterPath", {})
      [] OTHER -> IF tx.st # "none" /\ q.pit = Now THEN searchTxOverlay(vers, tx, q)
                                                   ELSE searchCommitted(vers, q)

-----------------------------------------------------------------------------
(* The whole stream of the overlay, fixed when it is opened. *)
openTxOverlay(vers, tx, f) ==
    LET plan == planFor(f)
    IN  IF plan.err # "nil" THEN Rows(plan.err, {})
        ELSE Rows("nil", MergeOrdered(evaluateFilter(plan, Where(plan, searchSnapshotBase(vers, tx.snap))),
                                      Adds(tx, f), Suppressed(tx, f)))

iterateTx(vers, tx, q) ==
    IF TxCheck(tx) # "nil" THEN Rows(TxCheck(tx), {})
    ELSE openTxOverlay(vers, tx, q.filter)

Iterate(vers, tx, q) ==
    LET plan == planFor(q.filter)
        base == IF q.pit = Now THEN searchCurrentStateBase(vers) ELSE searchPointInTimeBase(vers, q)
    IN  CASE ~validateFilterPaths(q.filter) -> Rows("ErrInvalidFilterPath", {})
          [] validateFilterPaths(q.filter) /\ tx.st # "none" /\ q.pit = Now -> iterateTx(vers, tx, q)
          [] OTHER -> IF plan.err # "nil" THEN Rows(plan.err, {})
                      ELSE Rows("nil", evaluateFilter(plan, Where(plan, base)))

(* The number of entities of the model that the transaction sees. *)
countTx(vers, tx) == Cardinality(openTxOverlay(vers, tx, [op |-> ""]).rows)

-----------------------------------------------------------------------------
(* json_extract, except that an object or an array is null; the driver     *)
(* hands every key over as a text, and a boolean is an INTEGER.            *)
groupExprToSQL(path, doc) ==
    {IF x[1] = "bool" THEN (IF x[2] THEN "1" ELSE "0") ELSE TextOf(x) :
        x \in {y \in {doc[path]} : ~Blank(y) /\ y[1] # "obj"}}

(* CAST(... AS REAL): a text that spells no number becomes 0. *)
CastReal(x) ==
    CASE x[1] = "num"  -> Float(x[2])
      [] x[1] = "bool" -> IF x[2] THEN 1 ELSE 0
      [] OTHER -> IF NumberIn(TextOf(x)) = {} THEN 0 ELSE Float(CHOOSE n \in NumberIn(TextOf(x)) : TRUE)

aggregateExprToSQL(op, field, rows) ==
    SqlAggregate(op, {<<r[1], CastReal(r[2][field])>> : r \in {x \in rows : ~Blank(x[2][field])}})

GroupedAggregate(vers, q) ==
    LET plan  == planFor(q.filter)
        valid == validateFilterPaths(q.filter) /\ validateGroupAndAggregatePaths(q.group, q.field)
        rows  == Where(plan, searchCurrentStateBase(vers))
        keys  == {groupExprToSQL(q.group, r[2]) : r \in rows}
        bucket(k) == {r \in rows : groupExprToSQL(q.group, r[2]) = k}
    IN  CASE q.pit # Now            -> Buckets("ErrAggregationNotPushdownable", {})
          [] q.pit = Now /\ ~valid  -> Buckets("ErrInvalidFilterPath", {})
          [] q.pit = Now /\ valid   ->
               IF q.agg = "stdev" THEN Buckets("ErrAggregationNotPushdownable", {})
               ELSE IF plan.err # "nil" THEN Buckets(plan.err, {})
               ELSE IF plan.post # <<>> THEN Buckets("ErrAggregationNotPushdownable", {})
               ELSE Capped({Bucket(k, Cardinality(bucket(k)),
                                   aggregateExprToSQL(q.agg, q.field, bucket(k))) : k \in keys}, q.max)
=============================================================================
