------------------------------- MODULE PgQuery -------------------------------
(***************************************************************************)
(* The query side of plugins/postgres: the planner, the WHERE clause over  *)
(* the doc column, Search, Iterate and the native GROUP BY.                *)
(*                                                                         *)
(* rows is what the querier in use sees: the committed tables, or those of *)
(* the caller's own REPEATABLE READ transaction, whose writes the server   *)
(* shows by itself.  A SQL expression is the set of its value, empty for   *)
(* NULL; ->> turns every stored scalar into text.                          *)
(***************************************************************************)
EXTENDS FilterKernel

LOCAL INSTANCE SequencesExt

leafExact(op) == op \in {"is_null", "not_null"}

isPushable(op) ==
    op \in {"eq", "gt", "lt", "gte", "lte", "contains", "starts_with", "ends_with",
            "is_null", "not_null", "between", "between_inclusive"}

isComparisonOp(op) == op \in Comparisons

pathHasWildcard(f) == f.wildcard

isLeafPushable(f) ==
    /\ isPushable(f.op)
    /\ ~pathHasWildcard(f)
    /\ f.temporal /\ f.source = "data" => ~isComparisonOp(f.op)

RECURSIVE allPushedExact(_)
allPushedExact(f) ==
    IF f.op \in Groups
    THEN f.kids # <<>> /\ \A i \in DOMAIN f.kids : allPushedExact(f.kids[i])
    ELSE leafExact(f.op)

RECURSIVE isFullyPushable(_)
isFullyPushable(f) ==
    IF f.op \in Groups
    THEN f.kids # <<>> /\ \A i \in DOMAIN f.kids : isFullyPushable(f.kids[i])
    ELSE isLeafPushable(f)

-----------------------------------------------------------------------------
RECURSIVE dissect(_)

dissectAnd(f) ==
    LET parts == [i \in DOMAIN f.kids |-> dissect(f.kids[i])]
    IN  Split(Conjoined(FlattenSeq([i \in DOMAIN parts |-> parts[i].pushed])),
              Conjoined(FlattenSeq([i \in DOMAIN parts |-> parts[i].residual])))

dissectOr(f) ==
    IF f.kids # <<>> /\ \A i \in DOMAIN f.kids : isFullyPushable(f.kids[i])
    THEN Split(<<f>>, <<>>) ELSE Split(<<>>, <<f>>)

dissect(f) ==
    CASE f.op = "AND" -> dissectAnd(f)
      [] f.op = "OR"  -> dissectOr(f)
      [] OTHER -> IF isLeafPushable(f) THEN Split(<<f>>, <<>>) ELSE Split(<<>>, <<f>>)

planQuery(f) ==
    LET d == dissect(f)
        exact == d.residual = <<>> /\ \A i \in DOMAIN d.pushed : allPushedExact(d.pushed[i])
    IN  IF ~Prepares(f) THEN Unplannable
        ELSE Plan(d.pushed, IF exact THEN <<>> ELSE <<f>>)

planFor(f) == IF f.op = "" THEN Plan(<<>>, <<>>) ELSE planQuery(f)

-----------------------------------------------------------------------------
(* doc->>'path': the text of a stored scalar or object. *)
jsonbExtractText(path, doc) == {TextOf(x) : x \in {y \in {Member(doc, path)} : ~Blank(y)}}

fieldExpr(f, doc) ==
    IF f.temporal THEN {x[2] : x \in {doc[f.path]}} ELSE jsonbExtractText(f.path, doc)

isNumericValue(v) == v[1] = "num"

numericArg(v) == Float(v[2])

(* A boolean operand is bound as the text a stored boolean is rendered to. *)
textArg(v) == IF v[1] = "bool" THEN (IF v[2] THEN "true" ELSE "false") ELSE TextOf(v)

(* cyoda_try_float8: NULL for a text that is no number. *)
cyoda_try_float8(texts) == {Float(n) : n \in UNION {NumberIn(t) : t \in texts}}

orderExpr(f, doc, numeric) ==
    IF numeric THEN cyoda_try_float8(fieldExpr(f, doc))
               ELSE {Rank(t) : t \in fieldExpr(f, doc)}

(* eq, the ordering operators and BETWEEN: as numbers when the operands    *)
(* are numbers, otherwise as texts under COLLATE "C".                      *)
orderingOp(f, sqlOp, doc) ==
    LET numeric == isNumericValue(f.arg) /\ isNumericValue(f.hi)
        bound(v) == IF numeric THEN numericArg(v) ELSE Rank(textArg(v))
    IN  \E x \in orderExpr(f, doc, numeric) : Test(sqlOp, x, bound(f.arg), bound(f.hi))

sqlOpForTemporal(op) == Relaxed(op)

temporalLeafToSQL(f, doc) ==
    \E t \in fieldExpr(f, doc) :
        Test(sqlOpForTemporal(f.op), Millis(t), Millis(f.arg[2]), Millis(f.hi[2]))

leafToSQL(f, doc) ==
    CASE f.op = "is_null"  -> fieldExpr(f, doc) = {}
      [] f.op = "not_null" -> fieldExpr(f, doc) # {}
      [] ~leafExact(f.op) /\ f.temporal -> temporalLeafToSQL(f, doc)
      [] ~f.temporal /\ f.op \in StringOps ->
            \E t \in fieldExpr(f, doc) : Occurs(f.op, t, TextOf(f.arg))
      [] OTHER -> orderingOp(f, Relaxed(f.op), doc)

RECURSIVE toSQL(_, _)

joinChildren(kids, sep, doc) ==
    \/ kids = <<>>
    \/ sep = "AND" /\ \A i \in DOMAIN kids : toSQL(kids[i], doc)
    \/ sep = "OR"  /\ \E i \in DOMAIN kids : toSQL(kids[i], doc)

toSQL(f, doc) ==
    IF f.op \in Groups THEN joinChildren(f.kids, f.op, doc) ELSE leafToSQL(f, doc)

Where(plan, base) == {r \in base : \A i \in DOMAIN plan.where : toSQL(plan.where[i], r[2])}

evalPostFilter(plan, rows) == {r \in rows : \A i \in DOMAIN plan.post : Match(plan.post[i], r[2])}

-----------------------------------------------------------------------------
(* The rows of the base query: the entities table, or DISTINCT ON the      *)
(* latest version of each entity at the instant, from which the deletion   *)
(* markers then drop.                                                      *)
searchBaseQuery(vers, pit) ==
    LET seen(e)    == {i \in DOMAIN vers[e] : pit = Now \/ vers[e][i].at <= pit}
        latest(e)  == CHOOSE i \in seen(e) : \A j \in seen(e) : vers[e][j].at <= vers[e][i].at
        visible    == {e \in Stored(vers) : seen(e) # {}}
    IN  {<<e, vers[e][latest(e)].doc>> : e \in {x \in visible : ~vers[x][latest(x)].del}}

validateFilterPaths(f) == PathsValid(f)

validateGroupAndAggregatePaths(group, field) == {group, field} \subseteq ScalarPaths

(* LIMIT limit+1 in SQL when nothing is re-checked, a count while the rows *)
(* stream otherwise.                                                       *)
runSearch(vers, q) ==
    LET plan == planFor(q.filter)
        sql  == Where(plan, searchBaseQuery(vers, q.pit))
    IN  IF plan.err # "nil" THEN Rows(plan.err, {})
        ELSE Bounded(IF plan.post = <<>> THEN FirstRows(sql, q.limit + 1)
                                         ELSE evalPostFilter(plan, sql), q.limit)

(* A point-in-time search runs off the caller's transaction. *)
searchCommitted(vers, view, q) == runSearch(IF q.pit = Now THEN view ELSE vers, q)

(* A context that names an ended transaction gets a querier that answers   *)
(* every statement with the reason.                                        *)
resolveRaw(tx, pit) ==
    CASE tx.st = "rolledBack" /\ pit = Now -> "ErrTxNotFound"
      [] tx.st = "committed" /\ pit = Now  -> "ErrTxAlreadyCommitted"
      [] OTHER -> "nil"

Search(vers, tx, view, q) ==
    CASE q.limit <= 0 -> Rows("ErrLimit", {})
      [] q.limit > 0 /\ ~validateFilterPaths(q.filter) -> Rows("ErrInvalidFilterPath", {})
      [] OTHER -> IF resolveRaw(tx, q.pit) # "nil" /\ planFor(q.filter).err = "nil"
                  THEN Rows(resolveRaw(tx, q.pit), {}) ELSE searchCommitted(vers, view, q)

(* The rows an iterator is going to yield. *)
Iterate(vers, tx, view, q) ==
    LET plan == planFor(q.filter)
        seen == IF q.pit = Now THEN view ELSE vers
    IN  IF ~validateFilterPaths(q.filter) THEN Rows("ErrInvalidFilterPath", {})
        ELSE IF plan.err # "nil" THEN Rows(plan.err, {})
        ELSE IF resolveRaw(tx, q.pit) # "nil" THEN Rows(resolveRaw(tx, q.pit), {})
        ELSE Rows("nil", evalPostFilter(plan, Where(plan, searchBaseQuery(seen, q.pit))))

-----------------------------------------------------------------------------
(* An object or an array groups with null. *)
groupExprToSQL(path, doc) ==
    IF doc[path][1] = "obj" THEN {} ELSE jsonbExtractText(path, doc)

aggregateExprToSQL(op, field, rows) ==
    SqlAggregate(op, UNION {{<<r[1], x>> : x \in cyoda_try_float8(jsonbExtractText(field, r[2]))}
                            : r \in rows})

GroupedAggregate(vers, q) ==
    LET plan == planFor(q.filter)
        valid == validateFilterPaths(q.filter) /\ validateGroupAndAggregatePaths(q.group, q.field)
        rows == Where(plan, searchBaseQuery(vers, Now))
        keys == {groupExprToSQL(q.group, r[2]) : r \in rows}
        bucket(k) == {r \in rows : groupExprToSQL(q.group, r[2]) = k}
    IN  CASE q.pit # Now           -> Buckets("ErrAggregationNotPushdownable", {})
          [] q.pit = Now /\ ~valid -> Buckets("ErrInvalidFilterPath", {})
          [] q.pit = Now /\ valid  ->
               IF plan.err # "nil" THEN Buckets(plan.err, {})
               ELSE IF plan.post # <<>> THEN Buckets("ErrAggregationNotPushdownable", {})
               ELSE Capped({Bucket(k, Cardinality(bucket(k)),
                                   aggregateExprToSQL(q.agg, q.field, bucket(k))) : k \in keys}, q.max)
=============================================================================
