------------------------------- MODULE MemQuery ------------------------------
(***************************************************************************)
(* The query side of plugins/memory: Search, the snapshot an iterator      *)
(* walks, and grouped aggregation by one pass over that snapshot.  Every   *)
(* row is matched by the kernel; vers[e] is the entity's version slice.    *)
(***************************************************************************)
EXTENDS FilterKernel

LOCAL INSTANCE SequencesExt
LOCAL INSTANCE FiniteSetsExt

validateFilterPaths(f) == PathsValid(f)

(* Oldest to newest up to the first version after the instant. *)
getAllSnapshotPointersUnlocked(vers, at) ==
    LET seen(e) == SelectSeq(vers[e], LAMBDA v : v.at <= at)
    IN  {<<e, Last(seen(e)).doc>> :
            e \in {x \in Stored(vers) : seen(x) # <<>> /\ ~Last(seen(x)).del}}

currentStatePointersUnlocked(vers) ==
    {<<e, Last(vers[e]).doc>> : e \in {x \in Stored(vers) : ~Last(vers[x]).del}}

matchSortBounded(f, rows, limit) == Bounded({r \in rows : Match(f, r[2])}, limit)

TxCheck(tx) ==
    CASE tx.st = "rolledBack" -> "ErrTxRolledBack"
      [] tx.st = "committed"  -> "ErrTxAlreadyCommitted"
      [] tx.st \in {"none", "open"} -> "nil"

(* Outside a transaction, at an instant, and over the caller's own writes. *)
Search(vers, tx, q) ==
    LET committed == {r \in getAllSnapshotPointersUnlocked(vers, tx.snap) : Match(q.filter, r[2])}
        adds      == {r \in tx.buf : r[1] \notin tx.dels /\ Match(q.filter, r[2])}
        deleted   == tx.dels \cup {r[1] : r \in tx.buf}
        valid     == q.limit > 0 /\ validateFilterPaths(q.filter)
        ready     == valid /\ Prepares(q.filter)
    IN  CASE q.limit <= 0 -> Rows("ErrLimit", {})
          [] q.limit > 0 /\ ~valid -> Rows("ErrInvalidFilterPath", {})
          [] valid /\ ~Prepares(q.filter) -> Rows("ErrUnevaluableLeaf", {})
          [] ready /\ TxCheck(tx) # "nil" -> Rows(TxCheck(tx), {})
          [] ready /\ TxCheck(tx) = "nil" /\ q.pit # Now ->
                matchSortBounded(q.filter, getAllSnapshotPointersUnlocked(vers, q.pit), q.limit)
          [] ready /\ tx.st = "none" /\ q.pit = Now ->
                matchSortBounded(q.filter, currentStatePointersUnlocked(vers), q.limit)
          [] ready /\ tx.st = "open" /\ q.pit = Now ->
                MergeBounded(committed, adds, deleted, q.limit)

-----------------------------------------------------------------------------
(* What the caller sees; inside a transaction the buffer over the snapshot *)
(* taken at Begin.                                                         *)
buildSnapshot(vers, tx, pit) ==
    LET main == {r \in getAllSnapshotPointersUnlocked(vers, tx.snap) : r[1] \notin tx.dels}
        own  == {r[1] : r \in tx.buf}
    IN  CASE pit # Now -> Rows("nil", getAllSnapshotPointersUnlocked(vers, pit))
          [] pit = Now /\ TxCheck(tx) # "nil" -> Rows(TxCheck(tx), {})
          [] pit = Now /\ tx.st = "none" -> Rows("nil", currentStatePointersUnlocked(vers))
          [] pit = Now /\ tx.st = "open" -> Rows("nil", {r \in main : r[1] \notin own} \cup tx.buf)

Iterate(vers, tx, q) ==
    LET snapshot == buildSnapshot(vers, tx, q.pit)
    IN  IF ~validateFilterPaths(q.filter) THEN Rows("ErrInvalidFilterPath", {})
        ELSE IF snapshot.err = "nil" /\ ~Prepares(q.filter) THEN Rows("ErrUnevaluableLeaf", {})
        ELSE [snapshot EXCEPT !.rows = {r \in @ : Match(q.filter, r[2])}]

-----------------------------------------------------------------------------
(* Scalars group by their JSON text, everything else with null. *)
extractGroupKey(path, doc) ==
    {TextOf(x) : x \in {y \in {doc[path]} : y[1] \in {"num", "text", "bool"}}}

memAcc == [n |-> 0, sum |-> 0, minV |-> 0, maxV |-> 0, squares |-> 0]

observeFloat(a, x) ==
    [n    |-> a.n + 1,
     sum  |-> a.sum + x,
     minV |-> IF a.n = 0 \/ x < a.minV THEN x ELSE a.minV,
     maxV |-> IF a.n = 0 \/ x > a.maxV THEN x ELSE a.maxV,
     squares |-> a.squares + x * x]

(* Only a JSON number is a sample. *)
observe(b, x) ==
    [b EXCEPT !.count = @ + 1,
              !.acc = IF x[1] = "num" THEN observeFloat(@, Float(x[2])) ELSE @]

result(op, a) ==
    CASE op = "none" \/ a.n = 0 -> <<>>
      [] op = "sum" /\ a.n > 0  -> <<a.sum>>
      [] op = "avg" /\ a.n > 0  -> <<a.sum, a.n>>
      [] op = "min" /\ a.n > 0  -> <<a.minV>>
      [] op = "max" /\ a.n > 0  -> <<a.maxV>>
      [] op = "stdev" /\ a.n > 0 -> IF a.n < 2 THEN <<>> ELSE <<a.n, a.n * a.squares - a.sum * a.sum>>

(* One entity more: a key beyond the last bucket allowed is an error, and  *)
(* the pass stops.                                                         *)
Tallied(q, r, t) ==
    LET k   == extractGroupKey(q.group, r[2])
        old == {b \in t.buckets : b.key = k}
        b0  == [key |-> k, count |-> 0, acc |-> memAcc]
    IN  CASE t.err # "nil" -> t
          [] t.err = "nil" /\ old = {} /\ q.max > 0 /\ Cardinality(t.buckets) >= q.max
               -> Buckets("ErrGroupCardinalityExceeded", {})
          [] t.err = "nil" /\ ~(old = {} /\ q.max > 0 /\ Cardinality(t.buckets) >= q.max)
               -> Buckets("nil", (t.buckets \ old)
                                   \cup {observe(IF old = {} THEN b0 ELSE CHOOSE b \in old : TRUE,
                                                 r[2][q.field])})

GroupedAggregate(vers, tx, q) ==
    LET snapshot == buildSnapshot(vers, tx, q.pit)
        step(r, t) == Tallied(q, r, t)
        tally == FoldSet(step, Buckets("nil", {}), {r \in snapshot.rows : Match(q.filter, r[2])})
    IN  CASE ~(validateFilterPaths(q.filter) /\ {q.group, q.field} \subseteq ScalarPaths)
               -> Buckets("ErrInvalidFilterPath", {})
          [] validateFilterPaths(q.filter) /\ {q.group, q.field} \subseteq ScalarPaths
               -> IF snapshot.err # "nil" THEN Buckets(snapshot.err, {})
                  ELSE IF ~Prepares(q.filter) THEN Buckets("ErrUnevaluableLeaf", {})
                  ELSE [tally EXCEPT !.buckets = {Bucket(b.key, b.count, result(q.agg, b.acc)) : b \in @}]
=============================================================================
