---------------------------- MODULE FilterKernel ----------------------------
(***************************************************************************)
(* The filter evaluator all backends answer to: spi.Prepare and            *)
(* PreparedFilter.Match of the SPI module, read from the uses of it under  *)
(* src/ and from docs/cloud-parity/operator-semantics.md.                  *)
(*                                                                         *)
(* A JSON value is <<kind, value>>.  Two of the numbers, 10 and 11, stand  *)
(* for numbers that are distinct and become one float64; texts are ordered *)
(* byte-wise, and instants are half milliseconds.                          *)
(*                                                                         *)
(* A document has a numeric field n, a scalar field s, an array tags, and  *)
(* the meta field at (creationDate).  A filter is a leaf, or a group of    *)
(* filters under AND, OR or NOT; the zero filter has the operator "".      *)
(***************************************************************************)
EXTENDS Integers, Sequences, FiniteSets

LOCAL INSTANCE FiniteSetsExt

Number == {5, 10, 11}

TextOrder == <<"", "1", "10", "11", "5", "false", "n/a", "true", "{}">>

Kind == {"num", "text", "bool", "obj", "null", "absent"}

Float(n) == IF n = 11 THEN 10 ELSE n

Millis(t) == t \div 2

NumText(n) == CASE n = 5 -> "5" [] n = 10 -> "10" [] n = 11 -> "11"

Rank(t) == CHOOSE i \in DOMAIN TextOrder : TextOrder[i] = t

Blank(x) == x[1] \in {"null", "absent"}

(* What a value is written as: fmt.Sprint of an operand, ->> of a member.  *)
TextOf(x) ==
    CASE x[1] = "num"  -> NumText(x[2])
      [] x[1] = "text" -> x[2]
      [] x[1] = "bool" -> IF x[2] THEN "true" ELSE "false"
      [] x[1] = "obj"  -> "{}"

(* The number a text spells, as a set of at most one. *)
NumberIn(t) == {n \in Number : NumText(n) = t}

-----------------------------------------------------------------------------
Comparisons == {"eq", "ne", "gt", "lt", "gte", "lte", "between", "between_inclusive"}

StringOps == {"contains", "starts_with", "ends_with", "like"}

Test(op, a, lo, hi) ==
    CASE op = "eq"  -> a = lo
      [] op = "ne"  -> a # lo
      [] op = "gt"  -> a > lo
      [] op = "lt"  -> a < lo
      [] op = "gte" -> a >= lo
      [] op = "lte" -> a <= lo
      [] op = "between" -> lo < a /\ a < hi
      [] op = "between_inclusive" -> lo <= a /\ a <= hi

(* Text p occurs in text t where the operator looks for it. *)
Occurs(op, t, p) ==
    \/ p = "" \/ p = t
    \/ p = "1" /\ t = "11"
    \/ p = "1" /\ t = "10" /\ op # "ends_with"

(* The operand read as a value of one kind: its place in that kind's       *)
(* order, as a set that is empty when the text is no value of the kind.    *)
Branch(kind, x) ==
    CASE kind = "num"  -> NumberIn(TextOf(x))
      [] kind = "text" -> {Rank(TextOf(x))}
      [] kind = "bool" -> {IF TextOf(x) = "true" THEN 1 ELSE 0 : b \in {TextOf(x)} \cap {"true", "false"}}
      [] OTHER         -> {}

Place(x) ==
    CASE x[1] = "num" -> x[2] [] x[1] = "text" -> Rank(x[2]) [] x[1] = "bool" -> IF x[2] THEN 1 ELSE 0

(* One stored value under one leaf.  Null and absent never match; a value  *)
(* whose kind gives the operand no reading follows the operator's polarity.*)
Holds(f, x) ==
    CASE Blank(x) -> FALSE
      [] ~Blank(x) /\ f.temporal -> Test(f.op, Millis(x[2]), Millis(f.arg[2]), Millis(f.hi[2]))
      [] ~Blank(x) /\ ~f.temporal /\ f.op \in StringOps ->
            x[1] = "text" /\ Occurs(f.op, x[2], TextOf(f.arg))
      [] OTHER ->
            LET lo == IF x[1] \in f.declared THEN Branch(x[1], f.arg) ELSE {}
                hi == IF x[1] \in f.declared THEN Branch(x[1], f.hi) ELSE {}
            IN  IF lo = {} \/ hi = {} THEN f.op = "ne"
                ELSE \E a \in lo, b \in hi : Test(f.op, Place(x), a, b)

(* A key no document has reads as absent. *)
Member(doc, path) == IF path \in DOMAIN doc THEN doc[path] ELSE <<"absent", "">>

MatchLeaf(f, doc) ==
    CASE f.op = "is_null"  -> Blank(Member(doc, f.path))
      [] f.op = "not_null" -> ~Blank(Member(doc, f.path))
      [] OTHER -> \E x \in (IF f.wildcard THEN doc.tags ELSE {Member(doc, f.path)}) : Holds(f, x)

RECURSIVE Match(_, _)
Match(f, doc) ==
    CASE f.op = ""    -> TRUE
      [] f.op = "AND" -> \A i \in DOMAIN f.kids : Match(f.kids[i], doc)
      [] f.op = "OR"  -> \E i \in DOMAIN f.kids : Match(f.kids[i], doc)
      [] f.op = "NOT" -> ~Match(f.kids[1], doc)
      [] OTHER -> MatchLeaf(f, doc)

(* spi.Prepare.  A leaf on a meta field there is none of, or with an       *)
(* operand that is a value of none of the declared kinds, makes the whole  *)
(* filter fail with ErrUnevaluableLeaf.                                    *)
Evaluable(f) ==
    /\ f.source = "meta" => f.path # "bogus"
    /\ f.op \in Comparisons /\ ~f.temporal =>
          \E kind \in f.declared : Branch(kind, f.arg) # {} /\ Branch(kind, f.hi) # {}

RECURSIVE Prepares(_)
Prepares(f) ==
    IF "kids" \in DOMAIN f THEN \A i \in DOMAIN f.kids : Prepares(f.kids[i])
    ELSE f.op = "" \/ Evaluable(f)

-----------------------------------------------------------------------------
(* What both SQL planners build: the pushed and the residual part of a     *)
(* filter, each a sequence of at most one filter.                          *)
Groups == {"AND", "OR"}

Split(pushed, residual) == [pushed |-> pushed, residual |-> residual]

Plan(where, post) == [err |-> "nil", where |-> where, post |-> post]

Unplannable == [err |-> "ErrUnevaluableLeaf", where |-> <<>>, post |-> <<>>]

Conjoined(kids) == IF Len(kids) <= 1 THEN kids ELSE <<[op |-> "AND", kids |-> kids]>>

(* The pushed form of an operator: strict bounds become inclusive ones. *)
Relaxed(op) ==
    CASE op = "gt" -> "gte" [] op = "lt" -> "lte" [] op = "between" -> "between_inclusive"
      [] OTHER -> op

-----------------------------------------------------------------------------
(* The bounded merge of a committed stream with a transaction's own rows:  *)
(* rows are pairs <<entity, document>>.                                    *)
Rows(err, rows) == [err |-> err, rows |-> rows]

Bounded(rows, limit) ==
    IF Cardinality(rows) > limit THEN Rows("ErrSearchResultLimitExceeded", {})
                                 ELSE Rows("nil", rows)

MergeOrdered(committed, adds, suppressed) ==
    {r \in committed : r[1] \notin suppressed} \cup adds

MergeBounded(committed, adds, suppressed, limit) ==
    Bounded(MergeOrdered(committed, adds, suppressed), limit)

(* ORDER BY entity_id LIMIT k. *)
FirstRows(rows, k) ==
    {r \in rows : Cardinality({x \in rows : x[1] < r[1]}) < k}

-----------------------------------------------------------------------------
(* Stored entities.  vers[e] is the history of entity e, oldest first; pit *)
(* is Now for a read of the current state.                                 *)
Now == 0

Version(at, doc, del) == [at |-> at, doc |-> doc, del |-> del]

Stored(vers) == {e \in DOMAIN vers : vers[e] # <<>>}

(* The paths of a filter's leaves all parse. *)
RECURSIVE PathsValid(_)
PathsValid(f) ==
    IF "kids" \in DOMAIN f
    THEN \A i \in DOMAIN f.kids : PathsValid(f.kids[i])
    ELSE f.op = "" \/ f.path # "malformed"

ScalarPaths == {"n", "s", "state"}

-----------------------------------------------------------------------------
(* Grouped answers.  A bucket has a key (empty for null), the number of    *)
(* entities and the value of the one aggregation, <<>> for null.  avg is   *)
(* kept as sum and count, stdev as n and n*m2.                             *)
Buckets(err, buckets) == [err |-> err, buckets |-> buckets]

Bucket(key, count, value) == [key |-> key, count |-> count, value |-> value]

Capped(buckets, max) ==
    IF max > 0 /\ Cardinality(buckets) > max THEN Buckets("ErrGroupCardinalityExceeded", {})
                                            ELSE Buckets("nil", buckets)

(* SUM, AVG, MIN, MAX and STDDEV_SAMP of samples <<entity, number>>. *)
SqlAggregate(op, samples) ==
    LET value(p)  == p[2]
        square(p) == p[2] * p[2]
        n    == Cardinality(samples)
        sum  == MapThenSumSet(value, samples)
        values == {p[2] : p \in samples}
    IN  CASE op = "none"                 -> <<>>
          [] op = "stdev" /\ n < 2       -> <<>>
          [] op = "stdev" /\ n >= 2      -> <<n, n * MapThenSumSet(square, samples) - sum * sum>>
          [] op \notin {"none", "stdev"} /\ n = 0 -> <<>>
          [] op = "sum" /\ n > 0         -> <<sum>>
          [] op = "avg" /\ n > 0         -> <<sum, n>>
          [] op = "min" /\ n > 0         -> <<Min(values)>>
          [] op = "max" /\ n > 0         -> <<Max(values)>>
=============================================================================
