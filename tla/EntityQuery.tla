----------------------------- MODULE EntityQuery -----------------------------
(***************************************************************************)
(* Search, Iterate and grouped statistics over the three stores, with      *)
(* other transactions committing, the caller's own transaction open or     *)
(* not, and that transaction ending while an iterator of it is being       *)
(* drained.                                                                *)
(*                                                                         *)
(* The caller has one request at a time.  A grouped-statistics request is  *)
(* internal/domain/entity's: the store's native GROUP BY when it accepts   *)
(* the request, and otherwise a tally of the rows an iterator yields.      *)
(* Entities are numbers in the order of their ids.  Sort orders other than *)
(* the id are left out.                                                    *)
(***************************************************************************)
EXTENDS FilterKernel

LOCAL INSTANCE SequencesExt

CONSTANTS Entity,       \* entity ids
          Loads,        \* workloads by name: backend, documents, documents written, requests
          MaxClock,     \* bound on the commits of others
          MaxOps        \* bound on the writes of the caller's transaction

VARIABLES qload,     \* the deployment and workload of this behaviour
          vers,     \* entity_versions, per entity
          clock,    \* the latest submit time
          tx,       \* the caller's transaction
          call      \* the caller's request

qvars == <<qload, vers, clock, tx, call>>

Mem == INSTANCE MemQuery
Sqlite == INSTANCE SqliteQuery
Pg == INSTANCE PgQuery

NoTx == [st |-> "none", snap |-> 0, base |-> <<>>, buf |-> {}, dels |-> {}, reads |-> {}, seen |-> {}, ops |-> 0]

QIdle == [st |-> "idle"]

ended == {"committed", "rolledBack"}

Own == {r[1] : r \in tx.buf}

(* What a transaction of the server sees: its snapshot and its own writes. *)
ServerView ==
    [e \in Entity |->
        CASE e \in tx.dels /\ tx.base[e] # <<>> ->
                Append(tx.base[e], Version(tx.snap + 1, Last(tx.base[e]).doc, TRUE))
          [] e \in Own ->
                Append(tx.base[e], Version(tx.snap + 1, (CHOOSE r \in tx.buf : r[1] = e)[2], FALSE))
          [] OTHER -> tx.base[e]]

PgView == IF tx.st = "open" THEN ServerView ELSE vers

StoreSearch(q) ==
    CASE Loads[qload].be = "memory"   -> Mem!Search(vers, tx, q)
      [] Loads[qload].be = "sqlite"   -> Sqlite!Search(vers, tx, q)
      [] Loads[qload].be = "postgres" -> Pg!Search(vers, tx, PgView, q)

StoreIterate(q) ==
    CASE Loads[qload].be = "memory"   -> Mem!Iterate(vers, tx, q)
      [] Loads[qload].be = "sqlite"   -> Sqlite!Iterate(vers, tx, q)
      [] Loads[qload].be = "postgres" -> Pg!Iterate(vers, tx, PgView, q)

StoreGroupedAggregate(q) ==
    CASE Loads[qload].be = "memory"   -> Mem!GroupedAggregate(vers, tx, q)
      [] Loads[qload].be = "sqlite"   -> Sqlite!GroupedAggregate(vers, q)
      [] Loads[qload].be = "postgres" -> Pg!GroupedAggregate(PgView, q)

-----------------------------------------------------------------------------
(* What the request is promised, from the committed history and the        *)
(* caller's own writes alone.                                              *)
Live(history) == {<<e, Last(history[e]).doc>> : e \in {x \in Stored(history) : ~Last(history[x]).del}}

Promised(pit) ==
    CASE pit # Now -> Live([e \in Entity |-> SelectSeq(vers[e], LAMBDA v : v.at <= pit)])
      [] pit = Now /\ tx.st = "none" -> Live(vers)
      [] OTHER -> {r \in Live(tx.base) : r[1] \notin Own \cup tx.dels} \cup tx.buf

PromisedRows(q) == {r \in Promised(q.pit) : Match(q.filter, r[2])}

KeyOf(q, r) == {TextOf(x) : x \in {y \in {r[2][q.group]} : y[1] \in {"num", "text", "bool"}}}

Samples(q, rows) == {<<r[1], Float(r[2][q.field][2])>> : r \in {x \in rows : x[2][q.field][1] = "num"}}

PromisedBuckets(q) ==
    LET rows == PromisedRows(q)
        of(k) == {r \in rows : KeyOf(q, r) = k}
    IN  Capped({Bucket(k, Cardinality(of(k)), SqlAggregate(q.agg, Samples(q, of(k)))) :
                k \in {KeyOf(q, r) : r \in rows}}, q.max)

(* The answer due, and whether the store's own GROUP BY reads every value  *)
(* of it as the filter evaluator does.                                     *)
Due(err, rows, buckets) == [err |-> err, rows |-> rows, buckets |-> buckets, alike |-> TRUE]

Want(q) ==
    IF ~PathsValid(q.filter) THEN Due("ErrInvalidFilterPath", {}, {})
    ELSE IF ~Prepares(q.filter) THEN Due("ErrUnevaluableLeaf", {}, {})
    ELSE CASE q.op = "search"  -> LET b == Bounded(PromisedRows(q), q.limit) IN Due(b.err, b.rows, {})
           [] q.op = "iterate" -> Due("nil", PromisedRows(q), {})
           [] q.op = "stats"   -> LET b == PromisedBuckets(q) IN Due(b.err, {}, b.buckets)

(* Values that SQL groups or aggregates otherwise than the tally does.     *)
(* SQLite's aggregates coerce a text, a boolean or an object to a number   *)
(* and write a boolean key as 0 or 1; PostgreSQL's take a text that spells *)
(* a number for that number.                                               *)
ReadsAlike(q) ==
    \A r \in PromisedRows(q) :
        LET x == r[2][q.field]
        IN  CASE Loads[qload].be = "memory" -> TRUE
              [] Loads[qload].be = "sqlite" ->
                    (q.agg = "none" \/ Blank(x) \/ x[1] = "num") /\ r[2][q.group][1] # "bool"
              [] Loads[qload].be = "postgres" ->
                    q.agg = "none" \/ Blank(x) \/ x[1] = "num" \/ NumberIn(TextOf(x)) = {}

(* A comparison of a field with values of several kinds.  SQLite's planner *)
(* leaves it to the evaluator; PostgreSQL's pushes it, as one test.        *)
RECURSIVE Polymorphic(_)
Polymorphic(f) ==
    IF "kids" \in DOMAIN f THEN \E i \in DOMAIN f.kids : Polymorphic(f.kids[i])
    ELSE f.op \in Comparisons /\ Cardinality(f.declared) > 1

-----------------------------------------------------------------------------
QInit ==
    /\ qload \in DOMAIN Loads
    /\ vers = [e \in Entity |-> IF e \in DOMAIN Loads[qload].docs THEN <<Version(1, Loads[qload].docs[e], FALSE)>> ELSE <<>>]
    /\ clock = 1
    /\ tx = NoTx
    /\ call = QIdle

(* Another transaction commits a save or a deletion of one entity. *)
OtherCommits(e, doc, del) ==
    /\ clock < MaxClock
    /\ del => vers[e] # <<>> /\ ~Last(vers[e]).del
    /\ clock' = clock + 1
    /\ vers' = [vers EXCEPT ![e] = Append(@, Version(clock + 1, doc, del))]
    /\ UNCHANGED <<qload, tx, call>>

Begin ==
    /\ tx.st = "none" /\ call.st = "idle"
    /\ tx' = [NoTx EXCEPT !.st = "open", !.snap = clock, !.base = vers]
    /\ UNCHANGED <<qload, vers, clock, call>>

(* A write needs the transaction's connection, which an open cursor of     *)
(* PostgreSQL keeps; there, a row committed since Begin refuses the write. *)
Writable(e) ==
    /\ tx.st = "open" /\ tx.ops < MaxOps /\ call.st = "idle"
    /\ Loads[qload].be = "postgres" => vers[e] = tx.base[e]

Save(e, doc) ==
    /\ Writable(e)
    /\ tx' = [tx EXCEPT !.buf = {r \in @ : r[1] # e} \cup {<<e, doc>>}, !.dels = @ \ {e}, !.ops = @ + 1]
    /\ UNCHANGED <<qload, vers, clock, call>>

Delete(e) ==
    /\ Writable(e)
    /\ e \in {r[1] : r \in Promised(Now)}
    /\ tx' = [tx EXCEPT !.buf = {r \in @ : r[1] # e}, !.dels = @ \cup {e}, !.ops = @ + 1]
    /\ UNCHANGED <<qload, vers, clock, call>>

ChangedSince(e) == \E i \in DOMAIN vers[e] : vers[e][i].at > tx.snap

(* Commit validates the write set and the read set against every commit    *)
(* since Begin.                                                            *)
Commit ==
    /\ tx.st = "open"
    /\ Loads[qload].be = "postgres" => call.st # "open"
    /\ IF \E e \in Own \cup tx.dels \cup tx.reads : ChangedSince(e)
       THEN tx' = [tx EXCEPT !.st = "rolledBack"] /\ UNCHANGED <<vers, clock>>
       ELSE /\ tx' = [tx EXCEPT !.st = "committed"]
            /\ clock' = clock + 1
            /\ vers' = [e \in Entity |->
                 CASE e \in Own -> Append(vers[e], Version(clock + 1, (CHOOSE r \in tx.buf : r[1] = e)[2], FALSE))
                   [] e \in tx.dels /\ vers[e] # <<>> -> Append(vers[e], Version(clock + 1, Last(vers[e]).doc, TRUE))
                   [] OTHER -> vers[e]]
    /\ UNCHANGED <<qload, call>>

Rollback ==
    /\ tx.st = "open"
    /\ Loads[qload].be = "postgres" => call.st # "open"
    /\ tx' = [tx EXCEPT !.st = "rolledBack"]
    /\ UNCHANGED <<qload, vers, clock, call>>

-----------------------------------------------------------------------------
(* A finished request: its answer, what it was promised when it was made,  *)
(* and whether its transaction had ended.                                  *)
Answered(q, err, rows, buckets, want, gone) ==
    [st |-> "done", q |-> q, err |-> err, got |-> rows, buckets |-> buckets, want |-> want, gone |-> gone]

InTx(q) == tx.st # "none" /\ q.pit = Now

(* Faulty variant of Recorded: nothing is recorded for a transaction with  *)
(* writes of its own.                                                      *)
RecordedReadOnly(q, rows) ==
    IF ~q.track \/ ~InTx(q) \/ Own # {} THEN {} ELSE {r[1] : r \in rows}

(* The committed rows a tracking read of the transaction returned; the     *)
(* PostgreSQL plugin also records a row the transaction inserted itself.   *)
Recorded(q, rows) ==
    IF ~q.track \/ ~InTx(q) THEN {}
    ELSE {r[1] : r \in {x \in rows : x[1] \notin Own \/ (Loads[qload].be = "postgres" /\ tx.base[x[1]] = <<>>)}}

Track(q, rows) ==
    tx' = [tx EXCEPT !.reads = @ \cup Recorded(q, rows),
                     !.seen = IF q.track /\ InTx(q) THEN @ \cup {r[1] : r \in rows} ELSE @]

Search(q) ==
    /\ call.st = "idle" /\ q.op = "search"
    /\ LET a == StoreSearch(q)
       IN  /\ call' = Answered(q, a.err, a.rows, {}, Want(q), tx.st \in ended)
           /\ Track(q, a.rows)
    /\ UNCHANGED <<qload, vers, clock>>

(* An iterator holds the rows its view had when it was opened. *)
Opened(q, rows, want) ==
    [st |-> "open", q |-> q, left |-> rows, own |-> Own, got |-> {}, acc |-> {}, want |-> want]

Open(q) ==
    LET a == StoreIterate(q)
    IN  IF a.err # "nil" THEN call' = Answered(q, a.err, {}, {}, Want(q), tx.st \in ended)
        ELSE call' = Opened(q, a.rows, Want(q))

Iterate(q) ==
    /\ call.st = "idle" /\ q.op = "iterate"
    /\ Open(q)
    /\ UNCHANGED <<qload, vers, clock, tx>>

(* queryGroupedStatsInner: the store's GROUP BY only outside a transaction,*)
(* and streaming when the store declines.                                  *)
queryGroupedStats(q) ==
    /\ call.st = "idle" /\ q.op = "stats"
    /\ LET a == StoreGroupedAggregate(q)
       IN  IF tx.st # "none" \/ a.err = "ErrAggregationNotPushdownable" THEN Open(q)
           ELSE call' = Answered(q, a.err, {}, a.buckets, [Want(q) EXCEPT !.alike = ReadsAlike(q)], FALSE)
    /\ UNCHANGED <<qload, vers, clock, tx>>

-----------------------------------------------------------------------------
(* tallyStreaming: one more entity in the accumulators of its bucket. *)
newAccumulator == [n |-> 0, sum |-> 0, minV |-> 0, maxV |-> 0, squares |-> 0]

accObserveFloat(a, x) ==
    [n |-> a.n + 1, sum |-> a.sum + x, squares |-> a.squares + x * x,
     minV |-> IF a.n = 0 \/ x < a.minV THEN x ELSE a.minV,
     maxV |-> IF a.n = 0 \/ x > a.maxV THEN x ELSE a.maxV]

accResult(op, a) ==
    CASE op = "none" \/ a.n = 0 \/ (op = "stdev" /\ a.n < 2) -> <<>>
      [] op = "sum" /\ a.n > 0 -> <<a.sum>>
      [] op = "avg" /\ a.n > 0 -> <<a.sum, a.n>>
      [] op = "min" /\ a.n > 0 -> <<a.minV>>
      [] op = "max" /\ a.n > 0 -> <<a.maxV>>
      [] op = "stdev" /\ a.n >= 2 -> <<a.n, a.n * a.squares - a.sum * a.sum>>

buildGroupKeyFromEntity(q, r) ==
    LET x == r[2][q.group] IN IF x[1] \in {"obj", "null", "absent"} THEN {} ELSE {TextOf(x)}

extractNumerics(q, r) == {Float(x[2]) : x \in {y \in {r[2][q.field]} : y[1] = "num"}}

accObserve(acc, q, r) ==
    LET k   == buildGroupKeyFromEntity(q, r)
        old == {b \in acc : b.key = k}
        b   == IF old = {} THEN [key |-> k, count |-> 0, state |-> newAccumulator]
                           ELSE CHOOSE x \in old : TRUE
        x   == extractNumerics(q, r)
    IN  (acc \ old) \cup
        {[b EXCEPT !.count = @ + 1,
                   !.state = IF x = {} THEN @ ELSE accObserveFloat(@, CHOOSE v \in x : TRUE)]}

materialize(q, acc) == {Bucket(b.key, b.count, accResult(q.agg, b.state)) : b \in acc}

(* A new bucket would go past the maximum. *)
OverMax(q, acc, r) ==
    /\ buildGroupKeyFromEntity(q, r) \notin {b.key : b \in acc}
    /\ Cardinality(acc) >= q.max

-----------------------------------------------------------------------------
NextRow(r) ==
    r \in call.left /\ (Loads[qload].be # "memory" => \A x \in call.left : r[1] <= x[1])

(* Next() yields a row: inside a transaction only while it is open, and    *)
(* recording the row when the read is tracked.                             *)
Yield(r) ==
    LET q == call.q
    IN  /\ tx.st \in ended => ~InTx(q)
        /\ tx' = [tx EXCEPT !.reads = @ \cup (IF r[1] \in call.own THEN {} ELSE Recorded(q, {r})),
                            !.seen = IF q.track /\ InTx(q) THEN @ \cup {r[1]} ELSE @]
        /\ IF q.op = "stats" /\ OverMax(q, call.acc, r)
           THEN call' = Answered(q, "ErrGroupCardinalityExceeded", {}, {}, call.want, FALSE)
           ELSE call' = [call EXCEPT !.left = @ \ {r}, !.got = @ \cup {r},
                                     !.acc = IF q.op = "stats" THEN accObserve(@, q, r) ELSE @]

(* Next() finds the transaction ended. *)
Refuse ==
    /\ tx.st \in ended /\ InTx(call.q)
    /\ call' = Answered(call.q, "ErrTxEnded", call.got, {}, call.want, TRUE)
    /\ UNCHANGED tx

Next_ ==
    /\ call.st = "open"
    /\ \E r \in call.left : NextRow(r) /\ (Yield(r) \/ Refuse)
    /\ UNCHANGED <<qload, vers, clock>>

(* Next() finds no more rows; Close, then Err. *)
Exhausted ==
    /\ call.st = "open" /\ call.left = {}
    /\ LET q == call.q
       IN  call' = IF q.op = "stats" THEN Answered(q, "nil", {}, materialize(q, call.acc), call.want, FALSE)
                   ELSE Answered(q, "nil", call.got, {}, call.want, FALSE)
    /\ UNCHANGED <<qload, vers, clock, tx>>

(* The caller turns to its next request. *)
Return ==
    /\ call.st = "done"
    /\ call' = QIdle
    /\ UNCHANGED <<qload, vers, clock, tx>>

QNext ==
    \/ \E e \in Entity, d \in Loads[qload].writes : OtherCommits(e, d, FALSE) \/ Save(e, d)
    \/ \E e \in Entity : Delete(e) \/ (vers[e] # <<>> /\ OtherCommits(e, Last(vers[e]).doc, TRUE))
    \/ Begin \/ Commit \/ Rollback
    \/ \E q \in Loads[qload].queries : Search(q) \/ Iterate(q) \/ queryGroupedStats(q)
    \/ Next_ \/ Exhausted \/ Return

QSpec == QInit /\ [][QNext]_qvars

-----------------------------------------------------------------------------
TxErrors == {"ErrTxRolledBack", "ErrTxAlreadyCommitted", "ErrTxNotFound", "ErrTxEnded"}

(* Types of the query side. *)
QueryTypeOK ==
    /\ qload \in DOMAIN Loads
    /\ clock \in 1..MaxClock + 1
    /\ \A e \in Entity : \A i \in DOMAIN vers[e] : vers[e][i].at \in 1..clock
    /\ tx.st \in {"none", "open"} \cup ended
    /\ tx.dels \subseteq Entity /\ tx.reads \subseteq Entity /\ Own \cap tx.dels = {}
    /\ call.st \in {"idle", "open", "done"}

(* A search answers with exactly the entities of its view that the filter  *)
(* evaluator accepts, whatever part of the filter ran as SQL, or with the  *)
(* limit error exactly when there are more of them than the limit; with an *)
(* ended transaction it fails.  An iterator never yields a row that is not *)
(* in the view it was opened on, and one that ends without an error has    *)
(* yielded them all.  A filter that cannot be evaluated is refused, also   *)
(* when SQL alone could have answered.  Except that PostgreSQL may leave   *)
(* out rows, and never adds one, where a field of several kinds is         *)
(* compared.                                                               *)
RowsExact ==
    /\ QueryTypeOK
    /\ call.st = "done" /\ call.q.op = "search" =>
        \/ call.err \in TxErrors /\ call.gone
        \/ /\ Loads[qload].be = "postgres" /\ Polymorphic(call.q.filter)
           /\ call.err = "nil" /\ call.got \subseteq call.want.rows
        \/ call.err = call.want.err /\ call.got = call.want.rows
           /\ (call.gone /\ call.q.pit = Now => call.err # "nil")
    /\ call.st = "open" /\ call.q.op = "iterate" => call.got \subseteq call.want.rows
    /\ call.st = "done" /\ call.q.op = "iterate" =>
        \/ call.err \in TxErrors /\ call.gone
        \/ call.err = call.want.err /\ call.got = call.want.rows

(* Grouped statistics are the same whether the store grouped or the rows   *)
(* were streamed: the buckets of the view, or the cardinality error        *)
(* exactly when there are more of them than the maximum.  A GROUP BY in    *)
(* SQL over values it reads differently is excepted, and no other.         *)
StatsExact ==
    call.st = "done" /\ call.q.op = "stats" =>
        \/ call.err \in TxErrors /\ call.gone
        \/ call.want.alike => call.err = call.want.err /\ call.buckets = call.want.buckets

(* Whatever a planner pushes into SQL, the answer is the kernel's, but for *)
(* the two exceptions named above.                                         *)
QueriesExact == RowsExact /\ StatsExact

(* A transaction that commits had no entity of a tracking search or        *)
(* iteration changed by others since it began; and no iterator of it       *)
(* yields a row once it has ended.                                         *)
ReadsValidated ==
    [][/\ tx.st = "open" /\ tx'.st = "committed" => \A e \in tx.seen : ~ChangedSince(e)
       /\ call.st = "open" /\ call'.st = "open" /\ call' # call /\ InTx(call.q) => tx.st = "open"]_qvars
=============================================================================
