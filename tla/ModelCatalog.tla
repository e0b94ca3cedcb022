---------------------------- MODULE ModelCatalog ----------------------------
(***************************************************************************)
(* One entity model (a schema that grows with the documents written to it) *)
(* as every node of a cluster sees it: the admin operations of             *)
(* internal/domain/model/service.go, the ingest path that extends a schema *)
(* (ingest.ValidateOrExtend), the stored model and its extension log in    *)
(* the three plugins, the per-node descriptor cache with its gossip        *)
(* invalidation, and the negative cache of the search path validation.     *)
(*                                                                         *)
(* A schema is the set of fields it declares: a document is the set of     *)
(* fields it carries, it validates when the schema has them all, and the   *)
(* delta of an extension is the fields it lacks.  The lease of a cache     *)
(* entry may run out at any time.  A request is a thread that takes one    *)
(* statement at a time; the two queries of foldLocked are one statement.   *)
(***************************************************************************)
EXTENDS Naturals, FiniteSets, FiniteSetsExt, Sequences

CONSTANTS
    Node,      \* the nodes, each with its own caches
    Field,     \* the field paths of a schema
    Req,       \* the requests of a behaviour
    Load,      \* what a behaviour starts from: backend, model, entities, jobs,
               \* and the requests whose read of the store may fail
    Interval,  \* SchemaSavepointInterval
    None

VARIABLES
    load,      \* the member of Load this behaviour runs
    row,       \* the models row: state, change level, unique keys, base schema
    version,   \* counts the committed UPDATEs of that row in postgres
    log,       \* the committed rows of model_schema_extensions
    seq,       \* the next value of the BIGSERIAL seq
    claim,     \* the transaction that holds the write claim on the models row
    entities,  \* the committed entities of the model
    pc, loc,   \* each request's next statement, and its local variables
    cache,     \* CachingModelStore.entries of each node
    flight,    \* the leader of each node's singleflight group
    absent,    \* PathValidationCache of each node
    mail,      \* the nodes an invalidation is on its way to
    owed,      \* the fields committed extensions added since the last lifecycle change
    crossed,   \* a lifecycle operation was overtaken by another write
    changed,   \* the model was saved, unlocked or deleted
    rolled     \* the fields of extensions that were rolled back

store == <<row, version, log, seq, claim, entities>>
nodes == <<cache, flight, absent, mail>>
ghost == <<owed, crossed, changed, rolled>>
vars == <<load, store, pc, loc, nodes, ghost>>

Job(r) == load.jobs[r]
Backend == load.backend
NodeOf(r) == Job(r).node
NoModel == [state |-> "ABSENT", level |-> "", keys |-> {}, schema |-> {}]
Idle == [desc |-> NoModel, item |-> 1, fresh |-> 0, was |-> FALSE,
         rows |-> {}, snap |-> [row |-> NoModel, log |-> {}, version |-> 0]]

Descriptor == [state : {"ABSENT", "UNLOCKED", "LOCKED"}, level : {"", "STRUCTURAL"},
               keys : SUBSET Field, schema : SUBSET Field]
LogRow == [seq : Nat, kind : {"delta", "savepoint"}, fields : SUBSET Field]

PCs == {"begin", "ask", "get", "refresh", "join", "row", "fold", "put", "check", "recheck",
        "write", "extend", "inval", "save", "commit", "purge", "decide", "count", "save1",
        "save2", "lock", "lockrow", "lockfold", "lockset", "locksp", "unlset", "unldel",
        "level", "rmw", "drop", "done"}

First(kind) ==
    CASE kind = "create" -> "get"
      [] kind = "update" -> "begin"
      [] kind = "search" -> "ask"
      [] kind = "purge"  -> "purge"
      [] kind = "none"   -> "done"
      [] OTHER           -> "refresh"

Init ==
    /\ load \in Load
    /\ row = load.row
    /\ entities = load.entities
    /\ version = 0 /\ log = {} /\ seq = 1 /\ claim = None
    /\ pc = [r \in Req |-> First(load.jobs[r].kind)]
    /\ loc = [r \in Req |-> Idle]
    /\ cache = [n \in Node |-> None]
    /\ flight = [n \in Node |-> None]
    /\ absent = [n \in Node |-> {}]
    /\ mail = {} /\ owed = {} /\ crossed = FALSE /\ changed = FALSE /\ rolled = {}

(***************************************************************************)
(* Helpers: control, the extension log                                     *)
(***************************************************************************)
At(r, where) == pc[r] = where
Goto(r, where) == pc' = [pc EXCEPT ![r] = where]
Done(r) == pc' = [pc EXCEPT ![r] = "done"] /\ loc' = [loc EXCEPT ![r] = Idle]

SavepointRows(rows) == {x \in rows : x.kind = "savepoint"}
lastSavepointSeq(rows) == Max({0} \cup {x.seq : x \in SavepointRows(rows)})

\* The latest savepoint stands for the base and for every delta below it.
foldLocked(base, rows) ==
    LET last   == lastSavepointSeq(rows)
        start  == IF last = 0 THEN base
                  ELSE (CHOOSE x \in SavepointRows(rows) : x.seq = last).fields
    IN  start \cup UNION {x.fields : x \in {y \in rows : y.kind = "delta" /\ y.seq > last}}

\* The rows one extension appends: its delta at n, and a savepoint behind it
\* once the interval is crossed.
extendSchemaBody(base, rows, n, delta) ==
    LET new == [seq |-> n, kind |-> "delta", fields |-> delta]
    IN  IF n - lastSavepointSeq(rows) >= Interval
        THEN {new, [seq |-> n + 1, kind |-> "savepoint",
                    fields |-> foldLocked(base, rows \cup {new})]}
        ELSE {new}

maxSeq(rows) == Max({0} \cup {x.seq : x \in rows})
StoredSchema == foldLocked(row.schema, log)
Stored == [row EXCEPT !.schema = StoredSchema]

\* Lifecycle operations that have read what they will write, or have written
\* half of it: the plugin runs them as separate statements.
MidLifecycle == {r \in Req : pc[r] \in {"lockfold", "lockset", "locksp", "unldel", "save2"}}
Overtakes(r) == crossed' = (crossed \/ MidLifecycle \ {r} # {})
Doc(r) == Job(r).docs[loc[r].item]
Delta(r) == Doc(r) \ loc[r].desc.schema
InTx(r) == Job(r).kind = "update" /\ Backend = "postgres"
Unclaimed == claim = None

(***************************************************************************)
(* Reading the model: through the cache (Get), or past it (RefreshAndGet)  *)
(***************************************************************************)
\* A search that has refreshed the cache reads the parsed schema back from it.
AfterRead(r, d) ==
    CASE Job(r).kind \in {"create", "update"} -> "write"
      [] Job(r).kind = "search" ->
             IF loc[r].fresh = 1 /\ d.state # "ABSENT" THEN "get"
             ELSE IF loc[r].fresh = 0 THEN "check" ELSE "recheck"
      [] OTHER -> "decide"

lookup(r) ==
    /\ At(r, "get")
    /\ IF cache[NodeOf(r)] = None
       THEN Goto(r, "row") /\ UNCHANGED loc
       ELSE /\ Goto(r, AfterRead(r, cache[NodeOf(r)]))
            /\ loc' = [loc EXCEPT ![r].desc = cache[NodeOf(r)]]
    /\ UNCHANGED <<load, store, nodes, ghost>>

\* RefreshAndGet: evict, then lead the node's flight or join the one under way.
RefreshAndGet(r) ==
    LET n == NodeOf(r) IN
    /\ At(r, "refresh")
    /\ cache' = [cache EXCEPT ![n] = None]
    /\ loc' = [loc EXCEPT ![r].fresh = 1]
    /\ IF flight[n] = None
       THEN flight' = [flight EXCEPT ![n] = r] /\ Goto(r, "row")
       ELSE Goto(r, "join") /\ UNCHANGED flight
    /\ UNCHANGED <<load, store, absent, mail, ghost>>

Sharing(r) == IF flight[NodeOf(r)] # r THEN {r}
              ELSE {r} \cup {q \in Req : pc[q] = "join" /\ NodeOf(q) = NodeOf(r)}

\* The read is over: the caller, and whoever shares its flight, go on with d.
Arrive(r, d) ==
    /\ pc' = [q \in Req |-> IF q \in Sharing(r) THEN AfterRead(q, d) ELSE pc[q]]
    /\ loc' = [q \in Req |-> IF q \notin Sharing(r) THEN loc[q]
                          ELSE [loc[q] EXCEPT !.desc = d, !.fresh = IF @ = 1 THEN 2 ELSE @]]
    /\ flight' = [flight EXCEPT ![NodeOf(r)] = IF @ = r THEN None ELSE @]

\* Only a LOCKED descriptor is put into the cache.
Deliver(r, d) ==
    IF d.state = "LOCKED"
    THEN Goto(r, "put") /\ loc' = [loc EXCEPT ![r].desc = d] /\ UNCHANGED flight
    ELSE Arrive(r, d)

\* The memory store answers under its mutex.
memoryGet(r) ==
    /\ At(r, "row") /\ Backend = "memory"
    /\ Deliver(r, row)
    /\ UNCHANGED <<load, store, cache, absent, mail, ghost>>

\* In a REPEATABLE READ transaction: its snapshot and its own rows.
GetInTx(r) ==
    LET snap == loc[r].snap IN
    /\ At(r, "row") /\ InTx(r)
    /\ Deliver(r, [snap.row EXCEPT !.schema =
                       foldLocked(snap.row.schema, snap.log \cup loc[r].rows)])
    /\ UNCHANGED <<load, store, cache, absent, mail, ghost>>

\* Otherwise the SQL stores select the row, then fold its log.
Get(r) ==
    /\ At(r, "row") /\ Backend # "memory" /\ ~InTx(r)
    /\ IF row.state = "ABSENT" THEN Deliver(r, row)
       ELSE Goto(r, "fold") /\ loc' = [loc EXCEPT ![r].desc = row] /\ UNCHANGED flight
    /\ UNCHANGED <<load, store, cache, absent, mail, ghost>>

GetFold(r) ==
    /\ At(r, "fold")
    /\ Deliver(r, [loc[r].desc EXCEPT !.schema = foldLocked(loc[r].desc.schema, log)])
    /\ UNCHANGED <<load, store, cache, absent, mail, ghost>>

\* A read that fails is an error to whoever shares it.  Every operation treats it
\* as a model that is not there: the writers and the others end, ImportModel goes on.
ReadFails(r) ==
    /\ pc[r] \in {"row", "fold"} /\ r \in load.failing
    /\ Arrive(r, NoModel)
    /\ UNCHANGED <<load, store, cache, absent, mail, ghost>>

cacheStore(r) ==
    /\ At(r, "put")
    /\ cache' = [cache EXCEPT ![NodeOf(r)] = loc[r].desc]
    /\ Arrive(r, loc[r].desc)
    /\ UNCHANGED <<load, store, absent, mail, ghost>>

(***************************************************************************)
(* Invalidation: local, then by gossip, which may be late or lost          *)
(***************************************************************************)
AfterInvalidate(r) ==
    CASE Job(r).kind = "create" -> "save"
      [] Job(r).kind = "update" ->
             IF loc[r].item = Len(Job(r).docs) THEN "commit" ELSE "get"
      [] OTHER -> "done"

NextItem(r) == loc' = [loc EXCEPT ![r].item = IF @ = Len(Job(r).docs) THEN @ ELSE @ + 1]

invalidate(r) ==
    LET n == NodeOf(r) IN
    /\ At(r, "inval")
    /\ cache' = [cache EXCEPT ![n] = None]
    /\ absent' = [absent EXCEPT ![n] = {}]
    /\ mail' = mail \cup (Node \ {n})
    /\ IF AfterInvalidate(r) = "done" THEN Done(r)
       ELSE Goto(r, AfterInvalidate(r)) /\ NextItem(r)
    /\ UNCHANGED <<load, store, flight, ghost>>

handleInvalidation(n) ==
    /\ n \in mail
    /\ mail' = mail \ {n}
    /\ cache' = [cache EXCEPT ![n] = None]
    /\ absent' = [absent EXCEPT ![n] = {}]
    /\ UNCHANGED <<load, store, pc, loc, flight, ghost>>

GossipLost(n) ==
    /\ n \in mail
    /\ mail' = mail \ {n}
    /\ UNCHANGED <<load, store, pc, loc, cache, flight, absent, ghost>>

\* Faulty: lookup ignores expiresAt.
LeaseIgnored(n) == n \notin Node /\ UNCHANGED vars

LeaseExpires(n) ==
    /\ cache[n] # None
    /\ cache' = [cache EXCEPT ![n] = None]
    /\ UNCHANGED <<load, store, pc, loc, flight, absent, mail, ghost>>

(***************************************************************************)
(* Writers: create and update, which may extend the schema                 *)
(***************************************************************************)
\* A transaction ends: its claim is free again.
Release(r) == claim' = IF claim = r THEN None ELSE claim

Rollback(r) ==
    /\ Done(r)
    /\ Release(r)
    /\ rolled' = rolled \cup UNION {x.fields : x \in {y \in loc[r].rows : y.kind = "delta"}}

BeginTx(r) ==
    /\ At(r, "begin")
    /\ Goto(r, "get")
    /\ loc' = [loc EXCEPT ![r].snap = [row |-> row, log |-> log, version |-> version]]
    /\ UNCHANGED <<load, store, nodes, ghost>>

\* ValidateOrExtend decides; only a create asks for a LOCKED model.
Refused(r) ==
    \/ loc[r].desc.state = "ABSENT"
    \/ Job(r).kind = "create" /\ loc[r].desc.state # "LOCKED"
    \/ Delta(r) # {} /\ (Job(r).strict \/ loc[r].desc.level = "")

ValidateOrExtend(r) ==
    /\ At(r, "write")
    /\ \/ /\ Refused(r)
          /\ Rollback(r)
       \/ /\ ~Refused(r) /\ Delta(r) = {}
          /\ Goto(r, AfterInvalidate(r)) /\ NextItem(r)
          /\ UNCHANGED <<claim, rolled>>
       \/ /\ ~Refused(r) /\ Delta(r) # {}
          /\ Goto(r, "extend")
          /\ UNCHANGED <<loc, claim, rolled>>
    /\ UNCHANGED <<load, row, version, log, seq, entities, nodes, owed, crossed, changed>>

\* ExtendSchema on its own: the memory store applies the delta in place.
memoryExtendSchema(r) ==
    /\ At(r, "extend") /\ Backend = "memory" /\ row.state # "ABSENT"
    /\ row' = [row EXCEPT !.schema = @ \cup Delta(r)]
    /\ Goto(r, "inval")
    /\ owed' = owed \cup Delta(r)
    /\ Overtakes(r)
    /\ UNCHANGED <<load, version, log, seq, claim, entities, loc, nodes, changed, rolled>>

\* sqlite appends it in an immediate transaction of its own.
extendSchemaAttempt(r) ==
    /\ At(r, "extend") /\ Backend = "sqlite" /\ row.state # "ABSENT"
    /\ log' = log \cup extendSchemaBody(row.schema, log, maxSeq(log) + 1, Delta(r))
    /\ Goto(r, "inval")
    /\ owed' = owed \cup Delta(r)
    /\ Overtakes(r)
    /\ UNCHANGED <<load, row, version, seq, claim, entities, loc, nodes, changed, rolled>>

\* postgres does so in a READ COMMITTED transaction that claims the row first.
ExtendSchema(r) ==
    LET new == extendSchemaBody(row.schema, log, seq, Delta(r)) IN
    /\ At(r, "extend") /\ Backend = "postgres" /\ ~InTx(r) /\ Unclaimed
    /\ row.state # "ABSENT"
    /\ log' = log \cup new /\ seq' = seq + Cardinality(new)
    /\ version' = version + 1
    /\ Goto(r, "inval")
    /\ owed' = owed \cup Delta(r)
    /\ Overtakes(r)
    /\ UNCHANGED <<load, row, claim, entities, loc, nodes, changed, rolled>>

\* No model row, no connection in time, or a busy database to the last retry.
ExtendSchemaFails(r) ==
    /\ At(r, "extend") /\ ~InTx(r)
    /\ Done(r)
    /\ UNCHANGED <<load, store, nodes, ghost>>

\* Faulty: the delta is appended without the write claim on the models row.
ExtendSchemaUnserialised(r) ==
    LET snap == loc[r].snap
        new  == extendSchemaBody(snap.row.schema, snap.log \cup loc[r].rows, seq, Delta(r)) IN
    /\ At(r, "extend") /\ InTx(r)
    /\ seq' = seq + Cardinality(new)
    /\ loc' = [loc EXCEPT ![r].rows = @ \cup new]
    /\ Goto(r, "inval")
    /\ Overtakes(r)
    /\ UNCHANGED <<load, row, version, log, claim, entities, nodes, owed, changed, rolled>>

\* ExtendSchema in the writer's REPEATABLE READ transaction: the claim blocks
\* behind another holder, and fails when the row moved since the snapshot.
ExtendSchemaInTx(r) ==
    LET snap == loc[r].snap
        new  == extendSchemaBody(snap.row.schema, snap.log \cup loc[r].rows, seq, Delta(r)) IN
    /\ At(r, "extend") /\ InTx(r) /\ (Unclaimed \/ claim = r)
    /\ \/ /\ Unclaimed /\ version # snap.version
          /\ Rollback(r)
          /\ UNCHANGED <<seq, crossed>>
       \/ /\ claim = r \/ version = snap.version
          /\ claim' = r
          /\ seq' = seq + Cardinality(new)
          /\ loc' = [loc EXCEPT ![r].rows = @ \cup new]
          /\ Goto(r, "inval")
          /\ Overtakes(r)
          /\ UNCHANGED rolled
    /\ UNCHANGED <<load, row, version, log, entities, nodes, owed, changed>>

\* CreateEntity's own transaction, begun after the extension is committed.
SaveEntity(r) ==
    /\ At(r, "save")
    /\ Done(r)
    /\ \/ entities' = entities \cup {[id |-> r, doc |-> Doc(r)]}
       \/ UNCHANGED entities
    /\ UNCHANGED <<load, row, version, log, seq, claim, nodes, ghost>>

Updated(r) == {[id |-> Job(r).ids[i], doc |-> Job(r).docs[i]] : i \in DOMAIN Job(r).docs}
Ids(es) == {e.id : e \in es}

Commit(r) ==
    /\ At(r, "commit")
    /\ Ids(Updated(r)) \subseteq Ids(entities)
    /\ Done(r)
    /\ Release(r)
    /\ entities' = {e \in entities : e.id \notin Ids(Updated(r))} \cup Updated(r)
    /\ log' = log \cup loc[r].rows
    /\ version' = IF claim = r THEN version + 1 ELSE version
    /\ owed' = owed \cup UNION {x.fields : x \in {y \in loc[r].rows : y.kind = "delta"}}
    /\ IF loc[r].rows # {} THEN Overtakes(r) ELSE UNCHANGED crossed
    /\ UNCHANGED <<load, row, seq, nodes, changed, rolled>>

\* A workflow error, a conflict at the commit, a cancelled request.
Abort(r) ==
    /\ At(r, "commit")
    /\ Rollback(r)
    /\ UNCHANGED <<load, row, version, log, seq, entities, nodes, owed, crossed, changed>>

DeleteAllEntities(r) ==
    /\ At(r, "purge")
    /\ entities' = {}
    /\ Done(r)
    /\ UNCHANGED <<load, row, version, log, seq, claim, nodes, ghost>>

(***************************************************************************)
(* Search: the paths of a condition are checked before it runs             *)
(***************************************************************************)
Path(r) == Doc(r)

cachedAbsentPaths(r) ==
    /\ At(r, "ask")
    /\ IF Path(r) \cap absent[NodeOf(r)] # {} THEN Done(r) ELSE Goto(r, "get") /\ UNCHANGED loc
    /\ UNCHANGED <<load, store, nodes, ghost>>

markPathsPresent(r) == absent' = [absent EXCEPT ![NodeOf(r)] = @ \ Path(r)]
markPathsAbsent(r) == absent' = [absent EXCEPT ![NodeOf(r)] = @ \cup Delta(r)]

validateConditionPaths(r) ==
    /\ At(r, "check")
    /\ \/ /\ loc[r].desc.state = "ABSENT"
          /\ Done(r) /\ UNCHANGED absent
       \/ /\ loc[r].desc.state # "ABSENT" /\ Delta(r) = {}
          /\ Done(r) /\ markPathsPresent(r)
       \/ /\ loc[r].desc.state # "ABSENT" /\ Delta(r) # {}
          /\ Goto(r, "refresh") /\ UNCHANGED <<loc, absent>>
    /\ UNCHANGED <<load, store, cache, flight, mail, ghost>>

\* The answer after the one refresh; an absent model marks nothing.
recheckConditionPaths(r) ==
    /\ At(r, "recheck")
    /\ Done(r)
    /\ IF loc[r].desc.state = "ABSENT" THEN UNCHANGED absent
       ELSE IF Delta(r) = {} THEN markPathsPresent(r) ELSE markPathsAbsent(r)
    /\ UNCHANGED <<load, store, cache, flight, mail, ghost>>

(***************************************************************************)
(* Admin operations: a fresh read decides, then the statements that write  *)
(***************************************************************************)
Locked(r) == loc[r].desc.state = "LOCKED"
Missing(r) == loc[r].desc.state = "ABSENT"
Reject(r) == Done(r)

\* A model that could not be read is written anew, a LOCKED one included.
ImportModel(r) ==
    IF Locked(r) THEN Reject(r)
    ELSE /\ Goto(r, "save1")
         /\ loc' = [loc EXCEPT ![r].desc =
                        [@ EXCEPT !.state = "UNLOCKED", !.schema = @ \cup Doc(r)]]

LockModel(r) ==
    IF Missing(r) \/ Locked(r) THEN Reject(r)
    ELSE Goto(r, IF Backend = "postgres" THEN "lockrow" ELSE "lock") /\ UNCHANGED loc

UnlockModel(r) ==
    IF ~Locked(r) THEN Reject(r) ELSE Goto(r, "count") /\ UNCHANGED loc

DeleteModel(r) ==
    IF Missing(r) \/ Locked(r) THEN Reject(r) ELSE Goto(r, "count") /\ UNCHANGED loc

SetChangeLevel(r) ==
    IF Missing(r) THEN Reject(r) ELSE Goto(r, "level") /\ UNCHANGED loc

\* The keys are validated against the schema just read, and saved with it.
SetUniqueKeys(r) ==
    IF Missing(r) \/ Locked(r) \/ Delta(r) # {} THEN Reject(r)
    ELSE Goto(r, "save1") /\ loc' = [loc EXCEPT ![r].desc.keys = Doc(r)]

Decide(r) ==
    /\ At(r, "decide")
    /\ CASE Job(r).kind = "import" -> ImportModel(r)
         [] Job(r).kind = "lock"   -> LockModel(r)
         [] Job(r).kind = "unlock" -> UnlockModel(r)
         [] Job(r).kind = "delete" -> DeleteModel(r)
         [] Job(r).kind = "level"  -> SetChangeLevel(r)
         [] Job(r).kind = "keys"   -> SetUniqueKeys(r)
    /\ UNCHANGED <<load, store, nodes, ghost>>

Count(r) ==
    /\ At(r, "count")
    /\ IF entities # {} THEN Reject(r)
       ELSE Goto(r, IF Job(r).kind = "unlock" THEN "unlset" ELSE "drop") /\ UNCHANGED loc
    /\ UNCHANGED <<load, store, nodes, ghost>>

\* An UPDATE of the models row by an operation that found it, or its error.
UpdateRow(r, d, next) ==
    /\ Unclaimed
    /\ IF row.state = "ABSENT"
       THEN Done(r) /\ UNCHANGED <<row, version>>
       ELSE row' = d /\ version' = version + 1 /\ Goto(r, next) /\ UNCHANGED loc

\* Lifecycle changes start the account of owed extensions anew.
Restart(r) == owed' = {} /\ changed' = TRUE /\ Overtakes(r)

\* Save replaces the row; postgres then empties the log.
memorySave(r) ==
    /\ At(r, "save1") /\ Backend # "postgres"
    /\ row' = loc[r].desc
    /\ Goto(r, "inval")
    /\ Restart(r)
    /\ UNCHANGED <<load, version, log, seq, claim, entities, loc, nodes, rolled>>

Save(r) ==
    /\ At(r, "save1") /\ Backend = "postgres" /\ Unclaimed
    /\ row' = loc[r].desc /\ version' = version + 1
    /\ Goto(r, "save2")
    /\ Restart(r)
    /\ UNCHANGED <<load, log, seq, claim, entities, loc, nodes, rolled>>

ClearLog(r) ==
    /\ pc[r] \in {"save2", "unldel"}
    /\ log' = {}
    /\ Goto(r, "inval")
    /\ UNCHANGED <<load, row, version, seq, claim, entities, loc, nodes, ghost>>

memoryLock(r) ==
    /\ At(r, "lock") /\ Backend = "memory"
    /\ UpdateRow(r, [row EXCEPT !.state = "LOCKED"], "inval")
    /\ UNCHANGED <<load, log, seq, claim, entities, nodes, ghost>>

\* sqlite locks in one transaction, and saves the fold when deltas are new.
sqliteLock(r) ==
    LET savepoint == [seq |-> maxSeq(log) + 1, kind |-> "savepoint", fields |-> StoredSchema] IN
    /\ At(r, "lock") /\ Backend = "sqlite"
    /\ UpdateRow(r, [row EXCEPT !.state = "LOCKED"], "inval")
    /\ log' = IF row.state = "UNLOCKED" /\ maxSeq(log) # lastSavepointSeq(log)
              THEN log \cup {savepoint} ELSE log
    /\ UNCHANGED <<load, seq, claim, entities, nodes, ghost>>

\* Lock of the postgres store: read the state and the base, fold, flip the
\* state, insert the savepoint of the fold.
LockRead(r) ==
    /\ At(r, "lockrow")
    /\ IF row.state = "ABSENT" THEN Done(r)
       ELSE /\ Goto(r, IF row.state = "UNLOCKED" THEN "lockfold" ELSE "lockset")
            /\ loc' = [loc EXCEPT ![r].desc = row, ![r].was = row.state = "UNLOCKED"]
    /\ UNCHANGED <<load, store, nodes, ghost>>

LockFold(r) ==
    /\ At(r, "lockfold")
    /\ loc' = [loc EXCEPT ![r].desc.schema = foldLocked(@, log)]
    /\ Goto(r, "lockset")
    /\ UNCHANGED <<load, store, nodes, ghost>>

LockState(r) ==
    /\ At(r, "lockset")
    /\ UpdateRow(r, [row EXCEPT !.state = "LOCKED"], IF loc[r].was THEN "locksp" ELSE "inval")
    /\ Overtakes(r)
    /\ UNCHANGED <<load, log, seq, claim, entities, nodes, owed, changed, rolled>>

LockSavepoint(r) ==
    /\ At(r, "locksp")
    /\ log' = log \cup {[seq |-> seq, kind |-> "savepoint", fields |-> loc[r].desc.schema]}
    /\ seq' = seq + 1
    /\ Goto(r, "inval")
    /\ UNCHANGED <<load, row, version, claim, entities, loc, nodes, ghost>>

\* Unlock: one UPDATE, after which postgres empties the log.
memoryUnlock(r) ==
    /\ At(r, "unlset") /\ Backend = "memory"
    /\ UpdateRow(r, [row EXCEPT !.state = "UNLOCKED"], "inval")
    /\ Restart(r)
    /\ UNCHANGED <<load, log, seq, claim, entities, nodes, rolled>>

Unlock(r) ==
    /\ At(r, "unlset") /\ Backend = "postgres"
    /\ UpdateRow(r, [row EXCEPT !.state = "UNLOCKED"], "unldel")
    /\ Restart(r)
    /\ UNCHANGED <<load, log, seq, claim, entities, nodes, rolled>>

writeChangeLevel(r) ==
    /\ At(r, "level") /\ Backend # "sqlite"
    /\ UpdateRow(r, [row EXCEPT !.level = Job(r).level], "inval")
    /\ UNCHANGED <<load, log, seq, claim, entities, nodes, ghost>>

\* sqlite's Unlock and SetChangeLevel read the document, then write it back.
sqliteSetChangeLevel(r) ==
    /\ pc[r] \in {"unlset", "level"} /\ Backend = "sqlite"
    /\ IF row.state = "ABSENT" THEN Done(r)
       ELSE /\ Goto(r, "rmw")
            /\ loc' = [loc EXCEPT ![r].desc =
                           IF pc[r] = "level" THEN [row EXCEPT !.level = Job(r).level]
                           ELSE [row EXCEPT !.state = "UNLOCKED"]]
    /\ UNCHANGED <<load, store, nodes, ghost>>

\* The write half of sqlite's read-modify-write of the whole document.
updateStateField(r) ==
    /\ At(r, "rmw")
    /\ UpdateRow(r, loc[r].desc, "inval")
    /\ Restart(r)
    /\ UNCHANGED <<load, log, seq, claim, entities, nodes, rolled>>

Delete(r) ==
    /\ At(r, "drop")
    /\ UpdateRow(r, NoModel, "inval")
    /\ Restart(r)
    /\ UNCHANGED <<load, log, seq, claim, entities, nodes, rolled>>

(***************************************************************************)
(* Behaviours                                                              *)
(***************************************************************************)
Step(r) ==
    \/ lookup(r) \/ RefreshAndGet(r) \/ memoryGet(r) \/ GetInTx(r) \/ Get(r) \/ GetFold(r) \/ cacheStore(r) \/ ReadFails(r)
    \/ invalidate(r) \/ BeginTx(r) \/ ValidateOrExtend(r)
    \/ memoryExtendSchema(r) \/ extendSchemaAttempt(r) \/ ExtendSchema(r) \/ ExtendSchemaFails(r) \/ ExtendSchemaInTx(r)
    \/ SaveEntity(r) \/ Commit(r) \/ Abort(r) \/ DeleteAllEntities(r)
    \/ cachedAbsentPaths(r) \/ validateConditionPaths(r) \/ recheckConditionPaths(r)
    \/ Decide(r) \/ Count(r) \/ memorySave(r) \/ Save(r) \/ ClearLog(r)
    \/ memoryLock(r) \/ sqliteLock(r) \/ LockRead(r) \/ LockFold(r) \/ LockState(r) \/ LockSavepoint(r)
    \/ memoryUnlock(r) \/ Unlock(r) \/ writeChangeLevel(r) \/ sqliteSetChangeLevel(r)
    \/ updateStateField(r) \/ Delete(r)

Finished == \A r \in Req : pc[r] = "done"
Quiet == Finished /\ UNCHANGED vars

Next ==
    \/ \E r \in Req : Step(r)
    \/ \E n \in Node : handleInvalidation(n) \/ GossipLost(n) \/ LeaseExpires(n)
    \/ Quiet

Spec == Init /\ [][Next]_vars

\* Go schedules every request, and time passes: a lease runs out.
Fairness ==
    /\ \A r \in Req : WF_vars(Step(r))
    /\ \A n \in Node : WF_vars(LeaseExpires(n))

-----------------------------------------------------------------------------
(* The variables have their types. *)
TypeOK ==
    /\ row \in Descriptor
    /\ log \in SUBSET LogRow
    /\ seq \in Nat /\ version \in Nat
    /\ claim \in Req \cup {None}
    /\ pc \in [Req -> PCs]
    /\ cache \in [Node -> Descriptor \cup {None}]
    /\ flight \in [Node -> Req \cup {None}]
    /\ absent \in [Node -> SUBSET Field]
    /\ mail \subseteq Node
    /\ owed \subseteq Field /\ rolled \subseteq Field

(* Every field a committed extension added is in the folded schema until the
   model is saved, unlocked or deleted, however extensions in transactions,
   extensions on their own and savepoints interleave, unless a writer came
   between two statements of a lifecycle operation.  Where Save and Unlock leave
   no log (postgres empties it, memory has none), the fold also keeps every field
   of the base once they are through.  The sqlite store never empties its log,
   though the comment on its Lock says that Unlock does, so a savepoint of the old
   model outlives the Save of a new base and hides it. *)
SchemaWhole ==
    ~crossed =>
        /\ owed \subseteq StoredSchema
        /\ (Backend # "sqlite" /\ MidLifecycle = {}) => row.schema \subseteq StoredSchema

(* A committed document fits the stored schema although its writer validated it
   against a cached descriptor that may be stale on its node, as long as the model
   has not been through a lifecycle change; a field may be missing only when a
   transaction that had added it was rolled back (its descriptor can be cached). *)
DocumentsFit ==
    (~changed /\ ~crossed) =>
        \A e \in entities : e.doc \subseteq StoredSchema \cup rolled

(* Every unique key names declared fields, whatever imports, key changes, locks
   and deletes interleave, unless a write overtook a lifecycle operation. *)
KeysDeclared == (~crossed /\ MidLifecycle = {}) => row.keys \subseteq StoredSchema

(* The stored schema, the unique keys and the documents agree. *)
CatalogConsistent == TypeOK /\ SchemaWhole /\ KeysDeclared /\ DocumentsFit

(* Every request ends: nobody is left joined to a flight or behind a claim. *)
RequestsEnd == <>[]Finished

(* Whatever invalidations are lost or come before the commit they announce, in
   the end no node serves a descriptor that differs from the stored one. *)
CachesConverge == <>[](\A n \in Node : cache[n] \in {None, Stored})

(* Requests end and caches agree with the store in the end. *)
CatalogSettles == RequestsEnd /\ CachesConverge
=============================================================================
