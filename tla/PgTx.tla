--------------------------------- MODULE PgTx ---------------------------------
(***************************************************************************)
(* The PostgreSQL storage plugin (plugins/postgres): its                   *)
(* TransactionManager with the txState bookkeeping, its entityStore and    *)
(* unique_claims, and the connection pool both draw on, for one tenant and *)
(* one entity model.                                                       *)
(*                                                                         *)
(* Grain.  One action is one SQL statement: between two statements of a    *)
(* transaction the others run.  The server (external) is modelled by what  *)
(* the plugin relies on: REPEATABLE READ snapshots, row locks that make a  *)
(* writer wait, 40001 when the row changed since the snapshot, unique      *)
(* indexes that wait for the other writer, the deadlock detector,          *)
(* statement and idle-in-transaction ceilings, and sessions that die.      *)
(*                                                                         *)
(* Abstractions.  A document is a member of Val; ClaimsOf gives its unique *)
(* claims.  Time counts transaction starts.  A call on a transaction the   *)
(* server has failed (25P02) changes nothing and is left out, except for   *)
(* Commit, Rollback and the savepoint calls.                               *)
(***************************************************************************)
EXTENDS Integers, Sequences, FiniteSets

CONSTANTS
  Tx,            \* transaction IDs: fresh UUIDs, one per Begin
  Direct,        \* compare-and-saves made outside any transaction
  Seed,          \* the transaction that wrote what is there at the start
  Entity, Val,
  Claim, ClaimsOf, PartialVal,
  None,
  SubmitTimeTTL, \* submitTimeTTL
  Load           \* bounds: the workloads, one of them per behaviour (Bound)

(* What runs, over which entities, of which some exist already; the calls  *)
(* and open savepoints per transaction, the session faults, the size of    *)
(* the connection pool.                                                    *)
Bound == [tx : SUBSET Tx, direct : SUBSET Direct, entity : SUBSET Entity,
          val : SUBSET Val, seeded : [Entity -> Val \cup {None}], calls : [Tx -> Nat],
          savepoints : Nat, faults : Nat, maxConns : Nat, asAt : BOOLEAN]

ASSUME BoundAssumption ==
  SubmitTimeTTL \in Nat /\ Load # {} /\ Load \subseteq Bound
ASSUME ValueAssumption ==
  /\ None \notin Val \cup Entity \cup Tx \cup Direct
  /\ Tx \cap (Direct \cup {Seed}) = {} /\ Seed # None
  /\ ClaimsOf \in [Val -> SUBSET Claim] /\ PartialVal \subseteq Val

VARIABLES
  (* the tables, and the server's clock *)
  entities, entityVersions, uniqueClaims, clock,
  (* the server's side of a transaction *)
  srv, start, snapE, work, srvSavepoints, shared,
  (* TransactionManager and txState *)
  registry, submitTimes, readSet, writeSet, savepoints, abortCause,
  (* connections checked out of the pool for a transaction *)
  conns,
  (* the goroutine that runs the transaction: the statement it is at, its  *)
  (* arguments, what its last call returned and why the server failed it   *)
  pc, call, told, cause,
  (* compare-and-saves with a transaction of their own *)
  casPc, casCall,
  (* bounds *)
  calls, faults, load

tables  == <<entities, entityVersions, uniqueClaims>>
server  == <<srv, start, snapE, work, srvSavepoints, shared>>
state   == <<readSet, writeSet, savepoints, abortCause>>
manager == <<registry, submitTimes>>
caller  == <<pc, call, told, cause>>
cas     == <<casPc, casCall>>
bounds  == <<calls, faults, load>>
vars == <<tables, clock, server, manager, state, conns, caller, cas, bounds>>

Doc == Val \cup {None}

(* A row of entities; version 0 stands for no row. *)
Writer == Tx \cup Direct \cup {Seed}
Row == [val : Doc, version : Nat, tx : Writer \cup {None}, deleted : BOOLEAN]
NoRow == [val |-> None, version |-> 0, tx |-> None, deleted |-> FALSE]

(* A row of entity_versions; by is the writer. *)
VersionRow == [val : Doc, version : Nat, validTime : Nat, by : Writer]

(* What a transaction has written: rows (version 0: untouched), versions,  *)
(* and claims inserted (an entity), deleted (None) or untouched (Same).    *)
Same == "same"
NoWork == [rows |-> [e \in Entity |-> NoRow],
           vers |-> [e \in Entity |-> << >>],
           claims |-> [c \in Claim |-> Same]]
NoCall == [e |-> None, val |-> None, todo |-> {}, all |-> FALSE]
NoCas == [e |-> None, val |-> None, expected |-> None, at |-> 0,
          told |-> "nothing"]
NoVersions == [e \in Entity |-> 0]

Live(row) == row.version > 0 /\ ~row.deleted
Alive(t) == srv[t] \in {"open", "failed"}

(* What t sees: its own writes over its snapshot. *)
View(t, e) ==
  IF work[t].rows[e].version > 0 THEN work[t].rows[e] ELSE snapE[t][e]

-----------------------------------------------------------------------------
(* Queries *)

Get(t, e) == IF Live(View(t, e)) THEN View(t, e).val ELSE None
getPageCurrent(t) == {e \in Entity : Live(View(t, e))}

(* Point-in-time reads go through the pool: committed rows only, the       *)
(* latest by valid_time; equal times leave the choice to the server.       *)
UpTo(e, time) ==
  {i \in DOMAIN entityVersions[e] : entityVersions[e][i].validTime <= time}
LatestAsAt(e, time) ==
  {entityVersions[e][i].val : i \in {j \in UpTo(e, time) :
     \A k \in UpTo(e, time) :
       entityVersions[e][k].validTime <= entityVersions[e][j].validTime}}
GetAsAt(e, time) == IF UpTo(e, time) = {} THEN {None} ELSE LatestAsAt(e, time)
searchBaseQuery(time) == {e \in Entity : GetAsAt(e, time) # {None}}

OwnVersions(e, t) ==
  {i \in DOMAIN entityVersions[e] :
     entityVersions[e][i].by = t /\ entityVersions[e][i].val # None}
GetVersionByTransaction(e, t) ==
  IF OwnVersions(e, t) = {} THEN None
  ELSE entityVersions[e][CHOOSE i \in OwnVersions(e, t) :
         \A j \in OwnVersions(e, t) : i <= j].val

GetSubmitTime(t) ==
  IF t \in DOMAIN submitTimes THEN "committed"
  ELSE IF t \in registry THEN "active" ELSE "notFound"

(* What a call made in the context of t runs on: the transaction, or, once *)
(* the manager has let it go, a querier that fails, never the pool.        *)
resolveRaw(t) ==
  IF t \in registry THEN "tx"
  ELSE IF t \in DOMAIN submitTimes THEN "alreadyCommitted" ELSE "notFound"

-----------------------------------------------------------------------------
(* Locks.  A writer holds its rows, index entries and claims; a validated  *)
(* read holds its row against writers; a compare-and-save holds its row.   *)

NewClaims(v) == IF v \in Val THEN ClaimsOf[v] ELSE {}
Others(t) == {u \in Tx \ {t} : Alive(u)}
CasHolding(e) ==
  {d \in Direct : casPc[d] \in {"save", "commit"} /\ casCall[d].e = e}

Writers(t, e) ==
  {u \in Others(t) : work[u].rows[e].version > 0} \cup CasHolding(e)
RowHolders(t, e) == Writers(t, e) \cup {u \in Others(t) : e \in shared[u]}
VersionHolders(t, e, n) ==
  {u \in Others(t) :
     \E i \in DOMAIN work[u].vers[e] : work[u].vers[e][i].version = n}
    \cup {d \in CasHolding(e) :
            casPc[d] = "commit" /\ entities[e].version + 1 = n}
ClaimHolders(t, C) ==
  {u \in Others(t) : \E c \in C : work[u].claims[c] # Same}
    \cup {d \in Direct : casPc[d] = "commit" /\
            \E c \in C : c \in NewClaims(casCall[d].val)
                           \/ uniqueClaims[c] = casCall[d].e}


(* Whom the statement p is at waits for. *)
Blockers(p) ==
  IF p \in Direct
  THEN IF casPc[p] = "lock" THEN RowHolders(None, casCall[p].e)
       ELSE IF casPc[p] = "save"
         THEN LET e == casCall[p].e IN
              VersionHolders(None, e, entities[e].version + 1)
                \cup ClaimHolders(None, NewClaims(casCall[p].val))
       ELSE {}
  ELSE LET e == call[p].e IN
       CASE pc[p] \in {"upsert", "delMark"} -> RowHolders(p, e)
         [] pc[p] \in {"version", "delVersion"} ->
              VersionHolders(p, e, View(p, e).version +
                             IF pc[p] = "version" THEN 0 ELSE 1)
         [] pc[p] = "claims" -> ClaimHolders(p, NewClaims(call[p].val))
         [] pc[p] = "validate" /\ srv[p] = "open" ->
              Writers(p, CHOOSE f \in call[p].todo : TRUE)
         [] OTHER -> {}

(* The detector looks for a cycle of waits through p. *)
WaitsFor(p) ==
  LET reach[n \in Nat] ==
        IF n = 0 THEN Blockers(p)
        ELSE LET W == reach[n - 1] IN W \cup UNION {Blockers(q) : q \in W}
  IN  reach[Cardinality(load.tx \cup load.direct)]
Deadlocked(p) == p \in WaitsFor(p)

(* Committed by another since t's snapshot. *)
Changed(t, e) ==
  work[t].rows[e].version = 0 /\ entities[e].version # snapE[t][e].version

-----------------------------------------------------------------------------
Init ==
  /\ load \in Load
  /\ entities = [e \in Entity |->
       IF load.seeded[e] = None THEN NoRow
       ELSE [val |-> load.seeded[e], version |-> 1, tx |-> Seed,
             deleted |-> FALSE]]
  /\ entityVersions = [e \in Entity |->
       IF load.seeded[e] = None THEN << >>
       ELSE << [val |-> load.seeded[e], version |-> 1, validTime |-> 0,
                by |-> Seed] >>]
  /\ uniqueClaims = [c \in Claim |->
       IF \E e \in Entity : c \in NewClaims(load.seeded[e])
       THEN CHOOSE e \in Entity : c \in NewClaims(load.seeded[e]) ELSE None]
  /\ clock = 0
  /\ srv = [t \in Tx |-> "none"]
  /\ start = [t \in Tx |-> 0]
  /\ snapE = [t \in Tx |-> [e \in Entity |-> NoRow]]
  /\ work = [t \in Tx |-> NoWork]
  /\ srvSavepoints = [t \in Tx |-> << >>]
  /\ shared = [t \in Tx |-> {}]
  /\ registry = {} /\ submitTimes = [t \in {} |-> 0]
  /\ readSet = [t \in Tx |-> NoVersions]
  /\ writeSet = [t \in Tx |-> NoVersions]
  /\ savepoints = [t \in Tx |-> << >>]
  /\ abortCause = [t \in Tx |-> FALSE]
  /\ conns = [t \in Tx |-> 0]
  /\ pc = [t \in Tx |-> "none"]
  /\ call = [t \in Tx |-> NoCall]
  /\ told = [t \in Tx |-> "nothing"]
  /\ cause = [t \in Tx |-> "none"]
  /\ casPc = [d \in Direct |-> "none"]
  /\ casCall = [d \in Direct |-> NoCas]
  /\ calls = [t \in Tx |-> 0]
  /\ faults = 0

-----------------------------------------------------------------------------
(* The pool *)

CasRuns == {"lock", "save", "commit"}
InUse ==
  LET held[T \in SUBSET Tx] ==
        IF T = {} THEN 0
        ELSE LET t == CHOOSE u \in T : TRUE IN conns[t] + held[T \ {t}]
  IN  held[Tx] + Cardinality({d \in Direct : casPc[d] \in CasRuns})
PoolFree == InUse < load.maxConns

-----------------------------------------------------------------------------
(* How a call returns and how a transaction ends *)

(* classifySQLState and classifyError, for what the server says of a       *)
(* statement: which of the errors the domain tells apart a caller gets.    *)
classifySQLState(why) ==
  CASE why \in {"serialization", "deadlock"} -> "conflict"
    [] why = "claimTaken" -> "unique"
    [] why = "reclaimed" -> "unavailable"
    [] OTHER -> "error"

Return(t, result) ==
  /\ pc' = [pc EXCEPT ![t] = "idle"]
  /\ call' = [call EXCEPT ![t] = NoCall]
  /\ told' = [told EXCEPT ![t] = result]

(* The server forgets t and frees its locks. *)
ServerEnds(t, outcome) ==
  /\ srv' = [srv EXCEPT ![t] = outcome]
  /\ snapE' = [snapE EXCEPT ![t] = [e \in Entity |-> NoRow]]
  /\ work' = [work EXCEPT ![t] = NoWork]
  /\ srvSavepoints' = [srvSavepoints EXCEPT ![t] = << >>]
  /\ shared' = [shared EXCEPT ![t] = {}]
  /\ UNCHANGED start

(* registry, tenants, origins and txStates together *)
cleanupTx(t) ==
  /\ registry' = registry \ {t}
  /\ readSet' = [readSet EXCEPT ![t] = NoVersions]
  /\ writeSet' = [writeSet EXCEPT ![t] = NoVersions]
  /\ savepoints' = [savepoints EXCEPT ![t] = << >>]
  /\ abortCause' = [abortCause EXCEPT ![t] = FALSE]

(* pgxTx.Rollback hands the connection back whatever it returns. *)
ReleaseConn(t) == conns' = [conns EXCEPT ![t] = 0]

Finish(t, result) ==
  /\ pc' = [pc EXCEPT ![t] = "done"]
  /\ call' = [call EXCEPT ![t] = NoCall]
  /\ told' = [told EXCEPT ![t] = result]

discardTx(t) == cleanupTx(t) /\ ReleaseConn(t)

EndTx(t, outcome, result) ==
  /\ ServerEnds(t, outcome)
  /\ cleanupTx(t)
  /\ ReleaseConn(t)
  /\ Finish(t, result)
  /\ UNCHANGED <<tables, clock, submitTimes, cas>>

(* A statement of t fails and with it the transaction, back to the last    *)
(* savepoint if there is one; Commit's own statements end it.  A cancelled *)
(* statement is remembered (RecordAbort).                                  *)
UndoneWork(t) ==
  IF srvSavepoints[t] = << >> THEN NoWork
  ELSE srvSavepoints[t][Len(srvSavepoints[t])].work

RecordAbort(t, why) ==
  abortCause' = [abortCause EXCEPT ![t] = @ \/ why = "cancelled"]

StatementFails(t, why) ==
  /\ srv' = [srv EXCEPT ![t] = "failed"]
  /\ work' = [work EXCEPT ![t] = UndoneWork(t)]
  /\ RecordAbort(t, why)
  /\ Return(t, classifySQLState(why))
  /\ UNCHANGED <<tables, clock, start, snapE, srvSavepoints, shared, manager,
                 readSet, writeSet, savepoints, conns, cas>>

classifyTxError(t, why) ==
  /\ cause' = [cause EXCEPT ![t] = why]
  /\ IF pc[t] = "validate"
       THEN EndTx(t, "rolledBack", classifySQLState(why))
       ELSE StatementFails(t, why)

-----------------------------------------------------------------------------
(* Begin: a connection within the acquire deadline, BEGIN (which fixes     *)
(* CURRENT_TIMESTAMP), then set_config, the first statement: the snapshot. *)

Begin(t) ==
  /\ pc[t] = "none" /\ PoolFree
  /\ pc' = [pc EXCEPT ![t] = "begin"]
  /\ conns' = [conns EXCEPT ![t] = 1]
  /\ clock' = clock + 1
  /\ start' = [start EXCEPT ![t] = clock + 1]
  /\ UNCHANGED <<tables, srv, snapE, work, srvSavepoints, shared, manager,
                 state, call, told, cause, cas>>

BeginTimeout(t) ==
  /\ pc[t] = "none" /\ ~PoolFree
  /\ Finish(t, "unavailable")
  /\ UNCHANGED <<tables, clock, server, manager, state, conns, cause, cas>>

BeginSetTenant(t) ==
  /\ pc[t] = "begin"
  /\ snapE' = [snapE EXCEPT ![t] = entities]
  /\ srv' = [srv EXCEPT ![t] = "open"]
  /\ registry' = registry \cup {t}
  /\ pc' = [pc EXCEPT ![t] = "idle"]
  /\ UNCHANGED <<tables, clock, start, work, srvSavepoints, shared,
                 submitTimes, state, conns, call, told, cause, cas>>

(* The session dies under set_config; the connection goes back. *)
BeginTorn(t) ==
  /\ pc[t] = "begin"
  /\ ReleaseConn(t)
  /\ Finish(t, "unavailable")
  /\ UNCHANGED <<tables, clock, server, manager, state, cause, cas>>

-----------------------------------------------------------------------------
(* Calls of the entity store in a transaction *)

Usable(t) == pc[t] = "idle" /\ t \in registry /\ srv[t] = "open"

At(t, step, e, v, todo) ==
  /\ pc' = [pc EXCEPT ![t] = step]
  /\ call' = [call EXCEPT ![t] =
       [e |-> e, val |-> v, todo |-> todo, all |-> @.all]]
  /\ UNCHANGED told

Goes(t, step) == At(t, step, call[t].e, call[t].val, call[t].todo)

(* RecordRead: the first read wins, and an own write needs none. *)
RecordReads(t, E) ==
  readSet' = [readSet EXCEPT ![t] = [e \in Entity |->
    IF e \in E /\ readSet[t][e] = 0 /\ writeSet[t][e] = 0
    THEN View(t, e).version ELSE readSet[t][e]]]

(* RecordWrite: the first write wins, with the version read if there is    *)
(* one; the read is no longer validated.                                   *)
RecordWrite(t, e, preWriteVersion) ==
  /\ writeSet' = [writeSet EXCEPT ![t][e] =
       IF @ > 0 THEN @
       ELSE IF readSet[t][e] > 0 THEN readSet[t][e] ELSE preWriteVersion]
  /\ readSet' = [readSet EXCEPT ![t][e] = IF writeSet[t][e] > 0 THEN @ ELSE 0]

(* Get, a page or a tracking search: what it returns is recorded. *)
GetPage(t, E) ==
  /\ Usable(t) /\ E # {} /\ E \subseteq getPageCurrent(t)
  /\ RecordReads(t, E)
  /\ UNCHANGED <<tables, clock, server, manager, writeSet, savepoints,
                 abortCause, conns, caller, cas>>

Save(t, e, v) ==
  /\ Usable(t)
  /\ At(t, "upsert", e, v, {})
  /\ UNCHANGED <<tables, clock, server, manager, state, conns, cause, cas>>

(* The check reads the transaction's own view and takes no lock. *)
CompareAndSave(t, e, v, expectedTxID) ==
  /\ Live(View(t, e)) /\ View(t, e).tx = expectedTxID
  /\ Save(t, e, v)

saveUpsert(t) ==
  LET e == call[t].e
      row == View(t, e)
  IN
  /\ pc[t] = "upsert" /\ Blockers(t) = {}
  /\ ~Changed(t, e)
  /\ work' = [work EXCEPT ![t].rows[e] =
       [val |-> call[t].val, version |-> row.version + 1, tx |-> t,
        deleted |-> FALSE]]
  /\ IF row.version = 0 THEN UNCHANGED <<readSet, writeSet>>
     ELSE RecordWrite(t, e, row.version)
  /\ Goes(t, "version")
  /\ UNCHANGED <<tables, clock, srv, start, snapE, srvSavepoints, shared,
                 manager, savepoints, abortCause, conns, cause, cas>>

NewVersion(t, e, v, n) ==
  [val |-> v, version |-> n, validTime |-> start[t], by |-> t]
VersionTaken(e, n) ==
  \E i \in DOMAIN entityVersions[e] : entityVersions[e][i].version = n

insertVersion(t) ==
  LET e == call[t].e
      saving == pc[t] = "version"
      n == View(t, e).version + IF saving THEN 0 ELSE 1
  IN
  /\ pc[t] \in {"version", "delVersion"} /\ Blockers(t) = {}
  /\ ~VersionTaken(e, n)
  /\ work' = [work EXCEPT ![t].vers[e] =
       Append(@, NewVersion(t, e, call[t].val, n))]
  /\ Goes(t, IF saving THEN "claims" ELSE "delMark")
  /\ UNCHANGED <<tables, clock, srv, start, snapE, srvSavepoints, shared,
                 manager, state, conns, cause, cas>>

ClaimOf(t, c) ==
  IF work[t].claims[c] = Same THEN uniqueClaims[c] ELSE work[t].claims[c]
(* The claims t sees after it has let go of those of e. *)
WithoutClaims(t, e) ==
  [c \in Claim |-> IF ClaimOf(t, c) = e THEN None ELSE work[t].claims[c]]
Taken(t, e) ==
  \E c \in NewClaims(call[t].val) : ClaimOf(t, c) \notin {None, e}

(* A partial key is refused before any SQL: the rows already written stay  *)
(* in the transaction.                                                     *)
replaceClaims(t) ==
  LET e == call[t].e IN
  /\ pc[t] = "claims"
  /\ \/ /\ call[t].val \in PartialVal
        /\ UNCHANGED work
        /\ Return(t, "partial")
     \/ /\ call[t].val \notin PartialVal
        /\ Blockers(t) = {} /\ ~Taken(t, e)
        /\ work' = [work EXCEPT ![t].claims = [c \in Claim |->
             IF c \in NewClaims(call[t].val) THEN e ELSE WithoutClaims(t, e)[c]]]
        /\ Return(t, "ok")
  /\ UNCHANGED <<tables, clock, srv, start, snapE, srvSavepoints, shared,
                 manager, state, conns, cause, cas>>

(* Delete, and DeleteAll one by one in any order. *)
Delete(t, e) ==
  /\ Usable(t) /\ e \in getPageCurrent(t)
  /\ At(t, "delNext", None, None, {e})
  /\ UNCHANGED <<tables, clock, server, manager, state, conns, cause, cas>>

DeleteAll(t) ==
  /\ Usable(t)
  /\ pc' = [pc EXCEPT ![t] = "delNext"]
  /\ call' = [call EXCEPT ![t] =
       [NoCall EXCEPT !.todo = getPageCurrent(t), !.all = TRUE]]
  /\ UNCHANGED <<tables, clock, server, manager, state, conns, told, cause, cas>>

(* The claims DeleteAll's closing statement deletes: those t can see.  The *)
(* entities of its snapshot are deleted by then and a claim is of a live   *)
(* entity (TablesAgree), so they are those of entities t has written.      *)
VisibleClaims(t) ==
  {c \in Claim : \E e \in Entity :
     ClaimOf(t, c) = e /\ work[t].rows[e].version > 0}

DeleteNext(t) ==
  /\ pc[t] = "delNext"
  /\ \/ /\ call[t].todo = {}
        /\ work' = [work EXCEPT ![t].claims = [c \in Claim |->
             IF call[t].all /\ c \in VisibleClaims(t) THEN None ELSE @[c]]]
        /\ Return(t, "ok")
        /\ UNCHANGED <<readSet, writeSet>>
     \/ \E e \in call[t].todo :
          /\ RecordWrite(t, e, View(t, e).version)
          /\ At(t, "delVersion", e, None, call[t].todo \ {e})
          /\ UNCHANGED work
  /\ UNCHANGED <<tables, clock, srv, start, snapE, srvSavepoints, shared,
                 manager, savepoints, abortCause, conns, cause, cas>>

(* The row is marked and the claims are let go. *)
deleteMark(t) ==
  LET e == call[t].e IN
  /\ pc[t] = "delMark" /\ Blockers(t) = {}
  /\ ~Changed(t, e)
  /\ work' = [work EXCEPT
       ![t].rows[e] = [View(t, e) EXCEPT !.version = @ + 1, !.deleted = TRUE,
                                         !.val = None, !.tx = t],
       ![t].claims = WithoutClaims(t, e)]
  /\ At(t, "delNext", None, None, call[t].todo)
  /\ UNCHANGED <<tables, clock, srv, start, snapE, srvSavepoints, shared,
                 manager, state, conns, cause, cas>>

(* FOR SHARE fails on a row that changed since the snapshot, and the       *)
(* versions it returns are compared with those that were read.             *)
NextRead(t) == CHOOSE e \in call[t].todo : TRUE
ValidateReadSet(t, e) == ~Changed(t, e) /\ View(t, e).version = readSet[t][e]

(* What the statement t is at fails with once nobody holds it up. *)
StatementError(t) ==
  LET e == call[t].e IN
  CASE pc[t] \in {"upsert", "delMark"} /\ Changed(t, e) -> "serialization"
    [] pc[t] = "delVersion" /\ VersionTaken(e, View(t, e).version + 1) ->
         "versionTaken"
    [] pc[t] = "claims" /\ call[t].val \notin PartialVal /\ Taken(t, e) ->
         "claimTaken"
    [] pc[t] = "validate" /\ srv[t] = "open" /\ ~ValidateReadSet(t, NextRead(t)) ->
         "serialization"
    [] OTHER -> "none"

StatementRefused(t) ==
  /\ Blockers(t) = {} /\ StatementError(t) # "none"
  /\ classifyTxError(t, StatementError(t))

(* The deadlock detector picks t, or statement_timeout ends its wait. *)
WaitEnds(t) ==
  /\ Blockers(t) # {}
  /\ \/ Deadlocked(t) /\ classifyTxError(t, "deadlock")
     \/ classifyTxError(t, "cancelled")

-----------------------------------------------------------------------------
(* A point-in-time read in a transaction takes a second connection while   *)
(* it holds the first one, within the acquire deadline.                    *)

committedQuerier(t) ==
  /\ pc[t] = "idle" /\ t \in registry
  /\ Goes(t, "pit")
  /\ UNCHANGED <<tables, clock, server, manager, state, conns, cause, cas>>

acquire(t) ==
  /\ pc[t] = "pit" /\ PoolFree
  /\ conns' = [conns EXCEPT ![t] = 2]
  /\ Goes(t, "pitRead")
  /\ UNCHANGED <<tables, clock, server, manager, state, cause, cas>>

(* Faulty: no deadline on the second connection. *)
waitForConn(t) == FALSE /\ UNCHANGED vars

acquireTimeout(t) ==
  /\ pc[t] = "pit" /\ ~PoolFree
  /\ Return(t, "unavailable")
  /\ UNCHANGED <<tables, clock, server, manager, state, conns, cause, cas>>

releasingRows(t) ==
  /\ pc[t] = "pitRead"
  /\ conns' = [conns EXCEPT ![t] = 1]
  /\ Return(t, "ok")
  /\ UNCHANGED <<tables, clock, server, manager, state, cause, cas>>

-----------------------------------------------------------------------------
(* Savepoints: a stack at the server (what to go back to) and one in       *)
(* txState (the sets to go back to).                                       *)

Place(stack, id) == {i \in DOMAIN stack : stack[i].id = id}
IdsOf(stack) == {stack[i].id : i \in DOMAIN stack}
Above(stack, id) == SubSeq(stack, 1, (CHOOSE i \in Place(stack, id) : TRUE) - 1)
UpToId(stack, id) == SubSeq(stack, 1, CHOOSE i \in Place(stack, id) : TRUE)

Savepoint(t) ==
  LET free == (1 .. load.savepoints) \
                (IdsOf(savepoints[t]) \cup IdsOf(srvSavepoints[t]))
      id == CHOOSE i \in free : TRUE
  IN
  /\ Usable(t) /\ free # {}
  /\ srvSavepoints' = [srvSavepoints EXCEPT ![t] =
       Append(@, [id |-> id, work |-> work[t]])]
  /\ savepoints' = [savepoints EXCEPT ![t] =
       Append(@, [id |-> id, readSet |-> readSet[t], writeSet |-> writeSet[t]])]
  /\ UNCHANGED <<tables, clock, srv, start, snapE, work, shared, manager,
                 readSet, writeSet, abortCause, conns, caller, cas>>

RestoreSavepoint(t, id) ==
  LET kept == UpToId(savepoints[t], id)
      entry == kept[Len(kept)]
  IN
  /\ savepoints' = [savepoints EXCEPT ![t] = kept]
  /\ readSet' = [readSet EXCEPT ![t] = entry.readSet]
  /\ writeSet' = [writeSet EXCEPT ![t] = entry.writeSet]
  /\ abortCause' = [abortCause EXCEPT ![t] = FALSE]

(* The way back from a failed transaction to a usable one. *)
RollbackToSavepoint(t, id) ==
  /\ pc[t] = "idle" /\ t \in registry /\ Alive(t)
  /\ id \in IdsOf(savepoints[t]) \cap IdsOf(srvSavepoints[t])
  /\ LET kept == UpToId(srvSavepoints[t], id) IN
       /\ srvSavepoints' = [srvSavepoints EXCEPT ![t] = kept]
       /\ work' = [work EXCEPT ![t] = kept[Len(kept)].work]
  /\ srv' = [srv EXCEPT ![t] = "open"]
  /\ RestoreSavepoint(t, id)
  /\ Return(t, "ok")
  /\ cause' = [cause EXCEPT ![t] = "none"]
  /\ UNCHANGED <<tables, clock, start, snapE, shared, manager, conns, cas>>

(* The server drops the later savepoints too, txState only this one. *)
ReleaseSavepoint(t, id) ==
  /\ Usable(t)
  /\ id \in IdsOf(savepoints[t]) \cap IdsOf(srvSavepoints[t])
  /\ srvSavepoints' = [srvSavepoints EXCEPT ![t] = Above(@, id)]
  /\ savepoints' = [savepoints EXCEPT ![t] =
       SelectSeq(@, LAMBDA entry : entry.id # id)]
  /\ UNCHANGED <<tables, clock, srv, start, snapE, work, shared, manager,
                 readSet, writeSet, abortCause, conns, caller, cas>>

(* An ID only txState knows passes HasSavepoint and fails at the server. *)
SavepointUnknown(t) ==
  /\ Usable(t)
  /\ IdsOf(savepoints[t]) \ IdsOf(srvSavepoints[t]) # {}
  /\ classifyTxError(t, "noSavepoint")

-----------------------------------------------------------------------------
(* Commit *)

ReadIDs(t) == {e \in Entity : readSet[t][e] > 0}

Commit(t) ==
  /\ pc[t] = "idle" /\ t \in registry
  /\ At(t, IF ReadIDs(t) = {} THEN "probe" ELSE "validate", None, None, ReadIDs(t))
  /\ UNCHANGED <<tables, clock, server, manager, state, conns, cause, cas>>

(* Faulty: the rows are read without FOR SHARE. *)
validateUnlocked(t) ==
  /\ pc[t] = "validate" /\ srv[t] = "open" /\ Blockers(t) = {}
  /\ ValidateReadSet(t, NextRead(t))
  /\ At(t, IF call[t].todo = {NextRead(t)} THEN "probe" ELSE "validate",
        None, None, call[t].todo \ {NextRead(t)})
  /\ UNCHANGED <<tables, clock, server, manager, state, conns, cause, cas>>

validateInChunks(t) ==
  /\ pc[t] = "validate" /\ srv[t] = "open" /\ Blockers(t) = {}
  /\ ValidateReadSet(t, NextRead(t))
  /\ shared' = [shared EXCEPT ![t] = @ \cup {NextRead(t)}]
  /\ At(t, IF call[t].todo = {NextRead(t)} THEN "probe" ELSE "validate",
        None, None, call[t].todo \ {NextRead(t)})
  /\ UNCHANGED <<tables, clock, srv, start, snapE, work, srvSavepoints, manager,
                 state, conns, cause, cas>>

(* SELECT CURRENT_TIMESTAMP *)
captureSubmitTime(t) ==
  /\ pc[t] = "probe" /\ srv[t] = "open"
  /\ Goes(t, "commit")
  /\ UNCHANGED <<tables, clock, server, manager, state, conns, cause, cas>>

(* Commit finds the transaction failed (25P02) or its session gone. *)
CommitAborted(t) ==
  /\ pc[t] \in {"validate", "probe"} /\ srv[t] \in {"failed", "gone"}
  /\ UNCHANGED cause
  /\ EndTx(t, IF srv[t] = "gone" THEN "gone" ELSE "rolledBack",
       CASE pc[t] = "validate" /\ srv[t] = "gone" -> "unavailable"
         [] pc[t] = "probe" /\ srv[t] = "failed" /\ ~abortCause[t] -> "conflict"
         [] OTHER -> "error")

Applied(t) ==
  /\ entities' = [e \in Entity |->
       IF work[t].rows[e].version > 0 THEN work[t].rows[e] ELSE entities[e]]
  /\ entityVersions' = [e \in Entity |-> entityVersions[e] \o work[t].vers[e]]
  /\ uniqueClaims' = [c \in Claim |-> ClaimOf(t, c)]

CommitApply(t) ==
  /\ pc[t] = "commit" /\ srv[t] = "open"
  /\ Applied(t)
  /\ ServerEnds(t, "committed")
  /\ ReleaseConn(t)
  /\ Goes(t, "record")
  /\ UNCHANGED <<clock, manager, state, cause, cas>>

(* submitTimes is written before the transaction leaves the registry; what *)
(* is older than the TTL is swept.                                         *)
recordSubmitTime(t) ==
  /\ pc[t] = "record"
  /\ LET times == [u \in DOMAIN submitTimes \cup {t} |-> start[u]]
         young == {u \in DOMAIN times : times[u] + SubmitTimeTTL >= clock}
     IN  submitTimes' = [u \in young |-> times[u]]
  /\ Goes(t, "cleanup")
  /\ UNCHANGED <<tables, clock, server, registry, state, conns, cause, cas>>

CommitDone(t) ==
  /\ pc[t] = "cleanup"
  /\ cleanupTx(t)
  /\ Finish(t, "ok")
  /\ UNCHANGED <<tables, clock, server, submitTimes, conns, cause, cas>>

(* A commit that fails is told apart by the server's answer alone. *)
(* Faulty: a connection torn under COMMIT is retryable, as elsewhere. *)
classifyTorn(answer) == "unavailable"

classifyCommitError(answer) ==
  IF answer = "reclaimed" THEN "unavailable" ELSE "error"

CommitFails(t, answer) ==
  /\ pc[t] = "commit" /\ srv[t] = "gone"
  /\ UNCHANGED cause
  /\ EndTx(t, "gone", classifyCommitError(answer))

(* The answer to COMMIT is lost: it was carried out or not. *)
CommitTorn(t) ==
  /\ pc[t] = "commit" /\ srv[t] = "open"
  /\ \/ Applied(t) /\ ServerEnds(t, "committed")
     \/ UNCHANGED tables /\ ServerEnds(t, "rolledBack")
  /\ cleanupTx(t)
  /\ ReleaseConn(t)
  /\ Finish(t, classifyCommitError("none"))
  /\ UNCHANGED <<clock, submitTimes, cause, cas>>

Rollback(t) ==
  /\ pc[t] = "idle" /\ t \in registry
  /\ UNCHANGED cause
  /\ IF srv[t] = "gone" THEN EndTx(t, "gone", "error")
     ELSE EndTx(t, "rolledBack", "rolledBack")

-----------------------------------------------------------------------------
(* Sessions die: reclaimed while the transaction idles, or under one of    *)
(* its statements.                                                         *)

Statement ==
  {"upsert", "version", "claims", "delNext", "delVersion", "delMark"}

idleInTransactionTimeout(t) ==
  /\ pc[t] \in {"idle", "pit", "pitRead", "probe", "commit"} /\ Alive(t)
  /\ ServerEnds(t, "gone")
  /\ UNCHANGED <<tables, clock, manager, state, conns, caller, cas>>

(* The next statement finds out. *)
idleInTxAbort(t) ==
  /\ pc[t] = "idle" /\ t \in registry /\ srv[t] = "gone"
  /\ discardTx(t)
  /\ Finish(t, "unavailable")
  /\ UNCHANGED <<tables, clock, server, submitTimes, cause, cas>>

isConnectionTorn(t) ==
  /\ pc[t] \in Statement /\ srv[t] = "open"
  /\ ServerEnds(t, "gone")
  /\ discardTx(t)
  /\ Finish(t, "unavailable")
  /\ UNCHANGED <<tables, clock, submitTimes, cause, cas>>

-----------------------------------------------------------------------------
(* CompareAndSave outside a transaction: READ COMMITTED, the check holds   *)
(* the row until the write it guards has committed.                        *)

CasEnds(d, result) ==
  /\ casPc' = [casPc EXCEPT ![d] = "done"]
  /\ casCall' = [casCall EXCEPT ![d].told = result]

(* The caller names the transaction ID it has just read. *)
casBegin(d, e, v) ==
  /\ casPc[d] = "none" /\ PoolFree /\ Live(entities[e])
  /\ casPc' = [casPc EXCEPT ![d] = "lock"]
  /\ casCall' = [casCall EXCEPT ![d] =
       [NoCas EXCEPT !.e = e, !.val = v, !.expected = entities[e].tx]]
  /\ UNCHANGED <<tables, clock, server, manager, state, conns, caller>>

casBeginTimeout(d) ==
  /\ casPc[d] = "none" /\ ~PoolFree
  /\ CasEnds(d, "unavailable")
  /\ UNCHANGED <<tables, clock, server, manager, state, conns, caller>>

compareTxID(d) ==
  LET row == entities[casCall[d].e] IN
  /\ casPc[d] = "lock" /\ Blockers(d) = {}
  /\ \/ /\ Live(row) /\ row.tx = casCall[d].expected
        /\ casPc' = [casPc EXCEPT ![d] = "save"]
        /\ UNCHANGED casCall
     \/ /\ ~(Live(row) /\ row.tx = casCall[d].expected)
        /\ CasEnds(d, "conflict")
  /\ UNCHANGED <<tables, clock, server, manager, state, conns, caller>>

(* The save, dated by the statement.  A refused one is rolled back. *)
casSave(d) ==
  LET e == casCall[d].e
      v == casCall[d].val
      refused == IF v \in PartialVal THEN "partial"
                 ELSE IF \E c \in NewClaims(v) : uniqueClaims[c] \notin {None, e}
                   THEN "unique" ELSE "none"
  IN
  /\ casPc[d] = "save" /\ Blockers(d) = {}
  /\ \/ refused # "none" /\ CasEnds(d, refused) /\ UNCHANGED clock
     \/ /\ refused = "none"
        /\ clock' = clock + 1
        /\ casPc' = [casPc EXCEPT ![d] = "commit"]
        /\ casCall' = [casCall EXCEPT ![d].at = clock + 1]
  /\ UNCHANGED <<tables, server, manager, state, conns, caller>>

(* What its COMMIT makes of the tables; the transaction ID of the row is   *)
(* the one the caller put on the entity.                                   *)
CasApplied(d) ==
  LET e == casCall[d].e
      v == casCall[d].val
      n == entities[e].version + 1
  IN
  /\ entities' = [entities EXCEPT ![e] =
       [val |-> v, version |-> n, tx |-> d, deleted |-> FALSE]]
  /\ entityVersions' = [entityVersions EXCEPT ![e] = Append(@,
       [val |-> v, version |-> n, validTime |-> casCall[d].at, by |-> d])]
  /\ uniqueClaims' = [c \in Claim |->
       IF c \in NewClaims(v) THEN e
       ELSE IF uniqueClaims[c] = e THEN None ELSE uniqueClaims[c]]

casCommit(d) ==
  /\ casPc[d] = "commit"
  /\ CasApplied(d)
  /\ CasEnds(d, "ok")
  /\ UNCHANGED <<clock, server, manager, state, conns, caller>>

(* classifyError: a dead session is retryable, whichever statement finds   *)
(* it dead.  Before the COMMIT the server has undone the work; under it    *)
(* the outcome is in doubt.                                                *)
casTorn(d) ==
  /\ casPc[d] \in CasRuns
  /\ casPc' = [casPc EXCEPT ![d] =
       IF casPc[d] = "commit" THEN "inDoubt" ELSE "done"]
  /\ casCall' = [casCall EXCEPT ![d].told = classifySQLState("reclaimed")]
  /\ \/ casPc[d] = "commit" /\ CasApplied(d)
     \/ UNCHANGED tables
  /\ UNCHANGED <<clock, server, manager, state, conns, caller>>

casWaitEnds(d) ==
  /\ Blockers(d) # {}
  /\ \/ Deadlocked(d) /\ CasEnds(d, "conflict")
     \/ CasEnds(d, "error")
  /\ UNCHANGED <<tables, clock, server, manager, state, conns, caller>>

-----------------------------------------------------------------------------
(* Bounds: transaction t makes load.calls[t] calls of the store, and       *)
(* sessions die load.faults times.                                         *)
Called(t) ==
  /\ calls[t] < load.calls[t]
  /\ calls' = [calls EXCEPT ![t] = @ + 1]
  /\ UNCHANGED <<faults, load>>
Faulted ==
  faults < load.faults /\ faults' = faults + 1 /\ UNCHANGED <<calls, load>>

StoreCall(t) ==
  \/ \E E \in SUBSET load.entity : GetPage(t, E)
  \/ \E e \in load.entity, v \in load.val :
       \/ Save(t, e, v)
       \/ \E x \in {t, Seed} : CompareAndSave(t, e, v, x)
  \/ \E e \in load.entity : Delete(t, e)
  \/ DeleteAll(t)
  \/ load.asAt /\ committedQuerier(t)
  \/ Savepoint(t)
  \/ \E id \in 1 .. load.savepoints :
       RollbackToSavepoint(t, id) \/ ReleaseSavepoint(t, id)
  \/ SavepointUnknown(t)

(* What goes on by itself once a call has been made. *)
Step(t) ==
  \/ BeginSetTenant(t)
  \/ saveUpsert(t) \/ insertVersion(t) \/ replaceClaims(t)
  \/ DeleteNext(t) \/ deleteMark(t)
  \/ StatementRefused(t) \/ WaitEnds(t)
  \/ acquire(t) \/ acquireTimeout(t) \/ releasingRows(t)
  \/ validateInChunks(t) \/ captureSubmitTime(t) \/ CommitAborted(t)
  \/ CommitApply(t) \/ recordSubmitTime(t) \/ CommitDone(t)
  \/ \E answer \in {"reclaimed", "none"} : CommitFails(t, answer)

CasStep(d) == compareTxID(d) \/ casSave(d) \/ casCommit(d) \/ casWaitEnds(d)

TxNext(t) ==
  \/ /\ Begin(t) \/ BeginTimeout(t) \/ Commit(t) \/ Rollback(t)
          \/ idleInTxAbort(t) \/ Step(t)
     /\ UNCHANGED bounds
  \/ StoreCall(t) /\ Called(t)
  \/ /\ BeginTorn(t) \/ idleInTransactionTimeout(t) \/ isConnectionTorn(t)
          \/ CommitTorn(t)
     /\ Faulted

Next ==
  \/ \E t \in load.tx : TxNext(t)
  \/ \E d \in load.direct :
       \/ /\ \/ \E e \in load.entity, v \in load.val : casBegin(d, e, v)
             \/ casBeginTimeout(d) \/ CasStep(d)
          /\ UNCHANGED bounds
       \/ casTorn(d) /\ Faulted

Spec == Init /\ [][Next]_vars

(* statement_timeout and the acquire deadline end every wait, so a call    *)
(* always has a next step.                                                 *)
FairSpec ==
  /\ Spec
  /\ \A t \in Tx : WF_vars(Step(t) /\ UNCHANGED bounds)
  /\ \A d \in Direct : WF_vars(CasStep(d) /\ UNCHANGED bounds)

-----------------------------------------------------------------------------
Sets == [Entity -> Nat]
WorkSet == [rows : [Entity -> Row], vers : [Entity -> Seq(VersionRow)],
            claims : [Claim -> Entity \cup {None, Same}]]

TypeOK ==
  /\ entities \in [Entity -> Row]
  /\ entityVersions \in [Entity -> Seq(VersionRow)]
  /\ uniqueClaims \in [Claim -> Entity \cup {None}]
  /\ clock \in Nat
  /\ srv \in [Tx -> {"none", "open", "failed", "gone", "rolledBack", "committed"}]
  /\ start \in [Tx -> Nat] /\ snapE \in [Tx -> [Entity -> Row]]
  /\ work \in [Tx -> WorkSet] /\ shared \in [Tx -> SUBSET Entity]
  /\ \A t \in Tx : \A i \in DOMAIN srvSavepoints[t] :
       srvSavepoints[t][i].work \in WorkSet
  /\ registry \subseteq Tx /\ DOMAIN submitTimes \subseteq Tx
  /\ readSet \in [Tx -> Sets] /\ writeSet \in [Tx -> Sets]
  /\ \A t \in Tx : \A i \in DOMAIN savepoints[t] :
       savepoints[t][i].readSet \in Sets /\ savepoints[t][i].writeSet \in Sets
  /\ abortCause \in [Tx -> BOOLEAN] /\ conns \in [Tx -> 0 .. 2]

(* The bookkeeping in txState follows what the server holds of the         *)
(* transaction, through promotions, failed statements and rollbacks to     *)
(* savepoints: no entity is in both sets, what the transaction has changed *)
(* of its snapshot is in writeSet, and every entry names the version of    *)
(* the snapshot unless the transaction created the entity itself.          *)
SetsFollowServer ==
  \A t \in Tx : srv[t] = "open" =>
    \A e \in Entity :
      LET written == work[t].rows[e].version > 0
          deleting == pc[t] \in {"delVersion", "delMark"} /\ call[t].e = e
          seen == snapE[t][e].version
      IN
      /\ readSet[t][e] = 0 \/ writeSet[t][e] = 0
      /\ written /\ seen > 0 => writeSet[t][e] = seen
      /\ ~written /\ ~deleting => writeSet[t][e] = 0
      /\ readSet[t][e] > 0 /\ seen > 0 => readSet[t][e] = seen

(* The three tables tell one story: the current row of an entity is its    *)
(* last version, versions count up by one, and a claim belongs to the live *)
(* entity whose document makes it.  A save refused for a partial key that  *)
(* its caller commits all the same leaves the claims behind.               *)
TablesAgree ==
  /\ \A e \in Entity :
       LET rows == entityVersions[e] IN
       /\ Len(rows) = entities[e].version
       /\ \A i \in DOMAIN rows : rows[i].version = i
       /\ rows # << >> =>
            /\ rows[Len(rows)].val = entities[e].val
            /\ rows[Len(rows)].by = entities[e].tx
            /\ (rows[Len(rows)].val = None) <=> entities[e].deleted
  /\ \A c \in Claim, e \in Entity :
       LET row == entities[e] IN
       row.val \notin PartialVal =>
         (uniqueClaims[c] = e <=> Live(row) /\ c \in NewClaims(row.val))

(* A version of the writer is in the tables. *)
Stands(writer) ==
  \E e \in Entity : \E i \in DOMAIN entityVersions[e] :
    entityVersions[e][i].by = writer
Retryable == {"conflict", "unavailable"}

(* A caller is told to try again (409 conflict, 503 unavailable) only when *)
(* nothing of its transaction or compare-and-save was applied, also when   *)
(* the connection dies under a transaction's COMMIT.  A compare-and-save   *)
(* whose COMMIT is left in doubt is excepted: see CommitInDoubtNotRetried. *)
RetryIsSafe ==
  /\ \A t \in Tx : pc[t] = "done" /\ told[t] \in Retryable =>
       /\ srv[t] # "committed"
       /\ \A e \in Entity : GetVersionByTransaction(e, t) = None
  /\ \A d \in Direct : casPc[d] = "done" =>
       (casCall[d].told = "ok" <=> Stands(d))

(* classifyCommitError's rule for a COMMIT without an answer ("a caller    *)
(* told to retry would apply the work twice"), asked of a compare-and-save *)
(* outside a transaction: what may have been applied is not retryable.     *)
CommitInDoubtNotRetried ==
  \A d \in Direct : Stands(d) => casCall[d].told \notin Retryable

(* A transaction lost to statement_timeout is never reported as a          *)
(* conflict: the retry would run into the ceiling again.                   *)
CeilingNotRetried ==
  \A t \in Tx : cause[t] = "cancelled" => told[t] # "conflict"

(* A connection is checked out exactly while a transaction or a read uses  *)
(* it, and goes back to the pool whichever way the transaction ends.       *)
ConnectionsReturned ==
  /\ InUse <= load.maxConns
  /\ \A t \in Tx : conns[t] =
       IF pc[t] \in {"none", "done", "record", "cleanup"} THEN 0
       ELSE IF pc[t] = "pitRead" THEN 2 ELSE 1

(* A transaction that committed is known as committed or active at every   *)
(* instant, until a later commit sweeps it, and one that did not is never  *)
(* taken for committed.                                                    *)
CommitKnown ==
  \A t \in Tx :
    /\ pc[t] \in {"record", "cleanup"} \/ (pc[t] = "done" /\ told[t] = "ok") =>
         GetSubmitTime(t) # "notFound" \/ start[t] + SubmitTimeTTL < clock
    /\ resolveRaw(t) = "alreadyCommitted" => srv[t] = "committed"
    /\ resolveRaw(t) = "tx" => pc[t] # "done"

(* Of the compare-and-saves that name the same transaction ID of an entity *)
(* at most one is applied, whatever their callers are told.                *)
OneCompareAndSaveWins ==
  \A d, f \in Direct :
    d # f /\ Stands(d) /\ Stands(f) /\ casCall[d].e = casCall[f].e
    => casCall[d].expected # casCall[f].expected

(* The manager, the pool and the tables agree with what the server holds,  *)
(* and what a caller was told of its transaction or compare-and-save is    *)
(* true.                                                                   *)
AnswersTrue ==
  /\ TypeOK /\ SetsFollowServer /\ TablesAgree /\ ConnectionsReturned
  /\ RetryIsSafe /\ CeilingNotRetried /\ CommitKnown /\ OneCompareAndSaveWins

(* Every call returns, so time and again no call is under way: two         *)
(* transactions that each hold a connection and want a second one, or wait *)
(* for each other's rows, are both let go.                                 *)
CallReturns ==
  /\ \A t \in Tx : []<>(pc[t] \in {"none", "idle", "done"})
  /\ \A d \in Direct : []<>(casPc[d] \notin CasRuns)

-----------------------------------------------------------------------------
(* The refinement.  A transaction begins in the abstract with its          *)
(* snapshot and ends with its server side.                                 *)
phase == [t \in Tx |->
  CASE srv[t] = "none" -> "none" [] Alive(t) -> "open"
    [] srv[t] = "committed" -> "committed" [] OTHER -> "aborted"]
DocOf(row) == IF Live(row) THEN row.val ELSE None
missed == [t \in Tx |-> {e \in Entity :
  Alive(t) /\ \E i \in DOMAIN entityVersions[e] :
    /\ entityVersions[e][i].version > snapE[t][e].version
    /\ entityVersions[e][i].by \in Tx}]

SI == INSTANCE SnapshotIsolation WITH
  DirectWrites <- TRUE,
  db <- [e \in Entity |-> DocOf(entities[e])],
  snap <- [t \in Tx |-> [e \in Entity |-> DocOf(snapE[t][e])]],
  reads <- [t \in Tx |-> IF Alive(t) THEN ReadIDs(t) ELSE {}]

(* The plugin implements snapshot isolation with first-committer-wins: the *)
(* server catches write conflicts at the statement, FOR SHARE validation   *)
(* catches stale reads and keeps them fresh until the commit.              *)
ImplementsSI == SI!Spec
=============================================================================
