--------------------------- MODULE EntityService ---------------------------
(***************************************************************************)
(* The write requests of internal/domain/entity/service.go, one at a time: *)
(* create, update and patch, single and in collections, and the four kinds *)
(* of delete.  Each opens transactions of its own (txScope), runs the      *)
(* engine on every item, and reports what it did; other requests commit    *)
(* between any two of its steps, and the caller may go away at any time.   *)
(*                                                                         *)
(* The store is the transaction buffer of memory and sqlite: reads come    *)
(* from the snapshot, a compare-and-save looks at the latest committed     *)
(* row, Commit validates the read and write sets.  The transaction         *)
(* managers themselves are MemTx and SqliteTx, the engine's callouts are   *)
(* Cascade; here an item's run is its effect on the row, on the timers and *)
(* on the transaction the request goes on in.                              *)
(***************************************************************************)
EXTENDS Naturals, Sequences, FiniteSets

CONSTANTS
    Id,          \* entity ids, in the order the stores iterate them
    SLoads,      \* request workloads, by name
    MaxCycles    \* h.maxDeleteCycles

ASSUME IdAssumption == Id \subseteq Nat

VARIABLES
    sload,       \* the workload: [be, rows, op, items, pit, cond, size, others],
                 \* others bounding the commits of other requests during this one
    hist,        \* committed versions of every entity
    timer,       \* entities with an armed scheduled task
    instant,     \* number of commits so far
    lastTx,      \* the last transaction id handed out
    stx,         \* the request's open transaction, or NoScope
    req,         \* the request: where it is and what it will report
    ctxDone,     \* the caller's context has been cancelled
    others       \* commits of other requests so far

svars == <<sload, hist, timer, instant, lastTx, stx, req, ctxDone, others>>

L == SLoads[sload]

Row(by, at, st, hit, del, from) ==
    [by |-> by, at |-> at, st |-> st, hit |-> hit, del |-> del, from |-> from]

Absent == Row(0, 0, "", FALSE, TRUE, 0)

NoScope == [id |-> 0]

-----------------------------------------------------------------------------
(* The store as a transaction sees it. *)

Past(i, t) == SelectSeq(hist[i], LAMBDA v : v.at <= t)

AsOf(i, t) == LET p == Past(i, t) IN IF p = <<>> THEN Absent ELSE p[Len(p)]

Latest(i) == AsOf(i, instant)

(* Begin: the snapshot is what is committed by now. *)
NewTx(id, shielded) ==
    [id |-> id, base |-> instant, buf |-> <<>>, reads |-> {}, arms |-> <<>>,
     shielded |-> shielded]

View(i) == IF i \in DOMAIN stx.buf THEN stx.buf[i] ELSE AsOf(i, stx.base)

(* EntityMeta.Version of what View answers. *)
ViewVersion(i) == Len(Past(i, stx.base))

With(f, i, x) == [j \in DOMAIN f \cup {i} |-> IF j = i THEN x ELSE f[j]]

Buffered(tx, i, row) == [tx EXCEPT !.buf = With(@, i, [row EXCEPT !.by = tx.id])]

(* CompareAndSave compares with the transaction's own row, or else with    *)
(* the row committed last.                                                 *)
CasConflicts(tx, i, token) ==
    LET cur == IF i \in DOMAIN tx.buf THEN tx.buf[i] ELSE Latest(i)
    IN  cur.del \/ cur.by # token

(* Delete: memory looks for the row among the committed ones, sqlite in    *)
(* the snapshot.                                                           *)
Deletable(i) ==
    ~(IF i \in DOMAIN stx.buf \/ L.be = "sqlite" THEN View(i) ELSE Latest(i)).del

Tombstone(tx, i) ==
    Buffered(tx, i, [View(i) EXCEPT !.del = TRUE, !.from = ViewVersion(i)])

CommitConflicts(tx) ==
    \E i \in tx.reads \cup DOMAIN tx.buf : Past(i, tx.base) # hist[i]

Installed(tx) ==
    /\ hist' = [i \in Id |-> IF i \in DOMAIN tx.buf
                             THEN Append(hist[i], [tx.buf[i] EXCEPT !.at = instant + 1])
                             ELSE hist[i]]
    /\ timer' = {i \in Id : IF i \in DOMAIN tx.arms THEN tx.arms[i] ELSE i \in timer}
    /\ instant' = instant + 1

StoreKept == UNCHANGED <<hist, timer, instant>>

-----------------------------------------------------------------------------
(* The request's bookkeeping and the ways it ends. *)

NoRow == [id |-> 0, row |-> Absent]

NewRequest ==
    [pc |-> "start", n |-> 1, cur |-> NoRow, segmented |-> FALSE, tPre |-> 0, failed |-> {},
     mine |-> {}, err |-> "", todo |-> <<>>, chunk |-> <<>>, baseline |-> <<>>,
     matched |-> {}, pending |-> {}, removed |-> {}, errs |-> {},
     cycles |-> 0, exhausted |-> FALSE]

Goto(pc) == [req EXCEPT !.pc = pc]

(* return nil, err: scope.Release rolls the open transaction back. *)
Fails(err) ==
    /\ req' = [req EXCEPT !.pc = "done", !.err = err]
    /\ stx' = NoScope
    /\ StoreKept /\ UNCHANGED lastTx

Succeeds(r) == [r EXCEPT !.pc = "done", !.err = "nil"]

(* beginScope, on a request that goes on at pc with bookkeeping r.  The    *)
(* commit gate sqlite's Begin waits for can be lost to a done context.     *)
BeginScope(r, pc) ==
    \/ /\ lastTx' = lastTx + 1
       /\ stx' = NewTx(lastTx + 1, FALSE)
       /\ req' = [r EXCEPT !.pc = pc, !.mine = @ \cup {lastTx + 1}]
       /\ StoreKept
    \/ /\ ctxDone /\ L.be = "sqlite"
       /\ Fails("aborted")

(* txScope.Commit: a done context fails closed, unless the engine left the *)
(* request in a segment whose context it shielded.                         *)
CommitScope(ok) ==
    IF ctxDone /\ ~stx.shielded THEN Fails("aborted")
    ELSE IF CommitConflicts(stx) THEN Fails("conflict")
    ELSE Installed(stx) /\ req' = Succeeds(ok) /\ stx' = NoScope /\ UNCHANGED lastTx

Step(pc) == req.pc = pc /\ UNCHANGED <<sload, ctxDone, others>>

SortedIds(S) ==
    LET pos(i) == Cardinality({j \in S : j <= i})
    IN  [k \in 1 .. Cardinality(S) |-> CHOOSE i \in S : pos(i) = k]

-----------------------------------------------------------------------------
(* Create and update.  An item is [id, to, doc, ifMatch, flow]: the state  *)
(* its run ends in ("" for a loopback), whether the new document meets the *)
(* delete condition ("keep" for a patch that leaves that alone), the       *)
(* caller's token (0 for none) and how its run goes.                       *)

Item == L.items[req.n]

CreateEntity           == Step("start") /\ L.op = "create"    /\ BeginScope(req, "item")
CreateEntityCollection == Step("start") /\ L.op = "createAll" /\ BeginScope(req, "item")
UpdateEntity           == Step("start") /\ L.op = "update"    /\ BeginScope(req, "item")
UpdateEntityCollection == Step("start") /\ L.op = "updateAll" /\ BeginScope(req, "item")

NextItem == [req EXCEPT !.n = @ + 1, !.pc = "item", !.cur = NoRow, !.segmented = FALSE]

(* The row the engine is given: an entity that is created starts in the    *)
(* workflow's initial state, "wait".                                       *)
Created == Row(0, 0, "wait", Item.doc = "hit", FALSE, 0)

Updated(old) ==
    Row(0, 0, old.st, IF Item.doc = "keep" THEN old.hit ELSE Item.doc = "hit", FALSE, ViewVersion(Item.id))

Settled(row) == [row EXCEPT !.st = IF Item.to = "" THEN @ ELSE Item.to]

(* reconcileScheduledTasks: the timers of the new state, and of no other.  *)
Armed(tx, i, row) == [tx EXCEPT !.arms = With(@, i, row.st = "wait")]

(* The engine up to its return or its first segment: the run of an item    *)
(* without a segment ends with its timers.                                 *)
Runs(tx, row) ==
    IF Item.flow = "fail" THEN Fails("workflow")
    ELSE /\ StoreKept /\ UNCHANGED lastTx
         /\ IF Item.flow = "plain"
            THEN /\ stx' = Armed(tx, Item.id, Settled(row))
                 /\ req' = [req EXCEPT !.pc = "save", !.cur = [id |-> Item.id, row |-> Settled(row)]]
            ELSE /\ stx' = tx
                 /\ req' = [req EXCEPT !.pc = "flush", !.cur = [id |-> Item.id, row |-> row]]

RunCreate == Step("item") /\ L.op = "create" /\ Runs(stx, Created)

RunCreateItem ==
    /\ Step("item") /\ L.op = "createAll" /\ req.n <= Len(L.items)
    /\ IF ctxDone THEN Fails("aborted") ELSE Runs(stx, Created)

(* The Get of an update is in the read set. *)
GetAndRun ==
    IF View(Item.id).del THEN Fails("notFound")
    ELSE Runs([stx EXCEPT !.reads = @ \cup {Item.id}], Updated(View(Item.id)))

RunUpdate == Step("item") /\ L.op = "update" /\ GetAndRun

RunUpdateItem ==
    /\ Step("item") /\ L.op = "updateAll" /\ req.n <= Len(L.items)
    /\ IF ctxDone THEN Fails("aborted") ELSE GetAndRun

(* An If-Match conflict met while the transaction is still usable: a       *)
(* collection goes on without the item, a single update answers 412.       *)
PreconditionFailed ==
    IF L.op = "updateAll"
    THEN /\ req' = [NextItem EXCEPT !.failed = @ \cup {req.n}]
         /\ StoreKept /\ UNCHANGED <<stx, lastTx>>
    ELSE Fails("modified")

(* flushAndCommitSegment, and with startNewTxOnDispatch the Begin of the   *)
(* next segment before the dispatch.                                       *)
FlushSegment ==
    /\ Step("flush")
    /\ LET i  == req.cur.id
           tx == Buffered(stx, i, req.cur.row)
           next == [req EXCEPT !.pc = "callout", !.tPre = stx.id, !.segmented = TRUE,
                               !.cur.row.from = Len(hist[i]) + 1]
       IN  IF Item.ifMatch # 0 /\ CasConflicts(stx, i, Item.ifMatch) THEN PreconditionFailed
           ELSE IF ctxDone /\ ~stx.shielded THEN Fails("aborted")
           ELSE IF CommitConflicts(tx) THEN Fails("infra")
           ELSE /\ Installed(tx)
                /\ IF Item.flow = "segmentTx"
                   THEN /\ lastTx' = lastTx + 1
                        /\ stx' = [NewTx(lastTx + 1, TRUE) EXCEPT !.base = instant + 1]
                        /\ req' = [next EXCEPT !.mine = @ \cup {lastTx + 1}]
                   ELSE stx' = NoScope /\ req' = next /\ UNCHANGED lastTx

(* Faulty variant of ApplyResult: the result is saved without the          *)
(* comparison with TX_pre's version.                                       *)
ApplyResultUnguarded ==
    /\ Step("callout")
    /\ LET i   == req.cur.id
           tx  == IF Item.flow = "segmentTx" THEN stx ELSE NewTx(lastTx + 1, TRUE)
           row == Settled(req.cur.row)
       IN  /\ stx' = Armed(Buffered(tx, i, row), i, row)
           /\ lastTx' = IF Item.flow = "segmentTx" THEN lastTx ELSE lastTx + 1
           /\ req' = [req EXCEPT !.pc = "save", !.cur.row = row, !.mine = @ \cup {tx.id}]
           /\ StoreKept

(* The dispatch returns: TX_post is begun if it is not open yet, and the   *)
(* result applied if the row still is the one TX_pre committed.            *)
ApplyResult ==
    /\ Step("callout")
    /\ LET i   == req.cur.id
           tx  == IF Item.flow = "segmentTx" THEN stx ELSE NewTx(lastTx + 1, TRUE)
           row == Settled(req.cur.row)
       IN  IF CasConflicts(tx, i, req.tPre)
           THEN Fails("postSegment")
           ELSE /\ stx' = Armed(Buffered(tx, i, row), i, row)
                /\ lastTx' = IF Item.flow = "segmentTx" THEN lastTx ELSE lastTx + 1
                /\ req' = [req EXCEPT !.pc = "save", !.cur.row = row, !.mine = @ \cup {tx.id}]
                /\ StoreKept

DispatchFails == Step("callout") /\ Fails("workflow")

(* The handler's own save. *)
Saves(next) ==
    /\ stx' = Buffered(stx, req.cur.id, req.cur.row)
    /\ req' = next
    /\ StoreKept /\ UNCHANGED lastTx

(* It still owes the If-Match comparison unless a segment's flush made it. *)
Unmatched == Item.ifMatch # 0 /\ ~req.segmented /\ CasConflicts(stx, req.cur.id, Item.ifMatch)

SaveCreate == Step("save") /\ L.op = "create" /\ Saves(Goto("commit"))

SaveCreateItem == Step("save") /\ L.op = "createAll" /\ Saves(NextItem)

SaveUpdate ==
    /\ Step("save") /\ L.op = "update"
    /\ IF Unmatched THEN PreconditionFailed ELSE Saves(Goto("commit"))

SaveUpdateItem ==
    /\ Step("save") /\ L.op = "updateAll"
    /\ IF Unmatched THEN PreconditionFailed ELSE Saves(NextItem)

CommitWrite ==
    /\ \/ Step("commit")
       \/ Step("item") /\ req.n > Len(L.items)
    /\ CommitScope(req)

-----------------------------------------------------------------------------
(* Deletes in one transaction. *)

StartDelete ==
    /\ Step("start")
    /\ L.op \in {"delete", "deleteAll", "deleteIf"}
    /\ BeginScope(req, L.op)

(* DeleteEntity: the Get is in the read set. *)
DeleteEntity ==
    /\ Step("delete")
    /\ LET i == L.items[1].id
       IN  IF View(i).del THEN Fails("notFound")
           ELSE IF ~Deletable(i) THEN Fails("internal")
           ELSE /\ stx' = [Tombstone(stx, i) EXCEPT !.reads = @ \cup {i}]
                /\ req' = [req EXCEPT !.pc = "finish", !.matched = {i}, !.pending = {i}]
                /\ StoreKept /\ UNCHANGED lastTx

LiveInView == {i \in Id : ~View(i).del}

(* DeleteAllEntities: the count is a drained scan of the same snapshot     *)
(* that DeleteAll then marks.                                              *)
DeleteAllEntities ==
    /\ Step("deleteAll")
    /\ stx' = [stx EXCEPT !.buf = [i \in LiveInView |->
                  [View(i) EXCEPT !.by = stx.id, !.del = TRUE, !.from = ViewVersion(i)]]]
    /\ req' = [req EXCEPT !.pc = "finish", !.matched = LiveInView, !.pending = LiveInView]
    /\ StoreKept /\ UNCHANGED lastTx

(* planDeleteSelection and drainDeleteSelection: live entities that meet   *)
(* the condition, as at t.                                                 *)
Selected(t) == {i \in Id : ~AsOf(i, t).del /\ (L.cond => AsOf(i, t).hit)}

(* The instant a selection reads: the caller's, or that of the scan. *)
SelectAt(now) == IF L.pit # 0 THEN L.pit ELSE now

SelectIDs ==
    /\ Step("deleteIf")
    /\ LET ids == Selected(SelectAt(stx.base))
       IN  req' = [req EXCEPT !.pc = "each", !.matched = ids, !.todo = SortedIds(ids)]
    /\ StoreKept /\ UNCHANGED <<stx, lastTx>>

(* One id of DeleteEntitiesConditional's loop.  No version guard: with a   *)
(* point in time the row that goes is the current one.                     *)
DeleteEach ==
    /\ Step("each") /\ req.todo # <<>>
    /\ LET i == Head(req.todo)
       IN  IF ctxDone THEN Fails("aborted")
           ELSE /\ StoreKept /\ UNCHANGED lastTx
                /\ IF Deletable(i)
                   THEN /\ stx' = Tombstone(stx, i)
                        /\ req' = [req EXCEPT !.todo = Tail(@), !.pending = @ \cup {i}]
                   ELSE /\ req' = [req EXCEPT !.todo = Tail(@), !.errs = @ \cup {i}]
                        /\ UNCHANGED stx

CommitDelete ==
    /\ \/ Step("finish")
       \/ Step("each") /\ req.todo = <<>>
    /\ CommitScope([req EXCEPT !.removed = req.pending])

-----------------------------------------------------------------------------
(* deleteBatched: a committed setup transaction, then batches of at most   *)
(* size ids, each in a transaction of its own.                             *)

SetupBatched ==
    /\ Step("start") /\ L.op = "deleteBatch"
    /\ \/ ctxDone /\ Fails("aborted")
       \/ /\ ~ctxDone
          /\ req' = Goto(IF L.pit # 0 THEN "resolve" ELSE "cycle")
          /\ StoreKept /\ UNCHANGED <<stx, lastTx>>

(* resolveBatchTargetsOnePass: the as-at scan, *)
ResolveTargets ==
    /\ Step("resolve")
    /\ LET ids == Selected(SelectAt(instant))
       IN  req' = [req EXCEPT !.pc = "baseline", !.matched = ids, !.chunk = SortedIds(ids)]
    /\ StoreKept /\ UNCHANGED <<stx, lastTx>>

(* and the current version of each id, read outside any transaction.       *)
ResolveBaseline ==
    /\ Step("baseline")
    /\ StoreKept /\ UNCHANGED <<stx, lastTx>>
    /\ IF req.chunk = <<>> THEN req' = Goto("batch")
       ELSE LET i == Head(req.chunk)
            IN  req' = IF Latest(i).del
                       THEN [req EXCEPT !.chunk = Tail(@), !.errs = @ \cup {i}]
                       ELSE [req EXCEPT !.chunk = Tail(@), !.todo = Append(@, i),
                                        !.baseline = With(@, i, Len(hist[i]))]

AtMost(n, ids) == SubSeq(ids, 1, IF Len(ids) < n THEN Len(ids) ELSE n)

(* The next batch of a point-in-time delete. *)
NextBatch ==
    /\ Step("batch")
    /\ LET ids == AtMost(L.size, req.todo)
       IN  IF req.todo = <<>>
           THEN req' = Succeeds(req) /\ StoreKept /\ UNCHANGED <<stx, lastTx>>
           ELSE IF ctxDone THEN Fails("aborted")
           ELSE BeginScope([req EXCEPT !.chunk = ids, !.pending = {},
                                       !.todo = SubSeq(@, Len(ids) + 1, Len(@))], "chunk")

(* One cycle of the streamed delete: a scan of the committed rows, outside *)
(* any transaction, that stops at size ids it has not failed on before     *)
(* (what the code keeps in seen are the ids of IDToError),                 *)
NextCycle ==
    /\ Step("cycle")
    /\ LET ids == AtMost(L.size, SortedIds(Selected(SelectAt(instant)) \ req.errs))
           run == {ids[k] : k \in DOMAIN ids}
       IN  IF ctxDone THEN Fails("aborted")
           ELSE IF req.cycles >= MaxCycles THEN Fails("notConverged")
           ELSE /\ StoreKept /\ UNCHANGED <<stx, lastTx>>
                /\ req' = IF ids = <<>> THEN Succeeds(req)
                          ELSE [req EXCEPT !.pc = "open", !.chunk = ids, !.pending = {},
                                           !.cycles = @ + 1, !.matched = @ \cup run,
                                           !.exhausted = Len(ids) < L.size,
                                           !.baseline = [i \in DOMAIN @ \cup run |->
                                               IF i \in run THEN Len(hist[i]) ELSE @[i]]]

(* and the transaction of the batch, begun later.                          *)
OpenBatch == Step("open") /\ BeginScope(req, "chunk")

(* After a batch, whatever became of it. *)
AfterBatch(r) ==
    IF L.pit # 0 THEN [r EXCEPT !.pc = "batch"]
    ELSE IF r.exhausted THEN Succeeds(r)
    ELSE [r EXCEPT !.pc = "cycle"]

(* The batch is given up: what it had marked is reported as not removed.   *)
BatchUndone ==
    /\ req' = AfterBatch([req EXCEPT !.errs = @ \cup req.pending])
    /\ stx' = NoScope
    /\ StoreKept /\ UNCHANGED lastTx

(* Faulty variant of DeleteInBatch: the version guard is gone. *)
DeleteInBatchAnyVersion ==
    /\ Step("chunk") /\ req.chunk # <<>>
    /\ LET i == Head(req.chunk)
       IN  IF ctxDone THEN BatchUndone
           ELSE /\ StoreKept /\ UNCHANGED lastTx
                /\ IF View(i).del \/ ~Deletable(i)
                   THEN /\ req' = [req EXCEPT !.chunk = Tail(@), !.errs = @ \cup {i}]
                        /\ stx' = [stx EXCEPT !.reads = @ \cup {i}]
                   ELSE /\ req' = [req EXCEPT !.chunk = Tail(@), !.pending = @ \cup {i}]
                        /\ stx' = [Tombstone(stx, i) EXCEPT !.reads = @ \cup {i}]

(* One id of deleteOneBatch. *)
DeleteInBatch ==
    /\ Step("chunk") /\ req.chunk # <<>>
    /\ LET i == Head(req.chunk)
       IN  IF ctxDone THEN BatchUndone
           ELSE /\ StoreKept /\ UNCHANGED lastTx
                /\ IF View(i).del \/ ViewVersion(i) # req.baseline[i] \/ ~Deletable(i)
                   THEN /\ req' = [req EXCEPT !.chunk = Tail(@), !.errs = @ \cup {i}]
                        /\ stx' = [stx EXCEPT !.reads = @ \cup {i}]
                   ELSE /\ req' = [req EXCEPT !.chunk = Tail(@), !.pending = @ \cup {i}]
                        /\ stx' = [Tombstone(stx, i) EXCEPT !.reads = @ \cup {i}]

(* Faulty variant of CommitBatch: the batch counts before its commit. *)
CommitBatchCountsFirst ==
    /\ Step("chunk") /\ req.chunk = <<>>
    /\ stx' = NoScope /\ UNCHANGED lastTx
    /\ req' = AfterBatch([req EXCEPT !.removed = @ \cup req.pending])
    /\ IF ctxDone \/ CommitConflicts(stx) THEN StoreKept ELSE Installed(stx)

CommitBatch ==
    /\ Step("chunk") /\ req.chunk = <<>>
    /\ IF ctxDone \/ CommitConflicts(stx) THEN BatchUndone
       ELSE /\ Installed(stx)
            /\ stx' = NoScope /\ UNCHANGED lastTx
            /\ req' = AfterBatch([req EXCEPT !.removed = @ \cup req.pending])

-----------------------------------------------------------------------------
(* Everybody else: requests that commit a version of one entity, its timer *)
(* with it, and the caller that goes away.  Ids are never used again.      *)

Elsewhere ==
    /\ req.pc \notin {"start", "done"} /\ others < L.others
    /\ others' = others + 1
    /\ lastTx' = lastTx + 1 /\ instant' = instant + 1
    /\ UNCHANGED <<sload, stx, req, ctxDone>>

Commits(i, st, hit, del) ==
    /\ hist' = [hist EXCEPT ![i] = Append(@, Row(lastTx + 1, instant + 1, st, hit, del, Len(@)))]
    /\ timer' = IF st = "wait" THEN timer \cup {i} ELSE timer \ {i}

OtherUpdate(i) ==
    /\ Elsewhere
    /\ ~Latest(i).del
    /\ \E hit \in BOOLEAN : Commits(i, Latest(i).st, hit, FALSE)

OtherDelete(i) ==
    /\ Elsewhere
    /\ ~Latest(i).del
    /\ Commits(i, Latest(i).st, Latest(i).hit, TRUE)

OtherCreate(i) ==
    /\ Elsewhere
    /\ hist[i] = <<>> /\ \A k \in DOMAIN L.items : L.items[k].id # i
    /\ \E hit \in BOOLEAN : Commits(i, "wait", hit, FALSE)

CallerGone ==
    /\ req.pc \notin {"start", "done"} /\ ~ctxDone
    /\ ctxDone' = TRUE
    /\ UNCHANGED <<sload, hist, timer, instant, lastTx, stx, req, others>>

SInit ==
    /\ sload \in DOMAIN SLoads
    /\ hist = L.rows
    /\ timer = {i \in Id : L.rows[i] # <<>> /\ L.rows[i][Len(L.rows[i])].st = "wait"}
    /\ instant = 2 /\ lastTx = 2
    /\ stx = NoScope /\ req = NewRequest
    /\ ctxDone = FALSE /\ others = 0

Request ==
    \/ CreateEntity \/ CreateEntityCollection \/ UpdateEntity \/ UpdateEntityCollection
    \/ RunCreate \/ RunCreateItem \/ RunUpdate \/ RunUpdateItem
    \/ FlushSegment \/ ApplyResult \/ DispatchFails
    \/ SaveCreate \/ SaveCreateItem \/ SaveUpdate \/ SaveUpdateItem \/ CommitWrite
    \/ StartDelete \/ DeleteEntity \/ DeleteAllEntities \/ SelectIDs \/ DeleteEach
    \/ CommitDelete
    \/ SetupBatched \/ ResolveTargets \/ ResolveBaseline \/ NextBatch \/ NextCycle
    \/ OpenBatch \/ DeleteInBatch \/ CommitBatch

SNext ==
    \/ Request
    \/ \E i \in Id : OtherUpdate(i) \/ OtherDelete(i) \/ OtherCreate(i)
    \/ CallerGone

-----------------------------------------------------------------------------
Versions == [by : Nat, at : Nat, st : {"wait", "done"}, hit : BOOLEAN, del : BOOLEAN, from : Nat]

(* The committed rows are versions in commit order, and only a request     *)
(* that is under way has a transaction.                                    *)
ServiceTypeOK ==
    /\ \A i \in Id : hist[i] \in Seq(Versions)
    /\ \A i \in Id : \A k \in 2 .. Len(hist[i]) : hist[i][k - 1].at < hist[i][k].at
    /\ req.pc \in {"start", "done"} => stx = NoScope
    /\ timer \subseteq Id /\ others \in 0 .. L.others

(* The versions of i the request has committed. *)
Mine(i) == {k \in DOMAIN hist[i] : hist[i][k].by \in req.mine}

Succeeded == {L.items[k].id : k \in DOMAIN L.items \ req.failed}

(* What a request answers is what it did.  A delete counts as removed just *)
(* the entities it wrote a tombstone for, reports no id both ways and,     *)
(* with the caller still there, accounts for every id it matched.  A       *)
(* collection that answers 200 wrote the entities of the items it does not *)
(* list as failed and no others.  A request that answers an error wrote    *)
(* nothing, unless it commits as it goes: batches and segments.            *)
ReportTrue ==
  /\ ServiceTypeOK
  /\ req.pc = "done" =>
      LET wrote == {i \in Id : Mine(i) # {}}
      IN  /\ req.err = "nil" /\ L.op \in {"create", "createAll", "update", "updateAll"}
               => wrote = Succeeded
          /\ req.err = "nil" /\ L.op \in {"delete", "deleteAll", "deleteIf", "deleteBatch"}
               => /\ req.removed = wrote /\ req.removed \cap req.errs = {}
                  /\ req.removed \cup req.errs \subseteq req.matched
                  /\ ~ctxDone => req.matched = req.removed \cup req.errs
          /\ req.err # "nil" /\ L.op # "deleteBatch"
             /\ (\A k \in DOMAIN L.items : L.items[k].flow \notin {"segment", "segmentTx"})
               => wrote = {}

(* No update is lost and none is made on a version nobody looked at.       *)
(* Every version a request commits directly follows the one it was         *)
(* computed from: the row its Get answered, or the one its own previous    *)
(* segment committed.  With If-Match that row is the one the caller named. *)
UpdatesChain ==
    \A i \in Id :
      /\ \A k \in Mine(i) : hist[i][k].from = k - 1
      /\ \A n \in DOMAIN L.items :
           (/\ L.items[n].id = i /\ L.items[n].ifMatch # 0
            /\ Mine(i) # {} /\ \A m \in DOMAIN L.items : L.items[m].id = i => m = n)
             => \E k \in Mine(i) : (k - 1) \notin Mine(i) /\ hist[i][k - 1].by = L.items[n].ifMatch

(* A conditional delete removes only what met the condition, whatever      *)
(* commits between the selection and the delete.  Without a point in time  *)
(* the version it puts the tombstone on matched; with one, some version at *)
(* that instant did; and a batched delete removes exactly the version its  *)
(* scan read, outside the batch's transaction.                             *)
OnlySelected ==
    L.op \in {"deleteIf", "deleteBatch"} =>
      \A i \in Id : \A k \in Mine(i) :
        /\ hist[i][k].del /\ ~hist[i][k - 1].del
        /\ L.cond /\ L.pit = 0 => hist[i][k - 1].hit
        /\ L.cond /\ L.pit # 0 => AsOf(i, L.pit).hit
        /\ L.op = "deleteBatch" => req.baseline[i] = k - 1

(* The timers of an entity are those of the state it is in: the engine     *)
(* reconciles them in the transaction that writes the entity.  Not an      *)
(* invariant, and in no run: an item of a collection update that is        *)
(* isolated on If-Match leaves the timer changes of its cascade staged in  *)
(* the chunk that commits.                                                 *)
TimersFollowEntity ==
    \A i \in Id : ~Latest(i).del => (i \in timer <=> Latest(i).st = "wait")
=============================================================================
