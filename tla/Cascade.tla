------------------------------ MODULE Cascade ------------------------------
(***************************************************************************)
(* One entity write request, the workflow cascade it runs, and the         *)
(* compute-node callbacks that join its transaction.                       *)
(*                                                                         *)
(* The owner is the request that began the transaction.  While one of its  *)
(* processors is dispatched, the compute node may call back with the       *)
(* transaction's token: a callback is itself an entity write, it joins the *)
(* open transaction instead of beginning one, runs its own cascade and may *)
(* dispatch in turn.  All of them write one buffer, serialised by a gate   *)
(* per transaction (internal/txgate), and the buffer's fate is decided by  *)
(* the owner's txScope (internal/domain/entity/txscope.go).                *)
(*                                                                         *)
(* Data is abstracted to who wrote: a buffer is the set of calls whose     *)
(* entity it holds.  Models plugins/memory for Savepoint, Join, Commit and *)
(* Rollback, each atomic under the transaction's OpMu.                     *)
(***************************************************************************)
EXTENDS Naturals, FiniteSets

CONSTANTS
    Owner,          \* the request that begins the transaction
    Callback,       \* the joined callbacks compute nodes may issue
    OwnerModes,     \* execution modes of the processors in the owner's workflow
    CallbackModes,  \* execution modes of the processors in a callback's workflow
    MaxRounds,      \* bound: dispatches the owner makes
    MaxNested,      \* bound: dispatches a callback makes
    MaxTx,          \* bound: transactions begun
    None            \* no call, no transaction

Call == {Owner} \cup Callback
TxId == 1..MaxTx
Mode == {"SYNC", "ASYNC_NEW_TX", "CBD", "CBD_NEW"}

(* SYNC stands for every dispatch inside the open transaction that applies *)
(* its result: SYNC, ASYNC_SAME_TX, FUNCTION criteria, schedule functions. *)
(* CBD and CBD_NEW are COMMIT_BEFORE_DISPATCH without and with             *)
(* startNewTxOnDispatch.                                                   *)
ASSUME ConstantsOK ==
    /\ Owner \notin Callback
    /\ None \notin Call \cup Nat
    /\ OwnerModes \subseteq Mode
    /\ CallbackModes \subseteq Mode
    /\ MaxRounds \in Nat
    /\ MaxNested \in 0..MaxRounds
    /\ MaxTx \in Nat \ {0}

VARIABLES
    call,    \* per call: where it is, its entry and open transaction, its dispatch
    tx,      \* per transaction: status, who began and who ended it, its buffer
    gate,    \* per transaction: the call that holds the gate, or None
    token,   \* per dispatch: the transaction whose token the compute node got, or None
    undone   \* history: the rollbacks to a savepoint: whose dispatch, where, to what

vars == <<call, tx, gate, token, undone>>

PC == {"idle", "entry", "engine", "await", "resume", "apply", "final", "release", "done"}

Dispatch == Call \X (1..MaxRounds)

CallState ==
    [pc : PC, entry : TxId \cup {None}, seg : TxId \cup {None},
     mode : Mode \cup {None}, reply : {"none", "ok", "failed"},
     sp : SUBSET Call, rounds : 0..MaxRounds,
     amid : SUBSET Dispatch, result : {"none", "ok", "error"}]

TxState ==
    [status : {"none", "open", "committed", "rolledBack"},
     begunBy : Call \cup {None}, endedBy : Call \cup {None}, buf : SUBSET Call]

Undo == [by : Call \X (0..MaxRounds), in : TxId, sp : SUBSET Call]

Running(c) == call[c].pc \notin {"idle", "done"}

(* Every variable has its type, and a call under way has a transaction:    *)
(* txScope.Advance never takes the empty segment of an error return.       *)
TypeOK ==
    /\ call \in [Call -> CallState]
    /\ \A c \in Call : Running(c) => call[c].entry \in TxId /\ call[c].seg \in TxId
    /\ tx \in [TxId -> TxState]
    /\ gate \in [TxId -> Call \cup {None}]
    /\ token \in [Dispatch -> TxId \cup {None}]
    /\ undone \subseteq Undo

Init ==
    /\ call = [c \in Call |->
                 [pc |-> "idle", entry |-> None, seg |-> None, mode |-> None,
                  reply |-> "none", sp |-> {}, rounds |-> 0, amid |-> {},
                  result |-> "none"]]
    /\ tx = [t \in TxId |-> [status |-> "none", begunBy |-> None,
                             endedBy |-> None, buf |-> {}]]
    /\ gate = [t \in TxId |-> None]
    /\ token = [d \in Dispatch |-> None]
    /\ undone = {}

-----------------------------------------------------------------------------
(* The transaction manager's operations, as functions of tx. *)

Active(t) == t # None /\ tx[t].status = "open"

Fresh(t) == \A u \in TxId : tx[u].status = "none" <=> u >= t

Begun(t, c) == [status |-> "open", begunBy |-> c, endedBy |-> None, buf |-> {}]

Ended(t, c, status) == [tx EXCEPT ![t].status = status, ![t].endedBy = c]

(* EntityStore.Save inside an active transaction: the call's entity joins the buffer. *)
Saved(t, c) == [tx EXCEPT ![t].buf = @ \cup {c}]

(* Save followed by Commit: the call's entity joins the buffer the commit flushes. *)
SavedAndCommitted(t, c) ==
    [tx EXCEPT ![t].status = "committed", ![t].endedBy = c, ![t].buf = @ \cup {c}]

(* Rollback of a transaction that may already have ended (ErrTxNotFound is ignored). *)
RolledBack(t, c) == IF Active(t) THEN Ended(t, c, "rolledBack") ELSE tx

(* Faulty variant of Savepoint: the snapshot is taken from a fresh buffer. *)
SavepointOfNothing(t) == {}

(* Savepoint copies the buffer. *)
Savepoint(t) == tx[t].buf

(* Faulty variant of RestoredTo: the savepoint is only released. *)
ReleasedOnly(t, sp) == tx

(* RollbackToSavepoint replaces the whole buffer by the snapshot. *)
RestoredTo(t, sp) == [tx EXCEPT ![t].buf = sp]

HoldsSavepoint(p) == call[p].pc \in {"await", "resume"} /\ call[p].mode = "ASYNC_NEW_TX"

(* The dispatches that hold a savepoint of t.  A call notes in amid those  *)
(* under way when it saves.                                                *)
OpenSavepoints(t) ==
    {d \in Dispatch : HoldsSavepoint(d[1]) /\ call[d[1]].seg = t /\ call[d[1]].rounds = d[2]}

-----------------------------------------------------------------------------
(* The gate. *)

Joined(c) == c # Owner

Free(t) == gate[t] = None

(* Faulty variant of Suspended: the gate is kept across the dispatch. *)
KeptAcross(c) == gate

(* txgate.Suspend across a dispatch: a joined call gives its gate up; the  *)
(* owner never installed one.                                              *)
Suspended(c) ==
    IF Joined(c) THEN [gate EXCEPT ![call[c].entry] = None] ELSE gate

(* resume: a joined call blocks until the gate is free and takes it again. *)
CanResume(c) == Joined(c) => Free(call[c].entry)

Resumed(c) ==
    IF Joined(c) THEN [gate EXCEPT ![call[c].entry] = c] ELSE gate

(* Faulty variant of GateReleased: the deferred release frees the gate     *)
(* taken on entry only, not the one taken again by resume.                 *)
EntryGateReleased(c) ==
    IF Joined(c) /\ call[c].rounds = 0 THEN [gate EXCEPT ![call[c].entry] = None] ELSE gate

(* The deferred releaseGate of a joined call, whichever way it returns. *)
GateReleased(c) ==
    IF Joined(c) THEN [gate EXCEPT ![call[c].entry] = None] ELSE gate

-----------------------------------------------------------------------------
(* Entering: the owner begins, a callback joins with its token. *)

BeginOwner ==
    /\ call[Owner].pc = "idle"
    /\ \E t \in TxId :
         /\ Fresh(t)
         /\ tx' = [tx EXCEPT ![t] = Begun(t, Owner)]
         /\ call' = [call EXCEPT ![Owner].pc = "engine", ![Owner].entry = t,
                                 ![Owner].seg = t]
    /\ UNCHANGED <<gate, token, undone>>

(* JoinFromToken, before the handler runs, with the token of the k-th      *)
(* dispatch of p, whether or not that dispatch still lasts: a transaction  *)
(* that is no longer active is answered 404.                               *)
JoinFromToken(c, p, k) ==
    /\ call[c].pc = "idle"
    /\ token[<<p, k>>] # None
    /\ LET t == token[<<p, k>>] IN
         call' = IF Active(t)
                   THEN [call EXCEPT ![c].pc = "entry", ![c].entry = t, ![c].seg = t]
                   ELSE [call EXCEPT ![c].pc = "done", ![c].result = "error"]
    /\ UNCHANGED <<tx, gate, token, undone>>

AcquireJoinedGate(c) ==
    /\ Joined(c)
    /\ call[c].pc = "entry"
    /\ Free(call[c].entry)
    /\ gate' = [gate EXCEPT ![call[c].entry] = c]
    /\ call' = [call EXCEPT ![c].pc = "engine"]
    /\ UNCHANGED <<tx, token, undone>>

-----------------------------------------------------------------------------
(* Leaving the engine. *)

(* The engine returned an error: the scope was never advanced.  A joined   *)
(* call leaves the transaction to the owner and returns; the owner goes on *)
(* to release its scope.                                                   *)
ErrorReturn(c) ==
    [call EXCEPT ![c].seg = call[c].entry,
                 ![c].pc = IF Joined(c) THEN "done" ELSE "release",
                 ![c].result = IF Joined(c) THEN "error" ELSE @]

(* Faulty variant of SegmentRolledBack: the guard reads the empty segment  *)
(* of the error return and skips the rollback.                             *)
SegmentDropped(c) == tx

(* The engine's guard rolls back a segment it opened and did not hand back. *)
SegmentRolledBack(c) ==
    IF call[c].seg = call[c].entry THEN tx ELSE RolledBack(call[c].seg, c)

EngineError(c) ==
    /\ tx' = SegmentRolledBack(c)
    /\ gate' = GateReleased(c)
    /\ call' = ErrorReturn(c)

(* A criterion that does not match, the visit or depth limit, a cancelled context. *)
EngineAborts(c) ==
    /\ call[c].pc = "engine"
    /\ EngineError(c)
    /\ UNCHANGED <<token, undone>>

(* The cascade settled.  The owner goes on to its gated Save and Commit.   *)
(* A joined call saves into the shared buffer under the gate it holds; one *)
(* that the engine segmented fails instead and releases that segment.      *)
EngineSettles(c) ==
    /\ call[c].pc = "engine"
    /\ \/ /\ ~Joined(c)
          /\ call' = [call EXCEPT ![c].pc = "final"]
          /\ UNCHANGED <<tx, gate>>
       \/ /\ Joined(c)
          /\ call[c].seg # call[c].entry
          /\ call' = [call EXCEPT ![c].pc = "release"]
          /\ gate' = GateReleased(c)
          /\ UNCHANGED tx
       \/ /\ Joined(c)
          /\ call[c].seg = call[c].entry
          /\ call' = [call EXCEPT ![c].pc = "done", ![c].amid = OpenSavepoints(call[c].entry),
                        ![c].result = IF Active(call[c].entry) THEN "ok" ELSE "error"]
          /\ tx' = IF Active(call[c].entry)
                     THEN Saved(call[c].entry, c)
                     ELSE tx
          /\ gate' = GateReleased(c)
    /\ UNCHANGED <<token, undone>>

-----------------------------------------------------------------------------
(* executeProcessors: one dispatch per action, by execution mode. *)

ModesOf(c) == IF Joined(c) THEN CallbackModes ELSE OwnerModes

MayDispatch(c, m) ==
    /\ call[c].pc = "engine"
    /\ call[c].rounds < (IF Joined(c) THEN MaxNested ELSE MaxRounds)
    /\ m \in ModesOf(c)

Sent(c, m) ==
    [call EXCEPT ![c].pc = "await", ![c].mode = m, ![c].rounds = @ + 1,
                 ![c].reply = "none"]

(* The token minted for the dispatch c is about to make, its next round. *)
Minted(c, t) == [token EXCEPT ![<<c, call[c].rounds + 1>>] = t]

SendSync(c) ==
    /\ MayDispatch(c, "SYNC")
    /\ call' = Sent(c, "SYNC")
    /\ gate' = Suspended(c)
    /\ token' = Minted(c, call[c].seg)
    /\ UNCHANGED <<tx, undone>>

(* The savepoint is taken before the gate is given up.  Without an active  *)
(* transaction it cannot be taken: the processor fails, which is not fatal.*)
SendAsyncNewTx(c) ==
    /\ MayDispatch(c, "ASYNC_NEW_TX")
    /\ IF Active(call[c].seg)
         THEN /\ call' = [Sent(c, "ASYNC_NEW_TX") EXCEPT ![c].sp = Savepoint(call[c].seg)]
              /\ gate' = Suspended(c)
              /\ token' = Minted(c, call[c].seg)
         ELSE /\ call' = [call EXCEPT ![c].rounds = @ + 1]
              /\ UNCHANGED <<gate, token>>
    /\ UNCHANGED <<tx, undone>>

(* flushAndCommitSegment: save the entity into the current transaction and *)
(* commit it.  No gate is taken, and a gate that is held is kept across    *)
(* the dispatch.  startNewTxOnDispatch begins the next segment first.      *)
SendCommitBeforeDispatch(c) ==
    \E m \in {"CBD", "CBD_NEW"} :
      /\ MayDispatch(c, m)
      /\ Active(call[c].seg)
      /\ \E t \in TxId :
           /\ Fresh(t)
           /\ tx' = IF m = "CBD"
                      THEN SavedAndCommitted(call[c].seg, c)
                      ELSE [SavedAndCommitted(call[c].seg, c) EXCEPT ![t] = Begun(t, c)]
           /\ call' = [Sent(c, m) EXCEPT ![c].seg = IF m = "CBD" THEN @ ELSE t,
                                         ![c].amid = OpenSavepoints(call[c].seg)]
           /\ token' = IF m = "CBD" THEN token ELSE Minted(c, t)
      /\ UNCHANGED <<gate, undone>>

(* The flush fails (the transaction has ended already, or If-Match does),  *)
(* the commit conflicts and rolls back, or the request's deadline has      *)
(* passed once the entity is flushed: the flushed write stays behind in a  *)
(* transaction that the engine does not roll back.                         *)
SegmentCommitFails(c) ==
    /\ \E m \in {"CBD", "CBD_NEW"} : MayDispatch(c, m)
    /\ \/ EngineError(c)
       \/ /\ Active(call[c].seg)
          /\ \/ /\ tx' = Ended(call[c].seg, c, "rolledBack")
                /\ call' = ErrorReturn(c)
             \/ /\ call[c].seg = call[c].entry
                /\ tx' = Saved(call[c].seg, c)
                /\ call' = [ErrorReturn(c) EXCEPT ![c].amid = OpenSavepoints(call[c].seg)]
          /\ gate' = GateReleased(c)
    /\ UNCHANGED <<token, undone>>

(* The dispatch returns: a reply, or a failure such as a timeout, a lost   *)
(* member or success:false.  Callbacks made with its token may still run,  *)
(* or come later.                                                          *)
DispatchReturns(c, reply) ==
    /\ call[c].pc = "await"
    /\ call' = [call EXCEPT ![c].pc = "resume", ![c].reply = reply]
    /\ UNCHANGED <<tx, gate, token, undone>>

AfterSync(c) ==
    /\ call[c].pc = "resume" /\ call[c].mode = "SYNC"
    /\ CanResume(c)
    /\ \/ /\ call[c].reply = "ok"
          /\ gate' = Resumed(c)
          /\ call' = [call EXCEPT ![c].pc = "engine"]
          /\ UNCHANGED tx
       \/ EngineError(c)
    /\ UNCHANGED <<token, undone>>

(* Without an active transaction RollbackToSavepoint fails with a warning. *)
AfterAsyncNewTx(c) ==
    /\ call[c].pc = "resume" /\ call[c].mode = "ASYNC_NEW_TX"
    /\ CanResume(c)
    /\ gate' = Resumed(c)
    /\ call' = [call EXCEPT ![c].pc = "engine", ![c].sp = {}]
    /\ IF call[c].reply = "failed" /\ Active(call[c].seg)
         THEN /\ tx' = RestoredTo(call[c].seg, call[c].sp)
              /\ undone' = undone \cup {[by |-> <<c, call[c].rounds>>, in |-> call[c].seg,
                                          sp |-> call[c].sp]}
         ELSE UNCHANGED <<tx, undone>>
    /\ UNCHANGED token

(* After the reply, CBD begins the next segment; CBD_NEW already has it.   *)
AfterCommitBeforeDispatch(c) ==
    /\ call[c].pc = "resume" /\ call[c].mode \in {"CBD", "CBD_NEW"}
    /\ \/ /\ call[c].reply = "failed"
          /\ EngineError(c)
       \/ /\ call[c].reply = "ok" /\ call[c].mode = "CBD_NEW"
          /\ call' = [call EXCEPT ![c].pc = "apply"]
          /\ UNCHANGED <<tx, gate>>
       \/ /\ call[c].reply = "ok" /\ call[c].mode = "CBD"
          /\ \E t \in TxId :
               /\ Fresh(t)
               /\ tx' = [tx EXCEPT ![t] = Begun(t, c)]
               /\ call' = [call EXCEPT ![c].pc = "apply", ![c].seg = t]
          /\ UNCHANGED gate
    /\ UNCHANGED <<token, undone>>

(* CompareAndSave of the result against TX_pre, which a later writer or an *)
(* ended segment makes fail.                                               *)
ApplyResult(c) ==
    /\ call[c].pc = "apply"
    /\ \/ /\ Active(call[c].seg)
          /\ tx' = Saved(call[c].seg, c)
          /\ call' = [call EXCEPT ![c].pc = "engine", ![c].amid = OpenSavepoints(call[c].seg)]
          /\ UNCHANGED gate
       \/ EngineError(c)
    /\ UNCHANGED <<token, undone>>

-----------------------------------------------------------------------------
(* The owner's end, and the release of a scope. *)

(* Save and Commit in one gated section.  A conflict ends the transaction  *)
(* and the scope; a failed Save, a failed If-Match or, after the Save, a   *)
(* deadline seen before the commit leaves both to Release.                 *)
Finalise ==
    /\ call[Owner].pc = "final"
    /\ Free(call[Owner].seg)
    /\ \/ /\ Active(call[Owner].seg)
          /\ tx' = SavedAndCommitted(call[Owner].seg, Owner)
          /\ call' = [call EXCEPT ![Owner].pc = "done", ![Owner].result = "ok"]
       \/ /\ Active(call[Owner].seg)
          /\ tx' = Ended(call[Owner].seg, Owner, "rolledBack")
          /\ call' = [call EXCEPT ![Owner].pc = "done", ![Owner].result = "error"]
       \/ /\ call' = [call EXCEPT ![Owner].pc = "release"]
          /\ \/ UNCHANGED tx
             \/ Active(call[Owner].seg) /\ tx' = Saved(call[Owner].seg, Owner)
    /\ UNCHANGED <<gate, token, undone>>

(* txScope.Release: roll back the scope's open transaction under its gate. *)
Release(c) ==
    /\ call[c].pc = "release"
    /\ Free(call[c].seg)
    /\ tx' = RolledBack(call[c].seg, c)
    /\ call' = [call EXCEPT ![c].pc = "done", ![c].result = "error"]
    /\ UNCHANGED <<gate, token, undone>>

-----------------------------------------------------------------------------
Step(c) ==
    \/ AcquireJoinedGate(c)
    \/ EngineAborts(c)
    \/ EngineSettles(c)
    \/ SendSync(c)
    \/ SendAsyncNewTx(c)
    \/ SendCommitBeforeDispatch(c)
    \/ SegmentCommitFails(c)
    \/ AfterSync(c)
    \/ AfterAsyncNewTx(c)
    \/ AfterCommitBeforeDispatch(c)
    \/ ApplyResult(c)
    \/ Release(c)

Next ==
    \/ BeginOwner
    \/ Finalise
    \/ \E c \in Callback, p \in Call, k \in 1..MaxRounds : JoinFromToken(c, p, k)
    \/ \E c \in Call, r \in {"ok", "failed"} : DispatchReturns(c, r)
    \/ \E c \in Call : Step(c)

Spec == Init /\ [][Next]_vars

(* A call's goroutine runs, a mutex is handed to a waiter eventually, and  *)
(* a dispatch returns, at the latest with its timeout.                     *)
FairSpec ==
    /\ Spec
    /\ SF_vars(Finalise)
    /\ \A c \in Call :
         /\ SF_vars(Step(c))
         /\ SF_vars(\E r \in {"ok", "failed"} : DispatchReturns(c, r))

-----------------------------------------------------------------------------
(* Properties. *)

(* Every transaction ends and every gate is given back by the time all     *)
(* calls have returned, whichever of them failed, segmented or came late:  *)
(* the owner's txScope.Release, the engine's segment guards and the        *)
(* joined call's deferred release leave nothing behind between them.       *)
NothingLeft ==
    (\A c \in Call : ~Running(c)) =>
        \A t \in TxId : tx[t].status # "open" /\ Free(t)

(* A gate is held only by a joined call that is still running on that      *)
(* transaction and is not waiting for it: no call re-acquires the          *)
(* non-reentrant gate it already holds, none returns with it.              *)
GateHeldByCaller ==
    \A t \in TxId : ~Free(t) =>
        LET c == gate[t] IN
          /\ Joined(c) /\ call[c].entry = t
          /\ call[c].pc \in {"engine", "await", "resume", "apply"}
          /\ call[c].pc \in {"await", "resume"} => call[c].mode \in {"CBD", "CBD_NEW"}

(* A callback that was answered with success has its write in the          *)
(* transaction when that commits, in time or late, whatever savepoints     *)
(* its siblings and ancestors take and roll back.  The one exception is    *)
(* RollbackToSavepoint for an ASYNC_NEW_TX dispatch that was under way in  *)
(* the transaction when the callback saved: it replaces the whole buffer,  *)
(* whoever made the write.                                                 *)
AckedWritesKept ==
    \A c \in Callback :
        /\ call[c].result = "ok"
        /\ tx[call[c].entry].status = "committed"
        /\ \A u \in undone : u.by \notin call[c].amid
        => c \in tx[call[c].entry].buf

(* A write saved while an ASYNC_NEW_TX dispatch was under way in the       *)
(* transaction is not committed when that dispatch is rolled back, however *)
(* many callbacks and savepoints overlap it.  The one exception is a       *)
(* second dispatch rolled back to a savepoint taken after the write: its   *)
(* snapshot still holds the write and brings it back.                      *)
FailedAsyncUndone ==
    \A t \in TxId : tx[t].status = "committed" =>
        \A c \in Callback \cap tx[t].buf, u \in undone :
            u.in = t /\ u.by \in call[c].amid => \E v \in undone : v.in = t /\ c \in v.sp

(* A request that is answered with an error has committed nothing, when no *)
(* processor of its workflow commits before dispatch (proved only).        *)
FailureLeavesNothing ==
    /\ call[Owner].result = "error"
    /\ OwnerModes \cap {"CBD", "CBD_NEW"} = {}
    => \A t \in TxId : tx[t].status # "committed"

(* A joined callback does not commit the transaction it joined; its owner does. *)
JoinedNeverCommits ==
    \A t \in TxId : tx[t].status = "committed" => tx[t].endedBy = tx[t].begunBy

(* Every call that starts returns: callbacks nested in the dispatches of   *)
(* callbacks never wait for a gate their own ancestor holds.               *)
EveryCallReturns ==
    \A c \in Call : Running(c) ~> ~Running(c)
=============================================================================
