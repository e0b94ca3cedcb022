------------------------------ MODULE MemLocks ------------------------------
(***************************************************************************)
(* The locks of the in-memory storage plugin (plugins/memory) and the      *)
(* order in which each call takes them: the OpMu of a transaction, the     *)
(* entityMu of the store factory and the mu of the TransactionManager.     *)
(*                                                                         *)
(* Grain.  One action is one step of sync.RWMutex or sync.Mutex, so a call *)
(* can be stopped while it holds one lock and waits for the next.  What a  *)
(* call does between two lock steps is the business of MemTx.              *)
(***************************************************************************)
EXTENDS Naturals, Sequences

CONSTANTS
  Goroutine,   \* goroutines with a call under way, as numbers
  OpMu,        \* the OpMu of each transaction
  NoOne        \* no goroutine

VARIABLES
  todo,        \* the lock steps each goroutine has still to make
  readers,     \* the goroutines that hold a lock for reading
  writer       \* the goroutine that holds, or waits for, a lock to write

lockVars == <<todo, readers, writer>>

Lock == OpMu \cup {"entityMu", "mu"}

-----------------------------------------------------------------------------
(* The lock steps of the calls.  Read and Write hold a lock around a body. *)

Read(l, body) ==
  << [op |-> "RLock", on |-> l] >> \o body \o << [op |-> "RUnlock", on |-> l] >>
Write(l, body) ==
  << [op |-> "Lock", on |-> l] >> \o body \o << [op |-> "Unlock", on |-> l] >>

(* Begin, ReleaseSavepoint, GetSubmitTime, and every lookup of an active   *)
(* transaction.                                                            *)
Mu == Write("mu", << >>)

(* TransactionManager *)
JoinLocks(m) == Mu \o Read(m, << >>)
SavepointLocks(m) == Mu \o Read(m, Mu)
RollbackLocks(m) == Mu \o Write(m, Mu)

(* The mark; under OpMu and entityMu the conflict check, the submit time   *)
(* and the record in the committed log.                                    *)
CommitLocks(m) == Mu \o Write(m, Write("entityMu", Mu \o Mu \o Mu))

(* EntityStore in a transaction: a save stages the superseded value and    *)
(* the unique keys with the manager, the others read the store.            *)
SaveLocks(m) == Read(m, Mu \o Mu)
CompareAndSaveLocks(m) == Read(m, Read("entityMu", Mu) \o Mu)
ReadLocks(m) == Read(m, Read("entityMu", << >>))

(* An iterator takes OpMu again for every row it yields; the consumer may  *)
(* call the store between two rows.                                        *)
IterateLocks(m) == ReadLocks(m) \o Read(m, << >>) \o ReadLocks(m)

(* ScheduledTaskStore in a transaction *)
StageTaskLocks(m) == Read(m, Mu)
DeleteTaskLocks(m) == Read("entityMu", << >>) \o StageTaskLocks(m)

(* Faulty: the submit time is held from before entityMu is taken. *)
StampFirst == Write("mu", Write("entityMu", << >>))

(* Outside a transaction: a write stamps itself under entityMu. *)
DirectWriteLocks == Write("entityMu", Mu)
DirectReadLocks == Read("entityMu", << >>)
DirectTaskLocks == Write("entityMu", << >>)

CallsIn(m) ==
  << JoinLocks(m), SavepointLocks(m), RollbackLocks(m), CommitLocks(m),
     SaveLocks(m), CompareAndSaveLocks(m), ReadLocks(m), IterateLocks(m),
     StageTaskLocks(m), DeleteTaskLocks(m) >>
CallsOutside == << Mu, DirectWriteLocks, DirectReadLocks, DirectTaskLocks >>

-----------------------------------------------------------------------------
(* sync.RWMutex: a writer first shuts new readers out, then waits for the  *)
(* readers inside; there is one such writer at a time.  sync.Mutex is an   *)
(* RWMutex nobody reads.                                                   *)

LockInit(work) ==
  /\ todo = work
  /\ readers = [l \in Lock |-> {}]
  /\ writer = [l \in Lock |-> NoOne]

AtStep(g, op) == todo[g] # << >> /\ Head(todo[g]).op = op
On(g) == Head(todo[g]).on
Done(g) == todo' = [todo EXCEPT ![g] = Tail(@)]

RLock(g) ==
  /\ AtStep(g, "RLock") /\ writer[On(g)] = NoOne
  /\ readers' = [readers EXCEPT ![On(g)] = @ \cup {g}]
  /\ Done(g) /\ UNCHANGED writer

RUnlock(g) ==
  /\ AtStep(g, "RUnlock")
  /\ readers' = [readers EXCEPT ![On(g)] = @ \ {g}]
  /\ Done(g) /\ UNCHANGED writer

ShutOut(g) ==
  /\ AtStep(g, "Lock") /\ writer[On(g)] = NoOne
  /\ writer' = [writer EXCEPT ![On(g)] = g]
  /\ UNCHANGED <<todo, readers>>

WLock(g) ==
  /\ AtStep(g, "Lock") /\ writer[On(g)] = g /\ readers[On(g)] = {}
  /\ Done(g) /\ UNCHANGED <<readers, writer>>

Unlock(g) ==
  /\ AtStep(g, "Unlock")
  /\ writer' = [writer EXCEPT ![On(g)] = NoOne]
  /\ Done(g) /\ UNCHANGED readers

LockStep(g) == RLock(g) \/ RUnlock(g) \/ ShutOut(g) \/ WLock(g) \/ Unlock(g)
LockNext == \E g \in Goroutine : LockStep(g)

-----------------------------------------------------------------------------
(* Every call returns: goroutines that stand still have all returned, so   *)
(* no set of them waits on one another for OpMu, entityMu and mu, a reader *)
(* shut out by a waiting writer included.                                  *)
CanStep(g) ==
  \/ AtStep(g, "RUnlock") \/ AtStep(g, "Unlock")
  \/ AtStep(g, "RLock") /\ writer[On(g)] = NoOne
  \/ AtStep(g, "Lock") /\ writer[On(g)] = NoOne
  \/ AtStep(g, "Lock") /\ writer[On(g)] = g /\ readers[On(g)] = {}

CallsReturn ==
  (\E g \in Goroutine : todo[g] # << >>) => \E g \in Goroutine : CanStep(g)
=============================================================================
