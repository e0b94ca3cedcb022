------------------------------- MODULE MCMemTx -------------------------------
(* Small instances of MemTx.  A behaviour follows one load, which bounds   *)
(* how many transactions, entities and calls it uses and of which kinds;   *)
(* it never bounds the steps of Commit and Rollback.  In the load of no    *)
(* transactions the goroutines of MemLocks run, one call each.             *)
EXTENDS MemTxRefinement, MemLocks

VARIABLE load

MCvars == <<vars, load, lockVars>>

(* A document named after a claim fills the unique key with that value. *)
MCClaimsOf == [v \in Val |-> {v} \cap Claim]

L(tx, entities, vals, perTx, with) ==
  [tx |-> tx, entities |-> entities, vals |-> vals, calls |-> perTx,
   with |-> with]

MCLoad == {
  L(1..3, {"e1"}, {"plain"}, 1, {"clock"}),
  L(1..3, {"e1", "e2"}, {"a"}, 1, {}),
  L(1..2, {"e1"}, {"plain"}, 2, {"clock", "fires", "rollbacks"}),
  L(1..2, {"e1"}, {"plain"}, 2, {"tasks", "rollbacks"}),
  L(1..2, {"e1", "e2"}, {"a"}, 2, {}),
  L(1..1, {"e1"}, {"plain", "half"}, 5, {"tasks", "savepoints", "rollbacks"})}

(* Without a jumping clock the floor is one more than the stamps given out. *)
SteadyClock == lastSubmitTime <= 1 + Cardinality({t \in Tx : stamp[t] # 0})

(* Transactions are begun in the order of their numbers: Begin gives each  *)
(* a fresh ID, so any other order only renames them.                       *)
InOrder == \A t, u \in Tx : t < u /\ pc[u] # "none" => pc[t] # "none"

Within ==
  /\ InOrder
  /\ SteadyClock \/ "clock" \in load.with
  /\ \A t \in Tx :
       /\ pc[t] # "none" => t \in load.tx
       /\ calls[t] <= load.calls
       /\ Footprint(t) \subseteq load.entities
       /\ \A e \in Buffered(t) :
            /\ buffer[t][e] \in load.vals
            /\ txUniqueKeys[t][e] \/ t \notin active \/ "fires" \in load.with
       /\ scheduledTaskOps[t] = << >> \/ "tasks" \in load.with
       /\ t \notin rollbackWaiting \/ "rollbacks" \in load.with
       /\ savepoints[t] = << >> \/ "savepoints" \in load.with

LockLoad == L({}, {}, {}, 0, {})

(* The calls of the goroutines, up to their order. *)
MCCalls == CallsIn("op1") \o CallsOutside \o CallsIn("op2")
MCWork ==
  {[g \in Goroutine |-> MCCalls[pick[g]]] :
     pick \in {p \in [Goroutine -> DOMAIN MCCalls] :
                \A g, h \in Goroutine : g < h => p[g] <= p[h]}}
Idle == [g \in Goroutine |-> << >>]

MCInit ==
  /\ Init
  /\ \/ load \in MCLoad /\ LockInit(Idle)
     \/ load = LockLoad /\ \E work \in MCWork : LockInit(work)

MCNext ==
  \/ Next /\ UNCHANGED <<load, lockVars>> /\ Within'
  \/ LockNext /\ UNCHANGED <<vars, load>>

MCSpec == MCInit /\ [][MCNext]_MCvars
=============================================================================
