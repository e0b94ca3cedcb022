-------------------------- MODULE SnapshotIsolation --------------------------
(***************************************************************************)
(* What every storage plugin promises of spi.TransactionManager and        *)
(* spi.EntityStore, with no clock, no log and no lock: a transaction sees  *)
(* the database as it was when it began, and of two transactions that      *)
(* overlap, the one that commits second may not have read or written what  *)
(* the first one wrote (first-committer-wins).  It may always be aborted.  *)
(*                                                                         *)
(* A write made outside any transaction (AutoCommit) is invisible to the   *)
(* snapshots already open, and no transaction is validated against it.     *)
(***************************************************************************)
CONSTANTS
  Tx, Entity, Val, None,
  DirectWrites   \* whether writes are made outside any transaction

VARIABLES
  db,      \* the committed document of each entity
  phase,   \* phase[t]
  snap,    \* snap[t]: the database t sees
  missed,  \* missed[t]: entities committed by others since t began
  reads    \* reads[t]: what t will be validated for having read

vars == <<db, phase, snap, missed, reads>>

Doc == Val \cup {None}
NoSnap == [e \in Entity |-> None]
Open == {t \in Tx : phase[t] = "open"}

Init ==
  /\ db \in [Entity -> Doc]
  /\ phase = [t \in Tx |-> "none"]
  /\ snap = [t \in Tx |-> NoSnap]
  /\ missed = [t \in Tx |-> {}]
  /\ reads = [t \in Tx |-> {}]

Begin(t) ==
  /\ phase[t] = "none"
  /\ phase' = [phase EXCEPT ![t] = "open"]
  /\ snap' = [snap EXCEPT ![t] = db]
  /\ UNCHANGED <<db, missed, reads>>

(* A read joins the footprint; a rollback to a savepoint takes it out. *)
Read(t) ==
  /\ phase[t] = "open"
  /\ \E R \in SUBSET Entity : reads' = [reads EXCEPT ![t] = R]
  /\ UNCHANGED <<db, phase, snap, missed>>

(* The transactions of T end; nothing of them is left. *)
Ended(T, outcome) ==
  /\ phase' = [t \in Tx |-> IF t \in T THEN outcome ELSE phase[t]]
  /\ snap' = [t \in Tx |-> IF t \in T THEN NoSnap ELSE snap[t]]
  /\ reads' = [t \in Tx |-> IF t \in T THEN {} ELSE reads[t]]

Commit(t) ==
  /\ phase[t] = "open"
  /\ \E W \in SUBSET Entity :
       /\ (W \cup reads[t]) \cap missed[t] = {}
       /\ \A e \in Entity \ W : db'[e] = db[e]
       /\ \A e \in W : db'[e] \in Doc
       /\ DOMAIN db' = Entity
       /\ missed' = [u \in Tx |-> IF u \in Open \ {t} THEN missed[u] \cup W
                                  ELSE IF u = t THEN {} ELSE missed[u]]
  /\ Ended({t}, "committed")

(* One transaction is rolled back, or a crash takes several. *)
Abort(T) ==
  /\ T # {} /\ T \subseteq Open
  /\ Ended(T, "aborted")
  /\ missed' = [t \in Tx |-> IF t \in T THEN {} ELSE missed[t]]
  /\ UNCHANGED db

AutoCommit(e) ==
  /\ DirectWrites
  /\ db'[e] \in Doc
  /\ db' = [db EXCEPT ![e] = db'[e]]
  /\ UNCHANGED <<phase, snap, missed, reads>>

Next ==
  \/ \E t \in Tx : Begin(t) \/ Read(t) \/ Commit(t)
  \/ \E T \in SUBSET Tx : Abort(T)
  \/ \E e \in Entity : AutoCommit(e)

Spec == Init /\ [][Next]_vars
=============================================================================
