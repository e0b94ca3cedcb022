--------------------------- MODULE MemTxRefinement ---------------------------
(***************************************************************************)
(* The in-memory plugin implements SnapshotIsolation.  A commit takes      *)
(* effect at its stamp: from there on a Begin gets a snapshot time that    *)
(* includes it, and entityMu keeps every reader out until its rows are in  *)
(* the store.                                                              *)
(***************************************************************************)
EXTENDS MemTx

Stamped == {t \in Tx : pc[t] = "stamped"}

(* The rows of e with those of the commit between its stamp and its record. *)
Data(e) ==
  IF Stamped = {} THEN entityData[e]
  ELSE entityData[e] \o FlushedRows(CHOOSE t \in Stamped : TRUE, e)

Uncommitted(t) == pc[t] \in {"open", "marked"}

db == [e \in Entity |-> LastVal(Data(e))]

phase == [t \in Tx |->
  IF pc[t] = "none" THEN "none"
  ELSE IF Uncommitted(t) THEN "open"
  ELSE IF pc[t] = "stamped" \/ told[t] = {"committed"} THEN "committed"
  ELSE "aborted"]

snap == [t \in Tx |-> [e \in Entity |->
  IF Uncommitted(t) THEN SnapshotOf(Data(e), snapshotTime[t]) ELSE None]]

missed == [t \in Tx |-> {e \in Entity : Uncommitted(t) /\
  \E i \in DOMAIN Data(e) : Data(e)[i].submitTime > snapshotTime[t]}]

reads == [t \in Tx |-> IF Uncommitted(t) THEN readSet[t] ELSE {}]

SI == INSTANCE SnapshotIsolation WITH DirectWrites <- FALSE

(* The manager and the store implement snapshot isolation with             *)
(* first-committer-wins: what a transaction reads by its snapshot time is  *)
(* the database as it was when it began, and no commit goes through that   *)
(* read or wrote what another has committed since.                         *)
ImplementsSI == SI!Spec
=============================================================================
