-------------------------------- MODULE MCPgTx --------------------------------
(***************************************************************************)
(* PgTx over two entities, two documents that make the same claim, one     *)
(* that makes none and one with a partial key.                             *)
(***************************************************************************)
EXTENDS PgTx

CONSTANTS t1, t2, d1, d2, e1, e2, used, w, blank, partial, c

MCClaimsOf == [x \in Val |-> IF x \in {used, w} THEN {c} ELSE {}]
Calls(m, n) == [t \in Tx |-> IF t = t1 THEN m ELSE n]
Seeded(x, y) == [e \in Entity |-> IF e = e1 THEN x ELSE y]

(* Two transactions that read and write two entities. *)
Conflicts ==
  [tx |-> {t1, t2}, direct |-> {}, entity |-> {e1, e2}, val |-> {blank},
   seeded |-> Seeded(used, blank), calls |-> Calls(2, 1), savepoints |-> 0, faults |-> 0,
   maxConns |-> 2, asAt |-> FALSE]

(* Unique claims that move and collide. *)
Claims ==
  [Conflicts EXCEPT !.val = {w, blank, partial}, !.calls = Calls(1, 1)]

(* A savepoint beside another writer, and a session that dies. *)
Faults ==
  [tx |-> {t1, t2}, direct |-> {}, entity |-> {e1}, val |-> {blank},
   seeded |-> Seeded(used, None), calls |-> Calls(3, 1), savepoints |-> 1, faults |-> 1,
   maxConns |-> 2, asAt |-> FALSE]

(* Nested savepoints. *)
Savepoints ==
  [Faults EXCEPT !.tx = {t1}, !.calls = Calls(5, 0), !.savepoints = 2, !.entity = {e1, e2},
                 !.faults = 0]

(* Compare-and-saves beside a transaction, and a session that dies. *)
Direct2 ==
  [tx |-> {t1}, direct |-> {d1, d2}, entity |-> {e1}, val |-> {w, partial},
   seeded |-> Seeded(used, blank), calls |-> Calls(1, 0), savepoints |-> 0, faults |-> 1,
   maxConns |-> 2, asAt |-> FALSE]

(* Point-in-time reads that want a second connection. *)
PointInTime ==
  [tx |-> {t1, t2}, direct |-> {}, entity |-> {e1}, val |-> {blank},
   seeded |-> Seeded(used, None), calls |-> Calls(2, 1), savepoints |-> 0, faults |-> 0,
   maxConns |-> 2, asAt |-> TRUE]

MCLoad == {Conflicts, Claims, Faults, Savepoints, Direct2, PointInTime}
MCDirect == {Direct2}
=============================================================================
