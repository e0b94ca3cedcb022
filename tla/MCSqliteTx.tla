------------------------------ MODULE MCSqliteTx ------------------------------
(* Small instances of SqliteTx. *)
EXTENDS SqliteTx, TLC

(* A document named after a claim fills the unique key with that value. *)
MCClaimsOf == [v \in Val |-> {v} \cap Claim]

(* A transaction against a direct write and a crash; two transactions over *)
(* two keyed entities; three that overlap on one entity under a clock that *)
(* stands still; one transaction with a savepoint, a task and a crash.     *)
Idle == [tx |-> {"t1", "t2"}, direct |-> {}, entity |-> {"e1"},
         val |-> {"k"}, task |-> {}, clock |-> ClockReadings, calls |-> 2,
         savepoints |-> 0, crashes |-> 0]
MCLoad == {
  [Idle EXCEPT !.direct = {"d1"}, !.calls = 1, !.crashes = 1],
  [Idle EXCEPT !.entity = {"e1", "e2"}, !.calls = 2],
  [Idle EXCEPT !.tx = {"t1", "t2", "t3"}, !.clock = {1}, !.calls = 1],
  [Idle EXCEPT !.tx = {"t1"}, !.val = {"k", "part"}, !.task = {"timer"},
             !.calls = 3, !.savepoints = 1, !.crashes = 1]}
=============================================================================
