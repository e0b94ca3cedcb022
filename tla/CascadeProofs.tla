--------------------------- MODULE CascadeProofs ---------------------------
(***************************************************************************)
(* Nothing is left behind by a cascade, in time or late; and a cascade     *)
(* keeps the writes it acknowledged and undoes those of an ASYNC_NEW_TX    *)
(* dispatch that failed.  Proofs for any number of callbacks, dispatches,  *)
(* modes and transactions.                                                 *)
(***************************************************************************)
EXTENDS Cascade, TLAPS

(* The calls that hold the gate of the transaction they joined: all but    *)
(* those waiting for it, and those whose dispatch suspended it.            *)
HoldsGate(c) ==
    /\ Joined(c)
    /\ \/ call[c].pc \in {"engine", "apply"}
       \/ call[c].pc \in {"await", "resume"} /\ call[c].mode \in {"CBD", "CBD_NEW"}

(* The gate of a transaction belongs to the call that holds it, and only to it. *)
GateInv ==
    /\ \A t \in TxId, c \in Call : gate[t] = c => HoldsGate(c) /\ call[c].entry = t
    /\ \A c \in Call : HoldsGate(c) => gate[call[c].entry] = c

(* An open transaction is the current segment of the call that began it. *)
OpenInv ==
    \A t \in TxId : tx[t].status = "open" =>
        \E c \in Call : tx[t].begunBy = c /\ Running(c) /\ call[c].seg = t

(* A callback joined a transaction somebody else began. *)
EntryInv ==
    \A c \in Callback : Running(c) =>
        tx[call[c].entry].begunBy # c /\ tx[call[c].entry].status # "none"

(* COMMIT_BEFORE_DISPATCH without a new transaction dispatches after the commit. *)
CommittedFirst ==
    \A c \in Call : call[c].pc \in {"await", "resume"} /\ call[c].mode = "CBD" =>
        tx[call[c].seg].status \in {"committed", "rolledBack"}

ReleaseInv == TypeOK /\ GateInv /\ OpenInv /\ EntryInv /\ CommittedFirst

-----------------------------------------------------------------------------
(* Types. *)

(* Init gives every variable its type. *)
LEMMA TypeInit == Init => TypeOK
  BY ConstantsOK DEF Init, TypeOK, CallState, TxState, PC, Mode, Running, Call, TxId, Dispatch

(* The transaction manager's operations keep tx well typed. *)
LEMMA EndedType ==
  ASSUME tx \in [TxId -> TxState], NEW t \in TxId, NEW c \in Call
  PROVE  /\ Ended(t, c, "rolledBack") \in [TxId -> TxState]
         /\ RolledBack(t, c) \in [TxId -> TxState]
         /\ SavedAndCommitted(t, c) \in [TxId -> TxState]
         /\ Saved(t, c) \in [TxId -> TxState]
         /\ Begun(t, c) \in TxState
<1>1. Ended(t, c, "rolledBack") \in [TxId -> TxState]
  <2>1. [tx[t] EXCEPT !.status = "rolledBack", !.endedBy = c] \in TxState
    BY Zenon DEF TxState
  <2> QED  BY <2>1 DEF Ended
<1>2. RolledBack(t, c) \in [TxId -> TxState]
  BY <1>1 DEF RolledBack
<1>3. SavedAndCommitted(t, c) \in [TxId -> TxState]
  <2>1. [tx[t] EXCEPT !.status = "committed", !.endedBy = c, !.buf = @ \cup {c}] \in TxState
    BY Zenon DEF TxState
  <2> QED  BY <2>1 DEF SavedAndCommitted
<1>4. Begun(t, c) \in TxState
  BY DEF Begun, TxState
<1>5. Saved(t, c) \in [TxId -> TxState]
  <2>1. [tx[t] EXCEPT !.buf = @ \cup {c}] \in TxState
    BY DEF TxState
  <2> QED  BY <2>1 DEF Saved
<1> QED  BY <1>1, <1>2, <1>3, <1>4, <1>5

(* What the error return of the engine leaves is well typed. *)
LEMMA TypeEngineError ==
  ASSUME TypeOK, NEW c \in Call, Running(c), EngineError(c), UNCHANGED <<token, undone>>
  PROVE  TypeOK'
<1> USE ConstantsOK DEF Running
<1>1. call[c] \in CallState /\ call[c].entry \in TxId /\ call[c].seg \in TxId
  BY Zenon DEF TypeOK
<1>2. call' \in [Call -> CallState]
  <2>1. \A p \in PC, x \in {"none", "ok", "error"} :
          [call[c] EXCEPT !.seg = call[c].entry, !.pc = p, !.result = x] \in CallState
    BY Zenon, <1>1 DEF CallState
  <2>2. call[c].result \in {"none", "ok", "error"} /\ {"done", "release"} \subseteq PC
    BY <1>1 DEF CallState, PC
  <2>3. \E r \in CallState : call' = [call EXCEPT ![c] = r]
    BY Zenon, <2>1, <2>2 DEF EngineError, ErrorReturn
  <2> QED
    BY Zenon, <2>3 DEF TypeOK
<1>3. tx' \in [TxId -> TxState]
  BY <1>1, EndedType DEF TypeOK, EngineError, SegmentRolledBack
<1>4. gate' \in [TxId -> Call \cup {None}]
  BY <1>1 DEF TypeOK, EngineError, GateReleased
<1>5. \A d \in Call : Running(d)' => call'[d].entry \in TxId /\ call'[d].seg \in TxId
  BY <1>1 DEF TypeOK, EngineError, ErrorReturn, CallState
<1>6. token' \in [Dispatch -> TxId \cup {None}] /\ undone' \subseteq Undo
  BY DEF TypeOK
<1> QED  BY <1>2, <1>3, <1>4, <1>5, <1>6 DEF TypeOK

(* Every action keeps the types. *)
LEMMA TypeStep == TypeOK /\ [Next]_vars => TypeOK'
<1> SUFFICES ASSUME TypeOK, [Next]_vars PROVE TypeOK'
  OBVIOUS
<1> USE ConstantsOK DEF Running
<1>a. /\ call \in [Call -> CallState] /\ tx \in [TxId -> TxState]
      /\ gate \in [TxId -> Call \cup {None}]
      /\ token \in [Dispatch -> TxId \cup {None}] /\ undone \subseteq Undo
  BY DEF TypeOK
<1>b. \A d \in Call : Running(d) => call[d].entry \in TxId /\ call[d].seg \in TxId
  BY DEF TypeOK
<1>0. CASE UNCHANGED vars
  BY <1>a, <1>b, <1>0 DEF vars, TypeOK
<1>1. CASE BeginOwner
  <2>1. PICK t \in TxId : /\ tx' = [tx EXCEPT ![t] = Begun(t, Owner)]
                          /\ call' = [call EXCEPT ![Owner].pc = "engine", ![Owner].entry = t,
                                                  ![Owner].seg = t]
                          /\ UNCHANGED <<gate, token, undone>>
    BY <1>1 DEF BeginOwner
  <2>2. Owner \in Call
    BY DEF Call
  <2>r. call[Owner] \in CallState
    BY <1>a, <2>2
  <2>3. [call[Owner] EXCEPT !.pc = "engine", !.entry = t, !.seg = t] \in CallState
    BY Zenon, <2>r DEF CallState, PC
  <2>4. call' \in [Call -> CallState]
    BY <1>a, <2>1, <2>2, <2>3
  <2>5. tx' \in [TxId -> TxState]
    BY <1>a, <2>1, <2>2, EndedType
  <2>6. \A d \in Call : Running(d)' => call'[d].entry \in TxId /\ call'[d].seg \in TxId
    BY <1>a, <1>b, <2>1 DEF CallState
  <2> QED  BY <1>a, <2>1, <2>4, <2>5, <2>6 DEF TypeOK
<1>2. CASE Finalise
  <2>1. Owner \in Call /\ call[Owner].seg \in TxId
    BY <1>a, <1>b, <1>2 DEF Finalise, Call
  <2>2. call' \in [Call -> CallState]
    <3>1. call[Owner] \in CallState
      BY <1>a, <2>1
    <3>2. \A x \in {"ok", "error"} :
             [call[Owner] EXCEPT !.pc = "done", !.result = x] \in CallState
      BY Zenon, <3>1 DEF CallState, PC
    <3>3. [call[Owner] EXCEPT !.pc = "release"] \in CallState
      BY <3>1 DEF CallState, PC
    <3>4. \/ \E x \in {"ok", "error"} :
                call' = [call EXCEPT ![Owner].pc = "done", ![Owner].result = x]
          \/ call' = [call EXCEPT ![Owner].pc = "release"]
      BY <1>2 DEF Finalise
    <3>5. CASE call' = [call EXCEPT ![Owner].pc = "release"]
      BY Zenon, <1>a, <2>1, <3>3, <3>5
    <3>6. ASSUME NEW x \in {"ok", "error"},
                 call' = [call EXCEPT ![Owner].pc = "done", ![Owner].result = x]
          PROVE  call' \in [Call -> CallState]
      BY Zenon, <1>a, <2>1, <3>2, <3>6
    <3> QED  BY Zenon, <3>4, <3>5, <3>6
  <2>3. tx' \in [TxId -> TxState]
    BY <1>a, <1>2, <2>1, EndedType DEF Finalise
  <2>4. \A d \in Call : Running(d)' => call'[d].entry \in TxId /\ call'[d].seg \in TxId
    <3>1. /\ \A d \in Call \ {Owner} : call'[d] = call[d]
          /\ call'[Owner].entry = call[Owner].entry /\ call'[Owner].seg = call[Owner].seg
      BY <1>a, <1>2, <2>1 DEF Finalise, CallState
    <3> QED  BY Zenon, <1>b, <1>2, <3>1 DEF Finalise
  <2> QED  BY <1>a, <1>b, <1>2, <2>2, <2>3, <2>4 DEF TypeOK, Finalise
<1>3. ASSUME NEW c \in Callback, NEW p \in Call, NEW k \in 1..MaxRounds, JoinFromToken(c, p, k)
      PROVE  TypeOK'
  <2>1. c \in Call /\ <<p, k>> \in Dispatch
    BY DEF Call, Dispatch
  <2>2. token[<<p, k>>] \in TxId
    BY <1>a, <1>3, <2>1 DEF JoinFromToken
  <2>3. call' \in [Call -> CallState]
    <3>1. call[c] \in CallState
      BY <1>a, <2>1
    <3>2. \A t \in TxId : [call[c] EXCEPT !.pc = "entry", !.entry = t, !.seg = t] \in CallState
      BY Zenon, <3>1 DEF CallState, PC
    <3>3. [call[c] EXCEPT !.pc = "done", !.result = "error"] \in CallState
      BY Zenon, <3>1 DEF CallState, PC
    <3> QED  BY Zenon, <1>a, <1>3, <2>1, <2>2, <3>2, <3>3 DEF JoinFromToken
  <2>4. \A d \in Call : Running(d)' => call'[d].entry \in TxId /\ call'[d].seg \in TxId
    BY <1>a, <1>b, <1>3, <2>1, <2>2 DEF JoinFromToken, CallState
  <2> QED  BY Zenon, <1>a, <1>b, <1>3, <2>3, <2>4 DEF TypeOK, JoinFromToken
<1>4. ASSUME NEW c \in Call, NEW r \in {"ok", "failed"}, DispatchReturns(c, r)
      PROVE  TypeOK'
  <2>r. call[c] \in CallState
    BY <1>a
  <2>1. [call[c] EXCEPT !.pc = "resume", !.reply = r] \in CallState
    BY Zenon, <2>r DEF CallState, PC
  <2>2. call' \in [Call -> CallState]
    BY <1>a, <1>4, <2>1 DEF DispatchReturns
  <2>3. \A d \in Call : Running(d)' => call'[d].entry \in TxId /\ call'[d].seg \in TxId
    BY <1>a, <1>b, <1>4 DEF DispatchReturns, CallState
  <2> QED  BY <1>a, <1>4, <2>2, <2>3 DEF TypeOK, DispatchReturns
<1>5. ASSUME NEW c \in Call, Step(c)
      PROVE  TypeOK'
  <2>0. Running(c) /\ call[c].entry \in TxId /\ call[c].seg \in TxId
    BY <1>a, <1>b, <1>5 DEF Step, AcquireJoinedGate, EngineAborts, EngineSettles, SendSync,
       SendAsyncNewTx, SendCommitBeforeDispatch, SegmentCommitFails, MayDispatch,
       AfterSync, AfterAsyncNewTx, AfterCommitBeforeDispatch, ApplyResult, Release
  <2>r. call[c] \in CallState /\ tx[call[c].seg] \in TxState
    BY <1>a, <2>0
  <2>1. CASE AcquireJoinedGate(c)
    <3>1. [call[c] EXCEPT !.pc = "engine"] \in CallState
      BY <2>r DEF CallState, PC
    <3>2. call' \in [Call -> CallState]
      BY <1>a, <2>1, <3>1 DEF AcquireJoinedGate
    <3>3. gate' \in [TxId -> Call \cup {None}]
      BY <1>a, <2>0, <2>1 DEF AcquireJoinedGate
    <3>4. \A d \in Call : Running(d)' => call'[d].entry \in TxId /\ call'[d].seg \in TxId
      BY <1>a, <1>b, <2>0, <2>1 DEF AcquireJoinedGate, CallState
    <3> QED  BY <1>a, <2>1, <3>2, <3>3, <3>4 DEF TypeOK, AcquireJoinedGate
  <2>2. CASE EngineAborts(c)
    BY <2>0, <2>2, TypeEngineError DEF EngineAborts
  <2>3. CASE EngineSettles(c)
    <3>1. call' \in [Call -> CallState]
      <4>1. OpenSavepoints(call[c].entry) \in SUBSET Dispatch
        BY DEF OpenSavepoints
      <4> HIDE DEF Running
      <4>2. \A o \in SUBSET Dispatch, x \in {"ok", "error"} :
              [call[c] EXCEPT !.pc = "done", !.amid = o, !.result = x] \in CallState
        BY Zenon, <2>r DEF CallState, PC
      <4>3. \A x \in {"final", "release"} : [call[c] EXCEPT !.pc = x] \in CallState
        BY <2>r DEF CallState, PC
      <4>4. \E z \in CallState : call' = [call EXCEPT ![c] = z]
        <5>1. CASE call' = [call EXCEPT ![c].pc = "done", ![c].amid = OpenSavepoints(call[c].entry),
                              ![c].result = IF Active(call[c].entry) THEN "ok" ELSE "error"]
          BY <4>1, <4>2, <5>1
        <5>2. CASE call' = [call EXCEPT ![c].pc = "final"]
          BY <4>3, <5>2
        <5>3. CASE call' = [call EXCEPT ![c].pc = "release"]
          BY <4>3, <5>3
        <5> QED  BY Zenon, <2>3, <5>1, <5>2, <5>3 DEF EngineSettles
      <4> QED  BY Zenon, <1>a, <4>4
    <3>2. tx' \in [TxId -> TxState]
      <4>1. tx' = tx \/ tx' = Saved(call[c].entry, c)
        BY <2>3 DEF EngineSettles
      <4> QED  BY <1>a, <2>0, <4>1, EndedType
    <3>3. gate' \in [TxId -> Call \cup {None}]
      BY <1>a, <2>0, <2>3 DEF EngineSettles, GateReleased
    <3>4. \A d \in Call : Running(d)' => call'[d].entry \in TxId /\ call'[d].seg \in TxId
      <4>1. /\ \A d \in Call \ {c} : call'[d] = call[d]
            /\ call'[c].entry = call[c].entry /\ call'[c].seg = call[c].seg
        BY <1>a, <2>r, <2>3 DEF EngineSettles, CallState
      <4> QED  BY Zenon, <1>b, <2>0, <4>1
    <3> QED  BY <1>a, <1>b, <2>3, <3>1, <3>2, <3>3, <3>4 DEF TypeOK, EngineSettles
  <2>4. CASE SendSync(c)
    <3>1. <<c, call[c].rounds + 1>> \in Dispatch /\ call[c].rounds + 1 \in 0..MaxRounds
      BY <1>a, <2>4 DEF SendSync, MayDispatch, Dispatch, CallState
    <3>2. call' \in [Call -> CallState]
      BY <1>a, <2>0, <2>4, <3>1 DEF SendSync, Sent, CallState, PC, Mode
    <3>3. gate' \in [TxId -> Call \cup {None}]
      BY <1>a, <2>0, <2>4 DEF SendSync, Suspended
    <3>4. token' \in [Dispatch -> TxId \cup {None}]
      BY Zenon, <1>a, <2>0, <2>4, <3>1 DEF SendSync, Minted
    <3>5. \A d \in Call : Running(d)' => call'[d].entry \in TxId /\ call'[d].seg \in TxId
      BY <1>a, <1>b, <2>0, <2>4 DEF SendSync, Sent, CallState
    <3> QED  BY <1>a, <1>b, <2>4, <3>2, <3>3, <3>4, <3>5 DEF TypeOK, SendSync
  <2>5. CASE SendAsyncNewTx(c)
    <3>1. <<c, call[c].rounds + 1>> \in Dispatch /\ call[c].rounds + 1 \in 0..MaxRounds
      BY <1>a, <2>5 DEF SendAsyncNewTx, MayDispatch, Dispatch, CallState
    <3>2. call' \in [Call -> CallState]
      <4>1. tx[call[c].seg].buf \subseteq Call /\ call[c] \in CallState
        BY <2>r DEF TxState
      <4>2. [call[c] EXCEPT !.pc = "await", !.mode = "ASYNC_NEW_TX", !.rounds = @ + 1,
                            !.reply = "none", !.sp = tx[call[c].seg].buf] \in CallState
        BY Zenon, <3>1, <4>1 DEF CallState, PC, Mode
      <4>3. [call[c] EXCEPT !.rounds = @ + 1] \in CallState
        BY <3>1, <4>1 DEF CallState
      <4>4. CASE Active(call[c].seg)
        BY Zenon, <1>a, <2>5, <4>2, <4>4 DEF SendAsyncNewTx, Sent, Savepoint
      <4>5. CASE ~Active(call[c].seg)
        BY Zenon, <1>a, <2>5, <4>3, <4>5 DEF SendAsyncNewTx
      <4> QED  BY Zenon, <4>4, <4>5
    <3>3. gate' \in [TxId -> Call \cup {None}]
      BY <1>a, <2>0, <2>5 DEF SendAsyncNewTx, Suspended
    <3>4. token' \in [Dispatch -> TxId \cup {None}]
      BY <1>a, <2>0, <2>5, <3>1 DEF SendAsyncNewTx, Minted
    <3>5. \A d \in Call : Running(d)' => call'[d].entry \in TxId /\ call'[d].seg \in TxId
      BY <1>a, <1>b, <2>0, <2>5 DEF SendAsyncNewTx, Sent, CallState
    <3> QED  BY <1>a, <1>b, <2>5, <3>2, <3>3, <3>4, <3>5 DEF TypeOK, SendAsyncNewTx
  <2>6. CASE SendCommitBeforeDispatch(c)
    <3>1. <<c, call[c].rounds + 1>> \in Dispatch /\ call[c].rounds + 1 \in 0..MaxRounds
      BY <1>a, <2>6 DEF SendCommitBeforeDispatch, MayDispatch, Dispatch, CallState
    <3>2. call' \in [Call -> CallState]
      <4>1. PICK m \in {"CBD", "CBD_NEW"}, t \in TxId :
              call' = [Sent(c, m) EXCEPT ![c].seg = IF m = "CBD" THEN @ ELSE t,
                                         ![c].amid = OpenSavepoints(call[c].seg)]
        BY <2>6 DEF SendCommitBeforeDispatch
      <4>2. OpenSavepoints(call[c].seg) \in SUBSET Dispatch
        BY DEF OpenSavepoints
      <4>3. [call[c] EXCEPT !.pc = "await", !.mode = m, !.rounds = @ + 1, !.reply = "none",
                            !.seg = IF m = "CBD" THEN @ ELSE t,
                            !.amid = OpenSavepoints(call[c].seg)] \in CallState
        BY Zenon, <2>r, <2>0, <3>1, <4>2 DEF CallState, PC, Mode
      <4> QED  BY <1>a, <4>1, <4>3 DEF Sent
    <3>3. tx' \in [TxId -> TxState]
      BY <1>a, <2>0, <2>6, EndedType DEF SendCommitBeforeDispatch
    <3>4. token' \in [Dispatch -> TxId \cup {None}]
      BY Zenon, <1>a, <2>0, <2>6, <3>1 DEF SendCommitBeforeDispatch, Minted
    <3>5. \A d \in Call : Running(d)' => call'[d].entry \in TxId /\ call'[d].seg \in TxId
      BY <1>a, <1>b, <2>0, <2>6 DEF SendCommitBeforeDispatch, Sent, CallState
    <3> QED  BY <1>a, <1>b, <2>6, <3>2, <3>3, <3>4, <3>5 DEF TypeOK, SendCommitBeforeDispatch
  <2>7. CASE SegmentCommitFails(c)
    <3>1. CASE EngineError(c)
      BY <2>0, <2>7, <3>1, TypeEngineError DEF SegmentCommitFails
    <3>2. CASE ~EngineError(c)
      <4>1. /\ tx' = Ended(call[c].seg, c, "rolledBack") \/ tx' = Saved(call[c].seg, c)
            /\ gate' = GateReleased(c)
            /\ \/ call' = ErrorReturn(c)
               \/ call' = [ErrorReturn(c) EXCEPT ![c].amid = OpenSavepoints(call[c].seg)]
            /\ UNCHANGED <<token, undone>>
        BY Zenon, <1>a, <2>7, <3>2 DEF SegmentCommitFails
      <4>2. call' \in [Call -> CallState]
        <5>1. \A p \in PC, x \in {"none", "ok", "error"} :
                [call[c] EXCEPT !.seg = call[c].entry, !.pc = p, !.result = x] \in CallState
          BY Zenon, <2>0, <2>r DEF CallState
        <5>2. call[c].result \in {"none", "ok", "error"} /\ {"done", "release"} \subseteq PC
          BY <2>r DEF CallState, PC
        <5>3. ErrorReturn(c) \in [Call -> CallState]
          BY Zenon, <1>a, <5>1, <5>2 DEF ErrorReturn
        <5>4. OpenSavepoints(call[c].seg) \in SUBSET Dispatch
          BY DEF OpenSavepoints
        <5>5. [ErrorReturn(c)[c] EXCEPT !.amid = OpenSavepoints(call[c].seg)] \in CallState
          BY <5>3, <5>4 DEF CallState
        <5> QED  BY Zenon, <4>1, <5>3, <5>5
      <4>3. tx' \in [TxId -> TxState]
        BY <1>a, <2>0, <4>1, EndedType
      <4>4. gate' \in [TxId -> Call \cup {None}]
        BY <1>a, <2>0, <4>1 DEF GateReleased
      <4>5. \A d \in Call : Running(d)' => call'[d].entry \in TxId /\ call'[d].seg \in TxId
        <5>1. /\ \A d \in Call \ {c} : call'[d] = call[d]
              /\ call'[c].entry = call[c].entry /\ call'[c].seg = call[c].entry
          BY <1>a, <2>r, <4>1 DEF ErrorReturn, CallState
        <5> QED  BY Zenon, <1>b, <2>0, <5>1
      <4> QED  BY Zenon, <1>a, <4>1, <4>2, <4>3, <4>4, <4>5 DEF TypeOK
    <3> QED  BY <3>1, <3>2
  <2>8. CASE AfterSync(c)
    <3>1. CASE EngineError(c)
      BY <2>0, <2>8, <3>1, TypeEngineError DEF AfterSync
    <3>2. CASE ~EngineError(c)
      <4>1. /\ gate' = Resumed(c) /\ call' = [call EXCEPT ![c].pc = "engine"]
            /\ UNCHANGED <<tx, token, undone>>
        BY <2>8, <3>2 DEF AfterSync
      <4>2. [call[c] EXCEPT !.pc = "engine"] \in CallState
        BY <2>r DEF CallState, PC
      <4>3. call' \in [Call -> CallState]
        BY <1>a, <4>1, <4>2
      <4>4. gate' \in [TxId -> Call \cup {None}]
        BY <1>a, <2>0, <4>1 DEF Resumed
      <4>5. \A d \in Call : Running(d)' => call'[d].entry \in TxId /\ call'[d].seg \in TxId
        BY <1>a, <1>b, <2>0, <4>1 DEF CallState
      <4> QED  BY <1>a, <4>1, <4>3, <4>4, <4>5 DEF TypeOK
    <3> QED  BY <3>1, <3>2
  <2>9. CASE AfterAsyncNewTx(c)
    <3>1. call' \in [Call -> CallState]
      <4>1. [call[c] EXCEPT !.pc = "engine", !.sp = {}] \in CallState
        BY Zenon, <2>r DEF CallState, PC
      <4> QED  BY <1>a, <2>9, <4>1 DEF AfterAsyncNewTx
    <3>2. tx' \in [TxId -> TxState]
      <4>1. [tx[call[c].seg] EXCEPT !.buf = call[c].sp] \in TxState
        BY <2>r DEF CallState, TxState
      <4> QED  BY <1>a, <2>9, <4>1 DEF AfterAsyncNewTx, RestoredTo
    <3>3. gate' \in [TxId -> Call \cup {None}]
      BY <1>a, <2>0, <2>9 DEF AfterAsyncNewTx, Resumed
    <3>4. \A d \in Call : Running(d)' => call'[d].entry \in TxId /\ call'[d].seg \in TxId
      BY <1>a, <1>b, <2>0, <2>9 DEF AfterAsyncNewTx, CallState
    <3>5. undone' \subseteq Undo
      <4>1. <<c, call[c].rounds>> \in Call \X (0..MaxRounds) /\ call[c].sp \in SUBSET Call
        BY <2>r DEF CallState
      <4>2. [by |-> <<c, call[c].rounds>>, in |-> call[c].seg, sp |-> call[c].sp] \in Undo
        BY <2>0, <4>1 DEF Undo
      <4> QED  BY <1>a, <2>9, <4>2 DEF AfterAsyncNewTx
    <3> QED  BY <1>a, <1>b, <2>9, <3>1, <3>2, <3>3, <3>4, <3>5 DEF TypeOK, AfterAsyncNewTx
  <2>10. CASE AfterCommitBeforeDispatch(c)
    <3>1. CASE EngineError(c)
      BY <2>0, <2>10, <3>1, TypeEngineError DEF AfterCommitBeforeDispatch
    <3>2. CASE ~EngineError(c)
      <4>1. call' \in [Call -> CallState]
        <5>1. \/ call' = [call EXCEPT ![c].pc = "apply"]
              \/ \E t \in TxId : call' = [call EXCEPT ![c].pc = "apply", ![c].seg = t]
          BY <2>10, <3>2 DEF AfterCommitBeforeDispatch
        <5>2. /\ [call[c] EXCEPT !.pc = "apply"] \in CallState
              /\ \A t \in TxId : [call[c] EXCEPT !.pc = "apply", !.seg = t] \in CallState
          BY <2>r DEF CallState, PC
        <5>3. CASE call' = [call EXCEPT ![c].pc = "apply"]
          BY Zenon, <1>a, <5>2, <5>3
        <5>4. ASSUME NEW t \in TxId, call' = [call EXCEPT ![c].pc = "apply", ![c].seg = t]
              PROVE  call' \in [Call -> CallState]
          BY Zenon, <1>a, <5>2, <5>4
        <5> QED  BY Zenon, <5>1, <5>3, <5>4
      <4>2. tx' \in [TxId -> TxState]
        <5>1. tx' = tx \/ \E t \in TxId : tx' = [tx EXCEPT ![t] = Begun(t, c)]
          BY <2>10, <3>2 DEF AfterCommitBeforeDispatch
        <5>2. \A t \in TxId : Begun(t, c) \in TxState
          BY DEF Begun, TxState
        <5> QED  BY <1>a, <5>1, <5>2
      <4>3. \A d \in Call : Running(d)' => call'[d].entry \in TxId /\ call'[d].seg \in TxId
        BY <1>a, <1>b, <2>0, <2>10, <3>2 DEF AfterCommitBeforeDispatch, CallState
      <4> QED  BY <1>a, <1>b, <2>10, <3>2, <4>1, <4>2, <4>3 DEF TypeOK, AfterCommitBeforeDispatch
    <3> QED  BY <3>1, <3>2
  <2>11. CASE ApplyResult(c)
    <3>1. CASE EngineError(c)
      BY <2>0, <2>11, <3>1, TypeEngineError DEF ApplyResult
    <3>2. CASE ~EngineError(c)
      <4>1. call' \in [Call -> CallState]
        <5>1. [call[c] EXCEPT !.pc = "engine"] \in CallState
          BY <2>r DEF CallState, PC
        <5> QED  BY <1>a, <2>11, <3>2, <5>1 DEF ApplyResult
      <4>2. tx' \in [TxId -> TxState]
        BY <1>a, <2>0, <2>11, <3>2, EndedType DEF ApplyResult
      <4>3. \A d \in Call : Running(d)' => call'[d].entry \in TxId /\ call'[d].seg \in TxId
        BY <1>a, <1>b, <2>0, <2>11, <3>2 DEF ApplyResult, CallState
      <4> QED  BY <1>a, <1>b, <2>11, <3>2, <4>1, <4>2, <4>3 DEF TypeOK, ApplyResult
    <3> QED  BY <3>1, <3>2
  <2>12. CASE Release(c)
    <3>1. call' \in [Call -> CallState]
      <4>1. [call[c] EXCEPT !.pc = "done", !.result = "error"] \in CallState
        BY Zenon, <2>r DEF CallState, PC
      <4> QED  BY <1>a, <2>12, <4>1 DEF Release
    <3>2. tx' \in [TxId -> TxState]
      BY <1>a, <2>0, <2>12, EndedType DEF Release
    <3> QED  BY <1>a, <1>b, <2>0, <2>12, <3>1, <3>2 DEF TypeOK, Release, CallState
  <2> QED  BY <1>5, <2>1, <2>2, <2>3, <2>4, <2>5, <2>6, <2>7, <2>8, <2>9, <2>10,
              <2>11, <2>12 DEF Step
<1> QED  BY <1>0, <1>1, <1>2, <1>3, <1>4, <1>5 DEF Next


-----------------------------------------------------------------------------
(* The gate. *)

(* A step of c that leaves the gates alone, and c's claim on its own. *)
LEMMA GateKept ==
  ASSUME TypeOK, GateInv, NEW c \in Call, \A d \in Call \ {c} : call'[d] = call[d],
         gate' = gate, HoldsGate(c)' <=> HoldsGate(c),
         HoldsGate(c) => call'[c].entry = call[c].entry
  PROVE  GateInv'
<1>1. \A d \in Call \ {c} : HoldsGate(d)' <=> HoldsGate(d)
  BY DEF HoldsGate, Joined
<1> QED  BY <1>1 DEF GateInv

(* A step in which the joined call c gives back the gate it holds, or gives up waiting. *)
LEMMA GateDropped ==
  ASSUME TypeOK, GateInv, NEW c \in Call, \A d \in Call \ {c} : call'[d] = call[d],
         call[c].entry \in TxId, gate[call[c].entry] \in {None, c},
         gate' = [gate EXCEPT ![call[c].entry] = None], ~HoldsGate(c)'
  PROVE  GateInv'
<1>0. None \notin Call /\ gate \in [TxId -> Call \cup {None}]
  BY ConstantsOK DEF TypeOK
<1>1. \A d \in Call \ {c} : HoldsGate(d)' <=> HoldsGate(d)
  BY DEF HoldsGate, Joined
<1>2. \A t \in TxId, d \in Call : gate'[t] = d => gate[t] = d /\ d # c
  BY <1>0 DEF GateInv
<1>3. \A d \in Call \ {c} : HoldsGate(d) => call[d].entry # call[c].entry
  BY <1>0 DEF GateInv
<1>4. \A d \in Call \ {c} : HoldsGate(d) => call[d].entry \in TxId
  BY DEF HoldsGate, TypeOK, Running
<1>5. \A t \in TxId, d \in Call : gate'[t] = d => HoldsGate(d)' /\ call'[d].entry = t
  BY <1>1, <1>2 DEF GateInv
<1>6. \A d \in Call : HoldsGate(d)' => gate'[call'[d].entry] = d
  BY <1>0, <1>1, <1>3, <1>4 DEF GateInv
<1> QED  BY <1>5, <1>6 DEF GateInv

(* A step in which the joined call c takes the free gate of its transaction. *)
LEMMA GateTaken ==
  ASSUME TypeOK, GateInv, NEW c \in Call, \A d \in Call \ {c} : call'[d] = call[d],
         call[c].entry \in TxId, Free(call[c].entry), call'[c].entry = call[c].entry,
         gate' = [gate EXCEPT ![call[c].entry] = c], HoldsGate(c)', ~HoldsGate(c)
  PROVE  GateInv'
<1>0. None \notin Call /\ gate \in [TxId -> Call \cup {None}]
  BY ConstantsOK DEF TypeOK
<1>1. \A d \in Call \ {c} : HoldsGate(d)' <=> HoldsGate(d)
  BY DEF HoldsGate, Joined
<1>2. \A t \in TxId, d \in Call : t # call[c].entry /\ gate'[t] = d => gate[t] = d /\ d # c
  BY <1>0 DEF GateInv
<1>3. \A d \in Call \ {c} : HoldsGate(d) => call[d].entry # call[c].entry
  BY <1>0 DEF GateInv, Free
<1>4. \A d \in Call \ {c} : HoldsGate(d) => call[d].entry \in TxId
  BY DEF HoldsGate, TypeOK, Running
<1>5. \A t \in TxId, d \in Call : gate'[t] = d => HoldsGate(d)' /\ call'[d].entry = t
  <2> SUFFICES ASSUME NEW t \in TxId, NEW d \in Call, gate'[t] = d
               PROVE  HoldsGate(d)' /\ call'[d].entry = t
    OBVIOUS
  <2>1. CASE t = call[c].entry
    BY Zenon, <1>0, <2>1
  <2>2. CASE t # call[c].entry
    BY <1>1, <1>2, <2>2 DEF GateInv
  <2> QED  BY <2>1, <2>2
<1>6. \A d \in Call : HoldsGate(d)' => gate'[call'[d].entry] = d
  BY <1>0, <1>1, <1>3, <1>4 DEF GateInv
<1> QED  BY <1>5, <1>6 DEF GateInv

-----------------------------------------------------------------------------
(* The transactions. *)

(* What a step of c may do to the transactions: leave one, end an open     *)
(* one, or begin one as its own segment.                                   *)
TxSame(t) == tx'[t].status = tx[t].status /\ tx'[t].begunBy = tx[t].begunBy
TxEnds(t) ==
    /\ tx[t].status = "open" /\ tx'[t].status \in {"committed", "rolledBack"}
    /\ tx'[t].begunBy = tx[t].begunBy
TxBegins(t, c) ==
    /\ tx[t].status = "none" /\ tx'[t].status = "open" /\ tx'[t].begunBy = c
    /\ Running(c)' /\ call'[c].seg = t

(* Such a step keeps the transaction invariants, if c ends what it leaves. *)
LEMMA TxStep ==
  ASSUME TypeOK, OpenInv, EntryInv, CommittedFirst,
         NEW c \in Call, \A d \in Call \ {c} : call'[d] = call[d],
         \A t \in TxId : TxSame(t) \/ TxEnds(t) \/ TxBegins(t, c),
         \A t \in TxId : TxSame(t) /\ tx[t].status = "open" /\ tx[t].begunBy = c
                           => Running(c)' /\ call'[c].seg = t,
         c \in Callback /\ Running(c)' =>
            /\ call'[c].entry \in TxId
            /\ tx[call'[c].entry].begunBy # c /\ tx[call'[c].entry].status # "none",
         call'[c].pc \in {"await", "resume"} /\ call'[c].mode = "CBD" =>
            tx'[call'[c].seg].status \in {"committed", "rolledBack"}
  PROVE  OpenInv' /\ EntryInv' /\ CommittedFirst'
<1>1. OpenInv'
  <2> SUFFICES ASSUME NEW t \in TxId, tx'[t].status = "open"
               PROVE  \E d \in Call : tx'[t].begunBy = d /\ Running(d)' /\ call'[d].seg = t
    BY Zenon DEF OpenInv
  <2>1. CASE TxBegins(t, c)
    BY Zenon, <2>1 DEF TxBegins
  <2>2. CASE TxSame(t)
    <3>1. PICK d \in Call : tx[t].begunBy = d /\ Running(d) /\ call[d].seg = t
      BY Zenon, <2>2 DEF TxSame, OpenInv
    <3>2. CASE d = c
      BY Zenon, <2>2, <3>1, <3>2 DEF TxSame
    <3>3. CASE d # c
      BY Zenon, <2>2, <3>1, <3>3 DEF TxSame, Running
    <3> QED  BY Zenon, <3>2, <3>3
  <2> QED  BY Zenon, <2>1, <2>2 DEF TxEnds
<1>2. EntryInv'
  <2> SUFFICES ASSUME NEW d \in Callback, Running(d)'
               PROVE  tx'[call'[d].entry].begunBy # d /\ tx'[call'[d].entry].status # "none"
    BY Zenon DEF EntryInv
  <2>1. /\ call'[d].entry \in TxId
        /\ tx[call'[d].entry].begunBy # d /\ tx[call'[d].entry].status # "none"
    <3>1. CASE d = c
      BY Zenon, <3>1
    <3>2. CASE d # c
      <4>1. d \in Call
        BY Zenon DEF Call
      <4> QED  BY Zenon, <3>2, <4>1 DEF EntryInv, TypeOK, Running
    <3> QED  BY Zenon, <3>1, <3>2
  <2> QED  BY Zenon, <2>1 DEF TxSame, TxEnds, TxBegins
<1>3. CommittedFirst'
  <2> SUFFICES ASSUME NEW d \in Call, call'[d].pc \in {"await", "resume"}, call'[d].mode = "CBD"
               PROVE  tx'[call'[d].seg].status \in {"committed", "rolledBack"}
    BY Zenon DEF CommittedFirst
  <2>1. CASE d = c
    BY Zenon, <2>1
  <2>2. CASE d # c
    <3>1. call[d].seg \in TxId /\ tx[call[d].seg].status \in {"committed", "rolledBack"}
      BY Zenon, <2>2 DEF CommittedFirst, TypeOK, Running
    <3> QED  BY Zenon, <2>2, <3>1 DEF TxSame, TxEnds, TxBegins
  <2> QED  BY Zenon, <2>1, <2>2
<1> QED  BY Zenon, <1>1, <1>2, <1>3


-----------------------------------------------------------------------------
(* One lemma per kind of step. *)

Kept == GateInv' /\ OpenInv' /\ EntryInv' /\ CommittedFirst'

(* The error return of c. *)
Returned(c) ==
    /\ \A d \in Call \ {c} : call'[d] = call[d]
    /\ call'[c].seg = call[c].entry /\ call'[c].entry = call[c].entry
    /\ call'[c].pc = IF Joined(c) THEN "done" ELSE "release"

LEMMA ErrorReturns ==
  ASSUME TypeOK, NEW c \in Call, NEW o,
         call' = ErrorReturn(c) \/ call' = [ErrorReturn(c) EXCEPT ![c].amid = o]
  PROVE  Returned(c)
<1>1. call \in [Call -> CallState]
  BY DEF TypeOK
<1>2. CASE call' = ErrorReturn(c)
  BY <1>1, <1>2 DEF ErrorReturn, CallState, Returned
<1>3. CASE call' = [ErrorReturn(c) EXCEPT ![c].amid = o]
  BY <1>1, <1>3 DEF ErrorReturn, CallState, Returned
<1> QED  BY <1>2, <1>3

(* The engine's error return keeps the invariants when c holds its gate or the gate is free. *)
LEMMA ErrorKeeps ==
  ASSUME ReleaseInv, NEW c \in Call, Running(c),
         Joined(c) => gate[call[c].entry] \in {None, c},
         gate' = GateReleased(c), Returned(c),
         \/ tx' = SegmentRolledBack(c)
         \/ Active(call[c].seg) /\ tx' = Ended(call[c].seg, c, "rolledBack")
         \/ call[c].seg = call[c].entry /\ tx' = Saved(call[c].seg, c)
  PROVE  Kept
<1> DEFINE e == call[c].entry
           s == call[c].seg
<1>0. /\ TypeOK /\ GateInv /\ OpenInv /\ EntryInv /\ CommittedFirst
      /\ e \in TxId /\ s \in TxId /\ c \in Call /\ None \notin TxId
      /\ call \in [Call -> CallState] /\ tx \in [TxId -> TxState]
  BY ConstantsOK DEF ReleaseInv, TypeOK, TxId
<1>1. /\ \A d \in Call \ {c} : call'[d] = call[d]
      /\ call'[c].seg = e /\ call'[c].entry = e
      /\ call'[c].pc = IF Joined(c) THEN "done" ELSE "release"
  BY <1>0 DEF Returned
<1>2. ~HoldsGate(c)'
  BY Zenon, <1>1 DEF HoldsGate, Joined
<1>3. GateInv'
  <2>1. CASE Joined(c)
    BY Zenon, <1>0, <1>1, <1>2, <2>1, GateDropped DEF GateReleased
  <2>2. CASE ~Joined(c)
    <3>1. ~HoldsGate(c) /\ gate' = gate
      BY <2>2 DEF HoldsGate, GateReleased
    <3> QED  BY <1>0, <1>1, <1>2, <3>1, GateKept
  <2> QED  BY Zenon, <2>1, <2>2
<1>4. \A t \in TxId : TxSame(t) \/ TxEnds(t) \/ TxBegins(t, c)
  BY <1>0 DEF SegmentRolledBack, RolledBack, Ended, Saved, Active, TxSame, TxEnds, TxState
<1>5. \A t \in TxId : TxSame(t) /\ tx[t].status = "open" /\ tx[t].begunBy = c
                        => Running(c)' /\ call'[c].seg = t
  <2> SUFFICES ASSUME NEW t \in TxId, TxSame(t), tx[t].status = "open", tx[t].begunBy = c
               PROVE  Running(c)' /\ call'[c].seg = t
    OBVIOUS
  <2>1. s = t
    BY <1>0 DEF OpenInv
  <2>2. s = e
    BY <1>0, <2>1 DEF SegmentRolledBack, RolledBack, Ended, Saved, Active, TxSame, TxState
  <2>3. ~Joined(c)
    BY <1>0, <2>1, <2>2 DEF EntryInv, Joined, Call
  <2> QED  BY <1>1, <2>1, <2>2, <2>3 DEF Running
<1>6. c \in Callback => ~Running(c)'
  BY Zenon, <1>1, ConstantsOK DEF Running, Joined
<1>7. call'[c].pc \notin {"await", "resume"}
  BY Zenon, <1>1
<1>8. OpenInv' /\ EntryInv' /\ CommittedFirst'
  BY Zenon, <1>0, <1>1, <1>4, <1>5, <1>6, <1>7, TxStep
<1> QED  BY Zenon, <1>3, <1>8 DEF Kept

(* A step that leaves every transaction as it is, and c on its segment. *)
LEMMA QuietKeeps ==
  ASSUME ReleaseInv, NEW c \in Call, Running(c), \A d \in Call \ {c} : call'[d] = call[d],
         GateInv', \A t \in TxId : TxSame(t),
         Running(c)', call'[c].entry = call[c].entry, call'[c].seg = call[c].seg,
         call'[c].pc \in {"await", "resume"} /\ call'[c].mode = "CBD" =>
            call[c].pc \in {"await", "resume"} /\ call[c].mode = "CBD"
  PROVE  Kept
<1>0. /\ TypeOK /\ OpenInv /\ EntryInv /\ CommittedFirst
      /\ call[c].entry \in TxId /\ call[c].seg \in TxId
  BY DEF ReleaseInv, TypeOK
<1>1. \A t \in TxId : tx[t].status = "open" /\ tx[t].begunBy = c => call'[c].seg = t
  BY <1>0 DEF OpenInv
<1>2. c \in Callback => tx[call'[c].entry].begunBy # c /\ tx[call'[c].entry].status # "none"
  BY Zenon, <1>0 DEF EntryInv
<1>3. call'[c].pc \in {"await", "resume"} /\ call'[c].mode = "CBD" =>
         tx'[call'[c].seg].status \in {"committed", "rolledBack"}
  BY Zenon, <1>0 DEF CommittedFirst, TxSame
<1>4. OpenInv' /\ EntryInv' /\ CommittedFirst'
  BY <1>0, <1>1, <1>2, <1>3, TxStep
<1> QED  BY Zenon, <1>4 DEF Kept


(* Initially nothing is open and no gate is held. *)
LEMMA ReleaseInit == Init => ReleaseInv
<1> SUFFICES ASSUME Init PROVE ReleaseInv
  BY Zenon
<1>1. \A c \in Call : call[c].pc = "idle"
  BY Zenon DEF Init
<1>2. \A t \in TxId : tx[t].status = "none" /\ gate[t] = None
  BY Zenon DEF Init
<1>3. GateInv /\ OpenInv /\ EntryInv /\ CommittedFirst
  BY <1>1, <1>2, ConstantsOK DEF GateInv, HoldsGate, OpenInv, EntryInv, CommittedFirst, Running, Call
<1> QED  BY <1>3, TypeInit DEF ReleaseInv

(* The calls entering: the owner begins, a callback joins or is turned away. *)
LEMMA EnterKeeps ==
  ASSUME ReleaseInv
  PROVE  /\ BeginOwner => Kept
         /\ \A c \in Callback, p \in Call, k \in 1..MaxRounds : JoinFromToken(c, p, k) => Kept
<1>0. /\ TypeOK /\ GateInv /\ OpenInv /\ EntryInv /\ CommittedFirst
      /\ call \in [Call -> CallState] /\ tx \in [TxId -> TxState]
      /\ None \notin TxId /\ Owner \in Call /\ Callback \subseteq Call /\ Owner \notin Callback
  BY ConstantsOK DEF ReleaseInv, TypeOK, TxId, Call
<1>1. ASSUME BeginOwner PROVE Kept
  <2>1. PICK t \in TxId : /\ Fresh(t) /\ tx' = [tx EXCEPT ![t] = Begun(t, Owner)]
                          /\ call' = [call EXCEPT ![Owner].pc = "engine", ![Owner].entry = t,
                                                  ![Owner].seg = t]
                          /\ gate' = gate /\ call[Owner].pc = "idle"
    BY <1>1 DEF BeginOwner
  <2>2. /\ \A d \in Call \ {Owner} : call'[d] = call[d]
        /\ call'[Owner].pc = "engine" /\ call'[Owner].seg = t
    BY <1>0, <2>1 DEF CallState
  <2>3. ~HoldsGate(Owner) /\ ~HoldsGate(Owner)'
    BY DEF HoldsGate, Joined
  <2>4. GateInv'
    BY <1>0, <2>1, <2>2, <2>3, GateKept
  <2>5. tx[t].status = "none"
    BY <2>1 DEF Fresh, TxId
  <2>6. \A u \in TxId : TxSame(u) \/ TxEnds(u) \/ TxBegins(u, Owner)
    BY <1>0, <2>1, <2>2, <2>5 DEF TxSame, TxBegins, Begun, Running
  <2>7. \A u \in TxId : ~(tx[u].status = "open" /\ tx[u].begunBy = Owner)
    BY <2>1 DEF OpenInv, Running, ReleaseInv
  <2>8. OpenInv' /\ EntryInv' /\ CommittedFirst'
    BY <1>0, <2>2, <2>6, <2>7, TxStep
  <2> QED  BY Zenon, <2>4, <2>8 DEF Kept
<1>2. ASSUME NEW c \in Callback, NEW p \in Call, NEW k \in 1..MaxRounds, JoinFromToken(c, p, k)
      PROVE  Kept
  <2> DEFINE t == token[<<p, k>>]
  <2>0. c \in Call /\ call[c].pc = "idle" /\ gate' = gate /\ tx' = tx /\ t # None
    BY <1>0, <1>2 DEF JoinFromToken
  <2>1. t \in TxId
    <3>1. <<p, k>> \in Dispatch
      BY Zenon DEF Dispatch
    <3> QED  BY <2>0, <3>1 DEF ReleaseInv, TypeOK
  <2>2. /\ \A d \in Call \ {c} : call'[d] = call[d]
        /\ call'[c].pc \in {"entry", "done"}
        /\ call'[c].pc = "entry" => call'[c].entry = t /\ tx[t].status = "open"
    BY <1>0, <1>2, <2>0, <2>1 DEF JoinFromToken, CallState, Active
  <2>3. ~HoldsGate(c) /\ ~HoldsGate(c)'
    BY Zenon, <2>0, <2>2 DEF HoldsGate
  <2>4. GateInv'
    BY Zenon, <1>0, <2>0, <2>2, <2>3, GateKept
  <2>5. \A u \in TxId : ~(tx[u].status = "open" /\ tx[u].begunBy = c)
    BY <1>0, <2>0 DEF OpenInv, Running
  <2>6. \A u \in TxId : TxSame(u)
    BY Zenon, <2>0 DEF TxSame
  <2>7. Running(c)' => /\ call'[c].entry \in TxId
                       /\ tx[call'[c].entry].begunBy # c /\ tx[call'[c].entry].status # "none"
    BY Zenon, <2>1, <2>2, <2>5 DEF Running
  <2>8. OpenInv' /\ EntryInv' /\ CommittedFirst'
    BY Zenon, <1>0, <2>0, <2>2, <2>5, <2>6, <2>7, TxStep
  <2> QED  BY <2>4, <2>8 DEF Kept
<1> QED  BY Zenon, <1>1, <1>2


(* Every step of a call under way keeps the invariants. *)
LEMMA StepKeeps ==
  ASSUME ReleaseInv, NEW c \in Call, Step(c)
  PROVE  Kept
<1> DEFINE e == call[c].entry
           s == call[c].seg
<1>0. Running(c)
  BY Zenon DEF Step, AcquireJoinedGate, EngineAborts, EngineSettles, SendSync, Running,
     SendAsyncNewTx, SendCommitBeforeDispatch, SegmentCommitFails, MayDispatch,
     AfterSync, AfterAsyncNewTx, AfterCommitBeforeDispatch, ApplyResult, Release
<1>t. /\ TypeOK /\ GateInv /\ OpenInv /\ EntryInv /\ CommittedFirst
      /\ e \in TxId /\ s \in TxId /\ None \notin TxId /\ None \notin Call
      /\ call \in [Call -> CallState] /\ tx \in [TxId -> TxState]
      /\ gate \in [TxId -> Call \cup {None}]
  BY <1>0, ConstantsOK DEF ReleaseInv, TypeOK, TxId
<1>h. HoldsGate(c) => gate[e] = c
  BY Zenon, <1>t DEF GateInv
<1>own. \A t \in TxId : tx[t].status = "open" /\ tx[t].begunBy = c => s = t
  BY Zenon, <1>t DEF OpenInv
<1>ent. c \in Callback => tx[e].begunBy # c /\ tx[e].status # "none"
  BY <1>0, <1>t DEF EntryInv
<1>j. Joined(c) <=> c \in Callback
  BY Zenon, ConstantsOK DEF Joined, Call
<1>1. CASE AcquireJoinedGate(c)
  <2>1. /\ \A d \in Call \ {c} : call'[d] = call[d]
        /\ call'[c].pc = "engine" /\ call'[c].entry = e /\ call'[c].seg = s
    BY <1>t, <1>1 DEF AcquireJoinedGate, CallState
  <2>2. HoldsGate(c)' /\ ~HoldsGate(c)
    BY <1>1, <2>1 DEF HoldsGate, Joined, AcquireJoinedGate
  <2>3. GateInv'
    BY Zenon, <1>t, <1>1, <2>1, <2>2, GateTaken DEF AcquireJoinedGate
  <2>4. \A t \in TxId : TxSame(t)
    BY <1>1 DEF AcquireJoinedGate, TxSame
  <2> QED  BY <1>0, <2>1, <2>3, <2>4, QuietKeeps DEF Running
<1>2. CASE EngineAborts(c)
  <2>1. Joined(c) => gate[e] \in {None, c}
    BY <1>h, <1>2 DEF EngineAborts, HoldsGate
  <2>2. Returned(c)
    BY Zenon, <1>t, <1>2, ErrorReturns DEF EngineAborts, EngineError
  <2> QED  BY Zenon, <1>0, <1>2, <2>1, <2>2, ErrorKeeps DEF EngineAborts, EngineError
<1>3. CASE EngineSettles(c)
  <2>0. /\ \A d \in Call \ {c} : call'[d] = call[d]
        /\ call'[c].entry = e /\ call'[c].seg = s
        /\ call'[c].pc = IF ~Joined(c) THEN "final" ELSE IF s # e THEN "release" ELSE "done"
    BY <1>t, <1>3 DEF EngineSettles, CallState
  <2>1. ~HoldsGate(c)' /\ (Joined(c) => gate[e] = c)
    BY <1>h, <1>3, <2>0 DEF HoldsGate, Joined, EngineSettles
  <2>2. GateInv'
    <3>1. CASE Joined(c)
      BY <1>t, <1>3, <2>0, <2>1, <3>1, GateDropped DEF EngineSettles, GateReleased
    <3>2. CASE ~Joined(c)
      <4>1. ~HoldsGate(c) /\ gate' = gate
        BY Zenon, <1>3, <3>2 DEF EngineSettles, HoldsGate
      <4> QED  BY <1>t, <2>0, <2>1, <4>1, GateKept
    <3> QED  BY <3>1, <3>2
  <2>3. \A t \in TxId : TxSame(t)
    BY <1>t, <1>3 DEF EngineSettles, Saved, TxSame, TxState
  <2>4. CASE Joined(c) /\ s = e
    <3>1. ~Running(c)' /\ call'[c].pc \notin {"await", "resume"}
      BY Zenon, <2>0, <2>4 DEF Running
    <3>2. \A t \in TxId : ~(tx[t].status = "open" /\ tx[t].begunBy = c)
      BY Zenon, <1>own, <1>ent, <1>j, <2>4
    <3>3. OpenInv' /\ EntryInv' /\ CommittedFirst'
      BY Zenon, <1>t, <2>0, <2>3, <3>1, <3>2, TxStep
    <3> QED  BY Zenon, <2>2, <3>3 DEF Kept
  <2>5. CASE ~(Joined(c) /\ s = e)
    BY Zenon, <1>0, <2>0, <2>2, <2>3, <2>5, QuietKeeps DEF Running
  <2> QED  BY <2>4, <2>5
<1>4. CASE SendSync(c) \/ SendAsyncNewTx(c)
  <2>0. /\ \A d \in Call \ {c} : call'[d] = call[d]
        /\ call'[c].entry = e /\ call'[c].seg = s
        /\ \/ /\ call'[c].pc = "await" /\ call'[c].mode \in {"SYNC", "ASYNC_NEW_TX"}
              /\ gate' = Suspended(c)
           \/ call'[c].pc = "engine" /\ gate' = gate
        /\ call[c].pc = "engine" /\ tx' = tx
    BY <1>t, <1>4 DEF SendSync, SendAsyncNewTx, Sent, MayDispatch, CallState
  <2>1. (HoldsGate(c) <=> Joined(c)) /\ (HoldsGate(c)' <=> Joined(c) /\ call'[c].pc = "engine")
    BY Zenon, <2>0 DEF HoldsGate, Joined
  <2>2. GateInv'
    <3>1. CASE Joined(c) /\ call'[c].pc = "await"
      BY Zenon, <1>t, <1>h, <2>0, <2>1, <3>1, GateDropped DEF Suspended
    <3>2. CASE ~(Joined(c) /\ call'[c].pc = "await")
      <4>1. gate' = gate
        BY Zenon, <2>0, <3>2 DEF Suspended
      <4> QED  BY Zenon, <1>t, <2>0, <2>1, <3>2, <4>1, GateKept
    <3> QED  BY Zenon, <3>1, <3>2
  <2>3. \A t \in TxId : TxSame(t)
    BY <2>0 DEF TxSame
  <2> QED  BY Zenon, <1>0, <2>0, <2>2, <2>3, QuietKeeps DEF Running
<1>5. CASE SendCommitBeforeDispatch(c)
  <2>0. PICK m \in {"CBD", "CBD_NEW"}, t \in TxId :
          /\ call[c].pc = "engine" /\ Active(s) /\ Fresh(t) /\ gate' = gate
          /\ tx' = IF m = "CBD" THEN SavedAndCommitted(s, c)
                     ELSE [SavedAndCommitted(s, c) EXCEPT ![t] = Begun(t, c)]
          /\ call' = [Sent(c, m) EXCEPT ![c].seg = IF m = "CBD" THEN @ ELSE t,
                                        ![c].amid = OpenSavepoints(s)]
    BY Zenon, <1>5 DEF SendCommitBeforeDispatch, MayDispatch
  <2>1. /\ \A d \in Call \ {c} : call'[d] = call[d]
        /\ call'[c].entry = e /\ call'[c].pc = "await" /\ call'[c].mode = m
        /\ call'[c].seg = IF m = "CBD" THEN s ELSE t
    BY <1>t, <2>0 DEF Sent, CallState
  <2>2. (HoldsGate(c) <=> Joined(c)) /\ (HoldsGate(c)' <=> Joined(c))
    BY <2>0, <2>1 DEF HoldsGate, Joined
  <2>3. GateInv'
    BY Zenon, <1>t, <2>0, <2>1, <2>2, GateKept
  <2>4. tx[s].status = "open" /\ tx[t].status = "none" /\ t # s
    BY <2>0 DEF Active, Fresh, TxId
  <2>5. SavedAndCommitted(s, c) \in [TxId -> TxState]
    BY <1>t, EndedType
  <2>6. /\ TxEnds(s) /\ tx'[s].status = "committed"
        /\ \A u \in TxId \ {s, t} : TxSame(u)
        /\ IF m = "CBD" THEN TxSame(t) ELSE TxBegins(t, c)
    <3> DEFINE after == SavedAndCommitted(s, c)
    <3>1. /\ after[s].status = "committed" /\ after[s].begunBy = tx[s].begunBy
          /\ \A u \in TxId \ {s} : after[u] = tx[u]
      BY <1>t, <2>4 DEF SavedAndCommitted, TxState
    <3>2. tx' = IF m = "CBD" THEN after ELSE [after EXCEPT ![t] = Begun(t, c)]
      BY Zenon, <2>0
    <3>3. Running(c)'
      BY Zenon, <2>1 DEF Running
    <3> HIDE DEF after
    <3>4. /\ \A u \in TxId \ {t} : tx'[u] = after[u]
          /\ tx'[t] = IF m = "CBD" THEN after[t] ELSE Begun(t, c)
      BY <2>5, <3>2 DEF after
    <3> QED
      BY <1>t, <2>1, <2>4, <3>1, <3>3, <3>4 DEF Begun, TxEnds, TxSame, TxBegins
  <2>7. \A u \in TxId : TxSame(u) /\ tx[u].status = "open" /\ tx[u].begunBy = c => FALSE
    BY <1>own, <2>4, <2>6 DEF TxSame, TxEnds
  <2>8. OpenInv' /\ EntryInv' /\ CommittedFirst'
    BY <1>t, <1>ent, <2>1, <2>6, <2>7, TxStep
  <2> QED  BY Zenon, <2>3, <2>8 DEF Kept
<1>6. CASE SegmentCommitFails(c)
  <2>1. Joined(c) => gate[e] \in {None, c}
    BY <1>h, <1>6 DEF SegmentCommitFails, MayDispatch, HoldsGate
  <2>2. Returned(c)
    BY Zenon, <1>t, <1>6, ErrorReturns DEF SegmentCommitFails, EngineError
  <2> QED  BY Zenon, <1>0, <1>6, <2>1, <2>2, ErrorKeeps DEF SegmentCommitFails, EngineError
<1>7. CASE AfterSync(c) \/ AfterAsyncNewTx(c)
  <2>0. CanResume(c) /\ call[c].pc = "resume" /\ call[c].mode \in {"SYNC", "ASYNC_NEW_TX"}
    BY Zenon, <1>7 DEF AfterSync, AfterAsyncNewTx
  <2>1. CASE EngineError(c)
    <3>1. Joined(c) => gate[e] \in {None, c}
      BY Zenon, <2>0 DEF CanResume, Free
    <3>2. Returned(c)
      BY Zenon, <1>t, <2>1, ErrorReturns DEF EngineError
    <3> QED  BY Zenon, <1>0, <2>1, <3>1, <3>2, ErrorKeeps DEF EngineError
  <2>2. CASE ~EngineError(c)
    <3>0. /\ \A d \in Call \ {c} : call'[d] = call[d]
          /\ call'[c].entry = e /\ call'[c].seg = s /\ call'[c].pc = "engine"
          /\ gate' = Resumed(c)
      BY <1>t, <1>7, <2>2 DEF AfterSync, AfterAsyncNewTx, CallState
    <3>1. \A t \in TxId : TxSame(t)
      BY <1>t, <1>7, <2>2 DEF AfterSync, AfterAsyncNewTx, RestoredTo, TxSame, TxState
    <3>2. ~HoldsGate(c) /\ (HoldsGate(c)' <=> Joined(c))
      BY Zenon, <2>0, <3>0 DEF HoldsGate, Joined
    <3>3. GateInv'
      <4>1. CASE Joined(c)
        BY Zenon, <1>t, <2>0, <3>0, <3>2, <4>1, GateTaken DEF Resumed, CanResume
      <4>2. CASE ~Joined(c)
        BY <1>t, <3>0, <3>2, <4>2, GateKept DEF Resumed
      <4> QED  BY <4>1, <4>2
    <3> QED  BY Zenon, <1>0, <3>0, <3>1, <3>3, QuietKeeps DEF Running
  <2> QED  BY <2>1, <2>2
<1>8. CASE AfterCommitBeforeDispatch(c) \/ ApplyResult(c)
  <2>0. /\ HoldsGate(c) <=> Joined(c)
        /\ \/ call[c].pc = "resume" /\ call[c].mode \in {"CBD", "CBD_NEW"}
           \/ call[c].pc = "apply"
    BY <1>8 DEF AfterCommitBeforeDispatch, ApplyResult, HoldsGate
  <2>1. CASE EngineError(c)
    <3>1. Joined(c) => gate[e] \in {None, c}
      BY <1>h, <2>0
    <3>2. Returned(c)
      BY Zenon, <1>t, <2>1, ErrorReturns DEF EngineError
    <3> QED  BY Zenon, <1>0, <2>1, <3>1, <3>2, ErrorKeeps DEF EngineError
  <2>2. CASE ~EngineError(c) /\ (ApplyResult(c) \/ call[c].mode = "CBD_NEW")
    <3>0. /\ \A d \in Call \ {c} : call'[d] = call[d]
          /\ call'[c].entry = e /\ call'[c].seg = s /\ call'[c].pc \in {"engine", "apply"}
          /\ gate' = gate
      BY <1>t, <1>8, <2>2 DEF AfterCommitBeforeDispatch, ApplyResult, CallState
    <3>1. \A t \in TxId : TxSame(t)
      BY <1>t, <1>8, <2>2 DEF AfterCommitBeforeDispatch, ApplyResult, Saved, TxSame, TxState
    <3>2. HoldsGate(c)' <=> Joined(c)
      BY Zenon, <3>0 DEF HoldsGate, Joined
    <3>3. GateInv'
      BY <1>t, <2>0, <3>0, <3>2, GateKept
    <3> QED  BY <1>0, <3>0, <3>1, <3>3, QuietKeeps DEF Running
  <2>3. CASE ~EngineError(c) /\ ~ApplyResult(c) /\ call[c].mode # "CBD_NEW"
    <3>0. PICK t \in TxId :
            /\ Fresh(t) /\ tx' = [tx EXCEPT ![t] = Begun(t, c)] /\ gate' = gate
            /\ call' = [call EXCEPT ![c].pc = "apply", ![c].seg = t]
            /\ call[c].pc = "resume" /\ call[c].mode = "CBD"
      BY <1>8, <2>3 DEF AfterCommitBeforeDispatch
    <3>1. /\ \A d \in Call \ {c} : call'[d] = call[d]
          /\ call'[c].entry = e /\ call'[c].seg = t /\ call'[c].pc = "apply"
      BY <1>t, <3>0 DEF CallState
    <3>2. HoldsGate(c)' <=> Joined(c)
      BY <3>1 DEF HoldsGate, Joined
    <3>3. GateInv'
      BY <1>t, <2>0, <3>0, <3>1, <3>2, GateKept
    <3>4. tx[t].status = "none"
      BY <3>0 DEF Fresh, TxId
    <3>5. TxBegins(t, c) /\ \A u \in TxId \ {t} : TxSame(u)
      BY <1>t, <3>0, <3>1, <3>4 DEF TxBegins, TxSame, Begun, Running
    <3>6. \A u \in TxId : ~(tx[u].status = "open" /\ tx[u].begunBy = c)
      BY Zenon, <1>t, <1>own, <3>0 DEF CommittedFirst
    <3>7. OpenInv' /\ EntryInv' /\ CommittedFirst'
      BY Zenon, <1>t, <1>ent, <3>1, <3>5, <3>6, TxStep
    <3> QED  BY <3>3, <3>7 DEF Kept
  <2> QED  BY <2>1, <2>2, <2>3
<1>9. CASE Release(c)
  <2>0. /\ \A d \in Call \ {c} : call'[d] = call[d]
        /\ call'[c].pc = "done" /\ call[c].pc = "release" /\ gate' = gate
        /\ tx' = RolledBack(s, c)
    BY <1>t, <1>9 DEF Release, CallState
  <2>1. ~HoldsGate(c) /\ ~HoldsGate(c)'
    BY Zenon, <2>0 DEF HoldsGate
  <2>2. GateInv'
    BY Zenon, <1>t, <2>0, <2>1, GateKept
  <2>3. \A t \in TxId : TxSame(t) \/ TxEnds(t)
    BY Zenon, <1>t, <2>0 DEF RolledBack, Ended, Active, TxSame, TxEnds, TxState
  <2>4. \A t \in TxId : TxSame(t) /\ tx[t].status = "open" /\ tx[t].begunBy = c => FALSE
    BY <1>t, <1>own, <2>0 DEF RolledBack, Ended, Active, TxSame, TxState
  <2>5. OpenInv' /\ EntryInv' /\ CommittedFirst'
    BY <1>t, <2>0, <2>3, <2>4, TxStep DEF Running
  <2> QED  BY <2>2, <2>5 DEF Kept
<1> QED  BY Zenon, <1>1, <1>2, <1>3, <1>4, <1>5, <1>6, <1>7, <1>8, <1>9 DEF Step

(* The owner's Save and Commit. *)
LEMMA FinaliseKeeps == ASSUME ReleaseInv, Finalise PROVE Kept
<1> DEFINE s == call[Owner].seg
<1>0. /\ TypeOK /\ GateInv /\ OpenInv /\ EntryInv /\ CommittedFirst /\ Owner \in Call
      /\ call[Owner] \in CallState /\ tx \in [TxId -> TxState] /\ Running(Owner) /\ s \in TxId
      /\ call[Owner].pc = "final" /\ gate' = gate /\ Owner \notin Callback
  BY Zenon, ConstantsOK DEF ReleaseInv, TypeOK, Running, Finalise, Call
<1>1. /\ \A d \in Call \ {Owner} : call'[d] = call[d]
      /\ call'[Owner].seg = s /\ call'[Owner].entry = call[Owner].entry
      /\ \/ call'[Owner].pc = "done" /\ TxEnds(s)
         \/ call'[Owner].pc = "release" /\ TxSame(s)
      /\ \A t \in TxId \ {s} : TxSame(t)
  <2>1. /\ \A d \in Call \ {Owner} : call'[d] = call[d]
        /\ call'[Owner].seg = s /\ call'[Owner].entry = call[Owner].entry
    BY <1>0 DEF Finalise, CallState, TypeOK
  <2>2. \/ /\ call'[Owner].pc = "done" /\ Active(s)
           /\ tx' = SavedAndCommitted(s, Owner) \/ tx' = Ended(s, Owner, "rolledBack")
        \/ /\ call'[Owner].pc = "release"
           /\ tx' = tx \/ tx' = Saved(s, Owner)
    BY <1>0 DEF Finalise, CallState, TypeOK
  <2>3. tx' = SavedAndCommitted(s, Owner) /\ Active(s)
          => TxEnds(s) /\ \A t \in TxId \ {s} : TxSame(t)
    <3> SUFFICES ASSUME tx' = SavedAndCommitted(s, Owner), Active(s)
                 PROVE  TxEnds(s) /\ \A t \in TxId \ {s} : TxSame(t)
      OBVIOUS
    <3>1. \A t \in TxId \ {s} : tx'[t] = tx[t]
      BY <1>0 DEF SavedAndCommitted
    <3>2. TxEnds(s)
      BY <1>0 DEF Active, SavedAndCommitted, TxEnds, TxState
    <3> QED  BY <3>1, <3>2 DEF TxSame
  <2>4. tx' = Ended(s, Owner, "rolledBack") /\ Active(s)
          => TxEnds(s) /\ \A t \in TxId \ {s} : TxSame(t)
    BY <1>0 DEF Active, Ended, TxEnds, TxSame, TxState
  <2>5. tx' = tx \/ tx' = Saved(s, Owner) => \A t \in TxId : TxSame(t)
    BY <1>0 DEF Saved, TxSame, TxState
  <2> QED  BY Zenon, <1>0, <2>1, <2>2, <2>3, <2>4, <2>5
<1>2. GateInv'
  <2>1. ~HoldsGate(Owner) /\ ~HoldsGate(Owner)'
    BY Zenon DEF HoldsGate, Joined
  <2> QED  BY Zenon, <1>0, <1>1, <2>1, GateKept
<1>3. \A t \in TxId : tx[t].status = "open" /\ tx[t].begunBy = Owner => s = t
  BY Zenon, <1>0 DEF OpenInv
<1>4. OpenInv' /\ EntryInv' /\ CommittedFirst'
  <2>1. \A t \in TxId : TxSame(t) \/ TxEnds(t)
    BY Zenon, <1>1
  <2>2. \A t \in TxId : TxSame(t) /\ tx[t].status = "open" /\ tx[t].begunBy = Owner
                          => Running(Owner)' /\ call'[Owner].seg = t
    BY Zenon, <1>1, <1>3 DEF TxSame, TxEnds, Running
  <2> QED  BY Zenon, <1>0, <1>1, <2>1, <2>2, TxStep
<1> QED  BY <1>2, <1>4 DEF Kept

(* A dispatch that returns moves its caller from await to resume. *)
LEMMA ReturnKeeps ==
  ASSUME ReleaseInv, NEW c \in Call, NEW r \in {"ok", "failed"}, DispatchReturns(c, r)
  PROVE  Kept
<1>0. TypeOK /\ GateInv /\ call[c] \in CallState /\ Running(c)
  BY DEF ReleaseInv, TypeOK, Running, DispatchReturns
<1>1. /\ \A d \in Call \ {c} : call'[d] = call[d]
      /\ call'[c].entry = call[c].entry /\ call'[c].seg = call[c].seg
      /\ call'[c].mode = call[c].mode /\ call'[c].pc = "resume" /\ call[c].pc = "await"
      /\ gate' = gate
  BY Zenon, <1>0 DEF DispatchReturns, CallState, TypeOK
<1>2. HoldsGate(c)' <=> HoldsGate(c)
  BY Zenon, <1>1 DEF HoldsGate, Joined
<1>3. GateInv'
  BY <1>0, <1>1, <1>2, GateKept
<1>4. \A t \in TxId : TxSame(t)
  BY DEF DispatchReturns, TxSame
<1> QED  BY <1>0, <1>1, <1>3, <1>4, QuietKeeps DEF Running

(* ReleaseInv is inductive. *)
LEMMA ReleaseStep == ReleaseInv /\ [Next]_vars => ReleaseInv'
<1> SUFFICES ASSUME ReleaseInv, [Next]_vars PROVE ReleaseInv'
  OBVIOUS
<1>1. TypeOK'
  BY TypeStep DEF ReleaseInv
<1>2. Kept
  <2>1. CASE UNCHANGED vars
    BY <2>1 DEF vars, Kept, ReleaseInv, GateInv, HoldsGate, OpenInv, EntryInv, CommittedFirst, Running
  <2>2. CASE BeginOwner
    BY <2>2, EnterKeeps
  <2>3. CASE Finalise
    BY <2>3, FinaliseKeeps
  <2>4. CASE \E c \in Callback, p \in Call, k \in 1..MaxRounds : JoinFromToken(c, p, k)
    BY <2>4, EnterKeeps
  <2>5. CASE \E c \in Call, r \in {"ok", "failed"} : DispatchReturns(c, r)
    BY <2>5, ReturnKeeps
  <2>6. CASE \E c \in Call : Step(c)
    BY <2>6, StepKeeps
  <2> QED  BY Zenon, <2>1, <2>2, <2>3, <2>4, <2>5, <2>6 DEF Next
<1> QED  BY <1>1, <1>2 DEF ReleaseInv, Kept

(* Every variable of Cascade keeps its type; in particular a call that is  *)
(* under way always has a transaction to roll back (txScope.Advance).      *)
THEOREM CascadeTypeCorrect == Spec => []TypeOK
<1> QED  BY TypeInit, TypeStep, PTL DEF Spec

(* When all calls have returned no transaction is open and no gate held:   *)
(* txScope.Release, the engine's segment guards and the deferred gate      *)
(* releases leave nothing behind, for any number of callbacks, modes,      *)
(* failures and late answers.                                              *)
THEOREM NothingLeftHolds == Spec => []NothingLeft
<1>1. ReleaseInv => NothingLeft
  <2> SUFFICES ASSUME ReleaseInv, \A c \in Call : ~Running(c), NEW t \in TxId
               PROVE  tx[t].status # "open" /\ Free(t)
    BY DEF NothingLeft
  <2>1. tx[t].status # "open"
    BY DEF ReleaseInv, OpenInv
  <2>2. \A c \in Call : ~HoldsGate(c)
    BY DEF HoldsGate, Running
  <2>3. gate[t] \in Call \cup {None}
    BY Zenon DEF ReleaseInv, TypeOK
  <2> QED  BY <2>1, <2>2, <2>3 DEF ReleaseInv, GateInv, Free
<1> QED  BY <1>1, ReleaseInit, ReleaseStep, PTL DEF Spec

(* A gate is held only by a joined call that runs on that transaction and  *)
(* is not waiting for the gate: txgate's mutex is never acquired twice by  *)
(* one call, nor kept by one that has returned.                            *)
THEOREM GateHeldByCallerHolds == Spec => []GateHeldByCaller
<1>1. ReleaseInv => GateHeldByCaller
  <2> SUFFICES ASSUME ReleaseInv, NEW t \in TxId, ~Free(t), NEW c, c = gate[t]
               PROVE  /\ Joined(c) /\ call[c].entry = t
                      /\ call[c].pc \in {"engine", "await", "resume", "apply"}
                      /\ call[c].pc \in {"await", "resume"} => call[c].mode \in {"CBD", "CBD_NEW"}
    BY DEF GateHeldByCaller
  <2>1. c \in Call
    BY Zenon DEF ReleaseInv, TypeOK, Free
  <2> QED  BY <2>1 DEF ReleaseInv, GateInv, HoldsGate
<1> QED  BY <1>1, ReleaseInit, ReleaseStep, PTL DEF Spec

-----------------------------------------------------------------------------
(* A request that failed has committed nothing. *)

Segmenting == {"CBD", "CBD_NEW"}

(* Without a processor that commits before its dispatch, the commit is the *)
(* last thing the owner does.                                              *)
CommitIsLast ==
    \A t \in TxId : tx[t].status = "committed" =>
        call[Owner].pc = "done" /\ call[Owner].result = "ok"

LEMMA CommitStep ==
  ASSUME (OwnerModes \cup CallbackModes) \cap Segmenting = {},
         TypeOK, CommitIsLast, [Next]_vars
  PROVE  CommitIsLast'
<1>0. /\ call \in [Call -> CallState] /\ tx \in [TxId -> TxState]
      /\ Owner \in Call /\ Callback \subseteq Call /\ Owner \notin Callback
      /\ \A d \in Call : Running(d) => call[d].entry \in TxId /\ call[d].seg \in TxId
  BY Zenon, ConstantsOK DEF TypeOK, Call
<1> DEFINE NoCommit == \A t \in TxId :
             tx'[t].status = "committed" => tx[t].status = "committed"
           Ends == call'[Owner].pc = "done" /\ call'[Owner].result = "ok"
           Still == call[Owner].pc = "done" => call'[Owner] = call[Owner]
<1>1. ASSUME NoCommit, Still
      PROVE  CommitIsLast'
  BY Zenon, <1>1 DEF CommitIsLast
<1>2. CASE UNCHANGED vars
  BY <1>1, <1>2 DEF vars
<1>3. CASE BeginOwner
  <2>1. NoCommit
    BY <1>0, <1>3 DEF BeginOwner, Begun
  <2> QED
    BY <1>1, <1>3, <2>1 DEF BeginOwner
<1>4. CASE Finalise
  <2>0. call[Owner].seg \in TxId /\ call[Owner] \in CallState
    BY Zenon, <1>0, <1>4 DEF Finalise, Running
  <2>1. NoCommit \/ Ends
    <3>1. CASE tx' = tx
      BY <3>1
    <3>2. CASE tx' = Saved(call[Owner].seg, Owner)
      BY <1>0, <2>0, <3>2 DEF Saved
    <3>3. CASE tx' = Ended(call[Owner].seg, Owner, "rolledBack")
      BY <1>0, <2>0, <3>3 DEF Ended
    <3>4. CASE call' = [call EXCEPT ![Owner].pc = "done", ![Owner].result = "ok"]
      BY Zenon, <1>0, <2>0, <3>4 DEF CallState
    <3> QED
      BY Zenon, <1>4, <3>1, <3>2, <3>3, <3>4 DEF Finalise
  <2> QED
    BY <1>1, <1>4, <2>1 DEF Finalise, CommitIsLast
<1>5. ASSUME NEW c \in Callback, NEW p \in Call, NEW k \in 1..MaxRounds,
             JoinFromToken(c, p, k)
      PROVE  CommitIsLast'
  BY <1>0, <1>1, <1>5 DEF JoinFromToken
<1>6. ASSUME NEW c \in Call, NEW r \in {"ok", "failed"}, DispatchReturns(c, r)
      PROVE  CommitIsLast'
  BY Zenon, <1>0, <1>1, <1>6 DEF DispatchReturns
<1>7. ASSUME NEW c \in Call, Step(c)
      PROVE  CommitIsLast'
  <2>0. /\ Running(c) /\ call[c].pc # "done"
        /\ call[c].entry \in TxId /\ call[c].seg \in TxId
    BY Zenon, <1>0, <1>7 DEF Step, AcquireJoinedGate, EngineAborts, EngineSettles, SendSync, Running,
       SendAsyncNewTx, SendCommitBeforeDispatch, SegmentCommitFails, MayDispatch,
       AfterSync, AfterAsyncNewTx, AfterCommitBeforeDispatch, ApplyResult, Release
  <2>1. \A d \in Call \ {c} : call'[d] = call[d]
    BY Zenon, <1>0, <1>7 DEF Step, AcquireJoinedGate, EngineAborts, EngineSettles, SendSync,
       SendAsyncNewTx, SendCommitBeforeDispatch, SegmentCommitFails, EngineError,
       ErrorReturn, Sent,
       AfterSync, AfterAsyncNewTx, AfterCommitBeforeDispatch, ApplyResult, Release
  <2>2. Still
    BY <1>0, <2>0, <2>1
  <2>3. \A t \in TxId : /\ tx[t].status # "committed" => Saved(t, c)[t].status # "committed"
                        /\ Ended(t, c, "rolledBack")[t].status = "rolledBack"
    BY <1>0 DEF Saved, Ended
  <2>4. \A s \in TxId : \A t \in TxId :
          /\ Saved(s, c)[t].status = tx[t].status
          /\ Ended(s, c, "rolledBack")[t].status \in {tx[t].status, "rolledBack"}
          /\ RolledBack(s, c)[t].status \in {tx[t].status, "rolledBack"}
          /\ RestoredTo(s, call[c].sp)[t].status = tx[t].status
    BY <1>0 DEF Saved, Ended, RolledBack, RestoredTo
  <2>5. EngineError(c) => NoCommit
    BY Zenon, <2>0, <2>4 DEF EngineError, SegmentRolledBack
  <2>6. NoCommit
    <3>1. CASE AcquireJoinedGate(c) \/ SendSync(c) \/ SendAsyncNewTx(c)
      BY <3>1 DEF AcquireJoinedGate, SendSync, SendAsyncNewTx
    <3>2. CASE EngineAborts(c) \/ AfterSync(c)
      BY Zenon, <2>5, <3>2 DEF EngineAborts, AfterSync
    <3>3. CASE EngineSettles(c)
      BY Zenon, <2>0, <2>4, <3>3 DEF EngineSettles
    <3>4. CASE SendCommitBeforeDispatch(c) \/ SegmentCommitFails(c)
      BY Zenon, <3>4 DEF SendCommitBeforeDispatch, SegmentCommitFails, MayDispatch, ModesOf, Segmenting
    <3>5. CASE AfterAsyncNewTx(c)
      BY <2>0, <2>4, <3>5 DEF AfterAsyncNewTx
    <3>6. CASE AfterCommitBeforeDispatch(c)
      BY <1>0, <2>5, <3>6 DEF AfterCommitBeforeDispatch, Begun
    <3>7. CASE ApplyResult(c) \/ Release(c)
      BY Zenon, <2>0, <2>4, <2>5, <3>7 DEF ApplyResult, Release
    <3> QED
      BY Zenon, <1>7, <3>1, <3>2, <3>3, <3>4, <3>5, <3>6, <3>7 DEF Step
  <2> QED
    BY Zenon, <1>1, <2>2, <2>6
<1> QED
  BY Zenon, <1>2, <1>3, <1>4, <1>5, <1>6, <1>7 DEF Next

(* A request answered with an error has committed nothing, whatever its    *)
(* callbacks do and however late they are, when no workflow commits before *)
(* it dispatches: Finalise is the only commit, and Release rolls back.     *)
THEOREM FailureLeavesNothingHolds ==
  CallbackModes \cap {"CBD", "CBD_NEW"} = {} => (Spec => []FailureLeavesNothing)
<1> SUFFICES ASSUME CallbackModes \cap Segmenting = {}
             PROVE  Spec => []FailureLeavesNothing
  BY DEF Segmenting
<1>1. CASE OwnerModes \cap Segmenting # {}
  <2>1. TypeOK => FailureLeavesNothing
    BY <1>1 DEF FailureLeavesNothing, Segmenting
  <2> QED
    BY <2>1, CascadeTypeCorrect, PTL
<1>2. CASE OwnerModes \cap Segmenting = {}
  <2>1. Init => CommitIsLast
    BY DEF Init, CommitIsLast
  <2>2. TypeOK /\ CommitIsLast /\ [Next]_vars => CommitIsLast'
    BY Zenon, <1>2, CommitStep
  <2>3. CommitIsLast => FailureLeavesNothing
    BY DEF CommitIsLast, FailureLeavesNothing
  <2> QED
    BY <2>1, <2>2, <2>3, CascadeTypeCorrect, PTL DEF Spec
<1> QED
  BY <1>1, <1>2

-----------------------------------------------------------------------------
(* Which writes of callbacks are kept. *)

(* Where a call that was answered with success stands, and the rounds of   *)
(* the dispatches under way.                                               *)
DoneInv ==
    /\ \A c \in Callback : call[c].result = "ok" =>
          call[c].pc = "done" /\ call[c].entry \in TxId /\ tx[call[c].entry].status # "none"
    /\ \A p \in Call : call[p].pc \in {"await", "resume"} => call[p].rounds >= 1

(* An acknowledged write is in the buffer and in every savepoint taken     *)
(* since, unless a dispatch under way when it was made was rolled back.    *)
Spared(c) == \A u \in undone : u.by \notin call[c].amid
AckedInv ==
    \A c \in Callback : call[c].result = "ok" /\ Spared(c) =>
        /\ c \in tx[call[c].entry].buf
        /\ \A p \in Call : /\ HoldsSavepoint(p) /\ call[p].seg = call[c].entry
                           /\ <<p, call[p].rounds>> \notin call[c].amid
                           => c \in call[p].sp

(* A dispatch that was rolled back is over. *)
OverInv ==
    \A u \in undone, p \in Call : u.by[1] = p =>
        /\ u.by[2] <= call[p].rounds
        /\ HoldsSavepoint(p) => u.by[2] < call[p].rounds

(* A write made during a dispatch that was rolled back is gone, or a later *)
(* snapshot held it, whether or not the transaction has ended.             *)
GoneInv ==
    \A t \in TxId : \A c \in Callback \cap tx[t].buf, u \in undone :
        u.in = t /\ u.by \in call[c].amid => \E v \in undone : v.in = t /\ c \in v.sp

WriteInv == TypeOK /\ DoneInv /\ AckedInv /\ OverInv /\ GoneInv

LEMMA WriteInit == Init => WriteInv
<1> SUFFICES ASSUME Init PROVE WriteInv
  OBVIOUS
<1>1. TypeOK
  BY TypeInit
<1>2. DoneInv
  BY DEF Init, DoneInv, Call
<1>3. AckedInv
  BY DEF Init, AckedInv, Call
<1>4. OverInv /\ GoneInv
  BY DEF Init, OverInv, GoneInv
<1> QED  BY <1>1, <1>2, <1>3, <1>4 DEF WriteInv

(* What a step of a other than a rollback to a savepoint may do.  Calls:   *)
(* only a moves, and if it is answered with success now, its write is in   *)
(* the buffer and the open savepoints are noted.                           *)
Moves(a) ==
    /\ \A d \in Call \ {a} : call'[d] = call[d]
    /\ a \in Callback /\ call'[a].result = "ok" =>
          /\ call'[a].pc = "done" /\ call'[a].entry \in TxId
          /\ tx'[call'[a].entry].status # "none" /\ a \in tx'[call'[a].entry].buf
          /\ call'[a].amid = OpenSavepoints(call'[a].entry)

(* Buffers: nothing is lost, and only the write of a is added, with the    *)
(* open savepoints noted.                                                  *)
Adds(a) ==
    /\ \A t \in TxId : tx[t].status # "none" =>
          tx'[t].status # "none" /\ tx[t].buf \subseteq tx'[t].buf
    /\ \A t \in TxId : tx'[t].buf \subseteq tx[t].buf \cup {a}
    /\ a \in Callback =>
          \/ call'[a].amid = call[a].amid /\ \A t \in TxId : tx'[t].buf \subseteq tx[t].buf
          \/ \E s \in TxId : call'[a].amid = OpenSavepoints(s)

(* Savepoints: a keeps the one it has, or takes a new one in a new round. *)
Takes(a) ==
    /\ call'[a].rounds >= call[a].rounds
    /\ call'[a].pc \in {"await", "resume"} => call'[a].rounds >= 1
    /\ HoldsSavepoint(a)' =>
          \/ /\ HoldsSavepoint(a)
             /\ call'[a].rounds = call[a].rounds /\ call'[a].seg = call[a].seg
             /\ call'[a].sp = call[a].sp
          \/ call'[a].rounds = call[a].rounds + 1 /\ call'[a].sp = tx[call'[a].seg].buf

WriteKept == DoneInv' /\ AckedInv' /\ OverInv' /\ GoneInv'

(* Such a step keeps the invariants. *)
LEMMA OrdinaryKeeps ==
  ASSUME WriteInv, TypeOK', NEW a \in Call, Moves(a), Adds(a), Takes(a), UNCHANGED undone
  PROVE  WriteKept
<1>0. /\ call \in [Call -> CallState] /\ call' \in [Call -> CallState]
      /\ Callback \subseteq Call /\ DoneInv /\ AckedInv /\ OverInv /\ GoneInv
      /\ undone \subseteq Undo
  BY DEF WriteInv, TypeOK, Call
<1>r. \A p \in Call : call[p].rounds \in 0..MaxRounds /\ call'[p].rounds \in 0..MaxRounds
  BY <1>0 DEF CallState
<1>u. \A u \in undone : u.by \in Call \X (0..MaxRounds)
  BY <1>0 DEF Undo
<1>1. DoneInv'
  <2>1. ASSUME NEW c \in Callback, call'[c].result = "ok"
        PROVE  call'[c].pc = "done" /\ call'[c].entry \in TxId
               /\ tx'[call'[c].entry].status # "none"
    BY Zenon, <1>0, <2>1 DEF DoneInv, Moves, Adds
  <2>2. ASSUME NEW p \in Call, call'[p].pc \in {"await", "resume"}
        PROVE  call'[p].rounds >= 1
    BY Zenon, <1>0, <2>2 DEF DoneInv, Moves, Takes
  <2> QED  BY Zenon, <2>1, <2>2 DEF DoneInv
<1>2. AckedInv'
  <2> SUFFICES ASSUME NEW c \in Callback, call'[c].result = "ok", Spared(c)'
               PROVE  /\ c \in tx'[call'[c].entry].buf
                      /\ \A p \in Call : /\ HoldsSavepoint(p)' /\ call'[p].seg = call'[c].entry
                                         /\ <<p, call'[p].rounds>> \notin call'[c].amid
                                         => c \in call'[p].sp
    BY Zenon DEF AckedInv
  <2>1. CASE c # a
    <3>1. call'[c] = call[c] /\ Spared(c)
      BY Zenon, <1>0, <2>1 DEF Moves, Spared
    <3>2. /\ c \in tx[call[c].entry].buf /\ call[c].entry \in TxId
          /\ tx[call[c].entry].status # "none"
      BY Zenon, <1>0, <3>1 DEF AckedInv, DoneInv
    <3>3. c \in tx'[call'[c].entry].buf
      BY Zenon, <3>1, <3>2 DEF Adds
    <3>4. ASSUME NEW p \in Call, HoldsSavepoint(p)', call'[p].seg = call'[c].entry,
                 <<p, call'[p].rounds>> \notin call'[c].amid
          PROVE  c \in call'[p].sp
      <4>1. CASE HoldsSavepoint(p) /\ call'[p].rounds = call[p].rounds
                 /\ call'[p].seg = call[p].seg /\ call'[p].sp = call[p].sp
        BY Zenon, <1>0, <3>1, <3>4, <4>1 DEF AckedInv
      <4>2. CASE p # a
        <5>1. call'[p] = call[p] /\ HoldsSavepoint(p)
          BY Zenon, <3>4, <4>2 DEF Moves, HoldsSavepoint
        <5> QED  BY Zenon, <4>1, <5>1
      <4>3. CASE p = a
        BY Zenon, <3>1, <3>2, <3>4, <4>1, <4>3 DEF Takes
      <4> QED  BY <4>2, <4>3
    <3> QED  BY Zenon, <3>3, <3>4
  <2>2. CASE c = a
    <3>1. /\ call'[a].pc = "done" /\ call'[a].entry \in TxId /\ a \in tx'[call'[a].entry].buf
          /\ call'[a].amid = OpenSavepoints(call'[a].entry)
      BY Zenon, <2>2 DEF Moves
    <3>2. ASSUME NEW p \in Call, HoldsSavepoint(p)', call'[p].seg = call'[a].entry
          PROVE  <<p, call'[p].rounds>> \in call'[a].amid
      <4>1. p # a
        BY <3>1, <3>2 DEF HoldsSavepoint
      <4>2. call'[p] = call[p] /\ HoldsSavepoint(p) /\ call[p].pc \in {"await", "resume"}
        BY Zenon, <3>2, <4>1 DEF Moves, HoldsSavepoint
      <4>3. <<p, call[p].rounds>> \in Dispatch
        BY <1>0, <1>r, <4>2, ConstantsOK DEF DoneInv, Dispatch
      <4> QED  BY <3>1, <3>2, <4>2, <4>3 DEF OpenSavepoints
    <3> QED  BY Zenon, <2>2, <3>1, <3>2
  <2> QED  BY <2>1, <2>2
<1>3. OverInv'
  <2> SUFFICES ASSUME NEW u \in undone, NEW p \in Call, u.by[1] = p
               PROVE  /\ u.by[2] <= call'[p].rounds
                      /\ HoldsSavepoint(p)' => u.by[2] < call'[p].rounds
    BY Zenon DEF OverInv
  <2>1. /\ u.by[2] <= call[p].rounds
        /\ HoldsSavepoint(p) => u.by[2] < call[p].rounds
    BY Zenon, <1>0 DEF OverInv
  <2>2. CASE p # a
    <3>1. call'[p] = call[p] /\ (HoldsSavepoint(p)' => HoldsSavepoint(p))
      BY Zenon, <2>2 DEF Moves, HoldsSavepoint
    <3> QED  BY Zenon, <2>1, <3>1
  <2>3. CASE p = a
    <3>1. u.by[2] \in Nat /\ call[p].rounds \in Nat /\ call'[p].rounds \in Nat
      BY <1>u, <1>r, ConstantsOK
    <3>2. /\ call'[p].rounds >= call[p].rounds
          /\ HoldsSavepoint(p)' => \/ HoldsSavepoint(p) /\ call'[p].rounds = call[p].rounds
                                   \/ call'[p].rounds = call[p].rounds + 1
      BY Zenon, <2>3 DEF Takes
    <3> HIDE DEF HoldsSavepoint
    <3> QED  BY <2>1, <3>1, <3>2
  <2> QED  BY <2>2, <2>3
<1>4. GoneInv'
  <2> SUFFICES ASSUME NEW t \in TxId, NEW c \in Callback, c \in tx'[t].buf, NEW u \in undone,
                      u.in = t, u.by \in call'[c].amid
               PROVE  \E v \in undone : v.in = t /\ c \in v.sp
    BY Zenon DEF GoneInv
  <2>1. CASE c \in tx[t].buf /\ call'[c].amid = call[c].amid
    BY <1>0, <2>1 DEF GoneInv
  <2>2. CASE c # a
    BY Zenon, <1>0, <2>1, <2>2 DEF Moves, Adds
  <2>3. CASE c = a
    <3>1. ASSUME NEW s \in TxId, call'[a].amid = OpenSavepoints(s)
          PROVE  FALSE
      <4>1. /\ HoldsSavepoint(u.by[1]) /\ call[u.by[1]].rounds = u.by[2]
        BY <2>3, <3>1 DEF OpenSavepoints
      <4>2. u.by[1] \in Call /\ u.by[2] \in Nat
        BY <1>u
      <4>3. u.by[2] < call[u.by[1]].rounds
        BY Zenon, <1>0, <4>1, <4>2 DEF OverInv
      <4> QED  BY <4>1, <4>2, <4>3
    <3> QED  BY Zenon, <2>1, <2>3, <3>1 DEF Adds
  <2> QED  BY <2>2, <2>3
<1> QED  BY <1>1, <1>2, <1>3, <1>4 DEF WriteKept

(* RollbackToSavepoint: what it takes back was written during the          *)
(* dispatch, and what it brings back was in its snapshot.                  *)
LEMMA RollbackKeeps ==
  ASSUME WriteInv, TypeOK', NEW a \in Call, call[a].pc = "resume", call[a].mode = "ASYNC_NEW_TX",
         call[a].seg \in TxId, Active(call[a].seg),
         call' = [call EXCEPT ![a].pc = "engine", ![a].sp = {}],
         tx' = RestoredTo(call[a].seg, call[a].sp),
         undone' = undone \cup {[by |-> <<a, call[a].rounds>>, in |-> call[a].seg, sp |-> call[a].sp]}
  PROVE  WriteKept
<1> DEFINE w == [by |-> <<a, call[a].rounds>>, in |-> call[a].seg, sp |-> call[a].sp]
<1>0. /\ call \in [Call -> CallState] /\ tx \in [TxId -> TxState]
      /\ Callback \subseteq Call /\ DoneInv /\ AckedInv /\ OverInv /\ GoneInv
      /\ undone' = undone \cup {w}
  BY DEF WriteInv, TypeOK, Call
<1>w. w.by = <<a, call[a].rounds>> /\ w.in = call[a].seg /\ w.sp = call[a].sp
  OBVIOUS
<1>h. HoldsSavepoint(a)
  BY DEF HoldsSavepoint
<1> HIDE DEF w
<1>1. /\ \A d \in Call \ {a} : call'[d] = call[d]
      /\ \A d \in Call : /\ call'[d].amid = call[d].amid /\ call'[d].entry = call[d].entry
                          /\ call'[d].result = call[d].result
                          /\ call'[d].rounds = call[d].rounds
      /\ call'[a].pc = "engine" /\ ~HoldsSavepoint(a)'
  BY <1>0 DEF CallState, HoldsSavepoint
<1>2. /\ \A t \in TxId : tx'[t].status = tx[t].status
      /\ \A t \in TxId \ {call[a].seg} : tx'[t] = tx[t]
      /\ tx'[call[a].seg].buf = call[a].sp
  BY <1>0 DEF RestoredTo, TxState
<1>3. a \in Callback => call[a].result # "ok"
  BY <1>0 DEF DoneInv
<1>4. DoneInv'
  <2>1. ASSUME NEW c \in Callback, call'[c].result = "ok"
        PROVE  call'[c].pc = "done" /\ call'[c].entry \in TxId
               /\ tx'[call'[c].entry].status # "none"
    <3>1. c # a /\ c \in Call
      BY <1>0, <1>1, <1>3, <2>1
    <3>2. call'[c] = call[c]
      BY <1>1, <3>1
    <3>3. call[c].pc = "done" /\ call[c].entry \in TxId /\ tx[call[c].entry].status # "none"
      BY Zenon, <1>0, <2>1, <3>2 DEF DoneInv
    <3> QED  BY Zenon, <1>2, <3>2, <3>3
  <2>2. ASSUME NEW p \in Call, call'[p].pc \in {"await", "resume"}
        PROVE  call'[p].rounds >= 1
    <3>1. p # a
      BY <1>1, <2>2
    <3> QED  BY Zenon, <1>0, <1>1, <2>2, <3>1 DEF DoneInv
  <2> QED  BY Zenon, <2>1, <2>2 DEF DoneInv
<1>5. AckedInv'
  <2> SUFFICES ASSUME NEW c \in Callback, call'[c].result = "ok", Spared(c)'
               PROVE  /\ c \in tx'[call'[c].entry].buf
                      /\ \A p \in Call : /\ HoldsSavepoint(p)' /\ call'[p].seg = call'[c].entry
                                         /\ <<p, call'[p].rounds>> \notin call'[c].amid
                                         => c \in call'[p].sp
    BY Zenon DEF AckedInv
  <2>1. call'[c] = call[c]
    BY Zenon, <1>0, <1>1, <1>3
  <2>2. Spared(c) /\ <<a, call[a].rounds>> \notin call[c].amid
    BY <1>0, <1>w, <2>1 DEF Spared
  <2>3. /\ c \in tx[call[c].entry].buf /\ call[c].entry \in TxId
        /\ call[a].seg = call[c].entry => c \in call[a].sp
    BY Zenon, <1>0, <1>h, <2>1, <2>2 DEF AckedInv, DoneInv
  <2>4. c \in tx'[call'[c].entry].buf
    BY Zenon, <1>2, <2>1, <2>3
  <2>5. ASSUME NEW p \in Call, HoldsSavepoint(p)', call'[p].seg = call'[c].entry,
               <<p, call'[p].rounds>> \notin call'[c].amid
        PROVE  c \in call'[p].sp
    <3>1. call'[p] = call[p] /\ HoldsSavepoint(p)
      BY Zenon, <1>1, <2>5 DEF HoldsSavepoint
    <3> QED  BY Zenon, <1>0, <2>1, <2>2, <2>5, <3>1 DEF AckedInv
  <2> QED  BY Zenon, <2>4, <2>5
<1>6. OverInv'
  <2> SUFFICES ASSUME NEW u \in undone', NEW p \in Call, u.by[1] = p
               PROVE  /\ u.by[2] <= call'[p].rounds
                      /\ HoldsSavepoint(p)' => u.by[2] < call'[p].rounds
    BY Zenon DEF OverInv
  <2>1. HoldsSavepoint(p)' => HoldsSavepoint(p) /\ p # a
    <3>1. CASE p = a
      BY Zenon, <1>1, <3>1
    <3>2. CASE p # a
      <4>1. call'[p] = call[p]
        BY Zenon, <1>1, <3>2
      <4> QED  BY Zenon, <3>2, <4>1 DEF HoldsSavepoint
    <3> QED  BY <3>1, <3>2
  <2>2. CASE u \in undone
    BY Zenon, <1>0, <1>1, <2>1, <2>2 DEF OverInv
  <2>3. CASE u = w
    <3>1. p = a /\ u.by[2] = call[a].rounds /\ call[a].rounds \in Nat
      BY <1>0, <1>w, <2>3 DEF CallState
    <3>2. call'[p].rounds = call[a].rounds /\ ~HoldsSavepoint(p)'
      BY Zenon, <1>1, <2>1, <3>1
    <3>3. u.by[2] <= call'[p].rounds
      BY <3>1, <3>2
    <3> QED  BY Zenon, <3>2, <3>3
  <2> QED  BY <1>0, <2>2, <2>3
<1>7. GoneInv'
  <2> SUFFICES ASSUME NEW t \in TxId, NEW c \in Callback, c \in tx'[t].buf, NEW u \in undone',
                      u.in = t, u.by \in call'[c].amid
               PROVE  (\E v \in undone : v.in = t /\ c \in v.sp)'
    BY DEF GoneInv
  <2>1. CASE t = call[a].seg
    BY <1>0, <1>w, <1>2, <2>1
  <2>2. CASE t # call[a].seg
    <3>1. u \in undone /\ c \in tx[t].buf /\ u.by \in call[c].amid
      BY <1>0, <1>w, <1>1, <1>2, <2>2
    <3> QED  BY <1>0, <3>1 DEF GoneInv
  <2> QED  BY <2>1, <2>2
<1> QED  BY <1>4, <1>5, <1>6, <1>7 DEF WriteKept

(* The steps of the engine are of the first kind, or the rollback. *)
LEMMA WriteStep == WriteInv /\ [Next]_vars => WriteInv'
<1> SUFFICES ASSUME WriteInv, [Next]_vars PROVE WriteInv'
  OBVIOUS
<1>0. /\ TypeOK /\ TypeOK' /\ call \in [Call -> CallState] /\ tx \in [TxId -> TxState]
      /\ Owner \in Call /\ Callback \subseteq Call /\ Owner \notin Callback
      /\ \A d \in Call : Running(d) => call[d].entry \in TxId /\ call[d].seg \in TxId
  BY Zenon, TypeStep, ConstantsOK DEF WriteInv, TypeOK, Call
<1>r. \A d \in Call : call[d].rounds \in Nat
  BY <1>0, ConstantsOK DEF CallState
<1>d. /\ \A d \in Callback : call[d].result = "ok" => call[d].pc = "done"
      /\ \A d \in Call : call[d].pc \in {"await", "resume"} => call[d].rounds >= 1
  BY Zenon DEF WriteInv, DoneInv
<1>q. ASSUME NEW a \in Call, Moves(a), Adds(a), Takes(a), UNCHANGED undone
      PROVE  WriteKept
  BY Zenon, <1>0, <1>q, OrdinaryKeeps
(* A transaction operation of a that touches no buffer. *)
<1>b. ASSUME NEW a \in Call, call'[a].amid = call[a].amid,
             \A t \in TxId : /\ tx[t].status # "none" =>
                                  tx'[t].status # "none" /\ tx'[t].buf = tx[t].buf
                             /\ tx'[t].buf \subseteq tx[t].buf
      PROVE  Adds(a)
  BY <1>b DEF Adds
(* A step of a that ends in pc and takes no savepoint. *)
<1>n. ASSUME NEW a \in Call, call'[a].pc \notin {"await", "resume"}, call'[a].rounds >= call[a].rounds
      PROVE  Takes(a)
  BY <1>n DEF Takes, HoldsSavepoint
<1>1. CASE UNCHANGED vars
  <2>1. call' = call /\ tx' = tx /\ undone' = undone
    BY <1>1 DEF vars
  <2>2. DoneInv'
    BY <2>1 DEF WriteInv, DoneInv
  <2>3. AckedInv'
    BY <2>1 DEF WriteInv, AckedInv, Spared, HoldsSavepoint
  <2>4. OverInv'
    BY <2>1 DEF WriteInv, OverInv, HoldsSavepoint
  <2>5. GoneInv'
    BY <2>1 DEF WriteInv, GoneInv
  <2> QED  BY Zenon, <1>0, <2>2, <2>3, <2>4, <2>5 DEF WriteKept, WriteInv
<1>2. CASE BeginOwner
  <2>1. PICK t \in TxId : /\ Fresh(t) /\ tx' = [tx EXCEPT ![t] = Begun(t, Owner)]
                          /\ call' = [call EXCEPT ![Owner].pc = "engine", ![Owner].entry = t,
                                                  ![Owner].seg = t]
                          /\ undone' = undone
    BY <1>2 DEF BeginOwner
  <2>2. tx[t].status = "none" /\ \A u \in TxId : u # t => tx'[u] = tx[u]
    BY <1>0, <2>1 DEF Fresh, TxId
  <2>3. tx'[t].buf = {}
    BY <1>0, <2>1 DEF Begun
  <2>4. /\ \A d \in Call \ {Owner} : call'[d] = call[d]
        /\ call'[Owner].pc = "engine" /\ call'[Owner].amid = call[Owner].amid
        /\ call'[Owner].rounds = call[Owner].rounds
    BY <1>0, <2>1 DEF CallState
  <2>5. Adds(Owner)
    BY <1>0, <1>b, <2>2, <2>3, <2>4
  <2>6. Moves(Owner) /\ Takes(Owner)
    BY <1>0, <1>r, <1>n, <2>4 DEF Moves
  <2> QED  BY <1>0, <1>q, <2>1, <2>5, <2>6 DEF WriteInv, WriteKept
<1>3. CASE Finalise
  <2>0. call[Owner].seg \in TxId /\ call[Owner] \in CallState
    BY Zenon, <1>0, <1>3 DEF Finalise, Running
  <2>1. /\ \A d \in Call \ {Owner} : call'[d] = call[d]
        /\ call'[Owner].pc \in {"done", "release"} /\ call'[Owner].rounds = call[Owner].rounds
    BY <1>0, <2>0, <1>3 DEF Finalise, CallState
  <2>2. \A t \in TxId : /\ tx[t].status # "none" =>
                              tx'[t].status # "none" /\ tx[t].buf \subseteq tx'[t].buf
                        /\ tx'[t].buf \subseteq tx[t].buf \cup {Owner}
    <3>1. CASE tx' = tx
      BY <3>1
    <3>2. CASE tx' = Saved(call[Owner].seg, Owner)
      BY <1>0, <2>0, <3>2 DEF Saved, TxState
    <3>3. CASE tx' = Ended(call[Owner].seg, Owner, "rolledBack")
      BY <1>0, <2>0, <3>3 DEF Ended, TxState
    <3>4. CASE tx' = SavedAndCommitted(call[Owner].seg, Owner)
      BY <1>0, <2>0, <3>4 DEF SavedAndCommitted, TxState
    <3> QED  BY Zenon, <1>3, <3>1, <3>2, <3>3, <3>4 DEF Finalise
  <2>3. Moves(Owner) /\ Adds(Owner) /\ Takes(Owner) /\ undone' = undone
    BY <1>0, <1>r, <1>3, <1>n, <2>1, <2>2 DEF Moves, Adds, Finalise
  <2> QED  BY <1>0, <1>q, <2>3 DEF WriteInv, WriteKept
<1>4. ASSUME NEW c \in Callback, NEW p \in Call, NEW k \in 1..MaxRounds, JoinFromToken(c, p, k)
      PROVE  WriteInv'
  <2>1. /\ \A d \in Call \ {c} : call'[d] = call[d]
        /\ call'[c].pc \in {"entry", "done"} /\ call'[c].rounds = call[c].rounds
        /\ call'[c].amid = call[c].amid /\ call'[c].result \in {"error", call[c].result}
    BY <1>0, <1>4 DEF JoinFromToken, CallState
  <2>2. tx' = tx /\ undone' = undone /\ call[c].pc = "idle"
    BY <1>4 DEF JoinFromToken
  <2>3. Moves(c) /\ Takes(c)
    BY <1>0, <1>r, <1>d, <1>n, <2>1, <2>2 DEF Moves
  <2>4. Adds(c)
    BY <1>0, <2>1, <2>2 DEF Adds
  <2> QED  BY <1>0, <1>q, <2>2, <2>3, <2>4 DEF WriteInv, WriteKept
<1>5. ASSUME NEW c \in Call, NEW r \in {"ok", "failed"}, DispatchReturns(c, r)
      PROVE  WriteInv'
  <2>1. /\ \A d \in Call \ {c} : call'[d] = call[d]
        /\ call'[c].pc = "resume" /\ call'[c].rounds = call[c].rounds
        /\ call'[c].amid = call[c].amid /\ call'[c].result = call[c].result
        /\ call'[c].mode = call[c].mode /\ call'[c].seg = call[c].seg /\ call'[c].sp = call[c].sp
    BY <1>0, <1>5 DEF DispatchReturns, CallState
  <2>2. tx' = tx /\ undone' = undone /\ call[c].pc = "await"
    BY <1>5 DEF DispatchReturns
  <2>3. Moves(c)
    BY <1>0, <1>d, <2>1, <2>2 DEF Moves
  <2>4. Takes(c)
    BY <1>r, <1>d, <2>1, <2>2 DEF Takes, HoldsSavepoint
  <2>5. Adds(c)
    BY <1>0, <2>1, <2>2 DEF Adds
  <2> QED  BY <1>0, <1>q, <2>2, <2>3, <2>4, <2>5 DEF WriteInv, WriteKept
<1>6. ASSUME NEW c \in Call, Step(c)
      PROVE  WriteInv'
  <2> DEFINE e == call[c].entry
             s == call[c].seg
  <2>0. Running(c) /\ call[c].pc # "done" /\ e \in TxId /\ s \in TxId /\ call[c] \in CallState
    BY Zenon, <1>0, <1>6 DEF Step, AcquireJoinedGate, EngineAborts, EngineSettles, SendSync, Running,
       SendAsyncNewTx, SendCommitBeforeDispatch, SegmentCommitFails, MayDispatch,
       AfterSync, AfterAsyncNewTx, AfterCommitBeforeDispatch, ApplyResult, Release
  <2>n. c \in Callback => call[c].result # "ok"
    BY Zenon, <1>d, <2>0
  <2>g. WriteKept => WriteInv'
    BY Zenon, <1>0 DEF WriteInv, WriteKept
  (* Ending a transaction, and beginning one, leaves every buffer as it is. *)
  <2>s. /\ \A t \in TxId : tx[t].status # "none" =>
             /\ Saved(s, c)[t].status # "none" /\ tx[t].buf \subseteq Saved(s, c)[t].buf
             /\ SavedAndCommitted(s, c)[t].status # "none"
             /\ tx[t].buf \subseteq SavedAndCommitted(s, c)[t].buf
        /\ \A t \in TxId : /\ Saved(s, c)[t].buf \subseteq tx[t].buf \cup {c}
                           /\ SavedAndCommitted(s, c)[t].buf \subseteq tx[t].buf \cup {c}
    <3>1. \A t \in TxId \ {s} : Saved(s, c)[t] = tx[t] /\ SavedAndCommitted(s, c)[t] = tx[t]
      BY <1>0, <2>0 DEF Saved, SavedAndCommitted
    <3>2. /\ Saved(s, c)[s].status = tx[s].status /\ SavedAndCommitted(s, c)[s].status # "none"
          /\ Saved(s, c)[s].buf = tx[s].buf \cup {c}
          /\ SavedAndCommitted(s, c)[s].buf = tx[s].buf \cup {c}
      BY <1>0, <2>0 DEF Saved, SavedAndCommitted, TxState
    <3> HIDE DEF s
    <3> QED  BY <3>1, <3>2
  <2>e. \A t \in TxId : tx[t].status # "none" =>
             Ended(s, c, "rolledBack")[t].status # "none"
    BY <1>0, <2>0 DEF Ended, TxState
  <2>f. \A t \in TxId : Ended(s, c, "rolledBack")[t].buf = tx[t].buf
    BY <1>0, <2>0 DEF Ended, TxState
  <2>k. ASSUME tx' = tx \/ tx' = Ended(s, c, "rolledBack"), call'[c].amid = call[c].amid
        PROVE  Adds(c)
    BY <1>b, <2>e, <2>f, <2>k
  <2>m. ASSUME \A d \in Call \ {c} : call'[d] = call[d], call'[c].result \in {"error", call[c].result}
        PROVE  Moves(c)
    BY <2>n, <2>m DEF Moves
  <2>1. CASE UNCHANGED undone /\ EngineError(c)
    <3>1. /\ \A d \in Call \ {c} : call'[d] = call[d]
          /\ call'[c].pc \in {"done", "release"} /\ call'[c].rounds = call[c].rounds
          /\ call'[c].amid = call[c].amid /\ call'[c].result \in {"error", call[c].result}
      BY <1>0, <2>0, <2>1 DEF EngineError, ErrorReturn, CallState
    <3>2. tx' = tx \/ tx' = Ended(s, c, "rolledBack")
      BY Zenon, <2>1 DEF EngineError, SegmentRolledBack, RolledBack
    <3>3. Moves(c) /\ Adds(c) /\ Takes(c)
      BY <1>r, <1>n, <2>k, <2>m, <3>1, <3>2
    <3> QED  BY <1>q, <2>g, <2>1, <3>3
  <2>2. CASE AcquireJoinedGate(c) \/ Release(c)
    <3>1. /\ \A d \in Call \ {c} : call'[d] = call[d]
          /\ call'[c].pc \in {"engine", "done"} /\ call'[c].rounds = call[c].rounds
          /\ call'[c].amid = call[c].amid /\ call'[c].result \in {"error", call[c].result}
      BY <1>0, <2>0, <2>2 DEF AcquireJoinedGate, Release, CallState
    <3>2. (tx' = tx \/ tx' = Ended(s, c, "rolledBack")) /\ UNCHANGED undone
      BY Zenon, <2>2 DEF AcquireJoinedGate, Release, RolledBack
    <3>3. Moves(c) /\ Adds(c) /\ Takes(c)
      BY <1>r, <1>n, <2>k, <2>m, <3>1, <3>2
    <3> QED  BY <1>q, <2>g, <3>2, <3>3
  <2>3. CASE EngineAborts(c)
    BY <2>1, <2>3 DEF EngineAborts
  <2>4. CASE EngineSettles(c)
    <3>0. UNCHANGED undone
      BY <2>4 DEF EngineSettles
    <3>1. CASE /\ Joined(c) /\ s = e
               /\ call' = [call EXCEPT ![c].pc = "done", ![c].amid = OpenSavepoints(e),
                             ![c].result = IF Active(e) THEN "ok" ELSE "error"]
               /\ tx' = IF Active(e) THEN Saved(e, c) ELSE tx
      <4>1. /\ \A d \in Call \ {c} : call'[d] = call[d]
            /\ call'[c].pc = "done" /\ call'[c].rounds = call[c].rounds
            /\ call'[c].amid = OpenSavepoints(e) /\ call'[c].entry = e
            /\ call'[c].result = IF Active(e) THEN "ok" ELSE "error"
        BY <1>0, <2>0, <3>1 DEF CallState
      <4>2. Active(e) => tx'[e].status # "none" /\ c \in tx'[e].buf
        BY <1>0, <2>0, <3>1 DEF Saved, Active, TxState
      <4>3. Moves(c)
        BY <2>0, <4>1, <4>2 DEF Moves
      <4>4. Adds(c)
        <5>1. tx' = tx \/ tx' = Saved(s, c)
          BY <3>1
        <5> QED  BY <2>0, <2>s, <4>1, <5>1 DEF Adds
      <4>5. Takes(c)
        BY <1>r, <1>n, <4>1
      <4> QED  BY <1>q, <2>g, <3>0, <4>3, <4>4, <4>5
    <3>2. CASE UNCHANGED tx /\ \E x \in {"final", "release"} : call' = [call EXCEPT ![c].pc = x]
      <4>1. /\ \A d \in Call \ {c} : call'[d] = call[d]
            /\ call'[c].pc \in {"final", "release"} /\ call'[c].rounds = call[c].rounds
            /\ call'[c].amid = call[c].amid /\ call'[c].result = call[c].result
        BY <1>0, <2>0, <3>2 DEF CallState
      <4>2. Moves(c) /\ Adds(c) /\ Takes(c)
        BY <1>r, <1>n, <2>k, <2>m, <3>2, <4>1
      <4> QED  BY <1>q, <2>g, <3>0, <4>2
    <3> QED  BY Zenon, <2>4, <3>1, <3>2 DEF EngineSettles
  <2>5. CASE SendSync(c)
    <3>1. /\ \A d \in Call \ {c} : call'[d] = call[d]
          /\ call'[c].pc = "await" /\ call'[c].mode = "SYNC" /\ call'[c].rounds = call[c].rounds + 1
          /\ call'[c].amid = call[c].amid /\ call'[c].result = call[c].result
      BY <1>0, <2>0, <2>5 DEF SendSync, Sent, CallState
    <3>2. tx' = tx /\ undone' = undone
      BY <2>5 DEF SendSync
    <3>3. Takes(c)
      BY <1>r, <3>1 DEF Takes, HoldsSavepoint
    <3> QED  BY <1>q, <2>g, <2>k, <2>m, <3>1, <3>2, <3>3
  <2>6. CASE SendAsyncNewTx(c)
    <3>1. /\ \A d \in Call \ {c} : call'[d] = call[d]
          /\ call'[c].pc \in {"await", "engine"} /\ call'[c].rounds = call[c].rounds + 1
          /\ call'[c].amid = call[c].amid /\ call'[c].result = call[c].result
          /\ call'[c].pc = "await" => call'[c].seg = s /\ call'[c].sp = tx[s].buf
      BY <1>0, <2>0, <2>6 DEF SendAsyncNewTx, MayDispatch, Sent, Savepoint, CallState
    <3>2. tx' = tx /\ undone' = undone
      BY <2>6 DEF SendAsyncNewTx
    <3>3. Takes(c)
      BY <1>r, <3>1 DEF Takes, HoldsSavepoint
    <3> QED  BY <1>q, <2>g, <2>k, <2>m, <3>1, <3>2, <3>3
  <2>7. CASE SendCommitBeforeDispatch(c)
    <3>0. PICK m \in {"CBD", "CBD_NEW"}, t \in TxId :
            /\ Fresh(t)
            /\ tx' = IF m = "CBD" THEN SavedAndCommitted(s, c)
                       ELSE [SavedAndCommitted(s, c) EXCEPT ![t] = Begun(t, c)]
            /\ call' = [Sent(c, m) EXCEPT ![c].seg = IF m = "CBD" THEN @ ELSE t,
                                          ![c].amid = OpenSavepoints(s)]
            /\ undone' = undone
      BY Zenon, <2>7 DEF SendCommitBeforeDispatch
    <3>1. /\ \A d \in Call \ {c} : call'[d] = call[d]
          /\ call'[c].pc = "await" /\ call'[c].mode = m /\ call'[c].rounds = call[c].rounds + 1
          /\ call'[c].amid = OpenSavepoints(s) /\ call'[c].result = call[c].result
      BY <1>0, <2>0, <3>0 DEF Sent, CallState
    <3>2. Moves(c)
      BY <2>m, <3>1
    <3>3. Takes(c)
      BY <1>r, <3>0, <3>1 DEF Takes, HoldsSavepoint
    <3>4. Adds(c)
      <4>1. tx[t].status = "none"
        BY <3>0 DEF Fresh, TxId
      <4>2. CASE tx' = SavedAndCommitted(s, c)
        BY <2>0, <2>s, <3>1, <4>2 DEF Adds
      <4>3. CASE tx' = [SavedAndCommitted(s, c) EXCEPT ![t] = Begun(t, c)]
        <5>1. SavedAndCommitted(s, c) \in [TxId -> TxState]
          BY <1>0, <2>0, EndedType
        <5>2. tx'[t].buf = {} /\ \A u \in TxId \ {t} : tx'[u] = SavedAndCommitted(s, c)[u]
          BY <4>3, <5>1 DEF Begun
        <5> QED  BY <2>0, <2>s, <3>1, <4>1, <5>2 DEF Adds
      <4> QED  BY <3>0, <4>2, <4>3
    <3> QED  BY <1>q, <2>g, <3>0, <3>2, <3>3, <3>4
  <2>8. CASE SegmentCommitFails(c)
    <3>0. UNCHANGED undone
      BY <2>8 DEF SegmentCommitFails
    <3>1. CASE EngineError(c)
      BY <2>1, <3>0, <3>1
    <3>2. CASE tx' = Ended(s, c, "rolledBack") /\ call' = ErrorReturn(c)
      <4>1. /\ \A d \in Call \ {c} : call'[d] = call[d]
            /\ call'[c].pc \in {"done", "release"} /\ call'[c].rounds = call[c].rounds
            /\ call'[c].amid = call[c].amid /\ call'[c].result \in {"error", call[c].result}
        BY <1>0, <2>0, <3>2 DEF ErrorReturn, CallState
      <4>2. Moves(c) /\ Adds(c) /\ Takes(c)
        BY <1>r, <1>n, <2>k, <2>m, <3>2, <4>1
      <4> QED  BY <1>q, <2>g, <3>0, <4>2
    <3>3. CASE tx' = Saved(s, c) /\ call' = [ErrorReturn(c) EXCEPT ![c].amid = OpenSavepoints(s)]
      <4>1. /\ \A d \in Call \ {c} : call'[d] = call[d]
            /\ call'[c].pc \in {"done", "release"} /\ call'[c].rounds = call[c].rounds
            /\ call'[c].amid = OpenSavepoints(s) /\ call'[c].result \in {"error", call[c].result}
        BY <1>0, <2>0, <3>3 DEF ErrorReturn, CallState
      <4>2. Adds(c)
        BY <2>0, <2>s, <3>3, <4>1 DEF Adds
      <4>3. Moves(c) /\ Takes(c)
        BY <1>r, <1>n, <2>m, <4>1
      <4> QED  BY <1>q, <2>g, <3>0, <4>2, <4>3
    <3> QED  BY Zenon, <2>8, <3>1, <3>2, <3>3 DEF SegmentCommitFails
  <2>9. CASE AfterSync(c)
    <3>0. UNCHANGED undone
      BY <2>9 DEF AfterSync
    <3>1. CASE EngineError(c)
      BY <2>1, <3>0, <3>1
    <3>2. CASE call' = [call EXCEPT ![c].pc = "engine"] /\ UNCHANGED tx
      <4>1. /\ \A d \in Call \ {c} : call'[d] = call[d]
            /\ call'[c].pc = "engine" /\ call'[c].rounds = call[c].rounds
            /\ call'[c].amid = call[c].amid /\ call'[c].result = call[c].result
        BY <1>0, <2>0, <3>2 DEF CallState
      <4>2. Moves(c) /\ Adds(c) /\ Takes(c)
        BY <1>r, <1>n, <2>k, <2>m, <3>2, <4>1
      <4> QED  BY <1>q, <2>g, <3>0, <4>2
    <3> QED  BY Zenon, <2>9, <3>1, <3>2 DEF AfterSync
  <2>10. CASE AfterAsyncNewTx(c)
    <3>1. CASE call[c].reply = "failed" /\ Active(s)
      <4>1. /\ call[c].pc = "resume" /\ call[c].mode = "ASYNC_NEW_TX"
            /\ call' = [call EXCEPT ![c].pc = "engine", ![c].sp = {}]
            /\ tx' = RestoredTo(s, call[c].sp)
            /\ undone' = undone \cup {[by |-> <<c, call[c].rounds>>, in |-> s, sp |-> call[c].sp]}
        BY Zenon, <2>10, <3>1 DEF AfterAsyncNewTx
      <4> QED  BY Zenon, <1>0, <2>0, <2>g, <3>1, <4>1, RollbackKeeps
    <3>2. CASE ~(call[c].reply = "failed" /\ Active(s))
      <4>0. tx' = tx /\ undone' = undone /\ call' = [call EXCEPT ![c].pc = "engine", ![c].sp = {}]
        BY Zenon, <2>10, <3>2 DEF AfterAsyncNewTx
      <4>1. /\ \A d \in Call \ {c} : call'[d] = call[d]
            /\ call'[c].pc = "engine" /\ call'[c].rounds = call[c].rounds
            /\ call'[c].amid = call[c].amid /\ call'[c].result = call[c].result
        BY <1>0, <2>0, <4>0 DEF CallState
      <4>2. Moves(c) /\ Adds(c) /\ Takes(c)
        <5>1. Moves(c) /\ Takes(c)
          BY <1>r, <1>n, <2>m, <4>1
        <5>2. Adds(c)
          BY <2>k, <4>0, <4>1
        <5> QED  BY <5>1, <5>2
      <4> QED  BY <1>q, <2>g, <4>0, <4>2
    <3> QED  BY <3>1, <3>2
  <2>11. CASE AfterCommitBeforeDispatch(c)
    <3>0. UNCHANGED undone
      BY <2>11 DEF AfterCommitBeforeDispatch
    <3>1. CASE EngineError(c)
      BY <2>1, <3>0, <3>1
    <3>2. CASE call' = [call EXCEPT ![c].pc = "apply"] /\ UNCHANGED tx
      <4>1. /\ \A d \in Call \ {c} : call'[d] = call[d]
            /\ call'[c].pc = "apply" /\ call'[c].rounds = call[c].rounds
            /\ call'[c].amid = call[c].amid /\ call'[c].result = call[c].result
        BY <1>0, <2>0, <3>2 DEF CallState
      <4>2. Moves(c) /\ Adds(c) /\ Takes(c)
        <5>1. Moves(c) /\ Takes(c)
          BY <1>r, <1>n, <2>m, <4>1
        <5>2. Adds(c)
          BY <2>k, <3>2, <4>1
        <5> QED  BY <5>1, <5>2
      <4> QED  BY <1>q, <2>g, <3>0, <4>2
    <3>3. ASSUME NEW t \in TxId, Fresh(t), tx' = [tx EXCEPT ![t] = Begun(t, c)],
                 call' = [call EXCEPT ![c].pc = "apply", ![c].seg = t]
          PROVE  WriteInv'
      <4>1. /\ \A d \in Call \ {c} : call'[d] = call[d]
            /\ call'[c].pc = "apply" /\ call'[c].rounds = call[c].rounds
            /\ call'[c].amid = call[c].amid /\ call'[c].result = call[c].result
        BY <1>0, <2>0, <3>3 DEF CallState
      <4>2. tx[t].status = "none" /\ tx'[t].buf = {} /\ \A u \in TxId \ {t} : tx'[u] = tx[u]
        BY <1>0, <3>3 DEF Fresh, Begun, TxId
      <4>3. Adds(c)
        BY <1>b, <4>1, <4>2
      <4>4. Moves(c) /\ Takes(c)
        BY <1>r, <1>n, <2>m, <4>1
      <4> QED  BY <1>q, <2>g, <3>0, <4>3, <4>4
    <3> QED  BY Zenon, <2>11, <3>1, <3>2, <3>3 DEF AfterCommitBeforeDispatch
  <2>12. CASE ApplyResult(c)
    <3>0. UNCHANGED undone
      BY <2>12 DEF ApplyResult
    <3>1. CASE EngineError(c)
      BY <2>1, <3>0, <3>1
    <3>2. CASE /\ tx' = Saved(s, c)
               /\ call' = [call EXCEPT ![c].pc = "engine", ![c].amid = OpenSavepoints(s)]
      <4>1. /\ \A d \in Call \ {c} : call'[d] = call[d]
            /\ call'[c].pc = "engine" /\ call'[c].rounds = call[c].rounds
            /\ call'[c].amid = OpenSavepoints(s) /\ call'[c].result = call[c].result
        BY <1>0, <2>0, <3>2 DEF CallState
      <4>2. Adds(c)
        BY <2>0, <2>s, <3>2, <4>1 DEF Adds
      <4>3. Moves(c) /\ Takes(c)
        BY <1>r, <1>n, <2>m, <4>1
      <4> QED  BY <1>q, <2>g, <3>0, <4>2, <4>3
    <3> QED  BY Zenon, <2>12, <3>1, <3>2 DEF ApplyResult
  <2> QED  BY Zenon, <1>6, <2>2, <2>3, <2>4, <2>5, <2>6, <2>7, <2>8, <2>9, <2>10, <2>11, <2>12 DEF Step
<1> QED  BY Zenon, <1>1, <1>2, <1>3, <1>4, <1>5, <1>6 DEF Next

(* A callback answered with success has its write in the transaction its   *)
(* owner commits, unless RollbackToSavepoint ran for an ASYNC_NEW_TX       *)
(* dispatch under way in it when the callback saved: for any number of     *)
(* callbacks in any modes, nested or side by side, in time or late.        *)
THEOREM AckedWritesKeptHolds == Spec => []AckedWritesKept
<1>1. WriteInv => AckedWritesKept
  BY DEF WriteInv, AckedInv, AckedWritesKept, Spared
<1> QED  BY <1>1, WriteInit, WriteStep, PTL DEF Spec

(* executeAsyncNewTx: a write saved while a dispatch was under way is not  *)
(* committed once that dispatch is rolled back, unless another rollback    *)
(* brought it back from a savepoint taken after the write: for any nesting *)
(* and overlap of savepoints, compute nodes that answer late included.     *)
THEOREM FailedAsyncUndoneHolds == Spec => []FailedAsyncUndone
<1>1. WriteInv => FailedAsyncUndone
  BY DEF WriteInv, GoneInv, FailedAsyncUndone
<1> QED  BY <1>1, WriteInit, WriteStep, PTL DEF Spec
=============================================================================
