-------------------------- MODULE MemTxClaimsProofs --------------------------
(***************************************************************************)
(* Proofs about what RollbackToSavepoint restores and about the unique-key *)
(* claims of MemTx.                                                        *)
(***************************************************************************)
EXTENDS MemTxStoreProofs

-----------------------------------------------------------------------------
(* Savepoints *)

Begins(p, s) == Len(p) <= Len(s) /\ \A i \in 1..Len(p) : p[i] = s[i]

StagedBegins(staged, ops, saves) ==
  /\ Begins(staged.ops, ops)
  /\ \A e \in Entity : Begins(staged.saves[e], saves[e])

(* The lengths a savepoint recorded are those of the lists it saw, those   *)
(* lists begin the lists of the transaction, and each savepoint's begin    *)
(* those of every later one.                                               *)
StackOK(stack, ops, saves) ==
  \A i \in DOMAIN stack :
    LET s == stack[i] IN
    /\ s.scheduledTaskOpsLen = Len(s.staged.ops)
    /\ \A e \in Entity : s.supersededLens[e] = Len(s.staged.saves[e])
    /\ StagedBegins(s.staged, ops, saves)
    /\ \A j \in DOMAIN stack : i < j =>
         StagedBegins(s.staged, stack[j].staged.ops, stack[j].staged.saves)

(* A transaction that has ended has no savepoint left. *)
SavepointInv ==
  \A t \in Tx :
    /\ pc[t] = "done" => savepoints[t] = << >>
    /\ StackOK(savepoints[t], scheduledTaskOps[t], supersededSaves[t])

StagedType ==
  [ops : Seq(scheduledTaskOp), saves : [Entity -> Seq(Val)]]

LEMMA TypeStack ==
  ASSUME TypeOK
  PROVE  savepoints \in [Tx -> Seq(savepointSnapshot)]
  BY Zenon DEF TypeOK

LEMMA BeginsSelf ==
  ASSUME NEW S, NEW s \in Seq(S)
  PROVE  Begins(s, s)
  BY DEF Begins

LEMMA BeginsTrans ==
  ASSUME NEW S, NEW p \in Seq(S), NEW s \in Seq(S), NEW r \in Seq(S),
         Begins(p, s), Begins(s, r)
  PROVE  Begins(p, r)
  BY DEF Begins

LEMMA BeginsAppend ==
  ASSUME NEW S, NEW s \in Seq(S), NEW x \in S
  PROVE  Begins(s, Append(s, x))
  BY DEF Begins

(* Truncating a list to the length of one that begins it gives that one. *)
LEMMA TruncateRestores ==
  ASSUME NEW S, NEW p \in Seq(S), NEW s \in Seq(S), Begins(p, s)
  PROVE  Truncate(s, Len(p)) = p
<1> DEFINE cut == Truncate(s, Len(p))
<1>1. /\ Len(p) \in Nat /\ Len(s) \in Nat /\ Len(p) <= Len(s)
      /\ \A i \in 1..Len(p) : p[i] = s[i]
  BY DEF Begins
<1>2. cut \in Seq(S)
  BY <1>1, TruncateType
<1>3. /\ Len(cut) = Len(p)
      /\ \A i \in DOMAIN cut : cut[i] = s[i]
  BY <1>1, TruncatePrefix
<1> HIDE DEF cut
<1>4. cut = p
  BY <1>1, <1>2, <1>3
<1> QED
  BY <1>4 DEF cut

(* Appending to the lists keeps what the savepoints saw. *)
LEMMA StackGrows ==
  ASSUME NEW stack \in Seq(savepointSnapshot),
         NEW ops \in Seq(scheduledTaskOp), NEW saves \in [Entity -> Seq(Val)],
         NEW ops2 \in Seq(scheduledTaskOp), NEW saves2 \in [Entity -> Seq(Val)],
         StackOK(stack, ops, saves), Begins(ops, ops2),
         \A e \in Entity : Begins(saves[e], saves2[e])
  PROVE  StackOK(stack, ops2, saves2)
<1> SUFFICES ASSUME NEW i \in DOMAIN stack
             PROVE  StagedBegins(stack[i].staged, ops2, saves2)
  BY DEF StackOK
<1> DEFINE st == stack[i].staged
<1>1. st \in StagedType
  <2>1. stack[i] \in savepointSnapshot
    OBVIOUS
  <2> QED
    BY <2>1 DEF savepointSnapshot, StagedType
<1>2. StagedBegins(st, ops, saves)
  BY DEF StackOK
<1> HIDE DEF st
<1>3. st.ops \in Seq(scheduledTaskOp) /\ st.saves \in [Entity -> Seq(Val)]
  BY <1>1 DEF StagedType
<1>4. Begins(st.ops, ops2)
  BY Zenon, <1>2, <1>3, BeginsTrans DEF StagedBegins
<1>5. ASSUME NEW e \in Entity
      PROVE  Begins(st.saves[e], saves2[e])
  <2>1. /\ st.saves[e] \in Seq(Val) /\ saves[e] \in Seq(Val)
        /\ saves2[e] \in Seq(Val)
    BY Zenon, <1>3
  <2> QED
    BY Zenon, <1>2, <2>1, BeginsTrans DEF StagedBegins
<1> QED
  BY Zenon, <1>4, <1>5 DEF StagedBegins, st

(* A new savepoint sees the lists as they are. *)
LEMMA StackPush ==
  ASSUME NEW stack \in Seq(savepointSnapshot), NEW s \in savepointSnapshot,
         NEW ops \in Seq(scheduledTaskOp), NEW saves \in [Entity -> Seq(Val)],
         StackOK(stack, ops, saves), s.staged.ops = ops,
         s.staged.saves = saves, s.scheduledTaskOpsLen = Len(ops),
         \A e \in Entity : s.supersededLens[e] = Len(saves[e])
  PROVE  StackOK(Append(stack, s), ops, saves)
<1> DEFINE all == Append(stack, s)
<1>1. /\ Len(stack) \in Nat /\ DOMAIN stack = 1..Len(stack)
      /\ DOMAIN all = 1..(Len(stack) + 1)
      /\ \A i \in DOMAIN stack : all[i] = stack[i]
      /\ all[Len(stack) + 1] = s
  OBVIOUS
<1>2. StagedBegins(s.staged, ops, saves)
  <2>1. Begins(ops, ops) /\ \A e \in Entity : Begins(saves[e], saves[e])
    BY Zenon, BeginsSelf
  <2> QED
    BY <2>1 DEF StagedBegins
<1> HIDE DEF all
<1>3. ASSUME NEW i \in DOMAIN all
      PROVE  /\ all[i].scheduledTaskOpsLen = Len(all[i].staged.ops)
             /\ \A e \in Entity :
                  all[i].supersededLens[e] = Len(all[i].staged.saves[e])
             /\ StagedBegins(all[i].staged, ops, saves)
             /\ \A j \in DOMAIN all : i < j =>
                  StagedBegins(all[i].staged, all[j].staged.ops,
                               all[j].staged.saves)
  <2>1. CASE i \in DOMAIN stack
    <3>1. all[i] = stack[i]
      BY Zenon, <1>1, <2>1
    <3>2. ASSUME NEW j \in DOMAIN all, i < j
          PROVE  StagedBegins(all[i].staged, all[j].staged.ops,
                              all[j].staged.saves)
      <4>1. CASE j \in DOMAIN stack
        BY Zenon, <1>1, <2>1, <3>1, <3>2, <4>1 DEF StackOK
      <4>2. CASE j = Len(stack) + 1
        BY Zenon, <1>1, <2>1, <3>1, <4>2 DEF StackOK
      <4> QED
        BY <1>1, <4>1, <4>2
    <3> QED
      BY Zenon, <2>1, <3>1, <3>2 DEF StackOK
  <2>2. CASE i = Len(stack) + 1
    BY <1>1, <1>2, <2>2
  <2> QED
    BY <1>1, <2>1, <2>2
<1> QED
  BY <1>3 DEF StackOK, all

(* Below the top the savepoints agree with the lists, and with the lists   *)
(* as the top saw them.                                                    *)
LEMMA StackPop ==
  ASSUME NEW stack \in Seq(savepointSnapshot), stack # << >>,
         NEW ops, NEW saves, StackOK(stack, ops, saves)
  PROVE  /\ StackOK(Pop(stack), ops, saves)
         /\ StackOK(Pop(stack), stack[Len(stack)].staged.ops,
                    stack[Len(stack)].staged.saves)
<1> DEFINE rest == Pop(stack)
<1>1. /\ Len(stack) \in Nat /\ Len(stack) >= 1
      /\ DOMAIN stack = 1..Len(stack)
      /\ DOMAIN rest = 1..(Len(stack) - 1)
      /\ \A i \in DOMAIN rest : rest[i] = stack[i]
  BY DEF Pop
<1> HIDE DEF rest
<1>2. \A i \in DOMAIN rest : /\ i \in DOMAIN stack /\ rest[i] = stack[i]
                             /\ i < Len(stack)
  BY <1>1
<1>3. Len(stack) \in DOMAIN stack
  BY <1>1
<1>4. StackOK(rest, ops, saves)
  BY Zenon, <1>2 DEF StackOK
<1>5. StackOK(rest, stack[Len(stack)].staged.ops,
              stack[Len(stack)].staged.saves)
  BY Zenon, <1>2, <1>3 DEF StackOK
<1> QED
  BY Zenon, <1>4, <1>5 DEF rest

(* What the top savepoint saw is what a rollback to it leaves. *)
LEMMA RollbackRestores ==
  ASSUME TypeOK, SavepointInv, NEW t \in Tx, RollbackToSavepoint(t)
  PROVE  LET top == savepoints[t][Len(savepoints[t])]
         IN  /\ scheduledTaskOps'[t] = top.staged.ops
             /\ supersededSaves'[t] = top.staged.saves
<1> DEFINE n == Len(savepoints[t])
           top == savepoints[t][n]
<1>1. /\ savepoints[t] # << >>
      /\ scheduledTaskOps' = [scheduledTaskOps EXCEPT ![t] =
                                Truncate(@, top.scheduledTaskOpsLen)]
      /\ supersededSaves' = [supersededSaves EXCEPT ![t] =
           [e \in Entity |-> Truncate(supersededSaves[t][e],
                                      top.supersededLens[e])]]
  BY DEF RollbackToSavepoint
<1>2. n \in DOMAIN savepoints[t] /\ top \in savepointSnapshot
  <2>1. savepoints[t] \in Seq(savepointSnapshot)
    BY Zenon, TypeStack
  <2> QED
    BY <1>1, <2>1
<1>3. /\ top.scheduledTaskOpsLen = Len(top.staged.ops)
      /\ \A e \in Entity : top.supersededLens[e] = Len(top.staged.saves[e])
      /\ Begins(top.staged.ops, scheduledTaskOps[t])
      /\ \A e \in Entity : Begins(top.staged.saves[e], supersededSaves[t][e])
  BY Zenon, <1>2 DEF SavepointInv, StackOK, StagedBegins
<1>4. /\ top.staged.ops \in Seq(scheduledTaskOp)
      /\ top.staged.saves \in [Entity -> Seq(Val)]
  BY Zenon, <1>2 DEF savepointSnapshot
<1>5. /\ scheduledTaskOps[t] \in Seq(scheduledTaskOp)
      /\ supersededSaves[t] \in [Entity -> Seq(Val)]
      /\ scheduledTaskOps'[t] = Truncate(scheduledTaskOps[t],
                                         top.scheduledTaskOpsLen)
      /\ supersededSaves'[t] = [e \in Entity |->
           Truncate(supersededSaves[t][e], top.supersededLens[e])]
  BY Zenon, <1>1, TypeStaged
<1> HIDE DEF top, n
<1>6. scheduledTaskOps'[t] = top.staged.ops
  BY Zenon, <1>3, <1>4, <1>5, TruncateRestores
<1>7. ASSUME NEW e \in Entity
      PROVE  Truncate(supersededSaves[t][e], top.supersededLens[e])
               = top.staged.saves[e]
  <2>1. supersededSaves[t][e] \in Seq(Val) /\ top.staged.saves[e] \in Seq(Val)
    BY Zenon, <1>4, <1>5
  <2> QED
    BY Zenon, <1>3, <2>1, TruncateRestores
<1>8. supersededSaves'[t] = top.staged.saves
  BY Zenon, <1>4, <1>5, <1>7
<1> QED
  BY Zenon, <1>6, <1>8 DEF top, n

(* Every step keeps SavepointInv. *)
LEMMA SavepointStep ==
  ASSUME TypeOK, TypeOK', IsolationInv, SavepointInv, [Next]_vars
  PROVE  SavepointInv'
<1> DEFINE OK(u) ==
      /\ pc'[u] = "done" => savepoints'[u] = << >>
      /\ StackOK(savepoints'[u], scheduledTaskOps'[u], supersededSaves'[u])
<1>0. \A u \in Tx : /\ savepoints[u] \in Seq(savepointSnapshot)
                    /\ scheduledTaskOps[u] \in Seq(scheduledTaskOp)
                    /\ supersededSaves[u] \in [Entity -> Seq(Val)]
                    /\ savepoints'[u] \in Seq(savepointSnapshot)
                    /\ scheduledTaskOps'[u] \in Seq(scheduledTaskOp)
                    /\ supersededSaves'[u] \in [Entity -> Seq(Val)]
  BY Zenon DEF TypeOK
<1>1. ASSUME NEW u \in Tx, pc'[u] = pc[u] \/ pc'[u] # "done",
             savepoints'[u] = savepoints[u],
             scheduledTaskOps'[u] = scheduledTaskOps[u],
             supersededSaves'[u] = supersededSaves[u]
      PROVE  OK(u)
  BY Zenon, <1>1 DEF SavepointInv
<1>2. ASSUME NEW u \in Tx, savepoints'[u] = << >>
      PROVE  OK(u)
  BY <1>2 DEF StackOK
<1>3. ASSUME NEW u \in Tx, pc'[u] = pc[u], savepoints'[u] = savepoints[u],
             Begins(scheduledTaskOps[u], scheduledTaskOps'[u]),
             \A e \in Entity :
               Begins(supersededSaves[u][e], supersededSaves'[u][e])
      PROVE  OK(u)
  <2>1. StackOK(savepoints[u], scheduledTaskOps[u], supersededSaves[u])
    BY Zenon DEF SavepointInv
  <2>2. StackOK(savepoints[u], scheduledTaskOps'[u], supersededSaves'[u])
    BY Zenon, <1>0, <1>3, <2>1, StackGrows
  <2> QED
    BY Zenon, <1>3, <2>2 DEF SavepointInv
<1>4. ASSUME NEW t \in Tx, BoundedCall(t)
      PROVE  \A u \in Tx : OK(u)
  <2>0. pc' = pc
    BY <1>4, CallFrame DEF callVars
  <2> USE DEF txVars, stageVars
  <2>1. ASSUME UNCHANGED stageVars
        PROVE  \A u \in Tx : OK(u)
    BY <1>1, <2>0, <2>1
  <2>2. ASSUME NEW e \in Entity, NEW v, NEW k, NEW x,
               Save(t, e, v, k) \/ CompareAndSave(t, e, v, k, x)
        PROVE  \A u \in Tx : OK(u)
    <3>1. /\ UNCHANGED <<scheduledTaskOps, savepoints>>
          /\ \/ supersededSaves' = supersededSaves
             \/ /\ buffer[t][e] # None
                /\ supersededSaves' = [supersededSaves EXCEPT
                     ![t][e] = Append(@, buffer[t][e])]
      BY Zenon, <2>2 DEF Save, CompareAndSave, BufferWrite
    <3>2. ASSUME NEW u \in Tx, NEW f \in Entity
          PROVE  Begins(supersededSaves[u][f], supersededSaves'[u][f])
      <4>1. supersededSaves[u][f] \in Seq(Val)
        BY Zenon, <1>0
      <4>2. CASE supersededSaves'[u][f] = supersededSaves[u][f]
        BY Zenon, <4>1, <4>2, BeginsSelf
      <4>3. CASE /\ buffer[t][e] # None /\ u = t /\ f = e
                 /\ supersededSaves'[u][f]
                      = Append(supersededSaves[u][f], buffer[t][e])
        <5>1. buffer[t][e] \in Val
          BY Zenon, <4>3, TypeHandles
        <5> QED
          BY Zenon, <4>1, <4>3, <5>1, BeginsAppend
      <4> QED
        BY <3>1, <4>2, <4>3, TypeStaged
    <3>3. \A u \in Tx : Begins(scheduledTaskOps[u], scheduledTaskOps'[u])
      BY Zenon, <1>0, <3>1, BeginsSelf
    <3> QED
      BY <1>3, <2>0, <3>1, <3>2, <3>3
  <2>3. ASSUME NEW k \in Task, NEW task \in {t, None}, StageTask(t, k, task)
        PROVE  \A u \in Tx : OK(u)
    <3> DEFINE op == [id |-> k, task |-> task]
    <3>1. op \in scheduledTaskOp
      BY DEF scheduledTaskOp
    <3>2. /\ UNCHANGED <<supersededSaves, savepoints>>
          /\ scheduledTaskOps' = [scheduledTaskOps EXCEPT ![t] = Append(@, op)]
      BY Zenon, <2>3 DEF StageTask
    <3> HIDE DEF op
    <3>3. \A u \in Tx : Begins(scheduledTaskOps[u], scheduledTaskOps'[u])
      BY Zenon, <1>0, <3>1, <3>2, BeginsSelf, BeginsAppend, TypeStaged
    <3>4. \A u \in Tx, f \in Entity :
            Begins(supersededSaves[u][f], supersededSaves'[u][f])
      BY Zenon, <1>0, <3>2, BeginsSelf
    <3> QED
      BY Zenon, <1>3, <2>0, <3>2, <3>3, <3>4
  <2>4. ASSUME Savepoint(t)
        PROVE  \A u \in Tx : OK(u)
    <3> DEFINE s == [buffer |-> buffer[t], readSet |-> readSet[t],
          writeSet |-> writeSet[t], deletes |-> deletes[t],
          scheduledTaskOpsLen |-> Len(scheduledTaskOps[t]),
          supersededLens |-> [e \in Entity |-> Len(supersededSaves[t][e])],
          staged |-> [ops |-> scheduledTaskOps[t],
                      saves |-> supersededSaves[t]]]
    <3>1. /\ savepoints' = [savepoints EXCEPT ![t] = Append(@, s)]
          /\ UNCHANGED <<scheduledTaskOps, supersededSaves>>
      BY Zenon, <2>4 DEF Savepoint
    <3>2. /\ s.staged.ops = scheduledTaskOps[t]
          /\ s.staged.saves = supersededSaves[t]
          /\ s.scheduledTaskOpsLen = Len(scheduledTaskOps[t])
          /\ \A e \in Entity : s.supersededLens[e] = Len(supersededSaves[t][e])
      BY Zenon
    <3>3. pc[t] # "done"
      BY Zenon, <2>4 DEF Savepoint, IsolationInv
    <3> HIDE DEF s
    <3>4. savepoints'[t] = Append(savepoints[t], s)
          /\ \A u \in Tx : u # t => savepoints'[u] = savepoints[u]
      BY Zenon, <3>1, TypeStack
    <3>5. s \in savepointSnapshot
      <4>1. Len(savepoints[t]) + 1 \in DOMAIN savepoints'[t]
            /\ savepoints'[t][Len(savepoints[t]) + 1] = s
        BY <1>0, <3>4
      <4> QED
        BY <1>0, <4>1
    <3>6. StackOK(savepoints'[t], scheduledTaskOps[t], supersededSaves[t])
      BY Zenon, <1>0, <3>2, <3>4, <3>5, StackPush DEF SavepointInv
    <3>7. OK(t)
      BY <2>0, <3>1, <3>3, <3>6
    <3> QED
      BY Zenon, <1>1, <2>0, <3>1, <3>4, <3>7
  <2>5. ASSUME ReleaseSavepoint(t) \/ RollbackToSavepoint(t)
        PROVE  \A u \in Tx : OK(u)
    <3> DEFINE top == savepoints[t][Len(savepoints[t])]
    <3>1. /\ t \in active /\ savepoints[t] # << >>
          /\ savepoints'[t] = Pop(savepoints[t])
          /\ \A u \in Tx : u # t =>
               /\ savepoints'[u] = savepoints[u]
               /\ scheduledTaskOps'[u] = scheduledTaskOps[u]
               /\ supersededSaves'[u] = supersededSaves[u]
      BY <2>5, TypeStaged, TypeStack DEF ReleaseSavepoint, RollbackToSavepoint
    <3>2. pc[t] # "done"
      BY Zenon, <3>1 DEF IsolationInv
    <3>3. StackOK(savepoints[t], scheduledTaskOps[t], supersededSaves[t])
      BY DEF SavepointInv
    <3>4. /\ StackOK(savepoints'[t], scheduledTaskOps[t], supersededSaves[t])
          /\ StackOK(savepoints'[t], top.staged.ops, top.staged.saves)
      BY Zenon, <1>0, <3>1, <3>3, StackPop
    <3>5. \/ /\ scheduledTaskOps'[t] = scheduledTaskOps[t]
             /\ supersededSaves'[t] = supersededSaves[t]
          \/ /\ scheduledTaskOps'[t] = top.staged.ops
             /\ supersededSaves'[t] = top.staged.saves
      <4>1. CASE ReleaseSavepoint(t)
        BY Zenon, <4>1 DEF ReleaseSavepoint
      <4>2. CASE RollbackToSavepoint(t)
        BY Zenon, <4>2, RollbackRestores
      <4> QED
        BY Zenon, <2>5, <4>1, <4>2
    <3>6. OK(t)
      BY Zenon, <2>0, <3>2, <3>4, <3>5
    <3> QED
      BY <1>1, <2>0, <3>1, <3>6
  <2>6. ASSUME NEW E, AddReads(t, E) \/ StageDeletes(t, E)
        PROVE  \A u \in Tx : OK(u)
    BY Zenon, <2>1, <2>6 DEF AddReads, StageDeletes
  <2>7. ASSUME NEW e \in Entity, Get(t, e) \/ Delete(t, e) \/ FireSave(t, e)
        PROVE  \A u \in Tx : OK(u)
    BY Zenon, <2>2, <2>6, <2>7 DEF Get, Delete, FireSave
  <2>8. ASSUME NEW page, GetPage(t, page) \/ DeleteAll(t)
        PROVE  \A u \in Tx : OK(u)
    BY <2>6, <2>8 DEF GetPage, DeleteAll
  <2> QED
    BY Zenon, <1>4, <2>2, <2>3, <2>4, <2>5, <2>7, <2>8 DEF BoundedCall, StoreCall
<1>5. ASSUME NEW t \in Tx, Forget(t), \A u \in Tx : u # t => pc'[u] = pc[u]
      PROVE  \A u \in Tx : OK(u)
  <2>1. savepoints'[t] = << >>
    BY <1>5, TypeStack DEF Forget
  <2>2. \A u \in Tx : u # t => /\ savepoints'[u] = savepoints[u]
                               /\ scheduledTaskOps'[u] = scheduledTaskOps[u]
                               /\ supersededSaves'[u] = supersededSaves[u]
    BY Zenon, <1>5, TypeStaged, TypeStack DEF Forget
  <2> QED
    BY <1>1, <1>2, <1>5, <2>1, <2>2
<1>6. ASSUME NEW t \in Tx, NEW outcome,
             Abort(t, outcome) \/ RollbackApply(t)
               \/ \E now \in ClockReadings : CommitApply(t, now)
      PROVE  \A u \in Tx : OK(u)
  BY Zenon, <1>5, <1>6, TypeTimes DEF Abort, RollbackApply, CommitApply
<1>7. ASSUME NEW t \in Tx,
             \/ \E now \in ClockReadings : Begin(t, now) \/ CommitStamp(t, now)
             \/ CommitMark(t) \/ RollbackCheck(t)
      PROVE  \A u \in Tx : OK(u)
  <2>1. UNCHANGED stageVars
        /\ \A u \in Tx : pc'[u] = pc[u] \/ pc'[u] # "done"
    BY Zenon, <1>7, TypeTimes
    DEF Begin, CommitStamp, CommitMark, RollbackCheck
  <2> QED
    BY <1>1, <2>1 DEF stageVars
<1>8. ASSUME UNCHANGED vars
      PROVE  \A u \in Tx : OK(u)
  BY Zenon, <1>1, <1>8 DEF vars, stageVars, callVars
<1>9. ASSUME NEW t \in Tx, TxNext(t)
      PROVE  \A u \in Tx : OK(u)
  BY Zenon, <1>4, <1>6, <1>7, <1>9
  DEF TxNext, CommitStep, CommitConflict, CommitPartialKey, CommitUnique
<1> QED
  BY Zenon, <1>8, <1>9 DEF Next, SavepointInv

LEMMA SavepointInit == Init => SavepointInv
  BY DEF Init, SavepointInv, StackOK

LEMMA SavepointInvHolds == Spec => []SavepointInv
<1>1. Init => SavepointInv
  BY SavepointInit
<1>2. TypeOK /\ TypeOK' /\ IsolationInv /\ SavepointInv /\ [Next]_vars
        => SavepointInv'
  BY SavepointStep
<1>3. MemTxInv => TypeOK /\ IsolationInv
  BY DEF MemTxInv
<1> QED
  BY <1>1, <1>2, <1>3, MemTxInvHolds, PTL DEF Spec

(* RollbackToSavepoint restores what the savepoint saw, however savepoints *)
(* nest and whatever was staged, saved again or deleted in between: the    *)
(* two lists it only truncates come back element by element, and the       *)
(* restored write set names what the restored buffer and deletes hold.     *)
THEOREM SavepointRestoresHolds == Spec => SavepointRestores
<1> DEFINE Restores == \A t \in Tx : RollbackToSavepoint(t) =>
             LET snap == savepoints[t][Len(savepoints[t])]
             IN  /\ scheduledTaskOps'[t] = snap.staged.ops
                 /\ supersededSaves'[t] = snap.staged.saves
                 /\ \A e \in Entity : e \in writeSet'[t] <=>
                      buffer'[t][e] # None \/ e \in deletes'[t]
<1>1. MemTxInv /\ MemTxInv' /\ SavepointInv => Restores
  <2> SUFFICES ASSUME MemTxInv, MemTxInv', SavepointInv, NEW t \in Tx,
                      RollbackToSavepoint(t)
               PROVE  LET snap == savepoints[t][Len(savepoints[t])]
                      IN  /\ scheduledTaskOps'[t] = snap.staged.ops
                          /\ supersededSaves'[t] = snap.staged.saves
                          /\ \A e \in Entity : e \in writeSet'[t] <=>
                               buffer'[t][e] # None \/ e \in deletes'[t]
    BY Zenon
  <2>1. LET top == savepoints[t][Len(savepoints[t])]
        IN  /\ scheduledTaskOps'[t] = top.staged.ops
            /\ supersededSaves'[t] = top.staged.saves
    BY Zenon, RollbackRestores DEF MemTxInv
  <2>2. \A e \in Entity : e \in writeSet'[t] <=>
          buffer'[t][e] # None \/ e \in deletes'[t]
    BY DEF MemTxInv, HandleInv, WritesExact
  <2> QED
    BY Zenon, <2>1, <2>2
<1> HIDE DEF Restores
<1>2. Spec => [][Restores]_vars
  BY <1>1, MemTxInvHolds, SavepointInvHolds, PTL
<1> QED
  BY Zenon, <1>2 DEF SavepointRestores, Restores

-----------------------------------------------------------------------------
(* Claims *)

(* Every document in a buffer, or in a savepoint's copy of it, was saved   *)
(* with its unique keys.                                                   *)
KeyedInv ==
  \A t \in Tx : pc[t] # "done" => \A e \in Entity :
    /\ buffer[t][e] # None => txUniqueKeys[t][e]
    /\ \A i \in DOMAIN savepoints[t] :
         savepoints[t][i].buffer[e] # None => txUniqueKeys[t][e]

(* A commit between its stamp and its record has passed the uniqueness     *)
(* check against the claims as they still are, and the claim maps agree    *)
(* with the store.                                                         *)
ClaimsInv ==
  /\ KeyedInv
  /\ \A t \in Tx : pc[t] = "stamped" => ~ClaimTaken(t)
  /\ ClaimMapsAgree

LEMMA ClaimsInit == Init => ClaimsInv
<1> SUFFICES ASSUME Init
             PROVE  ClaimsInv
  BY Zenon
<1>1. KeyedInv /\ \A t \in Tx : pc[t] # "stamped"
  BY DEF Init, KeyedInv
<1>2. \A e \in Entity : Latest(e) = None
  BY Zenon DEF Init, Latest, LastVal
<1>3. ClaimMapsAgree
  BY Zenon, <1>2 DEF Init, ClaimMapsAgree
<1> QED
  BY <1>1, <1>3 DEF ClaimsInv

LEMMA KeyedCalls ==
  ASSUME ~ScheduledFires, TypeOK, KeyedInv, NEW t \in Tx, BoundedCall(t)
  PROVE  KeyedInv'
<1> DEFINE Keyed(u) == \A e \in Entity :
      /\ buffer'[u][e] # None => txUniqueKeys'[u][e]
      /\ \A i \in DOMAIN savepoints'[u] :
           savepoints'[u][i].buffer[e] # None => txUniqueKeys'[u][e]
<1>0. pc' = pc
  BY Zenon, CallFrame DEF callVars
<1> SUFFICES ASSUME NEW u \in Tx, pc[u] # "done"
             PROVE  Keyed(u)
  BY Zenon, <1>0 DEF KeyedInv
<1>1. \A e \in Entity :
        /\ buffer[u][e] # None => txUniqueKeys[u][e]
        /\ \A i \in DOMAIN savepoints[u] :
             savepoints[u][i].buffer[e] # None => txUniqueKeys[u][e]
  BY Zenon DEF KeyedInv
<1> USE DEF txVars, stageVars
<1>2. ASSUME buffer'[u] = buffer[u], txUniqueKeys'[u] = txUniqueKeys[u],
             savepoints'[u] = savepoints[u]
      PROVE  Keyed(u)
  BY Zenon, <1>1, <1>2
<1>3. ASSUME NEW e \in Entity, NEW v \in Val, NEW x,
             Save(t, e, v, TRUE) \/ CompareAndSave(t, e, v, TRUE, x)
      PROVE  Keyed(u)
  <2>1. /\ buffer' = [buffer EXCEPT ![t][e] = v]
        /\ txUniqueKeys' = [txUniqueKeys EXCEPT ![t][e] = TRUE]
        /\ UNCHANGED savepoints
    BY Zenon, <1>3 DEF Save, CompareAndSave, BufferWrite
  <2>2. CASE u # t
    BY Zenon, <1>2, <2>1, <2>2, TypeHandles, TypeStaged
  <2>3. CASE u = t
    <3>1. txUniqueKeys'[u][e] = TRUE /\ \A f \in Entity : f # e =>
            /\ txUniqueKeys'[u][f] = txUniqueKeys[u][f]
            /\ buffer'[u][f] = buffer[u][f]
      BY Zenon, <2>1, <2>3, TypeHandles, TypeStaged
    <3> QED
      BY Zenon, <1>1, <2>1, <3>1
  <2> QED
    BY Zenon, <2>2, <2>3
<1>4. ASSUME NEW E \in SUBSET Entity, StageDeletes(t, E)
      PROVE  Keyed(u)
  <2>1. /\ UNCHANGED <<savepoints, txUniqueKeys>>
        /\ \A e \in Entity : buffer'[u][e] \in {buffer[u][e], None}
    BY Zenon, <1>4, TypeHandles DEF StageDeletes
  <2> QED
    BY Zenon, <1>1, <2>1
<1>5. ASSUME NEW E, AddReads(t, E)
      PROVE  Keyed(u)
  BY Zenon, <1>2, <1>5 DEF AddReads
<1>6. ASSUME NEW k, NEW task, StageTask(t, k, task)
      PROVE  Keyed(u)
  BY Zenon, <1>2, <1>6 DEF StageTask
<1>7. ASSUME Savepoint(t)
      PROVE  Keyed(u)
  <2> DEFINE s == [buffer |-> buffer[t], readSet |-> readSet[t],
        writeSet |-> writeSet[t], deletes |-> deletes[t],
        scheduledTaskOpsLen |-> Len(scheduledTaskOps[t]),
        supersededLens |-> [e \in Entity |-> Len(supersededSaves[t][e])],
        staged |-> [ops |-> scheduledTaskOps[t],
                    saves |-> supersededSaves[t]]]
  <2>1. /\ savepoints' = [savepoints EXCEPT ![t] = Append(@, s)]
        /\ s.buffer = buffer[t]
    BY Zenon, <1>7 DEF Savepoint
  <2> HIDE DEF s
  <2>2. UNCHANGED <<buffer, txUniqueKeys>>
    BY Zenon, <1>7 DEF Savepoint
  <2>3. CASE u # t
    BY Zenon, <1>2, <2>1, <2>2, <2>3, TypeStack
  <2>4. CASE u = t
    <3>1. /\ savepoints[t] \in Seq(savepointSnapshot)
          /\ savepoints'[t] = Append(savepoints[t], s)
      BY Zenon, <2>1, TypeStack
    <3>2. \A i \in DOMAIN savepoints'[t] :
            \/ i \in DOMAIN savepoints[t]
               /\ savepoints'[t][i] = savepoints[t][i]
            \/ savepoints'[t][i] = s
      BY <3>1
    <3> QED
      BY <1>1, <2>1, <2>2, <2>4, <3>2
  <2> QED
    BY Zenon, <2>3, <2>4
<1>8. ASSUME ReleaseSavepoint(t) \/ RollbackToSavepoint(t)
      PROVE  Keyed(u)
  <2> DEFINE n == Len(savepoints[t])
  <2>1. /\ savepoints[t] # << >> /\ savepoints[t] \in Seq(savepointSnapshot)
        /\ savepoints' = [savepoints EXCEPT ![t] = Pop(@)]
        /\ UNCHANGED txUniqueKeys
        /\ \/ buffer' = buffer
           \/ buffer' = [buffer EXCEPT ![t] = savepoints[t][n].buffer]
    BY Zenon, <1>8, TypeStack DEF ReleaseSavepoint, RollbackToSavepoint
  <2>2. CASE u # t
    BY Zenon, <1>2, <2>1, <2>2, TypeStack, TypeHandles
  <2>3. CASE u = t
    <3>1. n \in DOMAIN savepoints[t]
      BY <2>1
    <3>2. \A i \in DOMAIN Pop(savepoints[t]) :
            /\ i \in DOMAIN savepoints[t]
            /\ Pop(savepoints[t])[i] = savepoints[t][i]
      BY <2>1 DEF Pop
    <3>3. /\ savepoints'[t] = Pop(savepoints[t])
          /\ buffer'[t] \in {buffer[t], savepoints[t][n].buffer}
      BY Zenon, <2>1, TypeStack, TypeHandles
    <3> HIDE DEF n
    <3> QED
      BY <1>1, <2>1, <2>3, <3>1, <3>2, <3>3
  <2> QED
    BY <2>2, <2>3
<1>9. ASSUME NEW e \in Entity, Get(t, e) \/ Delete(t, e) \/ FireSave(t, e)
      PROVE  Keyed(u)
  BY Zenon, <1>4, <1>5, <1>9 DEF Get, Delete, FireSave
<1>10. ASSUME NEW page, GetPage(t, page) \/ DeleteAll(t)
       PROVE  Keyed(u)
  <2>1. SnapshotIDs(t) \cup Buffered(t) \in SUBSET Entity
    BY DEF SnapshotIDs, Buffered
  <2> QED
    BY <1>4, <1>5, <1>10, <2>1 DEF GetPage, DeleteAll
<1> QED
  BY Zenon, <1>3, <1>6, <1>7, <1>8, <1>9, <1>10 DEF BoundedCall, StoreCall

(* The uniqueness check reads the staged writes and the claims. *)
LEMMA TakenKept ==
  ASSUME NEW u \in Tx, buffer'[u] = buffer[u], deletes'[u] = deletes[u],
         txUniqueKeys'[u] = txUniqueKeys[u], uniqueClaims' = uniqueClaims
  PROVE  ClaimTaken(u)' <=> ClaimTaken(u)
<1>1. /\ Buffered(u)' = Buffered(u)
      /\ \A e \in Entity : computedClaims(u, e)' = computedClaims(u, e)
  BY Zenon DEF Buffered, computedClaims
<1>2. Buffered(u) \subseteq Entity
  BY Zenon DEF Buffered
<1> QED
  BY <1>1, <1>2 DEF ClaimTaken

(* What an entity holds after a commit was applied. *)
LEMMA LatestApply ==
  ASSUME TypeOK, NEW t \in Tx, NEW now, CommitApply(t, now), NEW e \in Entity
  PROVE  Latest(e)' = IF e \in Buffered(t) THEN buffer[t][e]
                      ELSE IF e \in deletes[t] THEN None ELSE Latest(e)
<1> DEFINE rows == entityData[e]
           new == FlushedRows(t, e)
<1>1. entityData'[e] = rows \o new
  BY Zenon DEF CommitApply
<1>0. IsFlush(new, BaseVersion(rows), t, e)
  BY Zenon, FlushedShape
<1>2. rows \in Seq(entityVersion) /\ new \in Seq(entityVersion)
  BY Zenon, <1>0, TypeStore DEF IsFlush
<1>3. /\ DOMAIN new # {} <=> e \in Buffered(t) \cup deletes[t]
      /\ DOMAIN new # {} => /\ Len(new) \in DOMAIN new
                            /\ new[Len(new)].val = buffer[t][e]
  BY Zenon, <1>0 DEF Buffered, IsFlush
<1> HIDE DEF rows, new
<1>4. CASE DOMAIN new = {}
  <2>1. rows \o new = rows
    BY <1>2, <1>4
  <2> QED
    BY Zenon, <1>1, <1>3, <1>4, <2>1 DEF Latest, rows
<1>5. CASE DOMAIN new # {}
  <2>1. /\ rows \o new # << >>
        /\ (rows \o new)[Len(rows \o new)] = new[Len(new)]
    BY <1>2, <1>3, <1>5
  <2>2. Latest(e)' = buffer[t][e]
    BY Zenon, <1>1, <1>3, <1>5, <2>1 DEF Latest, LastVal
  <2> QED
    BY Zenon, <1>3, <1>5, <2>2 DEF Buffered
<1> QED
  BY Zenon, <1>4, <1>5

LEMMA ClaimsApply ==
  ASSUME TypeOK, ClaimsInv, NEW t \in Tx, NEW now, CommitApply(t, now)
  PROVE  ClaimMapsAgree'
<1> DEFINE B == Buffered(t)
           D == deletes[t]
           K(e) == computedClaims(t, e)
<1>1. pc[t] = "stamped" /\ ~ClaimTaken(t) /\ ClaimMapsAgree
  BY Zenon DEF CommitApply, ClaimsInv
<1>2. \A e \in B : K(e) = ClaimsOf[buffer[t][e]] /\ buffer[t][e] # None
  BY Zenon, <1>1 DEF ClaimsInv, KeyedInv, Buffered, computedClaims
<1>3. B \subseteq Entity /\ None \notin Entity
  BY Zenon, ValueAssumption DEF Buffered
<1>4. \A e \in B : \A c \in K(e) :
        /\ \A f \in B \ {e} : c \notin K(f)
        /\ uniqueClaims[c] \in {None, e} \cup D
  BY Zenon, <1>1 DEF ClaimTaken
<1>5. /\ \A e \in Entity : claimsByEntity'[e] =
           IF e \in B THEN K(e) ELSE IF e \in D THEN {} ELSE claimsByEntity[e]
      /\ uniqueClaims' = [c \in Claim |->
           IF \E e \in B : c \in K(e) THEN CHOOSE e \in B : c \in K(e)
           ELSE IF c \in Released(t) THEN None ELSE uniqueClaims[c]]
  BY Zenon DEF CommitApply, ClaimsAfter
<1>6. \A e \in Entity : claimsByEntity'[e] =
        IF Latest(e)' = None THEN {} ELSE ClaimsOf[Latest(e)']
  BY Zenon, <1>1, <1>2, <1>5, LatestApply DEF ClaimMapsAgree
<1>7. \A c \in Claim, e \in Entity :
        c \in claimsByEntity[e] <=> uniqueClaims[c] = e
  BY Zenon, <1>1, <1>3 DEF ClaimMapsAgree
<1>8. \A c : c \in Released(t) <=> \E e \in D \cup B : c \in claimsByEntity[e]
  BY Zenon DEF Released
<1>9. D \subseteq Entity
  BY Zenon, TypeHandles
<1> HIDE DEF B, D, K
<1>10. ASSUME NEW c \in Claim, NEW e \in Entity
       PROVE  c \in claimsByEntity'[e] <=> uniqueClaims'[c] = e
  <2>1. CASE \E f \in B : c \in K(f)
    <3>1. PICK f \in B : c \in K(f)
      BY Zenon, <2>1
    <3>2. uniqueClaims'[c] = f
      <4>1. (CHOOSE g \in B : c \in K(g)) = f
        BY Zenon, <1>4, <3>1
      <4> QED
        BY Zenon, <1>5, <2>1, <4>1
    <3>3. CASE e \in B
      BY <1>4, <1>5, <3>1, <3>2, <3>3
    <3>4. CASE e \notin B
      <4>1. e \in D \/ c \notin claimsByEntity[e]
        BY <1>3, <1>4, <1>7, <3>1, <3>4
      <4> QED
        BY Zenon, <1>5, <3>1, <3>2, <3>4, <4>1
    <3> QED
      BY Zenon, <3>3, <3>4
  <2>2. CASE ~\E f \in B : c \in K(f)
    <3>1. c \in claimsByEntity'[e] <=> e \notin B \cup D /\ c \in claimsByEntity[e]
      BY Zenon, <1>5, <2>2
    <3>2. uniqueClaims'[c] =
            IF c \in Released(t) THEN None ELSE uniqueClaims[c]
      BY Zenon, <1>5, <2>2
    <3>3. CASE c \in Released(t)
      <4>1. PICK g \in D \cup B : c \in claimsByEntity[g]
        BY Zenon, <1>8, <3>3
      <4>2. uniqueClaims[c] = g
        BY Zenon, <1>3, <1>7, <1>9, <4>1
      <4> QED
        BY Zenon, <1>3, <1>7, <3>1, <3>2, <3>3, <4>1, <4>2
    <3>4. CASE c \notin Released(t)
      BY Zenon, <1>7, <1>8, <3>1, <3>2, <3>4
    <3> QED
      BY Zenon, <3>3, <3>4
  <2> QED
    BY Zenon, <2>1, <2>2
<1>11. ASSUME NEW c \in Claim
       PROVE  {e \in Entity : c \in claimsByEntity'[e]} =
                {uniqueClaims'[c]} \ {None}
  <2>1. uniqueClaims'[c] \in Entity \cup {None}
    <3>1. CASE \E f \in B : c \in K(f)
      BY Zenon, <1>3, <1>5, <3>1
    <3>2. CASE ~\E f \in B : c \in K(f)
      BY Zenon, <1>5, <3>2, TypeStore
    <3> QED
      BY Zenon, <3>1, <3>2
  <2> QED
    BY <1>3, <1>10, <2>1
<1> QED
  BY Zenon, <1>6, <1>11 DEF ClaimMapsAgree

LEMMA ClaimsStep ==
  ASSUME ~ScheduledFires, TypeOK, IsolationInv, HandleInv, ClaimsInv,
         [Next]_vars
  PROVE  ClaimsInv'
<1> DEFINE Passed == \A u \in Tx : pc'[u] = "stamped" => ~ClaimTaken(u)'
<1>0. /\ KeyedInv /\ ClaimMapsAgree
      /\ \A u \in Tx : pc[u] = "stamped" => ~ClaimTaken(u)
  BY Zenon DEF ClaimsInv
<1>1. UNCHANGED storeVars => ClaimMapsAgree'
  BY Zenon, <1>0 DEF storeVars, ClaimMapsAgree, Latest
<1>2. ASSUME UNCHANGED <<uniqueClaims>>,
             \A u \in Tx : pc'[u] = "stamped" =>
               /\ pc[u] = "stamped" \/ ~ClaimTaken(u)
               /\ buffer'[u] = buffer[u] /\ deletes'[u] = deletes[u]
               /\ txUniqueKeys'[u] = txUniqueKeys[u]
      PROVE  Passed
  BY Zenon, <1>0, <1>2, TakenKept
<1>3. ASSUME NEW t \in Tx, BoundedCall(t)
      PROVE  ClaimsInv'
  <2>1. UNCHANGED <<storeVars, pc>>
    BY Zenon, <1>3, CallFrame DEF callVars
  <2>2. KeyedInv'
    BY Zenon, <1>0, <1>3, KeyedCalls
  <2>3. Passed
    BY Zenon, <1>2, <1>3, <2>1, HeldFrame DEF storeVars
  <2> QED
    BY Zenon, <1>1, <2>1, <2>2, <2>3 DEF ClaimsInv
<1>4. ASSUME NEW t \in Tx,
             \/ \E now \in ClockReadings : Begin(t, now) \/ CommitStamp(t, now)
             \/ CommitMark(t) \/ RollbackCheck(t)
      PROVE  ClaimsInv'
  <2>1. /\ UNCHANGED <<storeVars, stageVars, buffer, deletes>>
        /\ \A u \in Tx : pc[u] = "done" => pc'[u] = "done"
        /\ \A u \in Tx : pc'[u] = "stamped" =>
             pc[u] = "stamped" \/ ~ClaimTaken(u)
    <3>1. CASE \E now \in ClockReadings : Begin(t, now)
      BY Zenon, <3>1, TypeTimes DEF Begin, txVars
    <3>2. CASE \E now \in ClockReadings : CommitStamp(t, now)
      BY Zenon, <3>2, TypeTimes DEF CommitStamp, AtCommit, txVars
    <3>3. CASE CommitMark(t) \/ RollbackCheck(t)
      BY <3>3, TypeTimes DEF CommitMark, RollbackCheck, IsolationInv, txVars
    <3> QED
      BY Zenon, <1>4, <3>1, <3>2, <3>3
  <2>2. KeyedInv'
    BY Zenon, <1>0, <2>1 DEF KeyedInv, stageVars
  <2>3. Passed
    BY Zenon, <1>2, <2>1 DEF storeVars, stageVars
  <2> QED
    BY Zenon, <1>1, <2>1, <2>2, <2>3 DEF ClaimsInv
<1>5. ASSUME NEW t \in Tx, Forget(t), UNCHANGED <<buffer, deletes>>,
             pc' = [pc EXCEPT ![t] = "done"]
      PROVE  /\ KeyedInv'
             /\ UNCHANGED uniqueClaims => Passed
             /\ \A u \in Tx : pc'[u] = "stamped" => pc[u] = "stamped" /\ u # t
  <2>1. \A u \in Tx : IF u = t THEN pc'[u] = "done"
                      ELSE /\ pc'[u] = pc[u]
                           /\ txUniqueKeys'[u] = txUniqueKeys[u]
                           /\ savepoints'[u] = savepoints[u]
    BY Zenon, <1>5, TypeTimes, TypeStaged, TypeStack DEF Forget
  <2>2. KeyedInv'
    BY <1>0, <1>5, <2>1 DEF KeyedInv
  <2>3. \A u \in Tx : pc'[u] = "stamped" => pc[u] = "stamped" /\ u # t
    BY Zenon, <2>1
  <2>4. UNCHANGED uniqueClaims => Passed
    BY Zenon, <1>2, <1>5, <2>1, <2>3
  <2> QED
    BY Zenon, <2>2, <2>3, <2>4
<1>6. ASSUME NEW t \in Tx,
             RollbackApply(t) \/ \E outcome \in Outcome : Abort(t, outcome)
      PROVE  ClaimsInv'
  <2>1. /\ Forget(t) /\ pc' = [pc EXCEPT ![t] = "done"]
        /\ UNCHANGED <<storeVars, buffer, deletes>>
    BY <1>6, TypeTimes DEF RollbackApply, Abort, IsolationInv, txVars
  <2> QED
    BY Zenon, <1>1, <1>5, <2>1 DEF ClaimsInv, storeVars
<1>7. ASSUME NEW t \in Tx, NEW now \in ClockReadings, CommitApply(t, now)
      PROVE  ClaimsInv'
  <2>1. /\ Forget(t) /\ pc' = [pc EXCEPT ![t] = "done"]
        /\ UNCHANGED <<buffer, deletes>> /\ pc[t] = "stamped"
    BY Zenon, <1>7 DEF CommitApply, txVars
  <2>2. Passed
    BY Zenon, <1>5, <2>1 DEF IsolationInv
  <2>3. ClaimMapsAgree'
    BY <1>7, ClaimsApply
  <2> QED
    BY Zenon, <1>5, <2>1, <2>2, <2>3 DEF ClaimsInv
<1>8. CASE UNCHANGED vars
  <2>1. UNCHANGED <<storeVars, pc, buffer, deletes, txUniqueKeys, savepoints>>
    BY Zenon, <1>8 DEF vars, stageVars, txVars, callVars
  <2>2. KeyedInv'
    BY Zenon, <1>0, <2>1 DEF KeyedInv
  <2>3. Passed
    BY Zenon, <1>2, <2>1 DEF storeVars
  <2> QED
    BY Zenon, <1>1, <2>1, <2>2, <2>3 DEF ClaimsInv
<1>9. {"conflict", "partialKey", "unique"} \subseteq Outcome
  BY DEF Outcome
<1> QED
  BY Zenon, <1>3, <1>4, <1>6, <1>7, <1>8, <1>9
  DEF Next, TxNext, CommitStep, CommitConflict, CommitPartialKey, CommitUnique

(* Commit's uniqueness check and its claim maps keep composite keys unique *)
(* among live entities, for any number of transactions, entities and key   *)
(* values, as long as every writer brings the keys: with scheduled fires,  *)
(* which save without them, it is not so.                                  *)
THEOREM UniqueKeysHold == ~ScheduledFires => (Spec => []UniqueKeys)
<1> SUFFICES ASSUME ~ScheduledFires
             PROVE  Spec => []UniqueKeys
  OBVIOUS
<1>1. Init => ClaimsInv
  BY Zenon, ClaimsInit
<1>2. MemTxInv /\ ClaimsInv /\ [Next]_vars => ClaimsInv'
  BY Zenon, ClaimsStep DEF MemTxInv
<1>3. MemTxInv /\ ClaimsInv => UniqueKeys
  <2> SUFFICES ASSUME TypeOK, ClaimsInv, NEW e \in Entity, NEW f \in Entity, e # f,
                      Latest(e) # None, Latest(f) # None,
                      NEW c \in ClaimsOf[Latest(e)], c \in ClaimsOf[Latest(f)]
               PROVE  FALSE
    BY Zenon DEF UniqueKeys, MemTxInv
  <2>1. c \in claimsByEntity[e] /\ c \in claimsByEntity[f]
    BY Zenon DEF ClaimsInv, ClaimMapsAgree
  <2>2. c \in Claim
    BY <2>1, TypeStore
  <2> QED
    BY <2>1, <2>2 DEF ClaimsInv, ClaimMapsAgree
<1> QED
  BY <1>1, <1>2, <1>3, MemTxInvHolds, PTL DEF Spec

=============================================================================
