------------------------ MODULE MemTxIsolationProofs -------------------------
(***************************************************************************)
(* Proofs that the transactions of MemTx are isolated: first-committer-    *)
(* wins, a committed log with no blind spot, and repeatable reads, for     *)
(* every number of transactions and entities and every clock, one that     *)
(* runs backwards included.                                                *)
(***************************************************************************)
EXTENDS MemTxProofs

-----------------------------------------------------------------------------
(* Isolation *)

LEMMA IsolationInit == Init => IsolationInv
  BY Zenon DEF Init, IsolationInv, LogCoversOpen, FirstCommitterWins

(* A call made in a transaction keeps the invariant. *)
LEMMA IsolationCalls ==
  ASSUME TypeOK, IsolationInv, NEW t \in Tx, BoundedCall(t)
  PROVE  IsolationInv'
<1>1. UNCHANGED <<active, committing, committedLog, commitSeq, txSnapshotSeq,
                  lastSubmitTime, snapshotTime, pc, stamp, rollbackWaiting,
                  history>>
  BY CallFrame DEF mgrVars, callVars
<1>2. \A u \in Tx : pc[u] = "stamped" => (Conflicts(u)' <=> Conflicts(u))
  BY Zenon, <1>1, CallFrame DEF Conflicts, Footprint
<1>3. /\ \A u \in Tx : pc[u] = "none" => seen'[u] = seen[u]
      /\ seen' = seen \/ EntityMuFree
  BY Zenon, CallFrame DEF TypeOK
<1>4. (LogCoversOpen /\ FirstCommitterWins)'
  BY <1>1 DEF IsolationInv, LogCoversOpen, FirstCommitterWins
<1>5. \A u \in Tx : pc'[u] = "stamped" =>
        /\ snapshotTime'[u] < stamp'[u] /\ stamp'[u] <= lastSubmitTime'
        /\ \A h \in history' : h.submitTime < stamp'[u]
        /\ ~Conflicts(u)'
        /\ \A w \in Tx : pc'[w] = "stamped" => w = u
        /\ \A w \in active' : stamp'[u] <= snapshotTime'[w] => seen'[w] = {}
  BY <1>1, <1>2, <1>3 DEF IsolationInv, EntityMuFree
<1> QED
  BY Zenon, <1>1, <1>3, <1>4, <1>5 DEF IsolationInv

(* A new snapshot sees every submit time handed out so far, so nothing it  *)
(* cannot see is missing from the log.                                     *)
LEMMA IsolationBegin ==
  ASSUME TypeOK, IsolationInv, NEW t \in Tx, NEW now \in ClockReadings,
         Begin(t, now)
  PROVE  IsolationInv'
<1>1. /\ SnapshotAt(now) \in Nat /\ SnapshotAt(now) >= lastSubmitTime
      /\ lastSubmitTime' = SnapshotAt(now)
      /\ lastSubmitTime \in Nat
  BY ClockAssumption DEF Begin, FloorAfterBegin, SnapshotAt, TypeOK
<1>2. /\ pc[t] = "none" /\ t \notin active
      /\ pc' = [pc EXCEPT ![t] = "open"]
      /\ snapshotTime' = [snapshotTime EXCEPT ![t] = SnapshotAt(now)]
      /\ active' = active \cup {t}
      /\ txSnapshotSeq' = [txSnapshotSeq EXCEPT ![t] = commitSeq]
      /\ UNCHANGED <<committedLog, commitSeq, readSet, writeSet, stamp,
                     rollbackWaiting, history, seen>>
  BY DEF Begin, IsolationInv, txVars, ghostVars
<1>3. LogCoversOpen'
  <2> SUFFICES ASSUME NEW u \in active', NEW h \in history',
                      h.submitTime > snapshotTime'[u]
               PROVE  \E c \in committedLog' :
                        /\ c.id = h.id /\ c.submitTime = h.submitTime
                        /\ c.writeSet = h.writeSet
                        /\ c.seq > txSnapshotSeq'[u]
    BY DEF LogCoversOpen
  <2>1. h \in history /\ h.submitTime \in Nat
    BY <1>2 DEF TypeOK
  <2>2. h.submitTime <= lastSubmitTime
    BY <2>1 DEF IsolationInv
  <2>3. u # t
    BY <1>1, <1>2, <2>1, <2>2, TypeTimes
  <2>4. /\ u \in active /\ snapshotTime'[u] = snapshotTime[u]
        /\ txSnapshotSeq'[u] = txSnapshotSeq[u]
    BY <1>2, <2>3, TypeTimes
  <2> QED
    BY <1>2, <2>1, <2>4 DEF IsolationInv, LogCoversOpen
<1>4. FirstCommitterWins'
  BY <1>2 DEF IsolationInv, FirstCommitterWins
<1>5. \A u \in Tx : pc'[u] = "stamped" =>
        /\ snapshotTime'[u] < stamp'[u] /\ stamp'[u] <= lastSubmitTime'
        /\ \A h \in history' : h.submitTime < stamp'[u]
        /\ ~Conflicts(u)'
        /\ \A w \in Tx : pc'[w] = "stamped" => w = u
        /\ \A w \in active' : stamp'[u] <= snapshotTime'[w] => seen'[w] = {}
  <2> SUFFICES ASSUME NEW u \in Tx, pc'[u] = "stamped"
               PROVE  /\ snapshotTime'[u] < stamp'[u]
                      /\ stamp'[u] <= lastSubmitTime'
                      /\ \A h \in history' : h.submitTime < stamp'[u]
                      /\ ~Conflicts(u)'
                      /\ \A w \in Tx : pc'[w] = "stamped" => w = u
                      /\ \A w \in active' : stamp'[u] <= snapshotTime'[w]
                                              => seen'[w] = {}
    OBVIOUS
  <2>1. u # t /\ pc[u] = "stamped"
    BY <1>2 DEF TypeOK
  <2>2. ~Conflicts(u)'
    <3>1. txSnapshotSeq'[u] = txSnapshotSeq[u]
      BY <1>2, <2>1 DEF TypeOK
    <3>2. Conflicts(u)' <=> Conflicts(u)
      BY <1>2, <3>1 DEF Conflicts, Footprint
    <3> QED
      BY <2>1, <3>2 DEF IsolationInv
  <2>3. seen[t] = {}
    BY <1>2 DEF IsolationInv
  <2>4. stamp[u] \in Nat /\ stamp'[u] <= lastSubmitTime'
    BY <1>1, <1>2, <2>1 DEF IsolationInv, TypeOK
  <2>5. /\ snapshotTime[u] < stamp[u]
        /\ \A h \in history : h.submitTime < stamp[u]
        /\ \A w \in Tx : pc[w] = "stamped" => w = u
        /\ \A w \in active : stamp[u] <= snapshotTime[w] => seen[w] = {}
    BY Zenon, <2>1 DEF IsolationInv
  <2>6. \A w \in Tx : pc'[w] = "stamped" => pc[w] = "stamped"
    BY <1>2, TypeTimes
  <2>7. \A w \in active' : w \in active \/ w = t
    BY Zenon, <1>2
  <2>8. \A w \in active : w # t /\ snapshotTime'[w] = snapshotTime[w]
    BY <1>2, TypeTimes
  <2>9. snapshotTime'[u] = snapshotTime[u] /\ stamp'[u] = stamp[u]
    BY <1>2, <2>1, TypeTimes
  <2>10. \A w \in active' : stamp'[u] <= snapshotTime'[w] => seen'[w] = {}
    BY Zenon, <1>2, <2>3, <2>5, <2>7, <2>8, <2>9
  <2> QED
    BY Zenon, <1>2, <2>2, <2>4, <2>5, <2>6, <2>9, <2>10
<1>6. /\ \A h \in history' : /\ h.submitTime <= lastSubmitTime'
                             /\ h.seq <= commitSeq'
      /\ \A u \in active' : /\ pc'[u] \in {"open", "marked", "stamped"}
                            /\ snapshotTime'[u] <= lastSubmitTime'
                            /\ txSnapshotSeq'[u] <= commitSeq'
  <2>1. ASSUME NEW h \in history
        PROVE  h.submitTime <= lastSubmitTime' /\ h.seq <= commitSeq
    <3>1. h.submitTime \in Nat /\ h.seq \in Nat
      BY Zenon DEF TypeOK
    <3>2. h.submitTime <= lastSubmitTime /\ h.seq <= commitSeq
      BY DEF IsolationInv
    <3> QED
      BY <1>1, <3>1, <3>2
  <2>2. ASSUME NEW u \in active
        PROVE  /\ pc[u] \in {"open", "marked", "stamped"}
               /\ snapshotTime[u] <= lastSubmitTime'
               /\ txSnapshotSeq[u] <= commitSeq
    <3>1. snapshotTime[u] \in Nat /\ snapshotTime[u] <= lastSubmitTime
      BY DEF TypeOK, IsolationInv
    <3> QED
      BY <1>1, <3>1 DEF IsolationInv
  <2>3. ASSUME NEW u \in active'
        PROVE  /\ pc'[u] \in {"open", "marked", "stamped"}
               /\ snapshotTime'[u] <= lastSubmitTime'
               /\ txSnapshotSeq'[u] <= commitSeq'
    <3>1. CASE u = t
      BY <1>1, <1>2, <3>1, TypeTimes
    <3>2. CASE u # t
      BY Zenon, <1>2, <2>2, <2>3, <3>2, TypeTimes
    <3> QED
      BY Zenon, <3>1, <3>2
  <2> QED
    BY <1>2, <2>1, <2>3
<1>7. /\ \A u \in Tx : pc'[u] \in {"none"} => seen'[u] = {}
      /\ \A u \in rollbackWaiting' : pc'[u] = "open"
      /\ \A u \in Tx : pc'[u] \in {"open", "marked", "stamped"}
                         => u \in active'
  BY <1>2 DEF IsolationInv, TypeOK
<1> QED
  BY <1>3, <1>4, <1>5, <1>6, <1>7 DEF IsolationInv


(* Marking a commit, finding a transaction to roll back, and leaving one   *)
(* without effect keep the invariant.                                      *)
LEMMA IsolationEnds ==
  ASSUME TypeOK, IsolationInv, NEW t \in Tx,
         \/ pc[t] = "open" /\ CommitMark(t) /\ t \notin rollbackWaiting
         \/ pc[t] = "open" /\ RollbackCheck(t)
         \/ \E outcome \in Outcome : AtCommit(t) /\ Abort(t, outcome)
         \/ RollbackApply(t)
  PROVE  IsolationInv'
<1>1. /\ UNCHANGED <<committedLog, commitSeq, lastSubmitTime, snapshotTime,
                     readSet, writeSet, stamp, history, seen>>
      /\ \A u \in Tx : u # t => /\ pc'[u] = pc[u]
                                /\ txSnapshotSeq'[u] = txSnapshotSeq[u]
      /\ active' \subseteq active /\ active \ {t} \subseteq active'
      /\ rollbackWaiting' \subseteq rollbackWaiting \cup {t}
  BY Zenon DEF CommitMark, RollbackCheck, Abort, RollbackApply, Forget, mgrVars,
         txVars, ghostVars, TypeOK
<1>2. /\ pc[t] \in {"open", "marked"}
      /\ pc'[t] \in {"open", "marked", "done"}
      /\ t \in active' => /\ pc'[t] # "done"
                          /\ txSnapshotSeq'[t] = txSnapshotSeq[t]
      /\ pc'[t] # "done" => t \in active'
      /\ t \in rollbackWaiting' => pc'[t] = "open"
  BY TypeTimes
  DEF CommitMark, RollbackCheck, Abort, AtCommit, RollbackApply, Forget,
         IsolationInv, mgrVars
<1>3. ASSUME NEW u \in active'
      PROVE  u \in Tx /\ u \in active /\ txSnapshotSeq'[u] = txSnapshotSeq[u]
  BY Zenon, <1>1, <1>2 DEF TypeOK
<1>4. (LogCoversOpen /\ FirstCommitterWins)'
  BY <1>1, <1>3 DEF IsolationInv, LogCoversOpen, FirstCommitterWins
<1>5. ASSUME NEW u \in Tx, pc'[u] = "stamped"
      PROVE  /\ u # t /\ pc[u] = "stamped"
             /\ Conflicts(u)' <=> Conflicts(u)
  <2>1. u # t
    BY Zenon, <1>2, <1>5
  <2> QED
    BY Zenon, <1>1, <1>5, <2>1 DEF Conflicts, Footprint
<1>6. \A u \in Tx : pc'[u] = "stamped" =>
        /\ snapshotTime'[u] < stamp'[u] /\ stamp'[u] <= lastSubmitTime'
        /\ \A h \in history' : h.submitTime < stamp'[u]
        /\ ~Conflicts(u)'
        /\ \A w \in Tx : pc'[w] = "stamped" => w = u
        /\ \A w \in active' : stamp'[u] <= snapshotTime'[w] => seen'[w] = {}
  BY Zenon, <1>1, <1>5 DEF IsolationInv
<1>7. /\ \A h \in history' : /\ h.submitTime <= lastSubmitTime'
                             /\ h.seq <= commitSeq'
      /\ \A u \in active' : /\ snapshotTime'[u] <= lastSubmitTime'
                            /\ txSnapshotSeq'[u] <= commitSeq'
  BY Zenon, <1>1, <1>3 DEF IsolationInv
<1>8. /\ \A u \in active' : pc'[u] \in {"open", "marked", "stamped"}
      /\ \A u \in Tx : pc'[u] \in {"none"} => seen'[u] = {}
      /\ \A u \in rollbackWaiting' : pc'[u] = "open"
      /\ \A u \in Tx : pc'[u] \in {"open", "marked", "stamped"}
                         => u \in active'
  <2>1. \A u \in active' : pc'[u] \in {"open", "marked", "stamped"}
    BY Zenon, <1>1, <1>2, <1>3 DEF IsolationInv
  <2>2. \A u \in Tx : pc'[u] \in {"none"} => seen'[u] = {}
    BY Zenon, <1>1, <1>2 DEF IsolationInv
  <2>3. ASSUME NEW u \in rollbackWaiting'
        PROVE  pc'[u] = "open"
    <3>1. CASE u = t
      BY Zenon, <1>2, <2>3, <3>1
    <3>2. CASE u # t
      <4>1. u \in rollbackWaiting /\ u \in Tx
        BY Zenon, <1>1, <2>3, <3>2 DEF TypeOK
      <4> QED
        BY Zenon, <1>1, <3>2, <4>1 DEF IsolationInv
    <3> QED
      BY Zenon, <3>1, <3>2
  <2>4. \A u \in Tx : pc'[u] \in {"open", "marked", "stamped"}
                        => u \in active'
    BY Zenon, <1>1, <1>2 DEF IsolationInv
  <2> QED
    BY Zenon, <2>1, <2>2, <2>3, <2>4
<1> QED
  BY Zenon, <1>4, <1>6, <1>7, <1>8 DEF IsolationInv

(* The stamp is above every snapshot and every submit time so far. *)
LEMMA IsolationStamp ==
  ASSUME TypeOK, IsolationInv, NEW t \in Tx, NEW now \in ClockReadings,
         CommitStamp(t, now)
  PROVE  IsolationInv'
<1>1. /\ nextSubmitTime(now) \in Nat /\ nextSubmitTime(now) > lastSubmitTime
      /\ lastSubmitTime' = nextSubmitTime(now)
      /\ lastSubmitTime \in Nat
  BY ClockAssumption DEF CommitStamp, nextSubmitTime, TypeOK
<1>2. /\ pc[t] = "marked" /\ EntityMuFree /\ ~Conflicts(t)
      /\ pc' = [pc EXCEPT ![t] = "stamped"]
      /\ stamp' = [stamp EXCEPT ![t] = nextSubmitTime(now)]
      /\ UNCHANGED <<active, committedLog, commitSeq, txSnapshotSeq,
                     snapshotTime, readSet, writeSet, rollbackWaiting,
                     history, seen>>
  BY DEF CommitStamp, AtCommit, txVars, ghostVars
<1>3. (LogCoversOpen /\ FirstCommitterWins)'
  <2>1. LogCoversOpen /\ FirstCommitterWins
    BY DEF IsolationInv
  <2>2. LogCoversOpen'
    BY <1>2, <2>1, Zenon DEF LogCoversOpen
  <2>3. FirstCommitterWins'
    BY <1>2, <2>1, Zenon DEF FirstCommitterWins
  <2> QED
    BY Zenon, <2>2, <2>3
<1>4. ~Conflicts(t)'
  BY <1>2 DEF Conflicts, Footprint
<1>5. ASSUME NEW u \in active
      PROVE  snapshotTime[u] < nextSubmitTime(now)
  <2>1. snapshotTime[u] \in Nat /\ snapshotTime[u] <= lastSubmitTime
    BY DEF IsolationInv, TypeOK
  <2> QED
    BY <1>1, <2>1
<1>6. ASSUME NEW h \in history
      PROVE  h.submitTime < nextSubmitTime(now)
  <2>1. h.submitTime \in Nat /\ h.submitTime <= lastSubmitTime
    BY Zenon DEF IsolationInv, TypeOK
  <2> QED
    BY <1>1, <2>1
<1>7. \A u \in Tx : pc'[u] = "stamped" =>
        /\ snapshotTime'[u] < stamp'[u] /\ stamp'[u] <= lastSubmitTime'
        /\ \A h \in history' : h.submitTime < stamp'[u]
        /\ ~Conflicts(u)'
        /\ \A w \in Tx : pc'[w] = "stamped" => w = u
        /\ \A w \in active' : stamp'[u] <= snapshotTime'[w] => seen'[w] = {}
  <2> SUFFICES ASSUME NEW u \in Tx, pc'[u] = "stamped"
               PROVE  /\ snapshotTime'[u] < stamp'[u]
                      /\ stamp'[u] <= lastSubmitTime'
                      /\ \A h \in history' : h.submitTime < stamp'[u]
                      /\ ~Conflicts(u)'
                      /\ \A w \in Tx : pc'[w] = "stamped" => w = u
                      /\ \A w \in active' : stamp'[u] <= snapshotTime'[w]
                                              => seen'[w] = {}
    BY Zenon
  <2>1. u = t /\ \A w \in Tx : pc'[w] = "stamped" => w = t
    BY Zenon, <1>2 DEF EntityMuFree, TypeOK
  <2>2. stamp'[u] = nextSubmitTime(now) /\ t \in active
    BY <1>2, <2>1 DEF IsolationInv, TypeOK
  <2>3. ASSUME NEW w \in active
        PROVE  ~(nextSubmitTime(now) <= snapshotTime[w])
    <3>1. snapshotTime[w] \in Nat
      BY DEF TypeOK
    <3> QED
      BY <1>1, <1>5, <3>1
  <2>4. stamp'[u] <= lastSubmitTime'
    BY <1>1, <2>2
  <2>5. \A w \in active' : stamp'[u] <= snapshotTime'[w] => seen'[w] = {}
    BY Zenon, <1>2, <2>2, <2>3
  <2>6. /\ snapshotTime'[u] < stamp'[u]
        /\ \A h \in history' : h.submitTime < stamp'[u]
    BY Zenon, <1>2, <1>5, <1>6, <2>1, <2>2
  <2> QED
    BY Zenon, <1>4, <2>1, <2>4, <2>5, <2>6
<1>8. /\ \A h \in history' : /\ h.submitTime <= lastSubmitTime'
                             /\ h.seq <= commitSeq'
      /\ \A u \in active' : /\ snapshotTime'[u] <= lastSubmitTime'
                            /\ txSnapshotSeq'[u] <= commitSeq'
  <2>1. ASSUME NEW h \in history
        PROVE  h.submitTime <= nextSubmitTime(now)
    <3>1. h.submitTime \in Nat
      BY Zenon DEF TypeOK
    <3> QED
      BY <1>1, <1>6, <3>1
  <2>2. \A u \in active : snapshotTime[u] <= nextSubmitTime(now)
    BY <1>1, <1>5 DEF TypeOK
  <2> QED
    BY Zenon, <1>1, <1>2, <2>1, <2>2 DEF IsolationInv
<1>9. /\ \A u \in active' : pc'[u] \in {"open", "marked", "stamped"}
      /\ \A u \in Tx : pc'[u] \in {"none"} => seen'[u] = {}
      /\ \A u \in rollbackWaiting' : pc'[u] = "open"
      /\ \A u \in Tx : pc'[u] \in {"open", "marked", "stamped"}
                         => u \in active'
  BY <1>2 DEF IsolationInv, TypeOK
<1> QED
  BY Zenon, <1>3, <1>7, <1>8, <1>9 DEF IsolationInv


(* The record of a commit: it conflicts with nothing it could not see, the *)
(* prune keeps what an open transaction cannot see.                        *)
LEMMA IsolationApply ==
  ASSUME TypeOK, IsolationInv, NEW t \in Tx, NEW now, CommitApply(t, now)
  PROVE  IsolationInv'
<1> DEFINE rec == [id |-> t, snapshotTime |-> snapshotTime[t],
                   submitTime |-> stamp[t], seq |-> commitSeq + 1,
                   readSet |-> readSet[t], writeSet |-> writeSet[t]]
           log == [id |-> t, submitTime |-> stamp[t], seq |-> commitSeq + 1,
                   writeSet |-> writeSet[t]]
<1>1. /\ pc[t] = "stamped" /\ t \in active
      /\ active' = active \ {t}
      /\ pc' = [pc EXCEPT ![t] = "done"]
      /\ commitSeq' = commitSeq + 1
      /\ committedLog' = Pruned(committedLog \cup {log}, active \ {t})
      /\ history' = history \cup {rec}
      /\ txSnapshotSeq' = [txSnapshotSeq EXCEPT ![t] = 0]
      /\ UNCHANGED <<lastSubmitTime, snapshotTime, stamp, rollbackWaiting,
                     seen>>
  BY Zenon DEF CommitApply, Forget, IsolationInv
<1>2. /\ rec.id = t /\ rec.snapshotTime = snapshotTime[t]
      /\ rec.submitTime = stamp[t] /\ rec.seq = commitSeq + 1
      /\ rec.readSet = readSet[t] /\ rec.writeSet = writeSet[t]
      /\ log.id = t /\ log.submitTime = stamp[t]
      /\ log.seq = commitSeq + 1 /\ log.writeSet = writeSet[t]
  BY Zenon
<1> HIDE DEF rec, log
<1>3. /\ stamp[t] \in Nat /\ commitSeq \in Nat /\ lastSubmitTime \in Nat
      /\ \A u \in active : /\ u \in Tx /\ snapshotTime[u] \in Nat
                           /\ txSnapshotSeq[u] \in Nat
      /\ \A h \in history : h.submitTime \in Nat /\ h.seq \in Nat
  BY Zenon DEF TypeOK
<1>4. ASSUME NEW u \in Tx
      PROVE  pc'[u] # "stamped"
  BY <1>1, <1>4 DEF IsolationInv, TypeOK
<1>5. FirstCommitterWins'
  <2> SUFFICES ASSUME NEW h \in history', NEW g \in history',
                      h.snapshotTime < g.submitTime,
                      g.submitTime < h.submitTime
               PROVE  g.writeSet \cap (h.readSet \cup h.writeSet) = {}
    BY Zenon DEF FirstCommitterWins
  <2>1. CASE h = rec /\ g \in history
    <3>1. g.submitTime > snapshotTime[t]
      BY Zenon, <1>1, <1>2, <1>3, <2>1
    <3>2. PICK c \in committedLog : c.writeSet = g.writeSet
                                    /\ c.seq > txSnapshotSeq[t]
      BY Zenon, <1>1, <2>1, <3>1 DEF IsolationInv, LogCoversOpen
    <3>3. ~Conflicts(t)
      BY Zenon, <1>1 DEF IsolationInv
    <3> QED
      BY Zenon, <1>2, <2>1, <3>2, <3>3 DEF Conflicts, Footprint
  <2>2. CASE h \in history /\ g = rec
    <3>1. h.submitTime < stamp[t]
      BY Zenon, <1>1, <2>2 DEF IsolationInv
    <3> QED
      BY <1>2, <1>3, <2>2, <3>1
  <2>3. CASE h = rec /\ g = rec
    <3>1. g.submitTime = stamp[t] /\ h.submitTime = stamp[t]
      BY Zenon, <1>2, <2>3
    <3>2. stamp[t] \in Nat
      BY Zenon, <1>3
    <3> QED
      BY <3>1, <3>2
  <2>4. CASE h \in history /\ g \in history
    BY Zenon, <2>4 DEF IsolationInv, FirstCommitterWins
  <2> QED
    BY Zenon, <1>1, <2>1, <2>2, <2>3, <2>4
<1>6. LogCoversOpen'
  <2> SUFFICES ASSUME NEW u \in active', NEW h \in history',
                      h.submitTime > snapshotTime'[u]
               PROVE  \E c \in committedLog' :
                        /\ c.id = h.id /\ c.submitTime = h.submitTime
                        /\ c.writeSet = h.writeSet
                        /\ c.seq > txSnapshotSeq'[u]
    BY DEF LogCoversOpen
  <2>1. /\ u \in active /\ u # t /\ u \in Tx
        /\ txSnapshotSeq'[u] = txSnapshotSeq[u]
        /\ h.submitTime > snapshotTime[u]
        /\ txSnapshotSeq[u] <= commitSeq
    <3>1. u \in active /\ u # t /\ u \in Tx
      BY <1>1, TypeTimes
    <3>2. /\ txSnapshotSeq'[u] = txSnapshotSeq[u]
          /\ h.submitTime > snapshotTime[u]
      BY <1>1, <3>1, TypeTimes
    <3>3. txSnapshotSeq[u] <= commitSeq
      BY <3>1 DEF IsolationInv
    <3> QED
      BY <3>1, <3>2, <3>3
  <2>2. CASE h \in history
    <3>1. PICK c \in committedLog :
            /\ c.id = h.id /\ c.submitTime = h.submitTime
            /\ c.writeSet = h.writeSet /\ c.seq > txSnapshotSeq[u]
      BY Zenon, <2>1, <2>2 DEF IsolationInv, LogCoversOpen
    <3>2. c.submitTime >= snapshotTime[u]
      BY <1>3, <2>1, <2>2, <3>1
    <3>3. c \in committedLog'
      BY Zenon, <1>1, <2>1, <3>2 DEF Pruned
    <3> QED
      BY <2>1, <3>1, <3>3
  <2>3. CASE h = rec
    <3>1. log.submitTime >= snapshotTime[u]
      BY <1>2, <1>3, <2>1, <2>3
    <3>2. log \in committedLog'
      BY Zenon, <1>1, <2>1, <3>1 DEF Pruned
    <3>3. log.seq > txSnapshotSeq'[u]
      BY <1>2, <1>3, <2>1
    <3> QED
      BY Zenon, <1>2, <2>3, <3>2, <3>3
  <2> QED
    BY Zenon, <1>1, <2>2, <2>3
<1>7. ASSUME NEW h \in history'
      PROVE  h.submitTime <= lastSubmitTime' /\ h.seq <= commitSeq'
  <2>1. CASE h = rec
    <3>1. stamp[t] <= lastSubmitTime
      BY Zenon, <1>1 DEF IsolationInv
    <3> QED
      BY <1>1, <1>2, <1>3, <2>1, <3>1
  <2>2. CASE h \in history
    BY <1>1, <1>3, <2>2 DEF IsolationInv
  <2> QED
    BY Zenon, <1>1, <1>7, <2>1, <2>2
<1>8. ASSUME NEW u \in active'
      PROVE  /\ pc'[u] \in {"open", "marked", "stamped"}
             /\ snapshotTime'[u] <= lastSubmitTime'
             /\ txSnapshotSeq'[u] <= commitSeq'
  <2>1. u \in active /\ u # t /\ u \in Tx
    BY Zenon, <1>1, <1>3, <1>8
  <2>2. pc'[u] = pc[u] /\ txSnapshotSeq'[u] = txSnapshotSeq[u]
    BY Zenon, <1>1, <2>1 DEF TypeOK
  <2> QED
    BY <1>1, <1>3, <2>1, <2>2 DEF IsolationInv
<1>9. /\ \A u \in Tx : pc'[u] \in {"none"} => seen'[u] = {}
      /\ \A u \in Tx : pc'[u] \in {"open", "marked", "stamped"}
                         => u \in active'
  BY <1>1 DEF IsolationInv, TypeOK
<1>10. ASSUME NEW u \in rollbackWaiting'
       PROVE  pc'[u] = "open"
  <2>1. u \in rollbackWaiting /\ u \in Tx /\ pc[u] = "open"
    BY Zenon, <1>1, <1>10 DEF IsolationInv, TypeOK
  <2> QED
    BY Zenon, <1>1, <2>1 DEF TypeOK
<1> QED
  BY Zenon, <1>4, <1>5, <1>6, <1>7, <1>8, <1>9, <1>10 DEF IsolationInv

(* Every step keeps the invariant. *)
LEMMA IsolationStep == TypeOK /\ IsolationInv /\ [Next]_vars => IsolationInv'
<1> SUFFICES ASSUME TypeOK, IsolationInv, [Next]_vars
             PROVE  IsolationInv'
  BY Zenon
<1>1. ASSUME NEW t \in Tx, TxNext(t)
      PROVE  IsolationInv'
  <2>1. CASE BoundedCall(t)
    BY <2>1, IsolationCalls
  <2>2. CASE \E now \in ClockReadings : Begin(t, now)
    BY Zenon, <2>2, IsolationBegin
  <2>3. CASE OwnerFree(t) /\ (CommitMark(t) \/ RollbackCheck(t))
    BY Zenon, <2>3, IsolationEnds DEF OwnerFree
  <2>4. CASE CommitConflict(t) \/ CommitPartialKey(t) \/ CommitUnique(t)
    BY Zenon, <2>4, IsolationEnds
    DEF CommitConflict, CommitPartialKey, CommitUnique, Outcome
  <2>5. CASE \E now \in ClockReadings : CommitStamp(t, now)
    BY <2>5, IsolationStamp
  <2>6. CASE \E now \in ClockReadings : CommitApply(t, now)
    BY Zenon, <2>6, IsolationApply
  <2>7. CASE RollbackApply(t)
    BY Zenon, <2>7, IsolationEnds
  <2> QED
    BY Zenon, <1>1, <2>1, <2>2, <2>3, <2>4, <2>5, <2>6, <2>7 DEF TxNext, CommitStep
<1>2. CASE UNCHANGED vars
  <2>1. UNCHANGED <<active, committedLog, commitSeq, txSnapshotSeq,
                    lastSubmitTime, snapshotTime, readSet, writeSet, pc,
                    stamp, rollbackWaiting, history, seen>>
    BY ONLY Zenon, <1>2 DEF vars, mgrVars, txVars, callVars, ghostVars
  <2>2. \A u \in Tx : Conflicts(u)' <=> Conflicts(u)
    BY <2>1, Zenon DEF Conflicts, Footprint
  <2>3. LogCoversOpen' <=> LogCoversOpen
    BY <2>1, Zenon DEF LogCoversOpen
  <2>4. FirstCommitterWins' <=> FirstCommitterWins
    BY <2>1, Zenon DEF FirstCommitterWins
  <2> QED
    BY Zenon, <2>1, <2>2, <2>3, <2>4 DEF IsolationInv
<1> QED
  BY <1>1, <1>2 DEF Next

(* First-committer-wins holds of Commit's check against the committed log, *)
(* for every number of transactions and every clock.                       *)
THEOREM FirstCommitterWinsHolds == Spec => []FirstCommitterWins
<1>1. IsolationInv => FirstCommitterWins
  BY Zenon DEF IsolationInv
<1> QED
  BY <1>1, TypeCorrect, IsolationInit, IsolationStep, PTL DEF Spec

(* The prune at the end of Commit never drops an entry an open transaction *)
(* still has to be checked against.                                        *)
THEOREM LogCoversOpenHolds == Spec => []LogCoversOpen
<1>1. IsolationInv => LogCoversOpen
  BY Zenon DEF IsolationInv
<1> QED
  BY <1>1, TypeCorrect, IsolationInit, IsolationStep, PTL DEF Spec


-----------------------------------------------------------------------------
(* Repeatable reads *)

(* getSnapshotVersion has at most one row to stop at. *)
LEMMA SnapshotRowUnique ==
  ASSUME NEW rows \in Seq(entityVersion), NEW time \in Nat,
         NEW i \in DOMAIN rows, NEW j \in DOMAIN rows,
         IsSnapshotRow(rows, i, time), IsSnapshotRow(rows, j, time)
  PROVE  i = j
<1>1. /\ i \in 1..Len(rows) /\ j \in 1..Len(rows) /\ Len(rows) \in Nat
      /\ \A k \in 1..Len(rows) : rows[k].submitTime \in Nat
  <2>1. \A k \in 1..Len(rows) : rows[k] \in entityVersion
    OBVIOUS
  <2>2. \A r \in entityVersion : r.submitTime \in Nat
    BY DEF entityVersion
  <2>3. DOMAIN rows = 1..Len(rows) /\ Len(rows) \in Nat
    OBVIOUS
  <2> QED
    BY Zenon, <2>1, <2>2, <2>3
<1>2. ASSUME NEW a \in 1..Len(rows), NEW b \in 1..Len(rows), a < b,
             IsSnapshotRow(rows, a, time), IsSnapshotRow(rows, b, time)
      PROVE  FALSE
  <2>1. a + 1 \in 1..Len(rows) /\ a + 1 \in 1..b /\ a < Len(rows)
    BY <1>1, <1>2
  <2>2. rows[a + 1].submitTime > time
    BY Zenon, <1>2, <2>1 DEF IsSnapshotRow
  <2>3. rows[a + 1].submitTime <= time
    BY Zenon, <1>2, <2>1 DEF IsSnapshotRow
  <2>4. rows[a + 1].submitTime \in Nat
    BY Zenon, <1>1, <2>1
  <2> QED
    BY <2>2, <2>3, <2>4, time \in Nat
<1>3. i < j \/ j < i \/ i = j
  BY ONLY <1>1
<1> QED
  BY Zenon, <1>1, <1>2, <1>3

(* Rows stamped after a snapshot are invisible in it. *)
LEMMA SnapshotAppend ==
  ASSUME NEW rows \in Seq(entityVersion), NEW new \in Seq(entityVersion),
         NEW time \in Nat,
         \A k \in DOMAIN new : new[k].submitTime > time
  PROVE  SnapshotOf(rows \o new, time) = SnapshotOf(rows, time)
<1> DEFINE all == rows \o new
<1>1. /\ all \in Seq(entityVersion)
      /\ Len(rows) \in Nat /\ Len(new) \in Nat
      /\ Len(all) = Len(rows) + Len(new)
      /\ DOMAIN rows = 1..Len(rows) /\ DOMAIN all = 1..Len(all)
      /\ DOMAIN new = 1..Len(new)
      /\ \A k \in 1..Len(rows) : all[k] = rows[k]
      /\ \A k \in 1..Len(new) : all[Len(rows) + k] = new[k]
  OBVIOUS
<1> HIDE DEF all
<1>2. \A k \in 1..Len(all) : all[k].submitTime \in Nat
  <2>1. \A k \in 1..Len(all) : all[k] \in entityVersion
    BY <1>1
  <2> QED
    BY Zenon, <2>1 DEF entityVersion
<1>3. ASSUME NEW i \in DOMAIN all, IsSnapshotRow(all, i, time)
      PROVE  i \in DOMAIN rows
  <2> SUFFICES ASSUME i > Len(rows)
               PROVE  FALSE
    BY <1>1
  <2>1. i - Len(rows) \in 1..Len(new)
    BY <1>1
  <2>2. all[Len(rows) + (i - Len(rows))] = new[i - Len(rows)]
    BY Zenon, <1>1, <2>1
  <2>3. i \in 1..Len(all) /\ Len(rows) + (i - Len(rows)) = i
    BY <1>1
  <2>4. all[i].submitTime > time
    BY Zenon, <1>1, <2>1, <2>2, <2>3
  <2>5. all[i].submitTime <= time
    BY <1>3, <2>3 DEF IsSnapshotRow
  <2> QED
    BY <1>2, <2>3, <2>4, <2>5
<1>4. ASSUME NEW i \in DOMAIN rows
      PROVE  i \in DOMAIN all
             /\ (IsSnapshotRow(all, i, time) <=> IsSnapshotRow(rows, i, time))
  <2>1. i \in 1..Len(all) /\ \A j \in 1..i : all[j] = rows[j]
    BY <1>1
  <2>2. CASE i < Len(rows)
    <3>1. i < Len(all) /\ all[i + 1] = rows[i + 1]
      BY <1>1, <2>2
    <3> QED
      BY Zenon, <1>1, <2>1, <2>2, <3>1 DEF IsSnapshotRow
  <2>3. CASE i = Len(rows)
    <3>1. i < Len(all) => all[i + 1].submitTime > time
      <4> SUFFICES ASSUME i < Len(all)
                   PROVE  all[i + 1].submitTime > time
        OBVIOUS
      <4>1. 1 \in 1..Len(new) /\ all[Len(rows) + 1] = new[1]
        BY <1>1, <2>3
      <4> QED
        BY <1>1, <2>3, <4>1
    <3> QED
      BY <1>1, <2>1, <2>3, <3>1 DEF IsSnapshotRow
  <2> QED
    BY <1>1, <2>2, <2>3
<1>5. CASE \E i \in DOMAIN rows : IsSnapshotRow(rows, i, time)
  <2> DEFINE i == CHOOSE i \in DOMAIN rows : IsSnapshotRow(rows, i, time)
             j == CHOOSE j \in DOMAIN all : IsSnapshotRow(all, j, time)
  <2>1. i \in DOMAIN rows /\ IsSnapshotRow(rows, i, time)
    BY Zenon, <1>5
  <2>2. i \in DOMAIN all /\ IsSnapshotRow(all, i, time)
    BY Zenon, <1>4, <2>1
  <2>3. j \in DOMAIN all /\ IsSnapshotRow(all, j, time)
    BY Zenon, <2>2
  <2>4. /\ SnapshotOf(rows, time) = rows[i].val
        /\ SnapshotOf(all, time) = all[j].val
    BY Zenon, <1>5, <2>2 DEF SnapshotOf
  <2> HIDE DEF i, j
  <2>5. i = j
    BY Zenon, <1>1, <2>2, <2>3, SnapshotRowUnique
  <2> QED
    BY Zenon, <1>1, <2>1, <2>4, <2>5 DEF all
<1>6. CASE ~ \E i \in DOMAIN rows : IsSnapshotRow(rows, i, time)
  <2>1. ~ \E i \in DOMAIN all : IsSnapshotRow(all, i, time)
    BY <1>3, <1>4, <1>6
  <2> QED
    BY <1>6, <2>1 DEF SnapshotOf, all
<1> QED
  BY Zenon, <1>5, <1>6


(* What a transaction has read stays what it would read. *)
LEMMA ReadsStep ==
  TypeOK /\ TypeOK' /\ IsolationInv /\ RepeatableReads /\ [Next]_vars
    => RepeatableReads'
<1> SUFFICES ASSUME TypeOK, TypeOK', IsolationInv, RepeatableReads,
                    [Next]_vars
             PROVE  RepeatableReads'
  OBVIOUS
<1>1. ASSUME NEW t \in Tx, BoundedCall(t)
      PROVE  RepeatableReads'
  <2>1. UNCHANGED <<active, snapshotTime, entityData>>
    BY Zenon, <1>1, CallFrame DEF mgrVars, storeVars
  <2>2. CASE seen' = seen
    BY Zenon, <2>1, <2>2 DEF RepeatableReads, getSnapshotVersion
  <2>3. CASE \E E \in SUBSET Entity :
               seen' = [seen EXCEPT ![t] = @ \cup
                 {<<e, getSnapshotVersion(e, snapshotTime[t])>> : e \in E}]
    <3>1. PICK E \in SUBSET Entity :
            seen' = [seen EXCEPT ![t] = @ \cup
              {<<e, getSnapshotVersion(e, snapshotTime[t])>> : e \in E}]
      BY Zenon, <2>3
    <3> SUFFICES ASSUME NEW u \in active, NEW r \in seen'[u]
                 PROVE  getSnapshotVersion(r[1], snapshotTime[u]) = r[2]
      BY <2>1 DEF RepeatableReads, getSnapshotVersion
    <3>2. CASE r \in seen[u]
      BY <3>2 DEF RepeatableReads
    <3>3. CASE r \notin seen[u]
      <4>1. u = t /\ \E e \in E :
              r = <<e, getSnapshotVersion(e, snapshotTime[t])>>
        BY <3>1, <3>3, TypeHandles, TypeTimes
      <4> QED
        BY <4>1
    <3> QED
      BY Zenon, <3>2, <3>3
  <2> QED
    BY Zenon, <1>1, <2>2, <2>3, CallFrame
<1>2. ASSUME NEW t \in Tx, NEW now \in ClockReadings, Begin(t, now)
      PROVE  RepeatableReads'
  <2>1. /\ pc[t] = "none" /\ active' = active \cup {t}
        /\ snapshotTime' = [snapshotTime EXCEPT ![t] = SnapshotAt(now)]
        /\ UNCHANGED <<entityData, seen>>
    BY <1>2 DEF Begin, storeVars, ghostVars
  <2>2. seen[t] = {}
    BY Zenon, <2>1 DEF IsolationInv
  <2> QED
    BY Zenon, <2>1, <2>2 DEF RepeatableReads, getSnapshotVersion, TypeOK
<1>3. ASSUME active' \subseteq active,
             UNCHANGED <<snapshotTime, entityData, seen>>
      PROVE  RepeatableReads'
  BY Zenon, <1>3 DEF RepeatableReads, getSnapshotVersion
<1>4. ASSUME NEW t \in Tx, NEW now \in ClockReadings, CommitApply(t, now)
      PROVE  RepeatableReads'
  <2>1. /\ pc[t] = "stamped" /\ active' = active \ {t}
        /\ entityData' = [e \in Entity |-> entityData[e] \o FlushedRows(t, e)]
        /\ UNCHANGED <<snapshotTime, seen>>
    BY Zenon, <1>4 DEF CommitApply, Forget
  <2> SUFFICES ASSUME NEW u \in active', NEW r \in seen[u]
               PROVE  getSnapshotVersion(r[1], snapshotTime[u])' = r[2]
    BY Zenon, <2>1 DEF RepeatableReads, getSnapshotVersion
  <2>2. u \in active /\ u \in Tx /\ r[1] \in Entity
    <3>1. u \in active /\ u \in Tx
      BY Zenon, <2>1, TypeTimes
    <3>2. r \in Entity \X (Val \cup {None})
      BY Zenon, <3>1, TypeHandles
    <3> QED
      BY Zenon, <3>1, <3>2
  <2>3. snapshotTime[u] < stamp[t]
    <3>1. ~(stamp[t] <= snapshotTime[u])
      BY Zenon, <2>1, <2>2 DEF IsolationInv
    <3>2. snapshotTime[u] \in Nat /\ stamp[t] \in Nat
      BY Zenon, <2>2 DEF TypeOK
    <3> QED
      BY <3>1, <3>2
  <2>4. ASSUME NEW k \in DOMAIN FlushedRows(t, r[1])
        PROVE  FlushedRows(t, r[1])[k].submitTime = stamp[t]
    <3>1. CASE buffer[t][r[1]] # None
      BY Zenon, <2>4, <3>1 DEF FlushedRows
    <3>2. CASE buffer[t][r[1]] = None /\ r[1] \in deletes[t]
      <4>1. FlushedRows(t, r[1])
              = <<[val |-> None, version |-> BaseVersion(entityData[r[1]]) + 1,
                   tx |-> t, submitTime |-> stamp[t]]>>
        BY Zenon, <3>2 DEF FlushedRows
      <4> QED BY ONLY <2>4, <4>1
    <3>3. CASE buffer[t][r[1]] = None /\ r[1] \notin deletes[t]
      BY <2>4, <3>3 DEF FlushedRows
    <3> QED
      BY Zenon, <3>1, <3>2, <3>3
  <2>5. SnapshotOf(entityData[r[1]] \o FlushedRows(t, r[1]), snapshotTime[u])
          = SnapshotOf(entityData[r[1]], snapshotTime[u])
    <3>1. /\ entityData[r[1]] \in Seq(entityVersion)
          /\ FlushedRows(t, r[1]) \in Seq(entityVersion)
          /\ snapshotTime[u] \in Nat
      BY Zenon, <2>2, FlushedRowsType DEF TypeOK
    <3>2. \A k \in DOMAIN FlushedRows(t, r[1]) :
            FlushedRows(t, r[1])[k].submitTime > snapshotTime[u]
      BY Zenon, <2>3, <2>4
    <3> QED
      BY Zenon, <3>1, <3>2, SnapshotAppend
  <2> QED
    BY Zenon, <2>1, <2>2, <2>5 DEF RepeatableReads, getSnapshotVersion
<1>5. ASSUME NEW t \in Tx, TxNext(t)
      PROVE  RepeatableReads'
  BY Zenon, <1>1, <1>2, <1>3, <1>4, <1>5
  DEF TxNext, CommitStep, CommitMark, RollbackCheck, CommitConflict,
      CommitPartialKey, CommitUnique, CommitStamp, Abort, RollbackApply,
      Forget, mgrVars, storeVars, ghostVars
<1>6. CASE UNCHANGED vars
  BY <1>3, <1>6 DEF vars, mgrVars, storeVars, ghostVars
<1> QED
  BY <1>5, <1>6 DEF Next

(* What Get and GetPage have returned from the store stays what they would *)
(* return until the transaction ends, although a Begin may run while a     *)
(* commit is between its stamp and its record.                             *)
THEOREM RepeatableReadsHolds == Spec => []RepeatableReads
<1>1. Init => RepeatableReads
  BY DEF Init, RepeatableReads
<1> QED
  BY <1>1, TypeCorrect, IsolationInit, IsolationStep, ReadsStep, PTL DEF Spec

=============================================================================
