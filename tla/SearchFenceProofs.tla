------------------------- MODULE SearchFenceProofs -------------------------
(***************************************************************************)
(* The second layer of the proofs about async search jobs: a SUCCESSFUL    *)
(* job serves the whole result (ResultsComplete), and no late write undoes *)
(* the end or the handover of a job (JobsKept).                            *)
(*                                                                         *)
(* Both assume PromptSweep, that a sweep is done with a claimed job before *)
(* its claim ages.  ClearResults is not fenced by the epoch, so that the   *)
(* results of a job are whole rests on nobody having claimed and re-run it *)
(* between a claim and its clear.                                          *)
(***************************************************************************)
EXTENDS SearchJobsProofs

-----------------------------------------------------------------------------
(* The invariant. *)

(* The first k entities of the scan, each at its position. *)
Prefix(k) == {<<i, i>> : i \in 1..k}

(* The ids a row holds are a prefix of the scan: the prefix the executor   *)
(* of its epoch has saved, all of it once the job is SUCCESSFUL.  A failed *)
(* job has no executor left, and a job just created is untouched.          *)
RowShape(j) ==
    row[j] # NoJob =>
        LET tk == task[j][row[j].epoch]
        IN  /\ \E k \in 0..Matches : row[j].results = Prefix(k)
            /\ row[j].status = "SUCCESSFUL" => /\ row[j].results = Prefix(Matches)
                                               /\ row[j].count = Matches
            /\ row[j].status = "FAILED" => tk.pc = "none"
            /\ row[j].status = "RUNNING" /\ tk.pc # "none" => row[j].results = Prefix(tk.n)
            /\ sub[j].pc = "created" /\ row[j].epoch = 1 =>
                 row[j].status = "RUNNING" /\ row[j].results = {}

(* A job on a sweep's list is on no other list, is at the epoch of that    *)
(* claim, and was neither finished by an executor nor handed over since;   *)
(* its old results are gone before its executor is made.                   *)
HeldShape(n, c) ==
    /\ \A m \in Node \ {n} : \A d \in sweep[m].todo : d.job # c.job
    /\ sweep[n].pc # "cas" /\ row[c.job] # NoJob =>
         /\ row[c.job].epoch = c.epoch
         /\ row[c.job].status \in {"RUNNING", "CANCELLED"}
         /\ ~row[c.job].released
         /\ sweep[n].pc = "enqueue" /\ c = Oldest(n) => row[c.job].results = {}

(* Memory and sqlite serve one node; only an accepted job is cancelled. *)
FenceInv ==
    /\ \A j \in Job : RowShape(j)
    /\ \A n \in Node : \A c \in sweep[n].todo : HeldShape(n, c)
    /\ backend # "postgres" => \A n \in Node \ {Home} : node[n] = "down"
    /\ \A j \in Job : cancel[j].pc # "none" => sub[j].pc = "accepted"

(* What JobsKept says of one job and one step. *)
KeptStep(j) ==
    /\ row[j] # NoJob /\ row'[j] # NoJob /\ row[j].status \in terminalStatuses =>
         /\ row'[j].status = row[j].status
         /\ row'[j].count = row[j].count
         /\ row[j].status = "SUCCESSFUL" => row'[j].results = row[j].results
    /\ row[j] # NoJob /\ row[j].released /\ task[j][row[j].epoch].cause = "released"
         => row'[j] = NoJob \/ row'[j].status # "FAILED"

LEMMA StatusWrite ==
    ASSUME NEW j, NEW e, NEW s, NEW k, RowOf(j)
    PROVE  /\ Fenced(row[j], e) => UpdateJobStatus(j, e, s, k).row = Stamped(row[j], s, k)
           /\ ~Fenced(row[j], e) => UpdateJobStatus(j, e, s, k).row = row[j]
  <1>1. \A x, y : UpdateJobStatus(j, e, x, y).row =
                    IF Fenced(row[j], e) THEN Stamped(row[j], x, y) ELSE row[j]
    BY Zenon, FencedWrites
  <1> QED BY Zenon, <1>1

(* What a status write and a release leave of a row. *)
LEMMA StampedIs ==
    ASSUME NEW r \in Row, NEW s, NEW k
    PROVE  /\ Stamped(r, s, k).status = s /\ Stamped(r, s, k).count = k
           /\ Stamped(r, s, k).epoch = r.epoch /\ Stamped(r, s, k).results = r.results
           /\ Stamped(r, s, k).released = r.released
  BY DEF Stamped, Row

LEMMA ReleasedIs ==
    ASSUME NEW r \in Row, NEW q, q = [r EXCEPT !.released = TRUE]
    PROVE  q.status = r.status /\ q.epoch = r.epoch /\ q.results = r.results
  BY DEF Row

LEMMA PrefixFacts ==
    /\ Prefix(0) = {}
    /\ \A k \in Nat : Prefix(k + 1) = Prefix(k) \cup {<<k + 1, k + 1>>}
    /\ \A k \in Nat : Cardinality(Prefix(k)) = k
  <1>1. Prefix(0) = {}
    BY DEF Prefix
  <1>2. ASSUME NEW k \in Nat
        PROVE  Prefix(k + 1) = Prefix(k) \cup {<<k + 1, k + 1>>}
    <2>1. 1..(k + 1) = (1..k) \cup {k + 1}
      OBVIOUS
    <2> QED BY Zenon, <2>1 DEF Prefix
  <1>3. ASSUME NEW k \in Nat
        PROVE  Cardinality(Prefix(k)) = k
    <2>1. IsFiniteSet(1..k) /\ Cardinality(1..k) = k
      BY FS_Interval
    <2> DEFINE f == [i \in 1..k |-> <<i, i>>]
    <2>2. f \in Bijection(1..k, Prefix(k))
      BY Zenon DEF Bijection, Injection, Surjection, Prefix, IsInjective
    <2> QED BY <2>1, <2>2, FS_Bijection DEF ExistsBijection
  <1> QED BY Zenon, <1>1, <1>2, <1>3

-----------------------------------------------------------------------------
(* Steps that leave the rows to the invariant. *)

(* The row stays or goes, no executor appears or saves, and no submission  *)
(* begins.                                                                 *)
QuietJob(j) ==
    /\ row'[j] = row[j] \/ row'[j] = NoJob
    /\ \A e \in Epoch : \/ task'[j][e].pc = "none"
                        \/ task[j][e].pc # "none" /\ task'[j][e].n = task[j][e].n
    /\ sub'[j].pc = "created" => sub[j].pc = "created"

LEMMA SameRowKept ==
    ASSUME RegInv, NEW j \in Job, RowShape(j), row'[j] = row[j]
    PROVE  KeptStep(j)
  <1>1. CASE row[j] # NoJob
    <2>1. TaskShape(j, row[j].epoch)
      BY Zenon, <1>1, RowIs DEF RegInv
    <2>2. row[j].status = "FAILED" => task[j][row[j].epoch].cause = "live"
      <3>1. row[j].status = "FAILED" => task[j][row[j].epoch].pc = "none"
        BY Zenon, <1>1 DEF RowShape
      <3>2. task[j][row[j].epoch].pc = "none" => task[j][row[j].epoch] = Idle
        BY Zenon, <2>1 DEF TaskShape
      <3> QED BY ONLY <3>1, <3>2 DEF Idle
    <2> QED BY Zenon, <1>1, <2>2 DEF KeptStep
  <1> QED BY Zenon, <1>1 DEF KeptStep

LEMMA QuietKeeps ==
    ASSUME RegInv, NEW j \in Job, RowShape(j), QuietJob(j)
    PROVE  RowShape(j)' /\ KeptStep(j)
  <1>1. CASE row'[j] = NoJob
    BY Zenon, <1>1 DEF RowShape, KeptStep
  <1>2. CASE row[j] # NoJob /\ row'[j] = row[j]
    <2>1. row[j].epoch \in Epoch
      BY Zenon, <1>2, RowIs
    <2> DEFINE e  == row[j].epoch
    <2>2. \/ task'[j][e].pc = "none"
          \/ task[j][e].pc # "none" /\ task'[j][e].n = task[j][e].n
      BY Zenon, <2>1 DEF QuietJob
    <2>3. RowShape(j)'
      BY Zenon, <1>2, <2>2 DEF RowShape, QuietJob
    <2> QED BY Zenon, <1>2, <2>3, SameRowKept
  <1> QED BY Zenon, <1>1, <1>2 DEF QuietJob

(* A row on a sweep's list may go, be cancelled or be cleared. *)
HeldRow(j) ==
    \/ row'[j] = NoJob
    \/ /\ row[j] # NoJob
       /\ row'[j].epoch = row[j].epoch /\ row'[j].released = row[j].released
       /\ row'[j].status \in {row[j].status, "CANCELLED"}
       /\ row'[j].results \in {row[j].results, {}}

(* No sweep has the job on its list afterwards. *)
Unheld(j) == \A m \in Node : \A c \in sweep'[m].todo : sweep'[m].pc # "cas" => c.job # j

ListsShrink(m) ==
    \/ sweep'[m] = sweep[m]
    \/ sweep'[m].todo = {}
    \/ /\ sweep[m].pc # "cas" /\ sweep'[m].pc # "enqueue"
       /\ sweep'[m].todo \subseteq sweep[m].todo

JobStep(j) ==
    \/ QuietJob(j)
    \/ RowShape(j)' /\ KeptStep(j) /\ (HeldRow(j) \/ Unheld(j))

LEMMA ListsKeep ==
    ASSUME RegInv, FenceInv, \A m \in Node : ListsShrink(m),
           \A j \in Job : HeldRow(j) \/ Unheld(j),
           NEW n \in Node, NEW c \in sweep'[n].todo
    PROVE  HeldShape(n, c)'
  <1>1. /\ sweep'[n].todo \subseteq sweep[n].todo
        /\ \A m \in Node : sweep'[m].todo \subseteq sweep[m].todo
    BY Zenon DEF ListsShrink
  <1>2. c \in sweep[n].todo /\ HeldShape(n, c)
    BY Zenon, <1>1 DEF FenceInv
  <1>3. c.job \in Job
    BY <1>2, TypesAre DEF SweepType
  <1>4. \A m \in Node \ {n} : \A d \in sweep'[m].todo : d.job # c.job
    BY Zenon, <1>1, <1>2 DEF HeldShape
  <1>5. ASSUME sweep'[n].pc # "cas", row'[c.job] # NoJob
        PROVE  /\ row'[c.job].epoch = c.epoch
               /\ row'[c.job].status \in {"RUNNING", "CANCELLED"}
               /\ ~row'[c.job].released
               /\ sweep'[n].pc = "enqueue" /\ c = Oldest(n)' => row'[c.job].results = {}
    <2>1. HeldRow(c.job)
      BY Zenon, <1>3, <1>5 DEF Unheld
    <2>2. sweep[n].pc # "cas" /\ (sweep'[n].pc = "enqueue" => sweep'[n] = sweep[n])
      BY Zenon, <1>2, <1>5 DEF ListsShrink
    <2>3. sweep'[n] = sweep[n] => Oldest(n)' = Oldest(n)
      BY Zenon DEF Oldest
    <2> QED BY Zenon, <1>2, <1>5, <2>1, <2>2, <2>3 DEF HeldShape, HeldRow
  <1> QED BY Zenon, <1>4, <1>5 DEF HeldShape

(* The nodes and the cancels. *)
OthersKept ==
    /\ backend' = backend
    /\ backend # "postgres" => \A n \in Node \ {Home} : node'[n] \in {node[n], "down"}
    /\ \A j \in Job : cancel'[j].pc # "none" => sub'[j].pc = "accepted"

LEMMA RowsKeep ==
    ASSUME RegInv, FenceInv, \A j \in Job : JobStep(j)
    PROVE  /\ \A j \in Job : RowShape(j)' /\ KeptStep(j)
           /\ \A j \in Job : HeldRow(j) \/ Unheld(j)
  <1> SUFFICES ASSUME NEW j \in Job
               PROVE  RowShape(j)' /\ KeptStep(j) /\ (HeldRow(j) \/ Unheld(j))
    BY Zenon
  <1>1. RowShape(j) /\ JobStep(j)
    BY Zenon DEF FenceInv
  <1>2. CASE QuietJob(j)
    <2>1. HeldRow(j)
      BY Zenon, <1>2 DEF QuietJob, HeldRow
    <2> QED BY Zenon, <1>1, <1>2, <2>1, QuietKeeps
  <1> QED BY Zenon, <1>1, <1>2 DEF JobStep

LEMMA FenceSteps ==
    ASSUME RegInv, FenceInv, \A j \in Job : JobStep(j), \A m \in Node : ListsShrink(m),
           OthersKept
    PROVE  FenceInv' /\ \A j \in Job : KeptStep(j)
  <1>1. /\ \A j \in Job : RowShape(j)' /\ KeptStep(j)
        /\ \A j \in Job : HeldRow(j) \/ Unheld(j)
    BY Zenon, RowsKeep
  <1>2. \A n \in Node : \A c \in sweep'[n].todo : HeldShape(n, c)'
    BY Zenon, <1>1, ListsKeep
  <1>3. backend' # "postgres" => \A n \in Node \ {Home} : node'[n] = "down"
    BY Zenon DEF FenceInv, OthersKept
  <1> QED BY Zenon, <1>1, <1>2, <1>3 DEF FenceInv, OthersKept

-----------------------------------------------------------------------------
(* Executors, heartbeats and the pool. *)

LEMMA OthersStay ==
    ASSUME FenceInv, UNCHANGED <<backend, node, sub, cancel>>
    PROVE  OthersKept
  BY Zenon DEF FenceInv, OthersKept

LEMMA ListsStay ==
    ASSUME sweep' = sweep
    PROVE  \A m \in Node : ListsShrink(m)
  BY Zenon DEF ListsShrink

(* One executor moves without saving, or ends. *)
LEMMA QuietEdit ==
    ASSUME RegInv, NEW j \in Job, NEW e \in Epoch, NEW tk, row' = row,
           task' = [task EXCEPT ![j][e] = tk],
           tk.pc = "none" \/ (task[j][e].pc # "none" /\ tk.n = task[j][e].n),
           \A i \in Job : sub'[i].pc = "created" => sub[i].pc = "created"
    PROVE  \A i \in Job : QuietJob(i)
  <1>1. \A i \in Job, f \in Epoch :
          task'[i][f] = IF i = j /\ f = e THEN tk ELSE task[i][f]
    BY Zenon, TypesAre
  <1> QED BY <1>1 DEF QuietJob

LEMMA QuietExecutor ==
    ASSUME RegInv, FenceInv, NEW j \in Job, NEW e \in Epoch, NEW tk,
           task' = [task EXCEPT ![j][e] = tk],
           tk.pc = "none" \/ (task[j][e].pc # "none" /\ tk.n = task[j][e].n),
           UNCHANGED <<backend, row, node, sub, sweep, cancel>>
    PROVE  FenceInv' /\ \A i \in Job : KeptStep(i)
  <1>1. \A i \in Job : QuietJob(i)
    BY Zenon, QuietEdit
  <1>2. \A i \in Job : JobStep(i)
    BY Zenon, <1>1 DEF JobStep
  <1> QED BY Zenon, <1>2, OthersStay, ListsStay, FenceSteps

(* One executor writes its job's row, and ends or goes on. *)
LEMMA WritingExecutor ==
    ASSUME RegInv, FenceInv, NEW j \in Job, NEW e \in Epoch, NEW tk, NEW r,
           task' = [task EXCEPT ![j][e] = tk], row' = [row EXCEPT ![j] = r],
           RowShape(j)', KeptStep(j), Unheld(j),
           UNCHANGED <<backend, node, sub, sweep, cancel>>
    PROVE  FenceInv' /\ \A i \in Job : KeptStep(i)
  <1>1. \A i \in Job \ {j} : row'[i] = row[i] /\ \A f \in Epoch : task'[i][f] = task[i][f]
    BY Zenon, TypesAre
  <1>2. \A i \in Job : JobStep(i)
    BY Zenon, <1>1 DEF JobStep, QuietJob
  <1> QED BY Zenon, <1>2, OthersStay, ListsStay, FenceSteps

(* An executor whose write passes the fence runs a job no sweep has. *)
LEMMA ExecutorNotHeld ==
    ASSUME RegInv, FenceInv, NEW j \in Job, NEW e \in Epoch, Fenced(row[j], e),
           task[j][e].pc \notin {"none", "made"}, sweep' = sweep
    PROVE  Unheld(j)
  <1> SUFFICES ASSUME NEW m \in Node, NEW c \in sweep[m].todo, sweep[m].pc # "cas", c.job = j
               PROVE  FALSE
    BY Zenon DEF Unheld
  <1>1. sweep[m].pc \notin {"idle", "cas"}
    BY Zenon DEF RegInv, SweepShape
  <1>2. c.epoch = e
    BY Zenon DEF FenceInv, HeldShape, Fenced
  <1>3. task[c.job][c.epoch].pc \in {"none", "made"}
    BY Zenon, <1>1, ClaimIs
  <1> QED BY Zenon, <1>2, <1>3

(* SaveResults: the chunk goes to the next position. *)
LEMMA SaveFenced ==
    ASSUME RegInv, FenceInv, NEW j \in Job, NEW e \in Epoch, Save(j, e)
    PROVE  FenceInv' /\ \A i \in Job : KeptStep(i)
  <1> DEFINE tk  == task[j][e]
             ids == IF tk.n < Matches THEN {tk.n + 1} ELSE {}
             ans == SaveChunk(j, e, tk.n + 1, ids)
  <1>1. tk.pc = "scan" /\ UNCHANGED <<backend, node, sub, sweep, cancel>>
    BY Zenon DEF Save, On
  <1>2. tk \in TaskType /\ tk.n \in 0..Matches /\ tk.n \in Nat /\ Matches \in Nat
    BY ExecutorIs, Consts DEF TaskType
  <1>3. CASE /\ row' = row
             /\ task' = [task EXCEPT ![j][e] = [tk EXCEPT !.pc = "judge", !.err = TRUE]]
    <2>1. [tk EXCEPT !.pc = "judge", !.err = TRUE].n = tk.n
      BY Zenon, <1>2 DEF TaskType
    <2> QED BY Zenon, <1>1, <1>3, <2>1, QuietExecutor
  <1>4. CASE /\ ans.err = "nil" /\ row' = [row EXCEPT ![j] = ans.row]
             /\ task' = [task EXCEPT ![j][e] = IF ids = {} THEN [tk EXCEPT !.pc = "judge"]
                                               ELSE [tk EXCEPT !.n = tk.n + 1]]
    <2>1. RowOf(j) /\ row \in [Job -> Row \cup {NoJob}]
      BY Zenon, RowIs, TypesAre
    <2>2. /\ Fenced(row[j], e)
          /\ \E p \in {tk.n + 1, Cardinality(row[j].results) + 1} :
               ans.row = [row[j] EXCEPT !.results = @ \cup {<<p, i>> : i \in ids}]
      <3> HIDE DEF ids, tk
      <3> QED BY <1>4, <2>1, ChunkSaved
    <2>3. row[j] \in Row /\ row[j] # NoJob /\ row[j].epoch = e /\ row[j].status = "RUNNING"
      BY Zenon, <2>2, RowIs DEF Fenced, Row, Status
    <2>4. row[j].results = Prefix(tk.n)
      BY Zenon, <1>1, <2>3 DEF FenceInv, RowShape
    <2>5. ans.row = [row[j] EXCEPT !.results = @ \cup {<<tk.n + 1, i>> : i \in ids}]
      <3>1. Cardinality(row[j].results) = tk.n
        BY Zenon, <1>2, <2>4, PrefixFacts
      <3> HIDE DEF ids, ans, tk
      <3> QED BY <2>2, <3>1
    <2>6. CASE ~(tk.n < Matches)
      <3>0. ids = {}
        BY Zenon, <2>6
      <3>1. ans.row = row[j]
        <4>1. {<<tk.n + 1, i>> : i \in ids} = {}
          BY Zenon, <3>0
        <4> HIDE DEF ids, ans, tk
        <4>2. ans.row = [row[j] EXCEPT !.results = @ \cup {}]
          BY Zenon, <2>5, <4>1
        <4> QED BY <2>3, <4>2 DEF Row
      <3>2. row' = row
        BY Zenon, <1>4, <2>1, <3>1
      <3>3. task' = [task EXCEPT ![j][e] = [tk EXCEPT !.pc = "judge"]]
        BY Zenon, <1>4, <3>0
      <3>4. [tk EXCEPT !.pc = "judge"].n = tk.n
        BY Zenon, <1>2 DEF TaskType
      <3> QED BY Zenon, <1>1, <3>2, <3>3, <3>4, QuietExecutor
    <2>7. CASE tk.n < Matches
      <3> DEFINE q == [tk EXCEPT !.n = tk.n + 1]
      <3>0. tk.n + 1 \in 0..Matches /\ ids = {tk.n + 1}
        BY <1>2, <2>7
      <3>1. tk.n + 1 \in 0..Matches /\ ids # {}
        BY Zenon, <3>0
      <3>2. {<<tk.n + 1, i>> : i \in ids} = {<<tk.n + 1, tk.n + 1>>}
        BY Zenon, <3>0
      <3>3. ans.row = [row[j] EXCEPT !.results = Prefix(tk.n + 1)]
        <4>1. row[j].results \cup {<<tk.n + 1, i>> : i \in ids} = Prefix(tk.n + 1)
          BY <1>2, <2>4, <3>2, PrefixFacts
        <4> HIDE DEF ids, ans, tk
        <4> QED BY Zenon, <2>5, <4>1
      <3>4. /\ row'[j] = ans.row
            /\ ans.row.epoch = e /\ ans.row.status = "RUNNING"
            /\ ans.row.results = Prefix(tk.n + 1)
        BY Zenon, <1>4, <2>1, <2>3, <3>3 DEF Row
      <3>5. task' = [task EXCEPT ![j][e] = q]
        BY Zenon, <1>4, <3>1
      <3>6. task'[j][e] = q /\ q.n = tk.n + 1 /\ q.pc = "scan"
        BY Zenon, <1>1, <1>2, <3>5, TypesAre DEF TaskType
      <3> HIDE DEF q, ids, ans
      <3>7. sub[j].pc = "created" => e # 1
        BY Zenon, <1>1, Consts DEF RegInv, SubShape
      <3>8. RowShape(j)'
        BY Zenon, <1>1, <3>1, <3>4, <3>6, <3>7 DEF RowShape
      <3>9. KeptStep(j)
        BY Zenon, <2>3, <3>4 DEF KeptStep, terminalStatuses
      <3>10. Unheld(j)
        BY Zenon, <1>1, <2>2, ExecutorNotHeld
      <3> QED BY Zenon, <1>1, <1>4, <3>5, <3>8, <3>9, <3>10, WritingExecutor
    <2> QED BY Zenon, <2>6, <2>7
  <1> QED BY Zenon, <1>3, <1>4 DEF Save

(* The write that ends an execution: FAILED unless the handle was released *)
(* or superseded, SUCCESSFUL when every chunk was saved.                   *)
LEMMA EndFenced ==
    ASSUME RegInv, FenceInv, NEW j \in Job, NEW e \in Epoch, NEW s \in {"FAILED", "SUCCESSFUL"},
           NEW k \in 0..Matches, task[j][e].pc \in {"fail", "succeed"},
           s = "FAILED" => task[j][e].cause # "released",
           s = "SUCCESSFUL" => k = Matches /\ task[j][e].n = Matches,
           row' = [row EXCEPT ![j] = UpdateJobStatus(j, e, s, k).row],
           task' = [task EXCEPT ![j][e] = Idle],
           UNCHANGED <<backend, node, sub, sweep, cancel>>
    PROVE  FenceInv' /\ \A i \in Job : KeptStep(i)
  <1>1. RowOf(j) /\ row \in [Job -> Row \cup {NoJob}]
    BY Zenon, RowIs, TypesAre
  <1>2. CASE ~Fenced(row[j], e)
    <2>1. UpdateJobStatus(j, e, s, k).row = row[j]
      BY <1>1, <1>2, StatusWrite
    <2>2. row' = row
      BY Zenon, <1>1, <2>1
    <2> QED BY Zenon, <2>2, QuietExecutor DEF Idle
  <1>3. CASE Fenced(row[j], e)
    <2> DEFINE r == Stamped(row[j], s, k)
    <2>0. UpdateJobStatus(j, e, s, k).row = r
      BY <1>1, <1>3, StatusWrite
    <2>1. row' = [row EXCEPT ![j] = r] /\ row'[j] = r
      BY Zenon, <1>1, <2>0
    <2>2. row[j] \in Row /\ row[j] # NoJob /\ row[j].epoch = e /\ row[j].status = "RUNNING"
      BY Zenon, <1>3, RowIs DEF Fenced, Row, Status
    <2>3. r.status = s /\ r.count = k /\ r.epoch = e /\ r.results = row[j].results
      BY Zenon, <2>2 DEF Stamped, Row
    <2> HIDE DEF r
    <2>4. row[j].results = Prefix(task[j][e].n) /\ \E l \in 0..Matches : row[j].results = Prefix(l)
      BY Zenon, <2>2 DEF FenceInv, RowShape
    <2>5. task'[j][e].pc = "none"
      BY Zenon, TypesAre DEF Idle
    <2>6. sub[j].pc = "created" => e # 1
      BY Zenon, Consts DEF RegInv, SubShape
    <2>7. RowShape(j)'
      BY Zenon, <2>1, <2>3, <2>4, <2>5, <2>6 DEF RowShape
    <2>8. KeptStep(j)
      BY Zenon, <2>1, <2>2, <2>3 DEF KeptStep, terminalStatuses
    <2>9. Unheld(j)
      BY Zenon, <1>3, ExecutorNotHeld
    <2> QED BY Zenon, <2>1, <2>7, <2>8, <2>9, WritingExecutor
  <1> QED BY Zenon, <1>2, <1>3

LEMMA ExecutingFenced ==
    ASSUME RegInv, FenceInv, NEW j \in Job, NEW e \in Epoch, Executing(j, e)
    PROVE  FenceInv' /\ \A i \in Job : KeptStep(i)
  <1> DEFINE tk == task[j][e]
             Next1(pc) == [tk EXCEPT !.pc = pc]
  <1>1. tk \in TaskType /\ SavedShape(tk) /\ tk.n \in 0..Matches
    BY Zenon, ExecutorIs DEF TaskType
  <1>2. \A pc : /\ Next1(pc).n = tk.n
                /\ [task EXCEPT ![j][e].pc = pc] = [task EXCEPT ![j][e] = Next1(pc)]
    BY Zenon, <1>1, SameFunction DEF TaskType
  <1>3. tk.pc # "none"
    BY Zenon DEF Executing, SetupFails, Save, Judge, Recover, writeAsyncFailure, WriteSuccess, On
  <1>4. ASSUME NEW pc, task' = [task EXCEPT ![j][e].pc = pc],
               UNCHANGED <<backend, row, node, sub, sweep, cancel>>
        PROVE  FenceInv' /\ \A i \in Job : KeptStep(i)
    <2> DEFINE q == Next1(pc)
    <2>1. task' = [task EXCEPT ![j][e] = q] /\ q.n = task[j][e].n
      BY Zenon, <1>2, <1>4
    <2>2. UNCHANGED <<backend, row, node, sub, sweep, cancel>> /\ task[j][e].pc # "none"
      BY Zenon, <1>3, <1>4
    <2> HIDE DEF q, Next1
    <2> QED BY ONLY Zenon, RegInv, FenceInv, j \in Job, e \in Epoch, <2>1, <2>2, QuietExecutor
  <1>5. ASSUME task' = [task EXCEPT ![j][e] = Idle],
               UNCHANGED <<backend, row, node, sub, sweep, cancel>>
        PROVE  FenceInv' /\ \A i \in Job : KeptStep(i)
    BY Zenon, <1>5, QuietExecutor DEF Idle
  <1>6. CASE SetupFails(j, e)
    BY Zenon, <1>4, <1>6 DEF SetupFails
  <1>7. CASE Save(j, e)
    BY Zenon, <1>7, SaveFenced
  <1>8. CASE Judge(j, e)
    BY Zenon, <1>4, <1>8 DEF Judge
  <1>9. CASE Recover(j, e)
    BY Zenon, <1>4, <1>5, <1>9 DEF Recover, Finish
  <1>10. CASE writeAsyncFailure(j, e)
    <2>1. /\ tk.pc = "fail" /\ task' = [task EXCEPT ![j][e] = Idle]
          /\ UNCHANGED <<backend, node, sub, sweep, cancel>>
      BY Zenon, <1>10 DEF writeAsyncFailure, On, Finish
    <2>2. CASE row' = row
      BY Zenon, <1>5, <2>1, <2>2
    <2>3. CASE /\ tk.cause # "released"
               /\ row' = [row EXCEPT ![j] = UpdateJobStatus(j, e, "FAILED", 0).row]
      <3>1. 0 \in 0..Matches
        BY Consts
      <3> QED BY Zenon, <2>1, <2>3, <3>1, EndFenced
    <2> QED BY Zenon, <1>10, <2>2, <2>3 DEF writeAsyncFailure
  <1>11. CASE WriteSuccess(j, e)
    <2>1. /\ tk.pc = "succeed" /\ task' = [task EXCEPT ![j][e] = Idle]
          /\ UNCHANGED <<backend, node, sub, sweep, cancel>>
      BY Zenon, <1>11 DEF WriteSuccess, On, Finish
    <2>2. CASE row' = row
      BY Zenon, <1>5, <2>1, <2>2
    <2>3. CASE row' = [row EXCEPT ![j] = UpdateJobStatus(j, e, "SUCCESSFUL", tk.n).row]
      <3>1. tk.n = Matches /\ Matches \in 0..Matches
        BY Zenon, <1>1, <2>1, Consts DEF SavedShape
      <3> QED BY Zenon, <2>1, <2>3, <3>1, EndFenced
    <2> QED BY Zenon, <1>11, <2>2, <2>3 DEF WriteSuccess
  <1> QED BY <1>6, <1>7, <1>8, <1>9, <1>10, <1>11 DEF Executing

LEMMA CancelledKeepsCount ==
    ASSUME NEW tk \in TaskType, NEW cause
    PROVE  Cancelled(tk, cause).n = tk.n /\ Cancelled(tk, cause).pc = tk.pc
  BY Zenon DEF Cancelled, TaskType

LEMMA HeartbeatFenced ==
    ASSUME RegInv, FenceInv, NEW j \in Job, NEW e \in Epoch, HeartbeatTick(j, e)
    PROVE  FenceInv' /\ \A i \in Job : KeptStep(i)
  <1>1. /\ task[j][e].pc # "none" /\ UNCHANGED <<backend, row, node, sub, sweep, cancel>>
        /\ task' = [task EXCEPT ![j][e] = Cancelled(task[j][e], "cancelled")]
    BY Zenon DEF HeartbeatTick, Beating
  <1>2. Cancelled(task[j][e], "cancelled").n = task[j][e].n
    BY Zenon, ExecutorIs, CancelledKeepsCount
  <1> QED BY Zenon, <1>1, <1>2, QuietExecutor

LEMMA TakeFenced ==
    ASSUME RegInv, FenceInv, NEW n \in Node, NEW j \in Job, NEW e \in Epoch, Take(n, j, e)
    PROVE  FenceInv' /\ \A i \in Job : KeptStep(i)
  <1>1. task[j][e].pc # "none" /\ UNCHANGED <<backend, row, node, sub, sweep, cancel>>
    BY Zenon DEF Take
  <1>2. CASE task' = [task EXCEPT ![j][e] = Idle]
    BY Zenon, <1>1, <1>2, QuietExecutor DEF Idle
  <1>3. CASE task' = [task EXCEPT ![j][e].pc = "scan"]
    <2> DEFINE q == [task[j][e] EXCEPT !.pc = "scan"]
    <2>1. task' = [task EXCEPT ![j][e] = q]
      BY Zenon, <1>3, SameFunction
    <2>2. q.n = task[j][e].n
      BY Zenon, ExecutorIs DEF TaskType
    <2> HIDE DEF q
    <2> QED BY Zenon, <1>1, <2>1, <2>2, QuietExecutor
  <1> QED BY Zenon, <1>2, <1>3 DEF Take

-----------------------------------------------------------------------------
(* Cancels, submissions, and the handover at shutdown. *)

(* Only one job's row, executors and requests change. *)
LEMMA OneJobFenced ==
    ASSUME RegInv, FenceInv, NEW j \in Job, JobStep(j),
           \A i \in Job \ {j} : /\ row'[i] = row[i] /\ sub'[i] = sub[i] /\ cancel'[i] = cancel[i]
                                /\ \A e \in Epoch : task'[i][e] = task[i][e],
           cancel'[j].pc # "none" => sub'[j].pc = "accepted",
           UNCHANGED <<backend, node>>, \A m \in Node : ListsShrink(m)
    PROVE  FenceInv' /\ \A i \in Job : KeptStep(i)
  <1>1. \A i \in Job : JobStep(i)
    BY Zenon DEF JobStep, QuietJob
  <1>2. OthersKept
    BY Zenon DEF OthersKept, FenceInv
  <1> QED BY Zenon, <1>1, <1>2, FenceSteps

LEMMA CancelStoreFenced ==
    ASSUME RegInv, FenceInv, NEW j \in Job, CancelStore(j)
    PROVE  FenceInv' /\ \A i \in Job : KeptStep(i)
  <1>1. /\ row' = [row EXCEPT ![j] = Cancel(j).row] /\ sub[j].pc = "accepted"
        /\ UNCHANGED <<backend, task, node, sub, sweep>>
        /\ \A i \in Job \ {j} : cancel'[i] = cancel[i]
    BY Zenon, TypesAre DEF CancelStore, FenceInv, Bookkeeping
  <1>2. RowOf(j) /\ row \in [Job -> Row \cup {NoJob}]
    BY Zenon, RowIs, TypesAre
  <1>3. row'[j] = IF row[j] # NoJob /\ row[j].status \notin terminalStatuses
                  THEN [row[j] EXCEPT !.status = "CANCELLED"] ELSE row[j]
    BY Zenon, <1>1, <1>2, UnfencedWrites
  <1>4. CASE row'[j] = row[j]
    <2>1. QuietJob(j)
      BY Zenon, <1>1, <1>4 DEF QuietJob
    <2> QED BY Zenon, <1>1, <1>2, <2>1, ListsStay, OneJobFenced DEF JobStep
  <1>5. CASE /\ row[j] # NoJob /\ row[j].status \notin terminalStatuses
             /\ row'[j] = [row[j] EXCEPT !.status = "CANCELLED"]
    <2>1. row[j] \in Row
      BY Zenon, <1>5, RowIs
    <2>2. /\ row'[j].status = "CANCELLED" /\ row'[j].results = row[j].results
          /\ row'[j].epoch = row[j].epoch /\ row'[j].released = row[j].released
      BY Zenon, <1>5, <2>1 DEF Row
    <2>3. RowShape(j)'
      BY <1>1, <1>5, <2>2 DEF FenceInv, RowShape
    <2>4. KeptStep(j)
      BY Zenon, <1>5, <2>2 DEF KeptStep
    <2>5. HeldRow(j)
      BY Zenon, <1>5, <2>2 DEF HeldRow
    <2> QED BY Zenon, <1>1, <1>2, <2>3, <2>4, <2>5, ListsStay, OneJobFenced DEF JobStep
  <1> QED BY Zenon, <1>3, <1>4, <1>5

LEMMA CancellingFenced ==
    ASSUME RegInv, FenceInv, NEW j \in Job,
           \/ CancelRunning(j) \/ ReapExpired(j) \/ \E n \in Node : CancelRead(n, j)
    PROVE  FenceInv' /\ \A i \in Job : KeptStep(i)
  <1>1. /\ UNCHANGED <<backend, node, sub, sweep>>
        /\ \A i \in Job \ {j} : cancel'[i] = cancel[i]
        /\ cancel'[j].pc # "none" => sub[j].pc = "accepted"
    BY Zenon, TypesAre DEF CancelRunning, ReapExpired, CancelRead, FenceInv, Bookkeeping
  <1>2. \A i \in Job \ {j} : row'[i] = row[i] /\ \A e \in Epoch : task'[i][e] = task[i][e]
    BY Zenon, TypesAre DEF CancelRunning, ReapExpired, CancelRead
  <1>3. QuietJob(j)
    <2>1. CASE CancelRunning(j)
      <3> DEFINE e == reg[cancel[j].node][j]
      <3>1. e \in Epoch => task[j][e].pc # "none"
        <4>1. cancel[j].node \in Node
          BY TypesAre DEF Bookkeeping, CancelType
        <4>2. Handles
          BY Zenon DEF RegInv
        <4> QED BY ONLY <4>1, <4>2, j \in Job DEF Handles
      <3>2. e = 0 \/ e \in Epoch
        BY TypesAre DEF RegTyped, Bookkeeping, CancelType
      <3>3. CASE task' = task
        BY Zenon, <1>1, <2>1, <3>3 DEF QuietJob, CancelRunning
      <3>4. CASE e \in Epoch /\ task' = [task EXCEPT ![j][e] = Cancelled(task[j][e], "cancelled")]
        <4>1. Cancelled(task[j][e], "cancelled").n = task[j][e].n
          BY Zenon, <3>4, ExecutorIs, CancelledKeepsCount
        <4>2. row' = row
          BY Zenon, <2>1 DEF CancelRunning
        <4> HIDE DEF e
        <4> QED BY Zenon, <1>1, <3>1, <3>4, <4>1, <4>2, QuietEdit
      <3> QED BY Zenon, <2>1, <3>2, <3>3, <3>4 DEF CancelRunning
    <2>2. CASE ReapExpired(j)
      <3>1. row'[j] = row[j] \/ row'[j] = NoJob
        BY Zenon, <2>2, RowIs, TypesAre, UnfencedWrites DEF ReapExpired
      <3> QED BY Zenon, <1>1, <2>2, <3>1 DEF QuietJob, ReapExpired
    <2>3. CASE \E n \in Node : CancelRead(n, j)
      BY Zenon, <2>3 DEF QuietJob, CancelRead
    <2> QED BY Zenon, <2>1, <2>2, <2>3
  <1> QED BY Zenon, <1>1, <1>2, <1>3, ListsStay, OneJobFenced DEF JobStep

LEMMA SubmitCreateFenced ==
    ASSUME RegInv, FenceInv, NEW n \in Node, NEW j \in Job, SubmitCreate(n, j)
    PROVE  FenceInv' /\ \A i \in Job : KeptStep(i)
  <1>1. /\ sub[j].pc = "new" /\ UNCHANGED <<backend, task, node, sweep, cancel>>
        /\ \A i \in Job \ {j} : row'[i] = row[i] /\ sub'[i] = sub[i]
        /\ row'[j] = CreateJob /\ sub'[j].pc = "created"
    BY Zenon, TypesAre DEF SubmitCreate
  <1>2. row[j] = NoJob /\ \A e \in Epoch : task[j][e].pc = "none"
    BY Zenon, <1>1 DEF RegInv, SubShape
  <1>3. row'[j] = memCreateJob
    BY Zenon, <1>1, RowIs, UnfencedWrites
  <1>4. /\ row'[j].results = {} /\ row'[j].status = "RUNNING" /\ row'[j].epoch = 1
    BY <1>3 DEF memCreateJob
  <1>5. RowShape(j)'
    <2>1. 0 \in 0..Matches /\ 1 \in Epoch
      BY Consts
    <2> QED BY Zenon, <1>1, <1>2, <1>4, <2>1, PrefixFacts DEF RowShape
  <1>6. KeptStep(j)
    BY Zenon, <1>2 DEF KeptStep
  <1>7. Unheld(j)
    <2> SUFFICES ASSUME NEW m \in Node, NEW c \in sweep[m].todo, sweep[m].pc # "cas", c.job = j
                 PROVE  FALSE
      BY Zenon, <1>1 DEF Unheld
    <2>1. sweep[m].pc \notin {"idle", "cas"}
      BY Zenon DEF RegInv, SweepShape
    <2> QED BY <1>1, <2>1, ClaimIs
  <1>8. cancel[j].pc = "none"
    BY Zenon, <1>1 DEF FenceInv
  <1> QED BY <1>1, <1>5, <1>6, <1>7, <1>8, ListsStay, OneJobFenced DEF JobStep

LEMMA SubmittingFenced ==
    ASSUME RegInv, FenceInv, NEW j \in Job, Submitting(j)
    PROVE  FenceInv' /\ \A i \in Job : KeptStep(i)
  <1>1. /\ sub[j].pc \in {"created", "registered", "reject"} /\ sub'[j].pc # "created"
        /\ UNCHANGED <<backend, node, sweep, cancel>>
        /\ \A i \in Job \ {j} : sub'[i] = sub[i]
    BY TypesAre DEF Submitting, SubmitRegister, SubmitEnqueue, SubmitReject, At, SubType
  <1>2. cancel[j].pc = "none"
    BY Zenon, <1>1 DEF FenceInv
  <1>3. \A i \in Job \ {j} : row'[i] = row[i] /\ \A e \in Epoch : task'[i][e] = task[i][e]
    BY Zenon, TypesAre DEF Submitting, SubmitRegister, SubmitEnqueue, SubmitReject
  <1>4. JobStep(j)
    <2>1. CASE SubmitRegister(j)
      <3>1. row' = row /\ sub[j].pc = "created"
        BY Zenon, <2>1 DEF SubmitRegister, At
      <3>2. CASE task' = task
        BY Zenon, <1>1, <3>1, <3>2 DEF JobStep, QuietJob
      <3> DEFINE new == [Idle EXCEPT !.pc = "made", !.node = sub[j].node]
      <3>3. CASE task' = [task EXCEPT ![j][1] = new]
        <4>1. new.n = 0
          BY Zenon DEF Idle
        <4> HIDE DEF new
        <4>2. /\ 1 \in Epoch /\ task'[j][1] = new
              /\ \A e \in Epoch \ {1} : task'[j][e] = task[j][e]
          BY Zenon, <3>3, TypesAre, Consts
        <4>3. RowShape(j) /\ KeptStep(j)
          BY Zenon, <3>1, SameRowKept DEF FenceInv
        <4>4. RowShape(j)'
          <5>1. CASE row[j] # NoJob /\ row[j].epoch = 1
            BY Zenon, <1>1, <3>1, <4>1, <4>2, <4>3, <5>1, PrefixFacts DEF RowShape
          <5>2. CASE row[j] # NoJob /\ row[j].epoch # 1
            <6>1. task'[j][row[j].epoch] = task[j][row[j].epoch]
              BY Zenon, <4>2, <5>2, RowIs
            <6> QED BY Zenon, <1>1, <3>1, <4>3, <5>2, <6>1 DEF RowShape
          <5>3. CASE row[j] = NoJob
            BY Zenon, <3>1, <5>3 DEF RowShape
          <5> QED BY Zenon, <5>1, <5>2, <5>3
        <4>5. HeldRow(j)
          BY Zenon, <3>1 DEF HeldRow
        <4> QED BY Zenon, <4>3, <4>4, <4>5 DEF JobStep
      <3> QED BY Zenon, <2>1, <3>2, <3>3 DEF SubmitRegister
    <2>2. CASE SubmitEnqueue(j)
      <3>1. row' = row /\ sub[j].pc = "registered" /\ 1 \in Epoch
        BY Zenon, <2>2, Consts DEF SubmitEnqueue, At
      <3>2. task[j][1].pc # "none"
        BY Zenon, <3>1 DEF RegInv, SubShape
      <3>3. \A i \in Job : sub'[i].pc = "created" => sub[i].pc = "created"
        BY Zenon, <1>1
      <3>4. CASE task' = [task EXCEPT ![j][1] = Idle]
        BY Zenon, <3>1, <3>3, <3>4, QuietEdit DEF JobStep, Idle
      <3> DEFINE q == [task[j][1] EXCEPT !.pc = "queued"]
      <3>5. CASE task' = [task EXCEPT ![j][1].pc = "queued"]
        <4>1. task' = [task EXCEPT ![j][1] = q]
          BY Zenon, <3>1, <3>5, SameFunction
        <4>2. q.n = task[j][1].n
          BY <3>1, ExecutorIs DEF TaskType
        <4> HIDE DEF q
        <4> QED BY Zenon, <3>1, <3>2, <3>3, <4>1, <4>2, QuietEdit DEF JobStep
      <3> QED BY Zenon, <2>2, <3>4, <3>5 DEF SubmitEnqueue
    <2>3. CASE SubmitReject(j)
      <3>1. row'[j] = row[j] \/ row'[j] = NoJob
        BY Zenon, <2>3, RowIs, TypesAre, UnfencedWrites DEF SubmitReject
      <3> QED BY Zenon, <1>1, <2>3, <3>1 DEF JobStep, QuietJob, SubmitReject
    <2> QED BY Zenon, <2>1, <2>2, <2>3 DEF Submitting
  <1> QED BY Zenon, <1>1, <1>2, <1>3, <1>4, ListsStay, OneJobFenced

(* A node that hands its jobs over runs no sweep, and no other sweep has   *)
(* the claim its handle belongs to.                                        *)
LEMMA ReleaseRegisteredFenced ==
    ASSUME RegInv, FenceInv, NEW n \in Node, NEW j \in Job, ReleaseRegisteredJobs(n, j)
    PROVE  FenceInv' /\ \A i \in Job : KeptStep(i)
  <1> DEFINE e == reg[n][j]
             q == Cancelled(task[j][e], "released")
  <1>1. /\ node[n] = "draining" /\ e # 0 /\ UNCHANGED <<backend, node, sub, sweep, cancel>>
        /\ task' = [task EXCEPT ![j][e] = q] /\ row' = [row EXCEPT ![j] = Release(j, e).row]
    BY Zenon DEF ReleaseRegisteredJobs
  <1>2. e \in Epoch
    BY <1>1, TypesAre DEF RegTyped
  <1>3. task[j][e].pc # "none" /\ task[j][e].node = n
    BY <1>2 DEF RegInv, Handles
  <1>4. q.n = task[j][e].n /\ q.pc = task[j][e].pc
    BY Zenon, <1>2, ExecutorIs, CancelledKeepsCount
  <1> HIDE DEF e, q
  <1>5. RowOf(j) /\ row \in [Job -> Row \cup {NoJob}]
    BY Zenon, RowIs, TypesAre
  <1>6. CASE ~Fenced(row[j], e)
    <2>1. row' = row
      BY Zenon, <1>1, <1>5, <1>6, FencedWrites
    <2> QED BY Zenon, <1>1, <1>2, <1>3, <1>4, <2>1, QuietExecutor
  <1>7. CASE Fenced(row[j], e)
    <2>1. row'[j] = [row[j] EXCEPT !.released = TRUE]
      BY Zenon, <1>1, <1>5, <1>7, FencedWrites
    <2>2. row[j] \in Row /\ row[j] # NoJob /\ row[j].epoch = e /\ row[j].status = "RUNNING"
      BY Zenon, <1>7, RowIs DEF Fenced, Row, Status
    <2>3. /\ row'[j].status = "RUNNING" /\ row'[j].epoch = e
          /\ row'[j].results = row[j].results
      BY Zenon, <2>1, <2>2 DEF Row
    <2>4. task'[j][e] = q
      BY Zenon, <1>1, <1>2, TypesAre
    <2>5. sub[j].pc = "created" => e # 1
      BY Zenon, <1>3 DEF RegInv, SubShape
    <2>6. RowShape(j)'
      <3>1. RowShape(j)
        BY Zenon DEF FenceInv
      <3> HIDE DEF q
      <3> QED BY ONLY <1>1, <1>3, <1>4, <2>2, <2>3, <2>4, <2>5, <3>1 DEF RowShape
    <2>7. KeptStep(j)
      BY Zenon, <2>2, <2>3 DEF KeptStep, terminalStatuses
    <2>8. Unheld(j)
      <3> SUFFICES ASSUME NEW m \in Node, NEW c \in sweep[m].todo, sweep[m].pc # "cas", c.job = j
                   PROVE  FALSE
        BY Zenon, <1>1 DEF Unheld
      <3>1. sweep[m].pc \notin {"idle", "cas"} /\ node[m] = "up"
        BY Zenon DEF RegInv, SweepShape
      <3>2. c.epoch = e
        BY Zenon, <2>2 DEF FenceInv, HeldShape
      <3>3. task[j][e].node = m
        BY <1>3, <3>1, <3>2, ClaimIs
      <3> QED BY Zenon, <1>1, <1>3, <3>1, <3>3
    <2> QED BY Zenon, <1>1, <1>2, <2>6, <2>7, <2>8, WritingExecutor
  <1> QED BY Zenon, <1>6, <1>7

-----------------------------------------------------------------------------
(* The sweep and its oldest claim. *)

LEMMA OldestHeld ==
    ASSUME RegInv, FenceInv, NEW n \in Node, sweep[n].pc \notin {"idle", "cas"}
    PROVE  LET c == Oldest(n) IN
           /\ c \in sweep[n].todo /\ c.job \in Job /\ c.epoch \in Epoch /\ c.epoch > 1
           /\ sweep[n].pc # "submit" => task[c.job][c.epoch].pc = "none"
           /\ sweep[n].pc = "submit" => task[c.job][c.epoch].pc = "made"
           /\ row[c.job] # NoJob =>
                /\ row[c.job] \in Row /\ row[c.job].epoch = c.epoch
                /\ row[c.job].status \in {"RUNNING", "CANCELLED"} /\ ~row[c.job].released
                /\ sweep[n].pc = "enqueue" => row[c.job].results = {}
           /\ \A m \in Node \ {n} : \A d \in sweep[m].todo : d.job # c.job
  <1> DEFINE c == Oldest(n)
  <1>1. c \in sweep[n].todo
    BY Zenon, OldestIs
  <1>2. HeldShape(n, c)
    BY Zenon, <1>1 DEF FenceInv
  <1>3. /\ c.job \in Job /\ c.epoch \in Epoch /\ c.epoch > 1
        /\ sweep[n].pc # "submit" => task[c.job][c.epoch].pc = "none"
        /\ sweep[n].pc = "submit" => task[c.job][c.epoch].pc = "made"
    BY <1>1, ClaimIs
  <1>4. row[c.job] # NoJob => row[c.job] \in Row
    BY Zenon, <1>3, RowIs
  <1> QED BY Zenon, <1>1, <1>2, <1>3, <1>4 DEF HeldShape

(* The sweep is done with its oldest claim. *)
LEMMA GivenUp ==
    ASSUME RegInv, FenceInv, NEW n \in Node, sweep[n].pc \notin {"idle", "cas"},
           sweep' = [sweep EXCEPT ![n] = Rest(n)]
    PROVE  /\ \A j : j = Oldest(n).job => Unheld(j)
           /\ \A m \in Node : ListsShrink(m)
  <1>1. /\ sweep'[n] = Rest(n) /\ \A m \in Node \ {n} : sweep'[m] = sweep[m]
    BY Zenon, TypesAre
  <1>2. /\ Rest(n).todo \subseteq sweep[n].todo /\ Rest(n).pc \in {"idle", "next"}
        /\ \A c \in Rest(n).todo : c.job # Oldest(n).job
    BY Zenon, RestIs
  <1>3. \A m \in Node \ {n} : \A d \in sweep[m].todo : d.job # Oldest(n).job
    BY Zenon, OldestHeld
  <1>4. \A j : j = Oldest(n).job => Unheld(j)
    BY Zenon, <1>1, <1>2, <1>3 DEF Unheld
  <1>5. \A m \in Node : ListsShrink(m)
    BY Zenon, <1>1, <1>2 DEF ListsShrink
  <1> QED BY Zenon, <1>4, <1>5

(* A sweep writes the row of its oldest claim. *)
LEMMA SweepWrites ==
    ASSUME RegInv, FenceInv, NEW n \in Node, NEW r, sweep[n].pc \notin {"idle", "cas"},
           NEW j \in Job, j = Oldest(n).job, row' = [row EXCEPT ![j] = r],
           RowShape(j)', KeptStep(j), sweep' = [sweep EXCEPT ![n] = Rest(n)],
           UNCHANGED <<backend, task, node, sub, cancel>>
    PROVE  FenceInv' /\ \A i \in Job : KeptStep(i)
  <1>1. Unheld(j) /\ \A m \in Node : ListsShrink(m)
    BY Zenon, GivenUp
  <1>3. JobStep(j)
    BY Zenon, <1>1 DEF JobStep
  <1>4. \A i \in Job \ {j} : row'[i] = row[i]
    BY Zenon, TypesAre
  <1>5. cancel'[j].pc # "none" => sub'[j].pc = "accepted"
    BY Zenon DEF FenceInv
  <1> QED BY Zenon, <1>1, <1>3, <1>4, <1>5, OneJobFenced

LEMMA SweepRests ==
    ASSUME RegInv, FenceInv, NEW n \in Node, sweep[n].pc \notin {"idle", "cas"},
           sweep' = [sweep EXCEPT ![n] = Rest(n)], row' = row,
           UNCHANGED <<backend, task, node, sub, cancel>>
    PROVE  FenceInv' /\ \A i \in Job : KeptStep(i)
  <1>1. \A i \in Job : JobStep(i)
    BY Zenon DEF JobStep, QuietJob
  <1>2. \A m \in Node : ListsShrink(m)
    BY Zenon, GivenUp
  <1>3. OthersKept
    BY Zenon, OthersStay
  <1> QED BY ONLY Zenon, RegInv, FenceInv, <1>1, <1>2, <1>3, FenceSteps

(* The fenced FAILED of a sweep. *)
LEMMA SweepFails ==
    ASSUME RegInv, FenceInv, NEW n \in Node, sweep[n].pc \in {"next", "enqueue"},
           row' = [row EXCEPT ![Oldest(n).job] =
                     UpdateJobStatus(Oldest(n).job, Oldest(n).epoch, "FAILED", 0).row],
           sweep' = [sweep EXCEPT ![n] = Rest(n)],
           UNCHANGED <<backend, task, node, sub, cancel>>
    PROVE  FenceInv' /\ \A i \in Job : KeptStep(i)
  <1>0. PICK j, e : j = Oldest(n).job /\ e = Oldest(n).epoch
    BY Zenon
  <1>1. /\ j \in Job /\ e \in Epoch /\ e > 1 /\ task[j][e].pc = "none"
        /\ row[j] # NoJob => row[j] \in Row /\ row[j].epoch = e /\ ~row[j].released
    BY Zenon, <1>0, OldestHeld
  <1>5. row' = [row EXCEPT ![j] = UpdateJobStatus(j, e, "FAILED", 0).row]
    BY Zenon, <1>0
  <1>2. RowOf(j) /\ row \in [Job -> Row \cup {NoJob}]
    BY Zenon, <1>1, RowIs, TypesAre
  <1>3. CASE ~Fenced(row[j], e)
    <2>1. UpdateJobStatus(j, e, "FAILED", 0).row = row[j]
      BY <1>2, <1>3, StatusWrite
    <2>2. row' = row
      BY <1>2, <1>5, <2>1
    <2> QED BY Zenon, <2>2, SweepRests
  <1>4. CASE Fenced(row[j], e)
    <2>1. row[j] \in Row /\ row[j] # NoJob /\ row[j].epoch = e /\ row[j].status = "RUNNING"
          /\ ~row[j].released
      BY Zenon, <1>1, <1>4 DEF Fenced, Row, Status
    <2>2. row'[j] = Stamped(row[j], "FAILED", 0)
      <3>1. UpdateJobStatus(j, e, "FAILED", 0).row = Stamped(row[j], "FAILED", 0)
        BY <1>2, <1>4, StatusWrite
      <3> QED BY Zenon, <1>1, <1>2, <1>5, <3>1
    <2>3. /\ row'[j].status = "FAILED" /\ row'[j].epoch = e /\ row'[j].results = row[j].results
      <3>1. \A r \in Row : /\ Stamped(r, "FAILED", 0).status = "FAILED"
                           /\ Stamped(r, "FAILED", 0).epoch = r.epoch
                           /\ Stamped(r, "FAILED", 0).results = r.results
        BY StampedIs
      <3> QED BY Zenon, <2>1, <2>2, <3>1
    <2>4. RowShape(j)'
      <3>1. \E k \in 0..Matches : row'[j].results = Prefix(k)
        BY <1>1, <2>1, <2>3 DEF FenceInv, RowShape
      <3>2. e # 1 /\ task'[j][e].pc = "none"
        BY <1>1
      <3> QED BY Zenon, <2>3, <3>1, <3>2 DEF RowShape
    <2>5. KeptStep(j)
      BY Zenon, <2>1, <2>3 DEF KeptStep, terminalStatuses
    <2> QED BY Zenon, <1>0, <1>1, <1>5, <2>4, <2>5, SweepWrites
  <1> QED BY Zenon, <1>3, <1>4

(* The release of a claimed job. *)
LEMMA SweepReleases ==
    ASSUME RegInv, FenceInv, NEW n \in Node, sweep[n].pc \in {"next", "release"},
           row' = [row EXCEPT ![Oldest(n).job] = Release(Oldest(n).job, Oldest(n).epoch).row],
           sweep' = [sweep EXCEPT ![n] = Rest(n)],
           UNCHANGED <<backend, task, node, sub, cancel>>
    PROVE  FenceInv' /\ \A i \in Job : KeptStep(i)
  <1>0. PICK j, e : j = Oldest(n).job /\ e = Oldest(n).epoch
    BY Zenon
  <1>1. /\ j \in Job /\ e \in Epoch /\ e > 1 /\ task[j][e].pc = "none"
        /\ row[j] # NoJob => row[j] \in Row /\ row[j].epoch = e /\ ~row[j].released
    BY Zenon, <1>0, OldestHeld
  <1>5. row' = [row EXCEPT ![j] = Release(j, e).row]
    BY Zenon, <1>0
  <1>2. RowOf(j) /\ row \in [Job -> Row \cup {NoJob}]
    BY Zenon, <1>1, RowIs, TypesAre
  <1>3. CASE ~Fenced(row[j], e)
    <2>1. Release(j, e).row = row[j]
      BY Zenon, <1>2, <1>3, FencedWrites
    <2>2. row' = row
      BY <1>2, <1>5, <2>1
    <2> QED BY Zenon, <2>2, SweepRests
  <1>4. CASE Fenced(row[j], e)
    <2>1. row[j] \in Row /\ row[j] # NoJob /\ row[j].epoch = e /\ row[j].status = "RUNNING"
          /\ ~row[j].released
      BY Zenon, <1>1, <1>4 DEF Fenced, Row, Status
    <2>2. row'[j] = [row[j] EXCEPT !.released = TRUE]
      BY <1>1, <1>2, <1>4, <1>5, FencedWrites
    <2>3. /\ row'[j].status = "RUNNING" /\ row'[j].epoch = e /\ row'[j].results = row[j].results
      BY Zenon, <2>1, <2>2, ReleasedIs
    <2>4. RowShape(j)'
      <3>1. \E k \in 0..Matches : row'[j].results = Prefix(k)
        BY Zenon, <1>1, <2>1, <2>3 DEF FenceInv, RowShape
      <3>2. e # 1 /\ task'[j][e].pc = "none"
        BY <1>1
      <3> QED BY Zenon, <2>3, <3>1, <3>2 DEF RowShape
    <2>5. KeptStep(j)
      BY Zenon, <2>1, <2>3 DEF KeptStep, terminalStatuses
    <2> QED BY Zenon, <1>0, <1>1, <1>5, <2>4, <2>5, SweepWrites
  <1> QED BY Zenon, <1>3, <1>4

(* ClearResults: only the sweep that has the job can have called it. *)
LEMMA SweepClears ==
    ASSUME RegInv, FenceInv, NEW n \in Node, sweep[n].pc = "next",
           row' = [row EXCEPT ![Oldest(n).job] = ClearResults(Oldest(n).job)],
           sweep' = SweepAt(n, "enqueue"),
           UNCHANGED <<backend, task, node, sub, cancel>>
    PROVE  FenceInv' /\ \A i \in Job : KeptStep(i)
  <1>0. PICK c, j : c = Oldest(n) /\ j = c.job
    BY Zenon
  <1>1. /\ c \in sweep[n].todo /\ j \in Job /\ c.epoch > 1 /\ c.epoch \in Epoch
        /\ task[j][c.epoch].pc = "none"
        /\ row[j] # NoJob => /\ row[j] \in Row /\ row[j].epoch = c.epoch
                             /\ row[j].status \in {"RUNNING", "CANCELLED"} /\ ~row[j].released
    BY Zenon, <1>0, OldestHeld
  <1>2. RowOf(j) /\ row \in [Job -> Row \cup {NoJob}]
    BY Zenon, <1>1, RowIs, TypesAre
  <1>3. row'[j] = IF row[j] = NoJob THEN NoJob ELSE [row[j] EXCEPT !.results = {}]
    <2>1. row' = [row EXCEPT ![j] = ClearResults(j)]
      BY Zenon, <1>0
    <2>2. ClearResults(j) = IF row[j] = NoJob THEN NoJob ELSE [row[j] EXCEPT !.results = {}]
      BY Zenon, <1>2, UnfencedWrites
    <2> QED BY Zenon, <1>1, <1>2, <2>1, <2>2
  <1>4. \A i \in Job \ {j} : row'[i] = row[i]
    BY Zenon, <1>0, <1>2
  <1>5. /\ sweep'[n].pc = "enqueue" /\ sweep'[n].todo = sweep[n].todo
        /\ \A m \in Node \ {n} : sweep'[m] = sweep[m]
    BY Zenon, TypesAre DEF SweepAt, SweepType
  <1>6. row[j] # NoJob => /\ row'[j].results = {} /\ row'[j].status = row[j].status
                          /\ row'[j].epoch = row[j].epoch /\ row'[j].count = row[j].count
                          /\ row'[j].released = row[j].released
    BY <1>1, <1>3 DEF Row
  <1>7. HeldRow(j) /\ \A i \in Job : HeldRow(i)
    BY Zenon, <1>3, <1>4, <1>6 DEF HeldRow
  <1>8. RowShape(j)'
    <2>1. 0 \in 0..Matches /\ {} = Prefix(0)
      BY Consts, PrefixFacts
    <2>2. row'[j] # NoJob => /\ row'[j].results = {} /\ row'[j].status # "SUCCESSFUL"
                             /\ row'[j].status # "FAILED" /\ row'[j].epoch = c.epoch
      BY Zenon, <1>1, <1>3, <1>6
    <2>3. c.epoch # 1 /\ task'[j][c.epoch].pc = "none"
      BY <1>1
    <2> QED BY Zenon, <2>1, <2>2, <2>3 DEF RowShape
  <1>9. KeptStep(j)
    BY Zenon, <1>1, <1>3, <1>6 DEF KeptStep
  <1>10. \A i \in Job : JobStep(i)
    <2>1. JobStep(j)
      BY Zenon, <1>7, <1>8, <1>9 DEF JobStep
    <2>2. \A i \in Job \ {j} : QuietJob(i)
      BY Zenon, <1>4 DEF QuietJob
    <2> QED BY Zenon, <2>1, <2>2 DEF JobStep
  <1>11. \A i \in Job : RowShape(i)' /\ KeptStep(i)
    BY Zenon, <1>10, RowsKeep
  <1>12. ASSUME NEW m \in Node, NEW d \in sweep'[m].todo
         PROVE  HeldShape(m, d)'
    <2>1. d \in sweep[m].todo /\ d.job \in Job /\ HeldShape(m, d)
      BY <1>5, TypesAre DEF FenceInv, SweepType
    <2>2. \A k \in Node \ {m} : \A x \in sweep'[k].todo : x.job # d.job
      BY Zenon, <1>5, <2>1 DEF HeldShape
    <2>3. HeldRow(d.job)
      BY Zenon, <1>7, <2>1
    <2>4. CASE m = n
      <3>1. Oldest(n)' = Oldest(n)
        BY Zenon, <1>5 DEF Oldest
      <3>2. row'[d.job] # NoJob /\ d = c => row'[d.job].results = {}
        BY Zenon, <1>0, <1>3, <1>6
      <3> QED BY Zenon, <1>0, <1>5, <2>1, <2>2, <2>3, <2>4, <3>1, <3>2 DEF HeldShape, HeldRow
    <2>5. CASE m # n
      <3>1. Oldest(m)' = Oldest(m)
        BY Zenon, <1>5, <2>5 DEF Oldest
      <3> QED BY <1>5, <2>1, <2>2, <2>3, <2>5, <3>1 DEF HeldShape, HeldRow
    <2> QED BY Zenon, <2>4, <2>5
  <1> QED BY Zenon, <1>11, <1>12 DEF FenceInv

(* reenqueueClaimed: the new executor starts on an empty result. *)
LEMMA SweepMakes ==
    ASSUME RegInv, FenceInv, NEW n \in Node, SweepRegister(n), row' = row,
           sweep' = SweepAt(n, "submit")
    PROVE  FenceInv' /\ \A i \in Job : KeptStep(i)
  <1>0. PICK c, j : c = Oldest(n) /\ j = c.job
    BY Zenon
  <1> DEFINE new == [Idle EXCEPT !.pc = "made", !.node = n]
             Taken(e) == CASE e = c.epoch -> new
                           [] e = reg[n][j] /\ e # c.epoch -> Cancelled(task[j][e], "superseded")
                           [] OTHER -> task[j][e]
  <1>1. sweep[n].pc = "enqueue" /\ UNCHANGED <<backend, node, sub, cancel>>
    BY Zenon DEF SweepRegister
  <1>2. sweep' # [sweep EXCEPT ![n] = Rest(n)]
    <2>1. Rest(n).pc \in {"idle", "next"}
      BY Zenon, <1>1, RestIs
    <2>2. sweep'[n].pc = "submit" /\ [sweep EXCEPT ![n] = Rest(n)][n] = Rest(n)
      BY Zenon, TypesAre DEF SweepAt, SweepType
    <2> QED BY Zenon, <2>1, <2>2
  <1>3. task' = [task EXCEPT ![j] = [e \in Epoch |-> Taken(e)]]
    BY Zenon, <1>0, <1>2 DEF SweepRegister
  <1>4. /\ j \in Job /\ c.epoch \in Epoch /\ c.epoch > 1
        /\ row[j] # NoJob => /\ row[j] \in Row /\ row[j].epoch = c.epoch
                             /\ row[j].status \in {"RUNNING", "CANCELLED"}
                             /\ row[j].results = {}
    BY Zenon, <1>0, <1>1, OldestHeld
  <1>5. new.n = 0
    BY Zenon DEF Idle
  <1>6. task'[j][c.epoch] = new /\ \A i \in Job \ {j} : task'[i] = task[i]
    BY Zenon, <1>3, <1>4, TypesAre
  <1> HIDE DEF new, Taken
  <1>7. RowShape(j)'
    BY Zenon, <1>1, <1>4, <1>5, <1>6, PrefixFacts DEF FenceInv, RowShape
  <1>8. KeptStep(j)
    BY Zenon, <1>4, SameRowKept DEF FenceInv
  <1>9. HeldRow(j)
    BY Zenon DEF HeldRow
  <1>10. \A m \in Node : ListsShrink(m)
    BY Zenon, <1>1, TypesAre DEF SweepAt, SweepType, ListsShrink
  <1>11. cancel'[j].pc # "none" => sub'[j].pc = "accepted"
    BY Zenon, <1>1, <1>4 DEF FenceInv
  <1> QED BY <1>1, <1>4, <1>6, <1>7, <1>8, <1>9, <1>10, <1>11, OneJobFenced DEF JobStep

LEMMA SweepSubmitFenced ==
    ASSUME RegInv, FenceInv, NEW n \in Node, SweepSubmit(n)
    PROVE  FenceInv' /\ \A i \in Job : KeptStep(i)
  <1> DEFINE j == Oldest(n).job
             e == Oldest(n).epoch
             q == [task[j][e] EXCEPT !.pc = "queued"]
  <1>1. sweep[n].pc = "submit" /\ UNCHANGED <<backend, row, node, sub, cancel>>
    BY Zenon DEF SweepSubmit
  <1>2. j \in Job /\ e \in Epoch /\ task[j][e].pc = "made"
    BY Zenon, <1>1, OldestHeld
  <1>3. q.n = task[j][e].n
    BY <1>2, ExecutorIs DEF TaskType
  <1>4. \/ task' = [task EXCEPT ![j][e] = Idle] /\ sweep' = SweepAt(n, "release")
        \/ task' = [task EXCEPT ![j][e].pc = "queued"] /\ sweep' = [sweep EXCEPT ![n] = Rest(n)]
    BY Zenon DEF SweepSubmit
  <1>5. [task EXCEPT ![j][e].pc = "queued"] = [task EXCEPT ![j][e] = q]
    BY Zenon, <1>2, SameFunction
  <1> HIDE DEF q, j, e
  <1>6. \A i \in Job : QuietJob(i)
    <2>1. CASE task' = [task EXCEPT ![j][e] = Idle]
      BY Zenon, <1>1, <1>2, <2>1, QuietEdit DEF Idle
    <2>2. CASE task' = [task EXCEPT ![j][e] = q]
      BY Zenon, <1>1, <1>2, <1>3, <2>2, QuietEdit
    <2> QED BY Zenon, <1>4, <1>5, <2>1, <2>2
  <1>7. \A i \in Job : JobStep(i)
    BY Zenon, <1>6 DEF JobStep
  <1>8. \A m \in Node : ListsShrink(m)
    <2>1. CASE sweep' = SweepAt(n, "release")
      BY Zenon, <1>1, <2>1, TypesAre DEF SweepAt, SweepType, ListsShrink
    <2>2. CASE sweep' = [sweep EXCEPT ![n] = Rest(n)]
      BY Zenon, <1>1, <2>2, GivenUp
    <2> QED BY Zenon, <1>4, <2>1, <2>2
  <1> QED BY <1>1, <1>7, <1>8, OthersStay, FenceSteps

-----------------------------------------------------------------------------
(* New claims. *)

LEMMA ClaimedKeeps ==
    ASSUME RegInv, FenceInv, NEW j \in Job, Claimed(j), UNCHANGED <<task, sub>>
    PROVE  RowShape(j)' /\ KeptStep(j)
  <1>1. /\ row[j] # NoJob /\ row[j].epoch \in Nat /\ row'[j].epoch \in Epoch
        /\ row'[j].epoch = row[j].epoch + 1 /\ row[j].epoch # 0
    BY Zenon, RowIs, Consts DEF Claimed, Row
  <1>2. task[j][row'[j].epoch].pc = "none"
    <2>1. TaskShape(j, row'[j].epoch)
      BY Zenon, <1>1 DEF RegInv
    <2>2. ~(row'[j].epoch <= row[j].epoch)
      BY ONLY <1>1
    <2> QED BY Zenon, <1>1, <2>1, <2>2 DEF TaskShape
  <1>3. RowShape(j)'
    <2>1. RowShape(j)
      BY Zenon DEF FenceInv
    <2>2. UNCHANGED <<task, sub>> /\ Claimed(j)
      OBVIOUS
    <2> QED BY ONLY <1>1, <1>2, <2>1, <2>2 DEF RowShape, Claimed
  <1>4. KeptStep(j)
    BY Zenon DEF Claimed, KeptStep, terminalStatuses
  <1> QED BY Zenon, <1>3, <1>4

(* Memory and sqlite have one node to sweep. *)
LEMMA SoleSweep ==
    ASSUME RegInv, FenceInv, backend # "postgres", NEW n \in Node, node[n] = "up",
           NEW m \in Node, sweep[m].pc # "idle"
    PROVE  m = n
  <1>1. node[m] = "up"
    BY Zenon DEF RegInv, SweepShape
  <1> QED BY <1>1 DEF FenceInv

(* The jobs a sweep claims are on no other list. *)
NewClaims(n) ==
    /\ \A m \in Node \ {n} : sweep'[m] = sweep[m]
    /\ sweep'[n].pc # "enqueue"
    /\ \A c \in sweep'[n].todo : \A m \in Node \ {n} : \A d \in sweep[m].todo : d.job # c.job
    /\ sweep'[n].pc # "cas" => \A c \in sweep'[n].todo :
         Claimed(c.job) /\ c.epoch = row'[c.job].epoch
    /\ \A j \in Job : \/ row'[j] = row[j]
                      \/ /\ Claimed(j)
                         /\ \A m \in Node \ {n} : \A d \in sweep[m].todo : d.job # j

LEMMA NewClaimsFenced ==
    ASSUME RegInv, FenceInv, NEW n \in Node, NewClaims(n),
           UNCHANGED <<backend, task, node, sub, cancel>>
    PROVE  FenceInv' /\ \A i \in Job : KeptStep(i)
  <1>1. ASSUME NEW j \in Job PROVE RowShape(j)' /\ KeptStep(j)
    <2>1. CASE Claimed(j)
      BY Zenon, <2>1, ClaimedKeeps
    <2>2. CASE row'[j] = row[j]
      <3>1. RowShape(j) /\ QuietJob(j)
        BY Zenon, <2>2 DEF FenceInv, QuietJob
      <3> QED BY Zenon, <3>1, QuietKeeps
    <2> QED BY Zenon, <2>1, <2>2 DEF NewClaims
  <1>2. ASSUME NEW c \in sweep'[n].todo PROVE HeldShape(n, c)'
    <2>1. \A m \in Node \ {n} : \A d \in sweep'[m].todo : d.job # c.job
      BY Zenon DEF NewClaims
    <2>2. sweep'[n].pc # "cas" => /\ row'[c.job].epoch = c.epoch
                                  /\ row'[c.job].status = "RUNNING" /\ ~row'[c.job].released
      BY Zenon DEF NewClaims, Claimed
    <2>3. sweep'[n].pc # "enqueue"
      BY Zenon DEF NewClaims
    <2> QED BY Zenon, <2>1, <2>2, <2>3 DEF HeldShape
  <1>3. ASSUME NEW m \in Node \ {n}, NEW c \in sweep'[m].todo PROVE HeldShape(m, c)'
    <2>1. sweep'[m] = sweep[m] /\ c \in sweep[m].todo /\ HeldShape(m, c) /\ c.job \in Job
      BY TypesAre DEF NewClaims, FenceInv, SweepType
    <2>2. row'[c.job] = row[c.job]
      BY Zenon, <2>1 DEF NewClaims
    <2>3. \A k \in Node \ {m} : \A d \in sweep'[k].todo : d.job # c.job
      BY <2>1 DEF NewClaims, HeldShape
    <2>4. Oldest(m)' = Oldest(m)
      BY Zenon, <2>1 DEF Oldest
    <2> QED BY Zenon, <2>1, <2>2, <2>3, <2>4 DEF HeldShape
  <1> QED BY Zenon, <1>1, <1>2, <1>3 DEF FenceInv

LEMMA SweepClaimFenced ==
    ASSUME PromptSweep, RegInv, FenceInv, NEW n \in Node, NEW S \in SUBSET Job, SweepClaim(n, S)
    PROVE  FenceInv' /\ \A i \in Job : KeptStep(i)
  <1> DEFINE C == Candidates(n, S)
             todo == {[job |-> j, epoch |-> row'[j].epoch, stale |-> row'[j].staleClaims] : j \in C}
             pc1 == IF backend = "sqlite" THEN "cas" ELSE "next"
  <1>1. /\ node[n] = "up" /\ UNCHANGED <<backend, task, node, sub, cancel>>
        /\ sweep' = [sweep EXCEPT ![n] = [pc |-> pc1, todo |-> todo]]
        /\ \A j \in S : ~Held(j)
    BY Zenon DEF SweepClaim
  <1>2. /\ backend = "sqlite" => row' = row
        /\ backend # "sqlite" =>
             \A j \in Job : IF j \in C THEN Claimed(j) ELSE row'[j] = row[j]
    BY Zenon, SweepClaimRows
  <1>3. \A j \in C : j \in Job /\ row[j] \in Row /\ (row[j].released \/ j \in S)
    BY Zenon, CandidatesRun
  <1> HIDE DEF C
  <1>4. \A c \in todo : c.job \in C /\ c.epoch = row'[c.job].epoch
    OBVIOUS
  <1> HIDE DEF todo
  <1>5. /\ \A m \in Node \ {n} : sweep'[m] = sweep[m]
        /\ sweep'[n].pc = pc1 /\ sweep'[n].todo = todo
    BY Zenon, <1>1, TypesAre
  <1>6. ASSUME NEW m \in Node \ {n}, NEW d \in sweep[m].todo
        PROVE  d.job \notin C
    <2> SUFFICES ASSUME d.job \in C PROVE FALSE
      BY Zenon
    <2>1. sweep[m].pc # "idle" /\ (sweep[m].pc = "cas" => backend = "sqlite")
      BY Zenon DEF RegInv, SweepShape
    <2>2. backend = "postgres"
      BY Zenon, <1>1, <2>1, SoleSweep
    <2>3. row[d.job] # NoJob
      BY Zenon, <1>3, Consts
    <2>4. ~row[d.job].released
      BY Zenon, <2>1, <2>2, <2>3 DEF FenceInv, HeldShape
    <2>5. Held(d.job)
      BY Zenon DEF Held
    <2> QED BY Zenon, <1>1, <1>3, <2>4, <2>5
  <1>7. NewClaims(n)
    BY <1>2, <1>3, <1>4, <1>5, <1>6 DEF NewClaims
  <1> QED BY Zenon, <1>1, <1>7, NewClaimsFenced

LEMMA SweepCASFenced ==
    ASSUME RegInv, FenceInv, NEW n \in Node, SweepCAS(n)
    PROVE  FenceInv' /\ \A i \in Job : KeptStep(i)
  <1> DEFINE todo == {[job |-> c.job, epoch |-> c.epoch + 1,
                       stale |-> sqliteClaim(row[c.job], c.epoch).staleClaims] : c \in Won(n)}
             pc1 == IF todo = {} THEN "idle" ELSE "next"
  <1>1. /\ sweep[n].pc = "cas" /\ UNCHANGED <<backend, task, node, sub, cancel>>
        /\ sweep' = [sweep EXCEPT ![n] = [pc |-> pc1, todo |-> todo]]
    BY Zenon DEF SweepCAS, Won
  <1>2. /\ \A c \in Won(n) : Claimed(c.job) /\ row[c.job].epoch = c.epoch
        /\ \A j \in Job : (\A c \in Won(n) : c.job # j) => row'[j] = row[j]
    BY Zenon, SweepCASRows
  <1>3. backend = "sqlite" /\ node[n] = "up"
    BY Zenon, <1>1 DEF RegInv, SweepShape
  <1>4. \A c \in todo : Claimed(c.job) /\ c.epoch = row'[c.job].epoch
    BY <1>2 DEF Claimed
  <1> HIDE DEF todo
  <1>5. /\ \A m \in Node \ {n} : sweep'[m] = sweep[m]
        /\ sweep'[n].pc = pc1 /\ sweep'[n].todo = todo
    BY Zenon, <1>1, TypesAre
  <1>6. \A m \in Node \ {n} : sweep[m].todo = {}
    <2> TAKE m \in Node \ {n}
    <2>1. sweep[m].pc = "idle"
      BY Zenon, <1>3, SoleSweep
    <2> QED BY Zenon, <2>1 DEF RegInv, SweepShape
  <1>7. NewClaims(n)
    BY Zenon, <1>2, <1>4, <1>5, <1>6 DEF NewClaims
  <1> QED BY Zenon, <1>1, <1>7, NewClaimsFenced

LEMMA SweepingFenced ==
    ASSUME RegInv, FenceInv, NEW n \in Node, Sweeping(n)
    PROVE  FenceInv' /\ \A i \in Job : KeptStep(i)
  <1>1. CASE SweepCAS(n)
    BY Zenon, <1>1, SweepCASFenced
  <1>2. CASE SweepAbandon(n)
    <2>1. /\ sweep[n].pc = "next" /\ sweep' = [sweep EXCEPT ![n] = Rest(n)]
          /\ UNCHANGED <<backend, task, node, sub, cancel>>
      BY Zenon, <1>2 DEF SweepAbandon
    <2>2. \/ row' = row
          \/ row' = [row EXCEPT ![Oldest(n).job] =
                       UpdateJobStatus(Oldest(n).job, Oldest(n).epoch, "FAILED", 0).row]
      BY Zenon, <1>2 DEF SweepAbandon
    <2> QED BY Zenon, <2>1, <2>2, SweepRests, SweepFails
  <1>3. CASE SweepClear(n)
    <2>1. sweep[n].pc = "next" /\ UNCHANGED <<backend, task, node, sub, cancel>>
      BY Zenon, <1>3 DEF SweepClear
    <2>2. \/ /\ row' = [row EXCEPT ![Oldest(n).job] = ClearResults(Oldest(n).job)]
             /\ sweep' = SweepAt(n, "enqueue")
          \/ /\ row' = [row EXCEPT ![Oldest(n).job] =
                          Release(Oldest(n).job, Oldest(n).epoch).row]
             /\ sweep' = [sweep EXCEPT ![n] = Rest(n)]
      BY Zenon, <1>3 DEF SweepClear
    <2> QED BY Zenon, <2>1, <2>2, SweepClears, SweepReleases
  <1>4. CASE SweepRegister(n)
    <2>1. sweep[n].pc = "enqueue" /\ UNCHANGED <<backend, node, sub, cancel>>
      BY Zenon, <1>4 DEF SweepRegister
    <2>2. \/ row' = row /\ sweep' = SweepAt(n, "submit")
          \/ /\ row' = [row EXCEPT ![Oldest(n).job] =
                          UpdateJobStatus(Oldest(n).job, Oldest(n).epoch, "FAILED", 0).row]
             /\ sweep' = [sweep EXCEPT ![n] = Rest(n)]
             /\ task' = task
      BY Zenon, <1>4 DEF SweepRegister
    <2> QED BY <1>4, <2>1, <2>2, SweepMakes, SweepFails
  <1>5. CASE SweepSubmit(n)
    BY Zenon, <1>5, SweepSubmitFenced
  <1>6. CASE SweepRelease(n)
    BY Zenon, <1>6, SweepReleases DEF SweepRelease
  <1> QED BY <1>1, <1>2, <1>3, <1>4, <1>5, <1>6 DEF Sweeping

-----------------------------------------------------------------------------
(* Shutdown, crash and start. *)

LEMMA NodesFenced ==
    ASSUME RegInv, FenceInv, NEW n \in Node, Drain(n) \/ Start(n)
    PROVE  FenceInv' /\ \A i \in Job : KeptStep(i)
  <1>1. UNCHANGED <<backend, row, task, sub, sweep, cancel>>
    BY Zenon DEF Drain, Start
  <1>2. \A i \in Job : JobStep(i)
    BY Zenon, <1>1 DEF JobStep, QuietJob
  <1>3. backend # "postgres" => n = Home
    BY Zenon DEF Drain, Start, FenceInv
  <1>4. \A m \in Node \ {n} : node'[m] = node[m]
    BY Zenon, TypesAre DEF Drain, Start
  <1>5. OthersKept
    BY Zenon, <1>1, <1>3, <1>4 DEF OthersKept, FenceInv
  <1> QED BY Zenon, <1>1, <1>2, <1>5, ListsStay, FenceSteps

LEMMA ExitFenced ==
    ASSUME RegInv, FenceInv, NEW n \in Node, Crash(n) \/ Stop(n)
    PROVE  FenceInv' /\ \A i \in Job : KeptStep(i)
  <1>1. Exit(n) /\ UNCHANGED backend
    BY Zenon DEF Crash, Stop
  <1>2. \A j \in Job : row'[j] = row[j] \/ row'[j] = NoJob
    BY Zenon, <1>1 DEF Exit
  <1>3. \A j \in Job, e \in Epoch : task'[j][e] = Idle \/ task'[j][e] = task[j][e]
    BY Zenon, <1>1 DEF Exit
  <1>4. \A j \in Job : \/ sub'[j] = sub[j]
                       \/ sub'[j].pc = "lost" /\ sub[j].pc # "accepted"
    BY Zenon, <1>1 DEF Exit
  <1>5. \A j \in Job : cancel'[j].pc # "none" => cancel[j].pc # "none"
    BY Zenon, <1>1 DEF Exit
  <1>6. \A m \in Node : ListsShrink(m)
    BY Zenon, <1>1, TypesAre DEF Exit, ListsShrink
  <1>7. \A m \in Node : node'[m] \in {node[m], "down"}
    BY Zenon, <1>1, TypesAre DEF Exit
  <1>8. \A j \in Job : JobStep(j)
    BY <1>2, <1>3, <1>4 DEF JobStep, QuietJob, Idle
  <1>9. OthersKept
    BY Zenon, <1>1, <1>4, <1>5, <1>7 DEF OthersKept, FenceInv
  <1> QED BY Zenon, <1>6, <1>8, <1>9, FenceSteps

-----------------------------------------------------------------------------
(* The second layer holds. *)

LEMMA FenceInvInit ==
    ASSUME Init
    PROVE  FenceInv
  <1>1. /\ \A j \in Job : row[j] = NoJob /\ cancel[j].pc = "none"
        /\ \A n \in Node : sweep[n].todo = {}
        /\ \A n \in Node \ {Home} : node[n] = "down"
    BY Zenon DEF Init
  <1> QED BY Zenon, <1>1 DEF FenceInv, RowShape

LEMMA FenceInvNext ==
    ASSUME PromptSweep, RegInv, FenceInv, Next
    PROVE  FenceInv' /\ \A i \in Job : KeptStep(i)
  <1> DEFINE Good == FenceInv' /\ \A i \in Job : KeptStep(i)
  <1>2. ASSUME NEW j \in Job, NEW e \in Epoch, Executing(j, e) \/ HeartbeatTick(j, e)
        PROVE  Good
    BY Zenon, <1>2, ExecutingFenced, HeartbeatFenced
  <1>3. ASSUME NEW j \in Job,
               Submitting(j) \/ CancelStore(j) \/ CancelRunning(j) \/ ReapExpired(j)
        PROVE  Good
    BY Zenon, <1>3, SubmittingFenced, CancelStoreFenced, CancellingFenced
  <1>4. ASSUME NEW n \in Node, NEW j \in Job,
               SubmitCreate(n, j) \/ CancelRead(n, j) \/ ReleaseRegisteredJobs(n, j)
        PROVE  Good
    BY Zenon, <1>4, SubmitCreateFenced, CancellingFenced, ReleaseRegisteredFenced
  <1>5. ASSUME NEW n \in Node, NEW j \in Job, NEW e \in Epoch, Take(n, j, e)
        PROVE  Good
    BY Zenon, <1>5, TakeFenced
  <1>6. ASSUME NEW n \in Node, Sweeping(n)
        PROVE  Good
    BY Zenon, <1>6, SweepingFenced
  <1>7. ASSUME NEW n \in Node, Drain(n) \/ Crash(n) \/ Stop(n) \/ Start(n)
        PROVE  Good
    BY Zenon, <1>7, NodesFenced, ExitFenced
  <1>8. ASSUME NEW n \in Node, NEW S \in SUBSET Job, SweepClaim(n, S)
        PROVE  Good
    BY Zenon, <1>8, SweepClaimFenced
  <1> HIDE DEF Good
  <1>9. Good
    BY <1>2, <1>3, <1>4, <1>5, <1>6, <1>7, <1>8 DEF Next
  <1> QED BY Zenon, <1>9 DEF Good

LEMMA FenceInvStays ==
    ASSUME RegInv, FenceInv, UNCHANGED vars
    PROVE  FenceInv'
  <1>1. \A i \in Job : JobStep(i)
    BY Zenon DEF JobStep, QuietJob, vars
  <1>2. OthersKept /\ \A m \in Node : ListsShrink(m)
    BY Zenon, OthersStay, ListsStay DEF vars
  <1> QED BY Zenon, <1>1, <1>2, FenceSteps

LEMMA FenceInvHolds == PromptSweep => (Spec => []FenceInv)
  <1> SUFFICES ASSUME PromptSweep PROVE Spec => []FenceInv
    BY Zenon
  <1>1. Init => FenceInv
    BY Zenon, FenceInvInit
  <1>2. RegInv /\ FenceInv /\ [Next]_vars => FenceInv'
    BY Zenon, FenceInvNext, FenceInvStays
  <1> QED BY <1>1, <1>2, RegInvHolds, PTL DEF Spec

(* For every store and every number of nodes, jobs, matches and claims: a  *)
(* SUCCESSFUL job serves every entity the search matched once, in scan     *)
(* order, and as many as its status reports, however often it was          *)
(* reclaimed and re-run, if sweeps are done with a claimed job before its  *)
(* claim ages (runAsyncJob, SaveResults, ClearResults).                    *)
THEOREM ResultsCompleteHolds == PromptSweep => (Spec => []ResultsComplete)
  <1> SUFFICES ASSUME PromptSweep PROVE Spec => []ResultsComplete
    BY Zenon
  <1>1. RegInv /\ FenceInv => ResultsComplete
    <2> SUFFICES ASSUME RegInv, FenceInv, NEW j \in Job, GetAsyncStatus(j).status = "SUCCESSFUL"
                 PROVE  /\ GetAsyncResults(j) = {<<i, i>> : i \in 1..Matches}
                        /\ GetAsyncStatus(j).total = Matches
      BY Zenon DEF ResultsComplete
    <2>1. /\ GetJob(j).row = row[j] /\ (GetJob(j).err = "nil" <=> row[j] # NoJob)
          /\ row[j] # NoJob => GetResultIDs(j) = row[j].results
      BY Zenon, RowIs, UnfencedWrites
    <2>2. row[j] # NoJob /\ row[j].status = "SUCCESSFUL"
      BY Zenon, <2>1 DEF GetAsyncStatus
    <2>3. row[j].results = Prefix(Matches) /\ row[j].count = Matches
      BY Zenon, <2>2 DEF FenceInv, RowShape
    <2>4. GetAsyncResults(j) = row[j].results
      BY Zenon, <2>1, <2>2 DEF GetAsyncResults
    <2>5. GetAsyncStatus(j).total = row[j].count
      BY Zenon, <2>1, <2>2 DEF GetAsyncStatus
    <2> QED BY Zenon, <2>3, <2>4, <2>5 DEF Prefix
  <1> QED BY <1>1, RegInvHolds, FenceInvHolds, PTL

(* Under the same assumption no late write undoes the end of a job: its    *)
(* status and count are final, and so are the results of a SUCCESSFUL one; *)
(* and the executor a shutdown cancelled never fails the job it handed     *)
(* over (guardWrite, fencedUpdate, probeFenced, writeAsyncFailure,         *)
(* ReleaseRegisteredJobs).                                                 *)
THEOREM JobsKeptHolds == PromptSweep => (Spec => JobsKept)
  <1> SUFFICES ASSUME PromptSweep PROVE Spec => JobsKept
    BY Zenon
  <1>1. RegInv /\ FenceInv /\ [Next]_vars =>
          [\A j \in Job : row[j] # NoJob /\ row'[j] # NoJob /\ row[j].status \in terminalStatuses =>
             /\ row'[j].status = row[j].status
             /\ row'[j].count = row[j].count
             /\ row[j].status = "SUCCESSFUL" => row'[j].results = row[j].results]_vars
    BY Zenon, FenceInvNext DEF KeptStep
  <1>2. RegInv /\ FenceInv /\ [Next]_vars =>
          [\A j \in Job :
             row[j] # NoJob /\ row[j].released /\ task[j][row[j].epoch].cause = "released"
             => row'[j] = NoJob \/ row'[j].status # "FAILED"]_vars
    BY Zenon, FenceInvNext DEF KeptStep
  <1>3. Spec => TerminalIsFinal
    BY <1>1, RegInvHolds, FenceInvHolds, PTL DEF Spec, TerminalIsFinal
  <1>4. Spec => HandoverNotFailed
    BY <1>2, RegInvHolds, FenceInvHolds, PTL DEF Spec, HandoverNotFailed
  <1> QED BY Zenon, <1>3, <1>4 DEF JobsKept
=============================================================================
