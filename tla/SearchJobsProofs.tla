-------------------------- MODULE SearchJobsProofs --------------------------
(***************************************************************************)
(* Proofs about the async search jobs of SearchJobs: the registry of       *)
(* handles and the per-tenant count are exact (ExecutorsAccounted).  The   *)
(* invariant says who may make an executor: the submitter for epoch 1, and *)
(* one sweep for every later epoch.                                        *)
(***************************************************************************)
EXTENDS SearchJobs, FiniteSetTheorems, WellFoundedInduction, TLAPS

-----------------------------------------------------------------------------
(* The invariant of the first layer. *)

(* A task that is over is reset; the ids saved so far are as many as its   *)
(* state allows; and it runs under an epoch the row has reached.           *)
TaskShape(j, e) ==
    LET tk == task[j][e]
    IN  /\ tk.pc = "none" => tk = Idle
        /\ tk.pc \in {"made", "queued"} => tk.n = 0
        /\ tk.pc = "judge" /\ ~tk.err => tk.n = Matches
        /\ tk.pc = "succeed" => tk.n = Matches
        /\ tk.pc # "none" => row[j] = NoJob \/ e <= row[j].epoch

(* Only the submitter makes the executor of epoch 1. *)
SubShape(j) ==
    /\ sub[j].pc = "new" => row[j] = NoJob /\ \A e \in Epoch : task[j][e].pc = "none"
    /\ sub[j].pc = "created" => task[j][1].pc = "none"
    /\ sub[j].pc = "registered" => /\ task[j][1].pc = "made"
                                   /\ task[j][1].node = sub[j].node

(* A sweep runs on a node that is up, and has each job once on its list. *)
SweepShape(n) ==
    /\ sweep[n].pc = "idle" <=> sweep[n].todo = {}
    /\ sweep[n].pc # "idle" => node[n] = "up"
    /\ sweep[n].pc = "cas" => /\ backend = "sqlite"
                              /\ \A c \in sweep[n].todo : c.epoch < MaxEpoch
    /\ \A c, d \in sweep[n].todo : c.job = d.job => c = d

(* The executor of a claim is not there until the sweep has made it, and   *)
(* no other sweep has a claim of the same epoch.                           *)
ClaimShape(n, c) ==
    sweep[n].pc # "cas" =>
        /\ c.epoch > 1
        /\ sub[c.job].pc # "new"
        /\ row[c.job] = NoJob \/ c.epoch <= row[c.job].epoch
        /\ IF sweep[n].pc = "submit" /\ c = Oldest(n)
           THEN task[c.job][c.epoch].pc = "made" /\ task[c.job][c.epoch].node = n
           ELSE task[c.job][c.epoch].pc = "none"
        /\ \A m \in Node \ {n} : \A d \in sweep[m].todo :
             sweep[m].pc # "cas" /\ d.job = c.job => d.epoch # c.epoch

(* The registered jobs of a tenant are counted, and finitely many. *)
Slots(n, t) == {j \in Job : reg[n][j] # 0 /\ TenantOf[j] = t}

Counted == \A n \in Node, t \in Tenant :
             IsFiniteSet(Slots(n, t)) /\ inFlight[n][t] = Cardinality(Slots(n, t))

(* A registered handle has an executor on its node, and an executor nobody *)
(* has cancelled is registered there.                                      *)
Handles == \A n \in Node, j \in Job, e \in Epoch :
    /\ reg[n][j] = e => task[j][e].pc # "none" /\ task[j][e].node = n
    /\ task[j][e].pc # "none" /\ task[j][e].node = n
       /\ task[j][e].cause = "live" => reg[n][j] = e

RegInv ==
    /\ TypeOK
    /\ \A j \in Job : row[j] # NoJob => IsFiniteSet(row[j].results)
    /\ \A j \in Job : SubShape(j) /\ \A e \in Epoch : TaskShape(j, e)
    /\ \A n \in Node : SweepShape(n) /\ \A c \in sweep[n].todo : ClaimShape(n, c)
    /\ Counted /\ Handles

-----------------------------------------------------------------------------
(* What the three stores have in common. *)

(* The fence of every write of an executor or a sweep. *)
Fenced(r, e) == r # NoJob /\ r.status \notin terminalStatuses /\ r.epoch = e

RowOf(j) == row[j] \in Row \cup {NoJob} /\ backend \in {"memory", "sqlite", "postgres"}

(* In every store a status write, and a release, applies under the fence   *)
(* and changes nothing otherwise (guardWrite, fencedUpdate, probeFenced).  *)
LEMMA FencedWrites ==
    ASSUME NEW j, NEW e, RowOf(j)
    PROVE  /\ \A s, k : UpdateJobStatus(j, e, s, k).row =
                IF Fenced(row[j], e) THEN Stamped(row[j], s, k) ELSE row[j]
           /\ Release(j, e).row =
                IF Fenced(row[j], e) THEN [row[j] EXCEPT !.released = TRUE] ELSE row[j]
  <1>1. CASE backend = "memory"
    BY Zenon, <1>1 DEF UpdateJobStatus, Release, Of, memUpdateJobStatus, memRelease, guardWrite,
                Guarded, Answer, Fenced, terminalStatuses
  <1>2. CASE backend = "sqlite"
    BY Zenon, <1>2 DEF UpdateJobStatus, Release, Of, sqliteUpdateJobStatus, sqliteRelease,
                fencedUpdate, Answer, Fenced, terminalStatuses
  <1>3. CASE backend = "postgres"
    BY Zenon, <1>3 DEF UpdateJobStatus, Release, Of, pgUpdateJobStatus, pgRelease, probeFenced,
                Guarded, Answer, Fenced, terminalStatuses
  <1> QED BY Zenon, <1>1, <1>2, <1>3 DEF RowOf

(* A chunk that is accepted was within the fence, and adds its ids at one  *)
(* position: after those there (memory), or at the executor's counter      *)
(* (sqlite, postgres).                                                     *)
LEMMA ChunkSaved ==
    ASSUME NEW j, NEW e, NEW s, NEW ids, RowOf(j), SaveChunk(j, e, s, ids).err = "nil"
    PROVE  /\ Fenced(row[j], e)
           /\ \E p \in {s, Cardinality(row[j].results) + 1} :
                SaveChunk(j, e, s, ids).row =
                    [row[j] EXCEPT !.results = @ \cup {<<p, i>> : i \in ids}]
  <1>1. CASE backend = "memory"
    BY Zenon, <1>1 DEF SaveChunk, Of, memSaveChunk, guardWrite, Guarded, Answer, Fenced,
                terminalStatuses
  <1>2. CASE backend = "sqlite"
    BY Zenon, <1>2 DEF SaveChunk, Of, sqliteSaveChunk, fencedUpdate, Answer, Fenced,
                terminalStatuses
  <1>3. CASE backend = "postgres"
    BY Zenon, <1>3 DEF SaveChunk, Of, pgSaveChunk, probeFenced, Answer, Fenced, terminalStatuses
  <1> QED BY Zenon, <1>1, <1>2, <1>3 DEF RowOf

(* The operations without a fence, and the reads. *)
LEMMA UnfencedWrites ==
    ASSUME NEW j, RowOf(j)
    PROVE  /\ CreateJob = memCreateJob
           /\ DeleteJob(j) = NoJob
           /\ ClearResults(j) = IF row[j] = NoJob THEN NoJob
                                ELSE [row[j] EXCEPT !.results = {}]
           /\ Cancel(j).row = IF row[j] # NoJob /\ row[j].status \notin terminalStatuses
                              THEN [row[j] EXCEPT !.status = "CANCELLED"] ELSE row[j]
           /\ GetJob(j).row = row[j] /\ (GetJob(j).err = "nil" <=> row[j] # NoJob)
           /\ row[j] # NoJob => GetResultIDs(j) = row[j].results
           /\ Of(memReapExpired(row[j]), sqliteReapExpired(row[j]), pgReapExpired(row[j])) =
                IF row[j].status = "RUNNING" THEN row[j] ELSE NoJob
  <1>1. CASE backend = "memory"
    BY Zenon, <1>1 DEF CreateJob, DeleteJob, ClearResults, Cancel, GetJob, GetResultIDs, Of,
                memDeleteJob, memClearResults, memCancel, memGetJob, memGetResultIDs,
                memReapExpired, Answer
  <1>2. CASE backend = "sqlite"
    BY Zenon, <1>2 DEF CreateJob, DeleteJob, ClearResults, Cancel, GetJob, GetResultIDs, Of,
                sqliteCreateJob, sqliteDeleteJob, sqliteClearResults, sqliteCancel,
                sqliteGetJob, sqliteGetResultIDs, sqliteReapExpired, Answer
  <1>3. CASE backend = "postgres"
    BY Zenon, <1>3 DEF CreateJob, DeleteJob, ClearResults, Cancel, GetJob, GetResultIDs, Of,
                pgCreateJob, pgDeleteJob, pgClearResults, pgCancel,
                pgGetJob, pgGetResultIDs, pgReapExpired, Answer
  <1> QED BY Zenon, <1>1, <1>2, <1>3 DEF RowOf

(* Every non-empty set of claims has an oldest one. *)
LEMMA OldestClaim ==
    ASSUME NEW n, sweep[n].todo # {}, \A c \in sweep[n].todo : c.job \in Nat
    PROVE  /\ Oldest(n) \in sweep[n].todo
           /\ \A d \in sweep[n].todo : Oldest(n).job <= d.job
  <1> DEFINE R == OpToRel(<, Nat)
             T == {c.job : c \in sweep[n].todo}
  <1>1. IsWellFoundedOn(R, Nat)
    BY Zenon, NatLessThanWellFounded
  <1>2. T \subseteq Nat /\ T # {}
    BY Zenon
  <1>3. \E x \in T : \A y \in T : ~(<<y, x>> \in R)
    <2> HIDE DEF R, T
    <2> QED BY Zenon, <1>1, <1>2, WFMin
  <1>4. \A x, y \in Nat : <<y, x>> \notin R => x <= y
    BY DEF OpToRel
  <1>5. PICK c \in sweep[n].todo : \A d \in sweep[n].todo : c.job <= d.job
    BY Zenon, <1>2, <1>3, <1>4
  <1> QED BY Zenon, <1>5 DEF Oldest

-----------------------------------------------------------------------------
(* How a row may change. *)

LEMMA Consts ==
    /\ Home \in Node /\ Job \subseteq Nat /\ TenantOf \in [Job -> Tenant]
    /\ Matches \in Nat /\ MaxEvents \in Nat /\ MaxEpoch \in Nat
    /\ Epoch \subseteq Nat /\ 1 \in Epoch /\ 0 \notin Epoch
    /\ NoJob \notin Row
    /\ Backends \subseteq {"memory", "sqlite", "postgres"}
  BY SearchConstants DEF Epoch

(* The row goes, or keeps its epoch or moves to a later one. *)
RowMove(j) ==
    \/ row'[j] = row[j]
    \/ row'[j] = NoJob
    \/ /\ row[j] # NoJob /\ row'[j] \in Row
       /\ row'[j].epoch >= row[j].epoch
       /\ IsFiniteSet(row'[j].results)

RowsMove == row' \in [Job -> Row \cup {NoJob}] /\ \A j \in Job : RowMove(j)

LEMMA RowUpdates ==
    ASSUME NEW r \in Row
    PROVE  /\ \A s \in Status, k \in 0..Matches :
                /\ Stamped(r, s, k) \in Row /\ Stamped(r, s, k).epoch = r.epoch
                /\ Stamped(r, s, k).results = r.results
           /\ [r EXCEPT !.released = TRUE] \in Row
           /\ [r EXCEPT !.status = "CANCELLED"] \in Row
           /\ \A R \in SUBSET (Nat \X Nat) : [r EXCEPT !.results = R] \in Row
  BY Zenon DEF Row, Stamped, Status, terminalStatuses

LEMMA RowIs ==
    ASSUME RegInv, NEW j \in Job
    PROVE  /\ RowOf(j) /\ row[j] \in Row \cup {NoJob}
           /\ row[j] # NoJob => row[j] \in Row /\ row[j].epoch \in Epoch
                               /\ IsFiniteSet(row[j].results)
  BY Zenon, Consts DEF RegInv, TypeOK, RowOf, Row

(* One job's row is written: under the fence, or by a clear or a cancel. *)
LEMMA OneRowMoves ==
    ASSUME RegInv, NEW j \in Job, NEW r, row' = [row EXCEPT ![j] = r],
           \/ r = row[j]
           \/ r = NoJob
           \/ \E e \in Epoch, s \in Status, k \in 0..Matches : r = UpdateJobStatus(j, e, s, k).row
           \/ \E e \in Epoch : r = Release(j, e).row
           \/ r = ClearResults(j)
           \/ r = Cancel(j).row
    PROVE  RowsMove
  <1>1. row \in [Job -> Row \cup {NoJob}]
    BY Zenon DEF RegInv, TypeOK
  <1>2. row[j] = NoJob => r = NoJob
    <2> SUFFICES ASSUME row[j] = NoJob PROVE r = NoJob
      BY Zenon
    <2>1. RowOf(j)
      BY Zenon, RowIs
    <2>2. \A e \in Epoch : ~Fenced(row[j], e)
      BY Zenon DEF Fenced
    <2>3. \A e \in Epoch, s \in Status, k \in 0..Matches :
            UpdateJobStatus(j, e, s, k).row = NoJob
      BY Zenon, <2>1, <2>2, FencedWrites
    <2>5. \A e \in Epoch : Release(j, e).row = NoJob
      BY Zenon, <2>1, <2>2, FencedWrites
    <2>4. ClearResults(j) = NoJob /\ Cancel(j).row = NoJob
      BY Zenon, <2>1, UnfencedWrites
    <2> QED BY Zenon, <2>3, <2>4, <2>5
  <1>3. ASSUME row[j] # NoJob, r # NoJob
        PROVE  r \in Row /\ r.epoch = row[j].epoch /\ IsFiniteSet(r.results)
    <2>1. row[j] \in Row /\ IsFiniteSet(row[j].results) /\ RowOf(j)
      BY Zenon, <1>3, RowIs
    <2>2. CASE \E e \in Epoch, s \in Status, k \in 0..Matches : r = UpdateJobStatus(j, e, s, k).row
      <3>1. PICK e \in Epoch, st \in Status, k \in 0..Matches :
              r = UpdateJobStatus(j, e, st, k).row
        BY Zenon, <2>2
      <3>2. r = row[j] \/ r = Stamped(row[j], st, k)
        BY Zenon, <2>1, <3>1, FencedWrites
      <3>3. /\ Stamped(row[j], st, k) \in Row
            /\ Stamped(row[j], st, k).epoch = row[j].epoch
            /\ Stamped(row[j], st, k).results = row[j].results
        BY Zenon, <2>1, RowUpdates
      <3> QED BY Zenon, <2>1, <3>2, <3>3
    <2>3. CASE \E e \in Epoch : r = Release(j, e).row
      <3>1. r = row[j] \/ r = [row[j] EXCEPT !.released = TRUE]
        BY Zenon, <2>1, <2>3, FencedWrites
      <3>2. r \in Row
        BY Zenon, <2>1, <3>1, RowUpdates
      <3>3. r.epoch = row[j].epoch /\ r.results = row[j].results
        BY Zenon, <2>1, <3>1 DEF Row
      <3> QED BY Zenon, <2>1, <3>2, <3>3
    <2>4. CASE r = ClearResults(j)
      <3>1. r = [row[j] EXCEPT !.results = {}]
        BY Zenon, <1>3, <2>1, <2>4, UnfencedWrites
      <3>2. r \in Row /\ r.epoch = row[j].epoch /\ r.results = {}
        BY Zenon, <2>1, <3>1, RowUpdates DEF Row
      <3> QED BY Zenon, <3>2, FS_EmptySet
    <2>5. CASE r = Cancel(j).row
      <3>1. r = row[j] \/ r = [row[j] EXCEPT !.status = "CANCELLED"]
        BY Zenon, <2>1, <2>5, UnfencedWrites
      <3>2. r \in Row
        BY Zenon, <2>1, <3>1, RowUpdates
      <3>3. r.epoch = row[j].epoch /\ r.results = row[j].results
        BY Zenon, <2>1, <3>1 DEF Row
      <3> QED BY Zenon, <2>1, <3>2, <3>3
    <2> QED BY Zenon, <1>3, <2>1, <2>2, <2>3, <2>4, <2>5
  <1>4. row' \in [Job -> Row \cup {NoJob}]
    BY Zenon, <1>1, <1>2, <1>3
  <1>5. ASSUME NEW k \in Job PROVE RowMove(k)
    <2>1. k # j => row'[k] = row[k]
      BY Zenon, <1>1
    <2>2. row'[j] = r
      BY Zenon, <1>1
    <2>3. row[j] # NoJob /\ r # NoJob => r.epoch >= row[j].epoch
      <3>1. row[j] # NoJob => row[j].epoch \in Nat
        BY Zenon, RowIs, Consts
      <3> QED BY <1>3, <3>1
    <2> QED BY Zenon, <1>2, <1>3, <2>1, <2>2, <2>3 DEF RowMove
  <1> QED BY Zenon, <1>4, <1>5 DEF RowsMove

LEMMA OldestIs ==
    ASSUME RegInv, NEW n \in Node, sweep[n].pc # "idle"
    PROVE  /\ Oldest(n) \in sweep[n].todo
           /\ Oldest(n).job \in Job /\ Oldest(n).epoch \in Epoch
  <1>1. sweep[n].todo # {} /\ sweep[n].todo \subseteq [job : Job, epoch : Epoch, stale : Nat]
    BY Zenon DEF RegInv, SweepShape, TypeOK
  <1>2. \A c \in sweep[n].todo : c.job \in Nat
    BY Zenon, <1>1, Consts
  <1>3. Oldest(n) \in sweep[n].todo
    BY Zenon, <1>1, <1>2, OldestClaim
  <1> QED BY Zenon, <1>1, <1>3

LEMMA RowsStay ==
    ASSUME RegInv, row' = row
    PROVE  RowsMove
  BY Zenon DEF RegInv, TypeOK, RowsMove, RowMove

LEMMA TaskIs ==
    ASSUME RegInv, NEW j \in Job, NEW e \in Epoch
    PROVE  task[j][e].n \in 0..Matches /\ task[j][e].node \in Node
  BY DEF RegInv, TypeOK

(* A saved chunk. *)
LEMMA SaveMovesRows ==
    ASSUME RegInv, NEW j \in Job, NEW e \in Epoch, Save(j, e)
    PROVE  RowsMove
  <1> DEFINE tk  == task[j][e]
             ids == IF tk.n < Matches THEN {tk.n + 1} ELSE {}
             ans == SaveChunk(j, e, tk.n + 1, ids)
  <1>1. CASE row' = row
    BY Zenon, <1>1, RowsStay
  <1>2. CASE ans.err = "nil" /\ row' = [row EXCEPT ![j] = ans.row]
    <2>1. RowOf(j) /\ row \in [Job -> Row \cup {NoJob}]
      BY Zenon, RowIs DEF RegInv, TypeOK
    <2>2. /\ Fenced(row[j], e)
          /\ \E p \in {tk.n + 1, Cardinality(row[j].results) + 1} :
               ans.row = [row[j] EXCEPT !.results = @ \cup {<<p, i>> : i \in ids}]
      <3> HIDE DEF ids, tk
      <3> QED BY <1>2, <2>1, ChunkSaved
    <2>3. row[j] \in Row /\ IsFiniteSet(row[j].results) /\ row[j].results \subseteq Nat \X Nat
      BY Zenon, <2>2, RowIs DEF Fenced, Row
    <2>4. tk.n + 1 \in Nat /\ Cardinality(row[j].results) + 1 \in Nat
      <3>1. tk.n \in Nat
        BY TaskIs, Consts
      <3>2. Cardinality(row[j].results) \in Nat
        BY Zenon, <2>3, FS_CardinalityType
      <3> QED BY <3>1, <3>2
    <2>5. ids \subseteq Nat /\ (ids = {} \/ ids = {tk.n + 1})
      BY Zenon, <2>4
    <2> HIDE DEF ids, tk, ans
    <2>6. PICK p \in {tk.n + 1, Cardinality(row[j].results) + 1} :
            ans.row = [row[j] EXCEPT !.results = @ \cup {<<p, i>> : i \in ids}]
      BY Zenon, <2>2
    <2>16. p \in Nat
      BY Zenon, <2>4, <2>6
    <2> DEFINE R == row[j].results \cup {<<p, i>> : i \in ids}
    <2>7. R = row[j].results \/ R = row[j].results \cup {<<p, tk.n + 1>>}
      BY Zenon, <2>5
    <2>8. R \in SUBSET (Nat \X Nat)
      BY <2>3, <2>4, <2>7, <2>16
    <2>9. IsFiniteSet(R)
      BY Zenon, <2>3, <2>7, FS_AddElement
    <2>10. ans.row = [row[j] EXCEPT !.results = R]
      BY Zenon, <2>6, <2>3 DEF Row
    <2> HIDE DEF R
    <2>11. ans.row \in Row
      BY Zenon, <2>3, <2>8, <2>10, RowUpdates
    <2>12. ans.row.epoch = row[j].epoch /\ ans.row.results = R
      BY Zenon, <2>3, <2>10 DEF Row
    <2>13. row[j].epoch \in Nat /\ row[j] # NoJob
      BY Zenon, <2>2, RowIs, Consts DEF Fenced
    <2>14. RowMove(j) /\ \A k \in Job \ {j} : RowMove(k)
      BY <1>2, <2>1, <2>9, <2>11, <2>12, <2>13 DEF RowMove
    <2>15. row' \in [Job -> Row \cup {NoJob}]
      BY Zenon, <1>2, <2>1, <2>11
    <2> QED BY Zenon, <2>14, <2>15 DEF RowsMove
  <1> QED BY Zenon, <1>1, <1>2 DEF Save

(* A claim moves the row to the next epoch. *)
LEMMA ClaimMovesRow ==
    ASSUME NEW r \in Row, r.epoch < MaxEpoch, r.status = "RUNNING",
           NEW q \in {memClaim(r), pgClaim(r), sqliteClaim(r, r.epoch)}
    PROVE  /\ q \in Row /\ q.epoch = r.epoch + 1 /\ q.released = FALSE
           /\ q.status = r.status /\ q.results = r.results /\ q.count = r.count
  <1> DEFINE Next1(k) == [r EXCEPT !.epoch = @ + 1, !.released = FALSE, !.staleClaims = k]
  <1>1. r # NoJob /\ r.epoch + 1 \in Epoch /\ r.epoch \in Nat /\ r.staleClaims \in Nat
    BY Consts DEF Row, Epoch
  <1>2. r.staleClaims + 1 \in Nat /\ r.staleClaims + 0 \in Nat
    BY <1>1
  <1>3. memClaim(r) = Next1(IF r.released THEN r.staleClaims ELSE r.staleClaims + 1)
    BY Zenon DEF memClaim
  <1>4. pgClaim(r) = Next1(r.staleClaims + (IF r.released THEN 0 ELSE 1))
    BY Zenon DEF pgClaim
  <1>5. sqliteClaim(r, r.epoch) = Next1(r.staleClaims + (IF r.released THEN 0 ELSE 1))
    BY Zenon, <1>1 DEF sqliteClaim
  <1> HIDE DEF Next1
  <1>6. \E k \in Nat : memClaim(r) = Next1(k)
    BY Zenon, <1>1, <1>2, <1>3
  <1>7. \E k \in Nat : pgClaim(r) = Next1(k)
    BY Zenon, <1>2, <1>4
  <1>8. \E k \in Nat : sqliteClaim(r, r.epoch) = Next1(k)
    BY Zenon, <1>2, <1>5
  <1>9. PICK k \in Nat : q = Next1(k)
    BY Zenon, <1>6, <1>7, <1>8
  <1> QED BY Zenon, <1>1, <1>9 DEF Row, Next1

(* The row of a job just claimed. *)
Claimed(j) ==
    /\ row[j] \in Row /\ row'[j] \in Row
    /\ row[j].status = "RUNNING" /\ row[j].epoch < MaxEpoch
    /\ row'[j].epoch = row[j].epoch + 1 /\ row'[j].released = FALSE
    /\ row'[j].status = row[j].status /\ row'[j].count = row[j].count
    /\ row'[j].results = row[j].results

LEMMA ClaimsMoveRows ==
    ASSUME RegInv, row' \in [Job -> Row \cup {NoJob}],
           \A j \in Job : row'[j] = row[j] \/ Claimed(j)
    PROVE  RowsMove
  <1> SUFFICES ASSUME NEW j \in Job, Claimed(j) PROVE RowMove(j)
    BY Zenon DEF RowsMove, RowMove
  <1>1. row[j] # NoJob /\ row[j].epoch \in Nat /\ IsFiniteSet(row[j].results)
    BY Zenon, RowIs, Consts DEF Claimed
  <1> QED BY <1>1 DEF Claimed, RowMove

LEMMA CandidatesRun ==
    ASSUME RegInv, NEW n, NEW S, NEW j \in Candidates(n, S)
    PROVE  /\ j \in Job /\ row[j] \in Row /\ row[j].status = "RUNNING"
           /\ row[j].epoch < MaxEpoch /\ (row[j].released \/ j \in S)
  <1>1. /\ j \in Job /\ row[j] # NoJob /\ row[j].status = "RUNNING"
        /\ row[j].epoch < MaxEpoch /\ (row[j].released \/ j \in S)
    BY Zenon DEF Candidates
  <1> QED BY Zenon, <1>1, RowIs

(* memory and postgres claim every candidate, sqlite none of them yet. *)
LEMMA SweepClaimRows ==
    ASSUME RegInv, NEW n \in Node, NEW S, SweepClaim(n, S)
    PROVE  /\ RowsMove
           /\ backend = "sqlite" => row' = row
           /\ backend # "sqlite" =>
                \A j \in Job : IF j \in Candidates(n, S) THEN Claimed(j) ELSE row'[j] = row[j]
  <1> DEFINE C == Candidates(n, S)
  <1>1. CASE backend = "sqlite"
    <2>1. row' = row
      BY Zenon, <1>1 DEF SweepClaim
    <2> QED BY Zenon, <1>1, <2>1, RowsStay
  <1>2. CASE backend # "sqlite"
    <2>1. row' = [j \in Job |-> IF j \in C THEN Of(memClaim(row[j]), row[j], pgClaim(row[j]))
                                ELSE row[j]]
      BY Zenon, <1>2 DEF SweepClaim
    <2> HIDE DEF C
    <2>2. backend \in {"memory", "postgres"}
      BY Zenon, <1>2, Consts DEF RegInv, TypeOK
    <2>3. \A j \in Job : j \notin C => row'[j] = row[j]
      BY Zenon, <2>1
    <2>4. ASSUME NEW j \in Job, j \in C PROVE Claimed(j)
      <3>1. row[j] \in Row /\ row[j].status = "RUNNING" /\ row[j].epoch < MaxEpoch
        BY Zenon, <2>4, CandidatesRun DEF C
      <3>2. row'[j] = memClaim(row[j]) \/ row'[j] = pgClaim(row[j])
        BY Zenon, <2>1, <2>2, <2>4 DEF Of
      <3>3. /\ row'[j] \in Row /\ row'[j].epoch = row[j].epoch + 1 /\ row'[j].released = FALSE
            /\ row'[j].status = row[j].status /\ row'[j].results = row[j].results
            /\ row'[j].count = row[j].count
        <4> DEFINE r == row[j]
                   q == row'[j]
        <4>1. r \in Row /\ r.epoch < MaxEpoch /\ r.status = "RUNNING"
          BY Zenon, <3>1
        <4>2. q \in {memClaim(r), pgClaim(r), sqliteClaim(r, r.epoch)}
          BY Zenon, <3>2
        <4> HIDE DEF r, q
        <4>3. /\ q \in Row /\ q.epoch = r.epoch + 1 /\ q.released = FALSE
              /\ q.status = r.status /\ q.results = r.results /\ q.count = r.count
          BY ONLY Zenon, <4>1, <4>2, ClaimMovesRow
        <4> QED BY Zenon, <4>3 DEF r, q
      <3> QED BY Zenon, <3>1, <3>3 DEF Claimed
    <2>5. row' \in [Job -> Row \cup {NoJob}]
      <3>1. \A j \in Job : row'[j] \in Row \cup {NoJob}
        BY Zenon, <2>3, <2>4, RowIs DEF Claimed
      <3> QED BY Zenon, <2>1, <3>1
    <2>6. RowsMove
      BY Zenon, <2>3, <2>4, <2>5, ClaimsMoveRows
    <2> QED BY Zenon, <1>2, <2>3, <2>4, <2>6 DEF C
  <1> QED BY Zenon, <1>1, <1>2

(* sqlite's CAS claims the candidates whose row is still the one read. *)
Won(n) == {c \in sweep[n].todo : sqliteClaim(row[c.job], c.epoch) # row[c.job]}

LEMMA SweepCASRows ==
    ASSUME RegInv, NEW n \in Node, SweepCAS(n)
    PROVE  /\ RowsMove
           /\ \A c \in Won(n) : Claimed(c.job) /\ row[c.job].epoch = c.epoch
           /\ \A j \in Job : (\A c \in Won(n) : c.job # j) => row'[j] = row[j]
  <1>1. /\ sweep[n].todo \subseteq [job : Job, epoch : Epoch, stale : Nat]
        /\ \A c \in sweep[n].todo : c.epoch < MaxEpoch
    BY Zenon DEF RegInv, TypeOK, SweepShape, SweepCAS
  <1>2. row' = [j \in Job |-> IF \E c \in Won(n) : c.job = j
                              THEN sqliteClaim(row[j], row[j].epoch) ELSE row[j]]
    BY Zenon DEF SweepCAS, Won
  <1>3. ASSUME NEW c \in Won(n)
        PROVE  Claimed(c.job) /\ row[c.job].epoch = c.epoch
    <2>1. c \in sweep[n].todo /\ c.job \in Job
      BY Zenon, <1>1 DEF Won
    <2>2. row[c.job] # NoJob /\ row[c.job].epoch = c.epoch /\ row[c.job].status = "RUNNING"
      BY Zenon DEF Won, sqliteClaim
    <2>3. row[c.job] \in Row /\ row[c.job].epoch < MaxEpoch
      BY Zenon, <1>1, <2>1, <2>2, RowIs
    <2>4. row'[c.job] = sqliteClaim(row[c.job], row[c.job].epoch)
      BY Zenon, <1>2, <2>1
    <2>5. /\ row'[c.job] \in Row /\ row'[c.job].epoch = row[c.job].epoch + 1
          /\ row'[c.job].released = FALSE /\ row'[c.job].status = row[c.job].status
          /\ row'[c.job].results = row[c.job].results /\ row'[c.job].count = row[c.job].count
      <3> DEFINE r == row[c.job]
                 q == row'[c.job]
      <3>1. r \in Row /\ r.epoch < MaxEpoch /\ r.status = "RUNNING"
        BY Zenon, <2>2, <2>3
      <3>2. q \in {memClaim(r), pgClaim(r), sqliteClaim(r, r.epoch)}
        BY Zenon, <2>4
      <3> HIDE DEF r, q
      <3>3. /\ q \in Row /\ q.epoch = r.epoch + 1 /\ q.released = FALSE
            /\ q.status = r.status /\ q.results = r.results /\ q.count = r.count
        BY ONLY Zenon, <3>1, <3>2, ClaimMovesRow
      <3> QED BY Zenon, <3>3 DEF r, q
    <2> QED BY Zenon, <2>2, <2>3, <2>5 DEF Claimed
  <1>4. \A j \in Job : (\A c \in Won(n) : c.job # j) => row'[j] = row[j]
    BY Zenon, <1>2
  <1>5. row' \in [Job -> Row \cup {NoJob}]
    <2>1. \A j \in Job : row'[j] \in Row \cup {NoJob}
      BY Zenon, <1>3, <1>4, RowIs DEF Claimed
    <2> QED BY Zenon, <1>2, <2>1
  <1>6. RowsMove
    BY Zenon, <1>3, <1>4, <1>5, ClaimsMoveRows
  <1> QED BY Zenon, <1>3, <1>4, <1>6

-----------------------------------------------------------------------------
(* The registry's operations keep the count. *)

RegTyped == reg \in [Node -> [Job -> Epoch \cup {0}]] /\ inFlight \in [Node -> [Tenant -> Nat]]

LEMMA RegIs ==
    ASSUME RegInv
    PROVE  RegTyped /\ Counted /\ Handles
  BY Zenon DEF RegInv, TypeOK, RegTyped

LEMMA CountUp ==
    ASSUME RegTyped, Counted, NEW n \in Node, NEW j \in Job, NEW e \in Epoch,
           registerReclaim(n, j, e)
    PROVE  RegTyped' /\ Counted'
  <1>1. /\ \A m \in Node, i \in Job : reg'[m][i] = IF m = n /\ i = j THEN e ELSE reg[m][i]
        /\ reg' \in [Node -> [Job -> Epoch \cup {0}]]
    BY Zenon DEF registerReclaim, RegTyped
  <1>2. TenantOf[j] \in Tenant /\ e # 0
    BY Zenon, Consts
  <1>3. inFlight' \in [Node -> [Tenant -> Nat]]
    BY <1>2 DEF registerReclaim, RegTyped
  <1>4. ASSUME NEW m \in Node, NEW t \in Tenant
        PROVE  (IsFiniteSet(Slots(m, t)) /\ inFlight[m][t] = Cardinality(Slots(m, t)))'
    <2>1. IsFiniteSet(Slots(m, t)) /\ inFlight[m][t] = Cardinality(Slots(m, t))
      BY Zenon DEF Counted
    <2>2. CASE m = n /\ t = TenantOf[j] /\ reg[n][j] = 0
      <3>1. Slots(m, t)' = Slots(m, t) \cup {j} /\ j \notin Slots(m, t)
        BY Zenon, <1>1, <1>2, <2>2 DEF Slots
      <3>2. inFlight'[m][t] = inFlight[m][t] + 1
        BY Zenon, <1>2, <2>2 DEF registerReclaim, RegTyped
      <3> QED BY Zenon, <2>1, <3>1, <3>2, FS_AddElement
    <2>3. CASE ~(m = n /\ t = TenantOf[j] /\ reg[n][j] = 0)
      <3>1. Slots(m, t)' = Slots(m, t)
        BY Zenon, <1>1, <1>2, <2>3 DEF Slots
      <3>2. inFlight'[m][t] = inFlight[m][t]
        BY Zenon, <1>2, <2>3 DEF registerReclaim, RegTyped
      <3> QED BY Zenon, <2>1, <3>1, <3>2
    <2> QED BY Zenon, <2>2, <2>3
  <1> QED BY Zenon, <1>1, <1>3, <1>4 DEF RegTyped, Counted

LEMMA CountDown ==
    ASSUME RegTyped, Counted, NEW n \in Node, NEW j \in Job, NEW e \in Epoch,
           deregisterJobHandle(n, j, e)
    PROVE  RegTyped' /\ Counted'
  <1>1. CASE reg[n][j] # e
    <2>1. reg' = reg /\ inFlight' = inFlight
      BY Zenon, <1>1 DEF deregisterJobHandle
    <2>2. \A m \in Node, t \in Tenant : Slots(m, t)' = Slots(m, t)
      BY Zenon, <2>1 DEF Slots
    <2> QED BY Zenon, <2>1, <2>2 DEF RegTyped, Counted
  <1>2. CASE reg[n][j] = e
    <2>1. /\ \A m \in Node, i \in Job : reg'[m][i] = IF m = n /\ i = j THEN 0 ELSE reg[m][i]
          /\ reg' \in [Node -> [Job -> Epoch \cup {0}]]
      <3>1. reg' = [reg EXCEPT ![n][j] = 0]
        BY Zenon, <1>2 DEF deregisterJobHandle
      <3> QED BY Zenon, <3>1 DEF RegTyped
    <2>2. TenantOf[j] \in Tenant /\ reg[n][j] # 0
      BY Zenon, <1>2, Consts
    <2>3. inFlight' = [inFlight EXCEPT ![n][TenantOf[j]] = @ - 1]
      BY Zenon, <1>2 DEF deregisterJobHandle
    <2>4. ASSUME NEW m \in Node, NEW t \in Tenant
          PROVE  (IsFiniteSet(Slots(m, t)) /\ inFlight[m][t] = Cardinality(Slots(m, t)))'
      <3>1. IsFiniteSet(Slots(m, t)) /\ inFlight[m][t] = Cardinality(Slots(m, t))
        BY Zenon DEF Counted
      <3>2. CASE m = n /\ t = TenantOf[j]
        <4>1. Slots(m, t)' = Slots(m, t) \ {j} /\ j \in Slots(m, t)
          BY Zenon, <2>1, <2>2, <3>2 DEF Slots
        <4>2. inFlight'[m][t] = inFlight[m][t] - 1
          BY Zenon, <2>2, <2>3, <3>2 DEF RegTyped
        <4> QED BY <3>1, <4>1, <4>2, FS_RemoveElement
      <3>3. CASE ~(m = n /\ t = TenantOf[j])
        <4>1. Slots(m, t)' = Slots(m, t)
          BY Zenon, <2>1, <3>3 DEF Slots
        <4>2. inFlight'[m][t] = inFlight[m][t]
          BY Zenon, <2>3, <3>3 DEF RegTyped
        <4> QED BY Zenon, <3>1, <4>1, <4>2
      <3> QED BY Zenon, <3>2, <3>3
    <2>5. Counted'
      BY Zenon, <2>4 DEF Counted
    <2>6. inFlight' \in [Node -> [Tenant -> Nat]]
      <3>1. inFlight'[n][TenantOf[j]] \in Nat
        BY Zenon, <2>2, <2>5, FS_CardinalityType DEF Counted
      <3>2. inFlight'[n][TenantOf[j]] = inFlight[n][TenantOf[j]] - 1
        BY Zenon, <2>2, <2>3 DEF RegTyped
      <3> QED BY Zenon, <2>2, <2>3, <3>1, <3>2 DEF RegTyped
    <2> QED BY Zenon, <2>1, <2>5, <2>6 DEF RegTyped
  <1> QED BY Zenon, <1>1, <1>2

-----------------------------------------------------------------------------
(* Steps of one executor. *)

TaskType == [pc : {"none", "made", "queued", "scan", "judge", "recover", "fail", "succeed"},
             node : Node, n : 0..Matches, cause : Cause, err : BOOLEAN]

CancelType == [pc : {"none", "read", "stored", "done"}, node : Node,
               told : {"nothing", "cancelled", "terminal", "error"}]

Bookkeeping ==
    /\ cancel \in [Job -> CancelType]
    /\ events \in 0..MaxEvents

SavedShape(tk) ==
    /\ tk.pc = "none" => tk = Idle
    /\ tk.pc \in {"made", "queued"} => tk.n = 0
    /\ tk.pc = "judge" /\ ~tk.err => tk.n = Matches
    /\ tk.pc = "succeed" => tk.n = Matches

(* An executor moves on: it stays on its node, and a context that is done  *)
(* stays done.                                                             *)
Progress(old, tk) ==
    /\ tk \in TaskType /\ SavedShape(tk)
    /\ old.pc # "none" /\ tk.pc # "none" /\ tk.node = old.node
    /\ tk.cause = "live" => old.cause = "live"
    /\ old.pc = "made" <=> tk.pc = "made"

LEMMA FiniteKept ==
    ASSUME RegInv, RowsMove
    PROVE  /\ \A j \in Job : row'[j] # NoJob => IsFiniteSet(row'[j].results)
           /\ \A j \in Job, e \in Epoch : row[j] = NoJob \/ e <= row[j].epoch =>
                row'[j] = NoJob \/ e <= row'[j].epoch
  <1> SUFFICES ASSUME NEW j \in Job
               PROVE  /\ row'[j] # NoJob => IsFiniteSet(row'[j].results)
                      /\ \A e \in Epoch : row[j] = NoJob \/ e <= row[j].epoch =>
                            row'[j] = NoJob \/ e <= row'[j].epoch
    BY Zenon
  <1>1. RowMove(j)
    BY Zenon DEF RowsMove
  <1>2. row[j] # NoJob => row[j].epoch \in Nat /\ IsFiniteSet(row[j].results)
    BY Zenon, RowIs, Consts
  <1>3. row'[j] \in Row => row'[j].epoch \in Nat
    BY Zenon, Consts DEF Row
  <1>4. \A e \in Epoch : e \in Nat
    BY Zenon, Consts
  <1> QED BY <1>1, <1>2, <1>3, <1>4 DEF RowMove

LEMMA ExecutorSteps ==
    ASSUME RegInv, RowsMove, Bookkeeping', NEW j \in Job, NEW e \in Epoch, NEW tk,
           task' = [task EXCEPT ![j][e] = tk], Progress(task[j][e], tk),
           UNCHANGED <<backend, reg, inFlight, node, sub, sweep>>
    PROVE  RegInv'
  <1>1. task \in [Job -> [Epoch -> TaskType]]
    BY Zenon DEF RegInv, TypeOK, TaskType
  <1>2. /\ task' \in [Job -> [Epoch -> TaskType]]
        /\ \A i \in Job, f \in Epoch :
             task'[i][f] = IF i = j /\ f = e THEN tk ELSE task[i][f]
    BY Zenon, <1>1 DEF Progress
  <1>3. TypeOK'
    <2>1. row' \in [Job -> Row \cup {NoJob}]
      BY Zenon DEF RowsMove
    <2> QED BY Zenon, <1>2, <2>1 DEF RegInv, TypeOK, TaskType, Bookkeeping, CancelType
  <1>4. Counted' /\ Handles'
    <2>1. Counted /\ Handles
      BY Zenon DEF RegInv
    <2>2. Counted'
      BY Zenon, <2>1 DEF Counted, Slots
    <2>3. Handles'
      BY <1>2, <2>1 DEF Handles, Progress
    <2> QED BY Zenon, <2>2, <2>3
  <1>5. ASSUME NEW i \in Job PROVE SubShape(i)'
    <2>1. SubShape(i) /\ RowMove(i)
      BY Zenon DEF RegInv, RowsMove
    <2>2. sub[i].pc = "new" => row'[i] = NoJob
      BY Zenon, <2>1 DEF SubShape, RowMove
    <2>3. 1 \in Epoch
      BY Zenon, Consts
    <2> QED BY <1>2, <2>1, <2>2, <2>3 DEF SubShape, Progress
  <1>6. ASSUME NEW i \in Job, NEW f \in Epoch PROVE TaskShape(i, f)'
    <2>1. TaskShape(i, f)
      BY Zenon DEF RegInv
    <2>2. SavedShape(task'[i][f])
      BY Zenon, <1>2, <2>1 DEF TaskShape, SavedShape, Progress
    <2>3. task'[i][f].pc # "none" => task[i][f].pc # "none"
      BY Zenon, <1>2 DEF Progress
    <2>4. task'[i][f].pc # "none" => row'[i] = NoJob \/ f <= row'[i].epoch
      BY Zenon, <2>1, <2>3, FiniteKept DEF TaskShape
    <2> QED BY Zenon, <2>2, <2>4 DEF TaskShape, SavedShape
  <1>7. ASSUME NEW n \in Node PROVE SweepShape(n)'
    BY Zenon DEF RegInv, SweepShape
  <1>8. ASSUME NEW n \in Node, NEW c \in sweep[n].todo PROVE ClaimShape(n, c)'
    <2>1. ClaimShape(n, c)
      BY Zenon DEF RegInv
    <2>2. c.job \in Job /\ c.epoch \in Epoch
      BY DEF RegInv, TypeOK
    <2>3. Oldest(n)' = Oldest(n)
      BY Zenon DEF Oldest
    <2>4. row[c.job] = NoJob \/ c.epoch <= row[c.job].epoch =>
            row'[c.job] = NoJob \/ c.epoch <= row'[c.job].epoch
      BY Zenon, <2>2, FiniteKept
    <2>5. /\ task'[c.job][c.epoch].pc = "made" <=> task[c.job][c.epoch].pc = "made"
          /\ task'[c.job][c.epoch].pc = "none" <=> task[c.job][c.epoch].pc = "none"
          /\ task'[c.job][c.epoch].node = task[c.job][c.epoch].node
      BY Zenon, <1>2, <2>2 DEF Progress
    <2>6. sweep' = sweep /\ sub' = sub
      OBVIOUS
    <2> QED BY ONLY Zenon, <2>1, <2>3, <2>4, <2>5, <2>6 DEF ClaimShape
  <1> QED BY Zenon, <1>3, <1>4, <1>5, <1>6, <1>7, <1>8, FiniteKept DEF RegInv

(* An executor leaves, with its handle: the deregistration of every way    *)
(* out of runAsyncJob, and of a submission the pool refused.               *)
LEMMA HandleDropped ==
    ASSUME RegInv, NEW j \in Job, NEW e \in Epoch,
           task' = [task EXCEPT ![j][e] = Idle],
           deregisterJobHandle(task[j][e].node, j, e)
    PROVE  /\ RegTyped' /\ Counted' /\ Handles'
           /\ task' \in [Job -> [Epoch -> TaskType]]
           /\ \A i \in Job, f \in Epoch :
                task'[i][f] = IF i = j /\ f = e THEN Idle ELSE task[i][f]
  <1>1. task \in [Job -> [Epoch -> TaskType]]
    BY Zenon DEF RegInv, TypeOK, TaskType
  <1>2. Idle \in TaskType /\ Idle.pc = "none"
    BY Consts DEF Idle, TaskType, Cause
  <1>3. /\ task' \in [Job -> [Epoch -> TaskType]]
        /\ \A i \in Job, f \in Epoch :
             task'[i][f] = IF i = j /\ f = e THEN Idle ELSE task[i][f]
    BY Zenon, <1>1, <1>2
  <1>4. RegTyped /\ Counted /\ Handles /\ task[j][e].node \in Node
    BY Zenon, RegIs, TaskIs
  <1>5. RegTyped' /\ Counted'
    BY Zenon, <1>4, CountDown
  <1>6. \A n \in Node, i \in Job :
          reg'[n][i] = IF n = task[j][e].node /\ i = j /\ reg[n][i] = e THEN 0 ELSE reg[n][i]
    <2>1. CASE reg[task[j][e].node][j] # e
      BY Zenon, <2>1 DEF deregisterJobHandle
    <2>2. CASE reg[task[j][e].node][j] = e
      <3>1. reg' = [reg EXCEPT ![task[j][e].node][j] = 0]
        BY Zenon, <2>2 DEF deregisterJobHandle
      <3>2. reg \in [Node -> [Job -> Epoch \cup {0}]]
        BY Zenon, <1>4 DEF RegTyped
      <3> QED BY ONLY <1>4, <2>2, <3>1, <3>2, j \in Job
    <2> QED BY Zenon, <2>1, <2>2
  <1>7. 0 \notin Epoch
    BY Zenon, Consts
  <1>8. Handles'
    <2> SUFFICES ASSUME NEW n \in Node, NEW i \in Job, NEW f \in Epoch
                 PROVE  /\ reg'[n][i] = f => task'[i][f].pc # "none" /\ task'[i][f].node = n
                        /\ task'[i][f].pc # "none" /\ task'[i][f].node = n
                             /\ task'[i][f].cause = "live" => reg'[n][i] = f
      BY Zenon DEF Handles
    <2>1. /\ reg[n][i] = f => task[i][f].pc # "none" /\ task[i][f].node = n
          /\ task[i][f].pc # "none" /\ task[i][f].node = n
               /\ task[i][f].cause = "live" => reg[n][i] = f
      BY <1>4 DEF Handles
    <2>2. CASE i = j /\ f = e
      BY <1>2, <1>3, <1>6, <1>7, <2>1, <2>2
    <2>3. CASE ~(i = j /\ f = e)
      BY <1>3, <1>6, <1>7, <2>1, <2>3
    <2> QED BY Zenon, <2>2, <2>3
  <1> QED BY Zenon, <1>3, <1>5, <1>8

LEMMA ExecutorEnds ==
    ASSUME RegInv, RowsMove, Bookkeeping', NEW j \in Job, NEW e \in Epoch,
           task' = [task EXCEPT ![j][e] = Idle],
           deregisterJobHandle(task[j][e].node, j, e),
           task[j][e].pc \notin {"none", "made"},
           UNCHANGED <<backend, node, sub, sweep>>
    PROVE  RegInv'
  <1>1. /\ RegTyped' /\ Counted' /\ Handles'
        /\ task' \in [Job -> [Epoch -> TaskType]]
        /\ \A i \in Job, f \in Epoch :
             task'[i][f] = IF i = j /\ f = e THEN Idle ELSE task[i][f]
    BY ONLY Zenon, RegInv, j \in Job, e \in Epoch, task' = [task EXCEPT ![j][e] = Idle],
            deregisterJobHandle(task[j][e].node, j, e), HandleDropped
  <1>2. Idle.pc = "none"
    BY Zenon DEF Idle
  <1>3. TypeOK'
    <2>1. row' \in [Job -> Row \cup {NoJob}]
      BY Zenon DEF RowsMove
    <2> QED BY Zenon, <1>1, <2>1 DEF RegInv, TypeOK, TaskType, Bookkeeping, CancelType, RegTyped
  <1>5. ASSUME NEW i \in Job PROVE SubShape(i)'
    <2>1. SubShape(i) /\ RowMove(i)
      BY Zenon DEF RegInv, RowsMove
    <2>2. sub[i].pc = "new" => row'[i] = NoJob
      BY Zenon, <2>1 DEF SubShape, RowMove
    <2>3. 1 \in Epoch
      BY Zenon, Consts
    <2> QED BY <1>1, <1>2, <2>1, <2>2, <2>3 DEF SubShape
  <1>6. ASSUME NEW i \in Job, NEW f \in Epoch PROVE TaskShape(i, f)'
    <2>1. TaskShape(i, f)
      BY Zenon DEF RegInv
    <2>2. CASE i = j /\ f = e
      BY Zenon, <1>1, <1>2, <2>2 DEF TaskShape
    <2>3. CASE ~(i = j /\ f = e)
      <3>1. task'[i][f] = task[i][f]
        BY Zenon, <1>1, <2>3
      <3> QED BY Zenon, <2>1, <3>1, FiniteKept DEF TaskShape
    <2> QED BY Zenon, <2>2, <2>3
  <1>7. ASSUME NEW n \in Node PROVE SweepShape(n)'
    BY Zenon DEF RegInv, SweepShape
  <1>8. ASSUME NEW n \in Node, NEW c \in sweep[n].todo PROVE ClaimShape(n, c)'
    <2>1. ClaimShape(n, c)
      BY Zenon DEF RegInv
    <2>2. c.job \in Job /\ c.epoch \in Epoch
      BY DEF RegInv, TypeOK
    <2>3. Oldest(n)' = Oldest(n)
      BY Zenon DEF Oldest
    <2>4. row[c.job] = NoJob \/ c.epoch <= row[c.job].epoch =>
            row'[c.job] = NoJob \/ c.epoch <= row'[c.job].epoch
      BY Zenon, <2>2, FiniteKept
    <2> QED BY <1>1, <1>2, <2>1, <2>2, <2>3, <2>4 DEF ClaimShape
  <1> QED BY Zenon, <1>1, <1>3, <1>5, <1>6, <1>7, <1>8, FiniteKept DEF RegInv

(* Steps of submissions, cancels and sweeps that touch no executor: a      *)
(* submission ends, a sweep goes on to a list of fewer claims.             *)
SubEnds(j) == sub'[j] = sub[j] \/ sub'[j].pc \in {"reject", "rejected", "accepted", "lost"}

SweepGoesOn(n) ==
    \/ sweep'[n] = sweep[n]
    \/ /\ sweep[n].pc \notin {"idle", "cas"}
       /\ sweep'[n].pc \in {"idle", "next", "enqueue", "release"}
       /\ sweep'[n].todo \subseteq sweep[n].todo
       /\ sweep'[n].pc = "idle" <=> sweep'[n].todo = {}
       /\ \A c \in sweep'[n].todo : task'[c.job][c.epoch].pc = "none"

SweepType == [pc : {"idle", "cas", "next", "enqueue", "submit", "release"},
              todo : SUBSET [job : Job, epoch : Epoch, stale : Nat]]

SubType == [pc : {"new", "created", "registered", "reject", "accepted", "rejected", "lost"},
            node : Node]

LEMMA NoExecutorMoves ==
    ASSUME RegInv, RowsMove, Bookkeeping',
           sub' \in [Job -> SubType], \A j \in Job : SubEnds(j),
           sweep' \in [Node -> SweepType], \A n \in Node : SweepGoesOn(n),
           UNCHANGED <<backend, task, reg, inFlight, node>>
    PROVE  RegInv'
  <1>1. TypeOK'
    <2>1. row' \in [Job -> Row \cup {NoJob}]
      BY Zenon DEF RowsMove
    <2> QED BY Zenon, <2>1 DEF RegInv, TypeOK, Bookkeeping, CancelType, SubType, SweepType
  <1>2. Counted' /\ Handles'
    <2>1. Counted /\ Handles
      BY Zenon DEF RegInv
    <2> QED BY <2>1 DEF Counted, Slots, Handles
  <1>5. ASSUME NEW i \in Job PROVE SubShape(i)'
    <2>1. SubShape(i) /\ RowMove(i) /\ SubEnds(i)
      BY Zenon DEF RegInv, RowsMove
    <2>2. sub[i].pc = "new" => row'[i] = NoJob
      BY Zenon, <2>1 DEF SubShape, RowMove
    <2> QED BY Zenon, <2>1, <2>2 DEF SubShape, SubEnds
  <1>6. ASSUME NEW i \in Job, NEW f \in Epoch PROVE TaskShape(i, f)'
    <2>1. TaskShape(i, f)
      BY Zenon DEF RegInv
    <2> QED BY Zenon, <2>1, FiniteKept DEF TaskShape
  <1>7. ASSUME NEW n \in Node PROVE SweepShape(n)'
    <2>1. SweepShape(n) /\ SweepGoesOn(n)
      BY Zenon DEF RegInv
    <2> QED BY Zenon, <2>1 DEF SweepShape, SweepGoesOn
  <1>8. ASSUME NEW n \in Node, NEW c \in sweep'[n].todo PROVE ClaimShape(n, c)'
    <2>1. SweepGoesOn(n)
      BY Zenon
    <2>2. c \in sweep[n].todo /\ ClaimShape(n, c)
      BY Zenon, <2>1 DEF RegInv, SweepGoesOn
    <2>3. c.job \in Job /\ c.epoch \in Epoch
      BY <2>2 DEF RegInv, TypeOK
    <2>4. row[c.job] = NoJob \/ c.epoch <= row[c.job].epoch =>
            row'[c.job] = NoJob \/ c.epoch <= row'[c.job].epoch
      BY Zenon, <2>3, FiniteKept
    <2>5. \A m \in Node : /\ sweep'[m].todo \subseteq sweep[m].todo
                          /\ sweep'[m].pc # "cas" => sweep[m].pc # "cas"
      BY Zenon DEF SweepGoesOn
    <2>6. sub[c.job].pc # "new" => sub'[c.job].pc # "new"
      BY Zenon, <2>3 DEF SubEnds
    <2>7. sweep'[n] = sweep[n] => Oldest(n)' = Oldest(n)
      BY Zenon DEF Oldest
    <2>8. sweep'[n] # sweep[n] => sweep'[n].pc # "submit" /\ task[c.job][c.epoch].pc = "none"
      BY Zenon, <2>1 DEF SweepGoesOn
    <2>9. sweep'[n].pc # "cas" =>
            IF sweep'[n].pc = "submit" /\ c = Oldest(n)'
            THEN task[c.job][c.epoch].pc = "made" /\ task[c.job][c.epoch].node = n
            ELSE task[c.job][c.epoch].pc = "none"
      BY Zenon, <2>2, <2>7, <2>8 DEF ClaimShape
    <2>10. sweep'[n].pc # "cas" => \A m \in Node \ {n} : \A d \in sweep'[m].todo :
             sweep'[m].pc # "cas" /\ d.job = c.job => d.epoch # c.epoch
      BY Zenon, <2>2, <2>5 DEF ClaimShape
    <2> QED BY Zenon, <2>2, <2>4, <2>5, <2>6, <2>9, <2>10 DEF ClaimShape
  <1> QED BY Zenon, <1>1, <1>2, <1>5, <1>6, <1>7, <1>8, FiniteKept DEF RegInv

-----------------------------------------------------------------------------
(* Every step keeps the invariant of the first layer. *)

LEMMA BookkeepingKept ==
    ASSUME RegInv, Event \/ UNCHANGED events, UNCHANGED cancel
    PROVE  Bookkeeping'
  BY Consts DEF RegInv, TypeOK, Bookkeeping, CancelType, Event

LEMMA ExecutorIs ==
    ASSUME RegInv, NEW j \in Job, NEW e \in Epoch
    PROVE  task[j][e] \in TaskType /\ SavedShape(task[j][e])
  <1>1. TaskShape(j, e)
    BY Zenon DEF RegInv
  <1> QED BY <1>1 DEF RegInv, TypeOK, TaskType, TaskShape, SavedShape

LEMMA SameFunction ==
    ASSUME RegInv, NEW j \in Job, NEW e \in Epoch, NEW tk
    PROVE  /\ [task EXCEPT ![j][e].pc = tk] = [task EXCEPT ![j][e] = [@ EXCEPT !.pc = tk]]
           /\ task = [task EXCEPT ![j][e] = task[j][e]]
  BY DEF RegInv, TypeOK

LEMMA CancelledProgresses ==
    ASSUME NEW old \in TaskType, SavedShape(old), old.pc # "none", NEW cause \in Cause
    PROVE  Progress(old, Cancelled(old, cause))
  BY Zenon DEF TaskType, SavedShape, Progress, Cancelled, Cause

LEMMA ExecutingKeeps ==
    ASSUME RegInv, NEW j \in Job, NEW e \in Epoch, Executing(j, e)
    PROVE  RegInv'
  <1> DEFINE old == task[j][e]
  <1>1. old \in TaskType /\ SavedShape(old)
    BY Zenon, ExecutorIs
  <1>2. Bookkeeping'
    <2>1. UNCHANGED cancel
      BY Zenon DEF Executing, SetupFails, Save, Judge, Recover, writeAsyncFailure, WriteSuccess
    <2>2. Event \/ UNCHANGED events
      BY Zenon DEF Executing, SetupFails, Save, Judge, Recover, writeAsyncFailure, WriteSuccess
    <2> QED BY Zenon, <2>1, <2>2, BookkeepingKept
  <1>3. UNCHANGED <<backend, node, sub, sweep>>
    BY Zenon DEF Executing, SetupFails, Save, Judge, Recover, writeAsyncFailure, WriteSuccess
  <1>4. Matches \in Nat
    BY Zenon, Consts
  <1>5. \A pc \in {"fail", "recover"} : old.pc \notin {"none", "made"} =>
          Progress(old, [old EXCEPT !.pc = pc])
    BY Zenon, <1>1 DEF Progress, TaskType, SavedShape
  <1>6. CASE SetupFails(j, e)
    <2>1. /\ task' = [task EXCEPT ![j][e] = [old EXCEPT !.pc = "fail"]]
          /\ old.pc = "scan" /\ row' = row /\ UNCHANGED <<reg, inFlight>>
      BY Zenon, <1>6, SameFunction DEF SetupFails, On
    <2> QED BY Zenon, <1>2, <1>3, <1>5, <2>1, RowsStay, ExecutorSteps
  <1>7. CASE Save(j, e)
    <2>1. RowsMove
      BY Zenon, <1>7, SaveMovesRows
    <2>2. PICK tk : task' = [task EXCEPT ![j][e] = tk] /\ Progress(old, tk)
      <3>1. old.pc = "scan"
        BY Zenon, <1>7 DEF Save, On
      <3>2. Progress(old, [old EXCEPT !.pc = "judge", !.err = TRUE])
        BY Zenon, <1>1, <3>1 DEF Progress, TaskType, SavedShape
      <3>3. old.n >= Matches => Progress(old, [old EXCEPT !.pc = "judge"])
        BY <1>1, <1>4, <3>1 DEF Progress, TaskType, SavedShape
      <3>4. old.n < Matches => Progress(old, [old EXCEPT !.n = old.n + 1])
        BY <1>1, <1>4, <3>1 DEF Progress, TaskType, SavedShape
      <3>5. old.n < Matches \/ old.n >= Matches
        BY <1>1, <1>4 DEF TaskType
      <3>6. CASE task' = [task EXCEPT ![j][e] = [old EXCEPT !.pc = "judge", !.err = TRUE]]
        BY Zenon, <3>2, <3>6
      <3>7. CASE task' = [task EXCEPT ![j][e] = IF old.n < Matches THEN [old EXCEPT !.n = old.n + 1]
                                                ELSE [old EXCEPT !.pc = "judge"]]
        BY Zenon, <3>3, <3>4, <3>5, <3>7
      <3>8. old.n < Matches => {old.n + 1} # {}
        BY Zenon
      <3> QED BY Zenon, <1>7, <3>6, <3>7, <3>8 DEF Save
    <2>3. UNCHANGED <<reg, inFlight>>
      BY Zenon, <1>7 DEF Save
    <2> QED BY Zenon, <1>2, <1>3, <2>1, <2>2, <2>3, ExecutorSteps
  <1>8. CASE Judge(j, e)
    <2> DEFINE pc1 == CASE old.cause # "live" -> "recover"
                        [] old.cause = "live" /\ old.err -> "fail"
                        [] OTHER -> "succeed"
               tk == [old EXCEPT !.pc = pc1]
    <2>1. task' = [task EXCEPT ![j][e].pc = pc1] /\ old.pc = "judge"
      BY Zenon, <1>8 DEF Judge, On
    <2>2. row' = row /\ UNCHANGED <<reg, inFlight>>
      BY Zenon, <1>8 DEF Judge
    <2>3. Progress(old, tk)
      BY Zenon, <1>1, <2>1 DEF Progress, TaskType, SavedShape
    <2> HIDE DEF pc1
    <2>4. task' = [task EXCEPT ![j][e] = tk]
      BY Zenon, <2>1, SameFunction
    <2> HIDE DEF tk
    <2> QED BY Zenon, <1>2, <1>3, <2>2, <2>3, <2>4, RowsStay, ExecutorSteps
  <1>9. CASE Recover(j, e)
    <2>1. row' = row /\ old.pc = "recover"
      BY Zenon, <1>9 DEF Recover, On
    <2>2. CASE Finish(j, e)
      BY Zenon, <1>2, <1>3, <2>1, <2>2, RowsStay, ExecutorEnds DEF Finish
    <2>3. CASE task' = [task EXCEPT ![j][e].pc = "fail"] /\ UNCHANGED <<reg, inFlight>>
      <3>1. task' = [task EXCEPT ![j][e] = [old EXCEPT !.pc = "fail"]]
        BY Zenon, <2>3, SameFunction
      <3> QED BY Zenon, <1>2, <1>3, <1>5, <2>1, <2>3, <3>1, RowsStay, ExecutorSteps
    <2> QED BY Zenon, <1>9, <2>2, <2>3 DEF Recover
  <1>10. CASE writeAsyncFailure(j, e)
    <2>1. old.pc = "fail" /\ Finish(j, e)
      BY Zenon, <1>10 DEF writeAsyncFailure, On
    <2>2. row' = row \/ row' = [row EXCEPT ![j] = UpdateJobStatus(j, e, "FAILED", 0).row]
      BY Zenon, <1>10 DEF writeAsyncFailure
    <2>3. "FAILED" \in Status /\ 0 \in 0..Matches
      BY <1>4 DEF Status, terminalStatuses
    <2>4. RowsMove
      BY Zenon, <2>2, <2>3, RowsStay, OneRowMoves
    <2> QED BY Zenon, <1>2, <1>3, <2>1, <2>4, ExecutorEnds DEF Finish
  <1>11. CASE WriteSuccess(j, e)
    <2>1. old.pc = "succeed" /\ Finish(j, e)
      BY Zenon, <1>11 DEF WriteSuccess, On
    <2>2. row' = row \/ row' = [row EXCEPT ![j] = UpdateJobStatus(j, e, "SUCCESSFUL", old.n).row]
      BY Zenon, <1>11 DEF WriteSuccess
    <2>3. "SUCCESSFUL" \in Status /\ old.n \in 0..Matches
      BY Zenon, <1>1 DEF Status, terminalStatuses, TaskType
    <2>4. RowsMove
      BY Zenon, <2>2, <2>3, RowsStay, OneRowMoves
    <2> QED BY Zenon, <1>2, <1>3, <2>1, <2>4, ExecutorEnds DEF Finish
  <1> QED BY Zenon, <1>6, <1>7, <1>8, <1>9, <1>10, <1>11 DEF Executing

LEMMA HeartbeatKeeps ==
    ASSUME RegInv, NEW j \in Job, NEW e \in Epoch, HeartbeatTick(j, e)
    PROVE  RegInv'
  <1>1. task[j][e] \in TaskType /\ SavedShape(task[j][e]) /\ task[j][e].pc # "none"
    BY Zenon, ExecutorIs DEF HeartbeatTick, Beating
  <1>2. task' = [task EXCEPT ![j][e] = Cancelled(task[j][e], "cancelled")]
    BY Zenon DEF HeartbeatTick
  <1>3. Progress(task[j][e], Cancelled(task[j][e], "cancelled"))
    BY Zenon, <1>1, CancelledProgresses DEF Cause
  <1>4. row' = row /\ UNCHANGED <<backend, reg, inFlight, node, sub, sweep>>
    BY Zenon DEF HeartbeatTick
  <1>5. Bookkeeping'
    BY Zenon, BookkeepingKept DEF HeartbeatTick
  <1> QED BY Zenon, <1>2, <1>3, <1>4, <1>5, RowsStay, ExecutorSteps

LEMMA TakeKeeps ==
    ASSUME RegInv, NEW n \in Node, NEW j \in Job, NEW e \in Epoch, Take(n, j, e)
    PROVE  RegInv'
  <1>1. task[j][e] \in TaskType /\ SavedShape(task[j][e])
    BY Zenon, ExecutorIs
  <1>2. task[j][e].pc = "queued" /\ task[j][e].node = n
    BY Zenon DEF Take
  <1>3. row' = row /\ UNCHANGED <<backend, node, sub, sweep>>
    BY Zenon DEF Take
  <1>4. Bookkeeping'
    BY Zenon, BookkeepingKept DEF Take
  <1>5. CASE task' = [task EXCEPT ![j][e] = Idle] /\ deregisterJobHandle(n, j, e)
    BY Zenon, <1>2, <1>3, <1>4, <1>5, RowsStay, ExecutorEnds
  <1>6. CASE task' = [task EXCEPT ![j][e].pc = "scan"] /\ UNCHANGED <<reg, inFlight>>
    <2>1. task' = [task EXCEPT ![j][e] = [task[j][e] EXCEPT !.pc = "scan"]]
      BY Zenon, <1>6, SameFunction
    <2>2. Progress(task[j][e], [task[j][e] EXCEPT !.pc = "scan"])
      BY Zenon, <1>1, <1>2 DEF Progress, TaskType, SavedShape
    <2> QED BY Zenon, <1>3, <1>4, <1>6, <2>1, <2>2, RowsStay, ExecutorSteps
  <1> QED BY Zenon, <1>5, <1>6 DEF Take

LEMMA SubAndSweepStay ==
    ASSUME RegInv
    PROVE  /\ sub \in [Job -> SubType] /\ sweep \in [Node -> SweepType]
           /\ sub' = sub => \A j \in Job : SubEnds(j)
           /\ sweep' = sweep => \A n \in Node : SweepGoesOn(n)
  BY Zenon DEF RegInv, TypeOK, SubType, SweepType, SubEnds, SweepGoesOn

LEMMA CancellingKeeps ==
    ASSUME RegInv, NEW j \in Job,
           CancelStore(j) \/ CancelRunning(j) \/ ReapExpired(j) \/ SubmitReject(j)
           \/ \E n \in Node : CancelRead(n, j)
    PROVE  RegInv'
  <1>1. RowOf(j) /\ row \in [Job -> Row \cup {NoJob}]
    BY Zenon, RowIs DEF RegInv, TypeOK
  <1>2. cancel \in [Job -> CancelType] /\ events \in 0..MaxEvents
    BY Zenon DEF RegInv, TypeOK, CancelType
  <1>3. CASE CancelStore(j)
    <2>1. RowsMove
      BY Zenon, <1>3, OneRowMoves DEF CancelStore
    <2>2. Bookkeeping'
      <3>1. [cancel[j] EXCEPT !.pc = "stored"] \in CancelType
        BY Zenon, <1>2 DEF CancelType
      <3>2. [pc |-> "done", node |-> Home, told |-> "error"] \in CancelType
        BY Zenon, Consts DEF CancelType
      <3> QED BY Zenon, <1>2, <1>3, <3>1, <3>2 DEF CancelStore, Bookkeeping
    <2> QED BY Zenon, <1>3, <2>1, <2>2, SubAndSweepStay, NoExecutorMoves DEF CancelStore
  <1>4. CASE CancelRunning(j)
    <2> DEFINE n == cancel[j].node
               e == reg[n][j]
    <2>1. Bookkeeping'
      <3>1. [pc |-> "done", node |-> Home, told |-> "cancelled"] \in CancelType
        BY Zenon, Consts DEF CancelType
      <3> QED BY Zenon, <1>2, <1>4, <3>1 DEF CancelRunning, Bookkeeping
    <2>2. row' = row /\ UNCHANGED <<backend, reg, inFlight, node, sub, sweep>>
      BY Zenon, <1>4 DEF CancelRunning
    <2>3. CASE e = 0
      <3>1. task' = task
        BY Zenon, <1>4, <2>3 DEF CancelRunning
      <3> QED BY Zenon, <2>1, <2>2, <3>1, RowsStay, SubAndSweepStay, NoExecutorMoves
    <2>4. CASE e # 0
      <3>1. n \in Node /\ e \in Epoch
        BY <1>2, <2>4 DEF RegInv, TypeOK, CancelType
      <3>2. task[j][e].pc # "none"
        BY <3>1 DEF RegInv, Handles
      <3>3. task' = [task EXCEPT ![j][e] = Cancelled(task[j][e], "cancelled")]
        BY Zenon, <1>4, <2>4 DEF CancelRunning
      <3> HIDE DEF e
      <3>4. Progress(task[j][e], Cancelled(task[j][e], "cancelled"))
        BY Zenon, <3>1, <3>2, ExecutorIs, CancelledProgresses DEF Cause
      <3> QED BY Zenon, <2>1, <2>2, <3>1, <3>3, <3>4, RowsStay, ExecutorSteps
    <2> QED BY Zenon, <2>3, <2>4
  <1>5. CASE ReapExpired(j)
    <2>1. row' = [row EXCEPT ![j] = IF row[j].status = "RUNNING" THEN row[j] ELSE NoJob]
      BY Zenon, <1>1, <1>5, UnfencedWrites DEF ReapExpired
    <2>2. RowsMove
      BY Zenon, <2>1, OneRowMoves
    <2>3. Bookkeeping'
      BY Zenon, <1>5, BookkeepingKept DEF ReapExpired
    <2> QED BY Zenon, <1>5, <2>2, <2>3, SubAndSweepStay, NoExecutorMoves DEF ReapExpired
  <1>6. CASE SubmitReject(j)
    <2>1. DeleteJob(j) = NoJob
      BY Zenon, <1>1, UnfencedWrites
    <2>2. RowsMove
      BY Zenon, <1>6, <2>1, OneRowMoves, RowsStay DEF SubmitReject
    <2>3. Bookkeeping'
      BY Zenon, <1>6, BookkeepingKept DEF SubmitReject
    <2>4. sub' \in [Job -> SubType] /\ \A i \in Job : SubEnds(i)
      BY Zenon, <1>6, Consts, SubAndSweepStay DEF SubmitReject, SubType, SubEnds
    <2> QED BY Zenon, <1>6, <2>2, <2>3, <2>4, SubAndSweepStay, NoExecutorMoves DEF SubmitReject
  <1>7. CASE \E n \in Node : CancelRead(n, j)
    <2>1. PICK n \in Node : CancelRead(n, j)
      BY Zenon, <1>7
    <2>2. /\ [pc |-> "done", node |-> Home, told |-> "error"] \in CancelType
          /\ [pc |-> "done", node |-> Home, told |-> "terminal"] \in CancelType
          /\ [pc |-> "read", node |-> n, told |-> "nothing"] \in CancelType
      BY Zenon, Consts DEF CancelType
    <2>4. cancel' \in [Job -> CancelType]
      BY Zenon, <1>2, <2>1, <2>2 DEF CancelRead
    <2>3. Bookkeeping'
      BY <1>2, <2>1, <2>4, Consts DEF CancelRead, Event, Bookkeeping
    <2> QED BY Zenon, <2>1, <2>3, RowsStay, SubAndSweepStay, NoExecutorMoves DEF CancelRead
  <1> QED BY Zenon, <1>3, <1>4, <1>5, <1>6, <1>7

LEMMA ReleaseRegisteredKeeps ==
    ASSUME RegInv, NEW n \in Node, NEW j \in Job, ReleaseRegisteredJobs(n, j)
    PROVE  RegInv'
  <1> DEFINE e == reg[n][j]
  <1>1. e \in Epoch
    BY DEF RegInv, TypeOK, ReleaseRegisteredJobs
  <1>2. task[j][e].pc # "none"
    BY <1>1 DEF RegInv, Handles
  <1>3. /\ task' = [task EXCEPT ![j][e] = Cancelled(task[j][e], "released")]
        /\ row' = [row EXCEPT ![j] = Release(j, e).row]
        /\ UNCHANGED <<backend, reg, inFlight, node, sub, sweep, cancel, events>>
    BY Zenon DEF ReleaseRegisteredJobs
  <1> HIDE DEF e
  <1>4. Progress(task[j][e], Cancelled(task[j][e], "released"))
    BY Zenon, <1>1, <1>2, ExecutorIs, CancelledProgresses DEF Cause
  <1>5. RowsMove
    BY Zenon, <1>1, <1>3, OneRowMoves
  <1>6. Bookkeeping'
    BY Zenon, <1>3, BookkeepingKept
  <1> QED BY Zenon, <1>1, <1>3, <1>4, <1>5, <1>6, ExecutorSteps

-----------------------------------------------------------------------------
(* The steps of a sweep that handle its oldest claim. *)

LEMMA RestIs ==
    ASSUME RegInv, NEW n \in Node, sweep[n].pc # "idle", sweep[n].pc # "cas"
    PROVE  /\ Rest(n) \in SweepType /\ Rest(n).pc \in {"idle", "next"}
           /\ Rest(n).pc = "idle" <=> Rest(n).todo = {}
           /\ Rest(n).todo \subseteq sweep[n].todo
           /\ \A c \in Rest(n).todo : task[c.job][c.epoch].pc = "none" /\ c.job # Oldest(n).job
  <1>1. Rest(n).todo = sweep[n].todo \ {Oldest(n)}
    BY Zenon DEF Rest
  <1>2. Oldest(n) \in sweep[n].todo
    BY Zenon, OldestIs
  <1>3. \A c \in Rest(n).todo : task[c.job][c.epoch].pc = "none" /\ c.job # Oldest(n).job
    <2> TAKE c \in Rest(n).todo
    <2>1. c \in sweep[n].todo /\ c # Oldest(n)
      BY Zenon, <1>1
    <2>2. ClaimShape(n, c) /\ SweepShape(n)
      BY Zenon, <2>1 DEF RegInv
    <2> QED BY Zenon, <1>2, <2>1, <2>2 DEF ClaimShape, SweepShape
  <1>4. sweep[n] \in SweepType
    BY Zenon, SubAndSweepStay
  <1> QED BY Zenon, <1>1, <1>3, <1>4 DEF Rest, SweepType

(* The sweep is done with the claim, or goes on with it. *)
LEMMA SweepMovesOn ==
    ASSUME RegInv, task' = task, NEW n \in Node, sweep[n].pc \in {"next", "enqueue", "release"},
           \/ sweep' = [sweep EXCEPT ![n] = Rest(n)]
           \/ sweep' = SweepAt(n, "enqueue")
    PROVE  sweep' \in [Node -> SweepType] /\ \A m \in Node : SweepGoesOn(m)
  <1>1. sweep \in [Node -> SweepType]
    BY Zenon, SubAndSweepStay
  <1>2. CASE sweep' = [sweep EXCEPT ![n] = Rest(n)]
    BY Zenon, <1>1, <1>2, RestIs DEF SweepGoesOn
  <1>3. CASE sweep' = SweepAt(n, "enqueue")
    <2>1. sweep' \in [Node -> SweepType]
      BY Zenon, <1>1, <1>3 DEF SweepAt, SweepType
    <2>2. \A m \in Node \ {n} : SweepGoesOn(m)
      BY Zenon, <1>1, <1>3 DEF SweepAt, SweepGoesOn
    <2>3. sweep'[n].pc = "enqueue" /\ sweep'[n].todo = sweep[n].todo
      BY Zenon, <1>1, <1>3 DEF SweepAt, SweepType
    <2>4. \A c \in sweep[n].todo : task[c.job][c.epoch].pc = "none"
      BY Zenon DEF RegInv, ClaimShape
    <2>5. sweep[n].todo # {}
      BY Zenon DEF RegInv, SweepShape
    <2>6. SweepGoesOn(n)
      BY Zenon, <2>3, <2>4, <2>5 DEF SweepGoesOn
    <2> QED BY Zenon, <2>1, <2>2, <2>6
  <1> QED BY Zenon, <1>2, <1>3

LEMMA SweepWritesKeep ==
    ASSUME RegInv, NEW n \in Node,
           \/ SweepAbandon(n) \/ SweepClear(n) \/ SweepRelease(n)
           \/ SweepRegister(n) /\ task' = task /\ UNCHANGED <<reg, inFlight>>
              /\ sweep' = [sweep EXCEPT ![n] = Rest(n)] /\ Event
              /\ row' = [row EXCEPT ![Oldest(n).job] =
                   UpdateJobStatus(Oldest(n).job, Oldest(n).epoch, "FAILED", 0).row]
    PROVE  RegInv'
  <1> DEFINE c == Oldest(n)
  <1>1. /\ sweep[n].pc \in {"next", "enqueue", "release"}
        /\ UNCHANGED <<backend, task, reg, inFlight, node, sub, cancel>>
        /\ Event \/ UNCHANGED events
    BY Zenon DEF SweepAbandon, SweepClear, SweepRelease, SweepRegister
  <1>2. c.job \in Job /\ c.epoch \in Epoch
    BY Zenon, <1>1, OldestIs
  <1>3. \/ sweep' = [sweep EXCEPT ![n] = Rest(n)]
        \/ sweep' = SweepAt(n, "enqueue")
    BY Zenon DEF SweepAbandon, SweepClear, SweepRelease
  <1>4. \/ row' = row
        \/ row' = [row EXCEPT ![c.job] = UpdateJobStatus(c.job, c.epoch, "FAILED", 0).row]
        \/ row' = [row EXCEPT ![c.job] = Release(c.job, c.epoch).row]
        \/ row' = [row EXCEPT ![c.job] = ClearResults(c.job)]
    BY Zenon DEF SweepAbandon, SweepClear, SweepRelease
  <1> HIDE DEF c
  <1>5. RowsMove
    <2>1. "FAILED" \in Status /\ 0 \in 0..Matches
      BY Consts DEF Status, terminalStatuses
    <2> QED BY Zenon, <1>2, <1>4, <2>1, RowsStay, OneRowMoves
  <1>6. sweep' \in [Node -> SweepType] /\ \A m \in Node : SweepGoesOn(m)
    BY Zenon, <1>1, <1>3, SweepMovesOn
  <1>7. Bookkeeping'
    BY Zenon, <1>1, BookkeepingKept
  <1> QED BY Zenon, <1>1, <1>5, <1>6, <1>7, SubAndSweepStay, NoExecutorMoves

(* Whoever made the executor of j under e, a submission or a sweep, is     *)
(* through with it.                                                        *)
MakerDone(j, e) ==
    /\ sub' \in [Job -> SubType] /\ \A i \in Job : SubEnds(i)
    /\ sub'[j].pc = "registered" => e # 1
    /\ sweep' \in [Node -> SweepType] /\ \A n \in Node : SweepGoesOn(n)
    /\ \A n \in Node : \A c \in sweep[n].todo :
         c.job = j /\ c.epoch = e /\ sweep[n].pc # "cas" => sweep'[n] # sweep[n]

(* It hands the executor to the pool, or drops it. *)
LEMMA MadeLeaves ==
    ASSUME RegInv, TypeOK', Counted', Handles', UNCHANGED <<backend, row, node>>,
           NEW j \in Job, NEW e \in Epoch, NEW tk, SavedShape(tk), tk.pc \in {"none", "queued"},
           task[j][e].pc = "made",
           \A i \in Job, f \in Epoch : task'[i][f] = IF i = j /\ f = e THEN tk ELSE task[i][f],
           MakerDone(j, e)
    PROVE  RegInv'
  <1>1. RowsMove
    BY Zenon, RowsStay
  <1>2. /\ \A i \in Job : SubEnds(i)
        /\ sub'[j].pc = "registered" => e # 1
        /\ \A n \in Node : SweepGoesOn(n)
        /\ \A n \in Node : \A c \in sweep[n].todo :
             c.job = j /\ c.epoch = e /\ sweep[n].pc # "cas" => sweep'[n] # sweep[n]
    BY Zenon DEF MakerDone
  <1>5. ASSUME NEW i \in Job PROVE SubShape(i)'
    <2>1. SubShape(i) /\ SubEnds(i) /\ 1 \in Epoch
      BY Zenon, <1>2, Consts DEF RegInv
    <2>2. sub'[i].pc \in {"new", "created", "registered"} => sub'[i] = sub[i]
      BY Zenon, <2>1 DEF SubEnds
    <2>3. sub'[i].pc = "new" => \A f \in Epoch : task'[i][f].pc = "none"
      BY Zenon, <2>1, <2>2 DEF SubShape
    <2>4. sub'[i].pc = "created" => task'[i][1].pc = "none"
      BY Zenon, <2>1, <2>2 DEF SubShape
    <2>5. sub'[i].pc = "registered" => task'[i][1] = task[i][1]
      BY Zenon, <1>2, <2>1
    <2> QED BY Zenon, <2>1, <2>2, <2>3, <2>4, <2>5 DEF SubShape
  <1>6. ASSUME NEW i \in Job, NEW f \in Epoch PROVE TaskShape(i, f)'
    <2>1. TaskShape(i, f)
      BY Zenon DEF RegInv
    <2>2. CASE i = j /\ f = e
      BY Zenon, <2>1, <2>2 DEF TaskShape, SavedShape
    <2>3. CASE ~(i = j /\ f = e)
      BY Zenon, <2>1, <2>3 DEF TaskShape
    <2> QED BY Zenon, <2>2, <2>3
  <1>7. ASSUME NEW n \in Node PROVE SweepShape(n)'
    <2>1. SweepShape(n) /\ SweepGoesOn(n)
      BY Zenon, <1>2 DEF RegInv
    <2> QED BY Zenon, <2>1 DEF SweepShape, SweepGoesOn
  <1>8. ASSUME NEW n \in Node, NEW c \in sweep'[n].todo PROVE ClaimShape(n, c)'
    <2>1. SweepGoesOn(n)
      BY Zenon, <1>2
    <2>2. c \in sweep[n].todo /\ ClaimShape(n, c)
      BY Zenon, <2>1 DEF RegInv, SweepGoesOn
    <2>3. c.job \in Job /\ c.epoch \in Epoch
      BY <2>2 DEF RegInv, TypeOK
    <2>5. \A m \in Node : /\ sweep'[m].todo \subseteq sweep[m].todo
                          /\ sweep'[m].pc # "cas" => sweep[m].pc # "cas"
      BY Zenon, <1>2 DEF SweepGoesOn
    <2>6. sub[c.job].pc # "new" => sub'[c.job].pc # "new"
      BY Zenon, <1>2, <2>3 DEF SubEnds
    <2>9. sweep'[n].pc # "cas" =>
            IF sweep'[n].pc = "submit" /\ c = Oldest(n)'
            THEN task'[c.job][c.epoch].pc = "made" /\ task'[c.job][c.epoch].node = n
            ELSE task'[c.job][c.epoch].pc = "none"
      <3>1. CASE sweep'[n] = sweep[n]
        <4>1. Oldest(n)' = Oldest(n)
          BY Zenon, <3>1 DEF Oldest
        <4>2. sweep[n].pc # "cas" => task'[c.job][c.epoch] = task[c.job][c.epoch]
          BY Zenon, <1>2, <2>2, <2>3, <3>1
        <4> QED BY Zenon, <2>2, <3>1, <4>1, <4>2 DEF ClaimShape
      <3>2. CASE sweep'[n] # sweep[n]
        BY Zenon, <2>1, <3>2 DEF SweepGoesOn
      <3> QED BY Zenon, <3>1, <3>2
    <2>10. sweep'[n].pc # "cas" => \A m \in Node \ {n} : \A d \in sweep'[m].todo :
             sweep'[m].pc # "cas" /\ d.job = c.job => d.epoch # c.epoch
      BY Zenon, <2>2, <2>5 DEF ClaimShape
    <2> QED BY Zenon, <2>2, <2>5, <2>6, <2>9, <2>10 DEF ClaimShape
  <1> QED BY Zenon, <1>1, <1>5, <1>6, <1>7, <1>8, FiniteKept DEF RegInv

(* TypeOK, one variable at a time. *)
LEMMA TypesAre ==
    ASSUME RegInv
    PROVE  /\ backend \in Backends /\ row \in [Job -> Row \cup {NoJob}]
           /\ task \in [Job -> [Epoch -> TaskType]] /\ RegTyped
           /\ node \in [Node -> {"up", "draining", "down"}]
           /\ sub \in [Job -> SubType] /\ sweep \in [Node -> SweepType] /\ Bookkeeping
  <1>1. TypeOK
    BY Zenon DEF RegInv
  <1> QED BY ONLY <1>1, Zenon DEF TypeOK, TaskType, RegTyped, SubType, SweepType, Bookkeeping, CancelType

LEMMA TypesNext ==
    ASSUME backend' \in Backends, row' \in [Job -> Row \cup {NoJob}],
           task' \in [Job -> [Epoch -> TaskType]], RegTyped',
           node' \in [Node -> {"up", "draining", "down"}],
           sub' \in [Job -> SubType], sweep' \in [Node -> SweepType], Bookkeeping'
    PROVE  TypeOK'
  BY Zenon DEF TypeOK, TaskType, RegTyped, SubType, SweepType, Bookkeeping, CancelType

(* A claim a sweep has won. *)
LEMMA TodoIs ==
    ASSUME RegInv, NEW n \in Node, NEW c \in sweep[n].todo
    PROVE  ClaimShape(n, c) /\ c.job \in Job /\ c.epoch \in Epoch
  <1>1. ClaimShape(n, c)
    BY Zenon DEF RegInv
  <1>2. sweep \in [Node -> SweepType]
    BY Zenon, TypesAre
  <1> QED BY ONLY <1>1, <1>2, n \in Node, c \in sweep[n].todo DEF SweepType

LEMMA ClaimIs ==
    ASSUME RegInv, NEW n \in Node, sweep[n].pc \notin {"idle", "cas"}, NEW c \in sweep[n].todo
    PROVE  /\ c.job \in Job /\ c.epoch \in Epoch /\ c.epoch > 1 /\ sub[c.job].pc # "new"
           /\ row[c.job] = NoJob \/ c.epoch <= row[c.job].epoch
           /\ sweep[n].pc = "submit" /\ c = Oldest(n) =>
                task[c.job][c.epoch].pc = "made" /\ task[c.job][c.epoch].node = n
           /\ ~(sweep[n].pc = "submit" /\ c = Oldest(n)) => task[c.job][c.epoch].pc = "none"
           /\ \A m \in Node \ {n} : \A d \in sweep[m].todo :
                sweep[m].pc # "cas" => ~(d.job = c.job /\ d.epoch = c.epoch)
           /\ \A d \in sweep[n].todo : d.job = c.job => d = c
  <1>1. ClaimShape(n, c) /\ SweepShape(n)
    BY Zenon DEF RegInv
  <1>2. c.job \in Job /\ c.epoch \in Epoch
    BY TypesAre DEF SweepType
  <1>3. \A d \in sweep[n].todo : d.job = c.job => d = c
    BY Zenon, <1>1 DEF SweepShape
  <1>4. /\ c.epoch > 1 /\ sub[c.job].pc # "new"
        /\ row[c.job] = NoJob \/ c.epoch <= row[c.job].epoch
        /\ IF sweep[n].pc = "submit" /\ c = Oldest(n)
           THEN task[c.job][c.epoch].pc = "made" /\ task[c.job][c.epoch].node = n
           ELSE task[c.job][c.epoch].pc = "none"
        /\ \A m \in Node \ {n} : \A d \in sweep[m].todo :
             sweep[m].pc # "cas" /\ d.job = c.job => d.epoch # c.epoch
    BY ONLY Zenon, <1>1, sweep[n].pc \notin {"idle", "cas"} DEF ClaimShape
  <1> QED BY ONLY Zenon, <1>2, <1>3, <1>4

(* An executor that was made is dropped again. *)
LEMMA MadeDropped ==
    ASSUME RegInv, NEW j \in Job, NEW e \in Epoch, task[j][e].pc = "made",
           task' = [task EXCEPT ![j][e] = Idle],
           deregisterJobHandle(task[j][e].node, j, e),
           UNCHANGED <<backend, row, node>>, UNCHANGED <<cancel, events>>,
           MakerDone(j, e)
    PROVE  RegInv'
  <1>1. /\ RegTyped' /\ Counted' /\ Handles' /\ task' \in [Job -> [Epoch -> TaskType]]
        /\ \A i \in Job, f \in Epoch : task'[i][f] = IF i = j /\ f = e THEN Idle ELSE task[i][f]
    BY ONLY Zenon, RegInv, j \in Job, e \in Epoch, task' = [task EXCEPT ![j][e] = Idle],
            deregisterJobHandle(task[j][e].node, j, e), HandleDropped
  <1>2. Idle.pc = "none" /\ SavedShape(Idle)
    <2>1. Idle.pc = "none"
      BY Zenon DEF Idle
    <2> QED BY ONLY Zenon, <2>1 DEF SavedShape
  <1>3. Bookkeeping'
    BY Zenon, BookkeepingKept
  <1>4. TypeOK'
    <2>1. /\ backend' \in Backends /\ row' \in [Job -> Row \cup {NoJob}]
          /\ node' \in [Node -> {"up", "draining", "down"}]
      BY Zenon, TypesAre
    <2>2. sub' \in [Job -> SubType] /\ sweep' \in [Node -> SweepType]
      BY Zenon DEF MakerDone
    <2> QED BY Zenon, <1>1, <1>3, <2>1, <2>2, TypesNext
  <1> HIDE DEF Idle
  <1> QED BY Zenon, <1>1, <1>2, <1>4, MadeLeaves

(* An executor that was made goes into the queue of the pool. *)
LEMMA MadeQueued ==
    ASSUME RegInv, NEW j \in Job, NEW e \in Epoch, task[j][e].pc = "made",
           task' = [task EXCEPT ![j][e].pc = "queued"],
           UNCHANGED <<reg, inFlight>>,
           UNCHANGED <<backend, row, node>>, UNCHANGED <<cancel, events>>,
           MakerDone(j, e)
    PROVE  RegInv'
  <1> DEFINE old == task[j][e]
             tk  == [old EXCEPT !.pc = "queued"]
  <1>1. old \in TaskType /\ SavedShape(old) /\ old.pc = "made"
    BY Zenon, ExecutorIs
  <1>2. /\ tk \in TaskType /\ SavedShape(tk) /\ tk.pc = "queued" /\ tk.node = old.node
        /\ tk.cause = old.cause
    BY Zenon, <1>1 DEF TaskType, SavedShape
  <1>3. task' = [task EXCEPT ![j][e] = tk]
    BY Zenon, SameFunction
  <1>4. task \in [Job -> [Epoch -> TaskType]] /\ RegTyped
    BY Zenon, TypesAre
  <1> HIDE DEF tk
  <1>5. /\ task' \in [Job -> [Epoch -> TaskType]]
        /\ \A i \in Job, f \in Epoch : task'[i][f] = IF i = j /\ f = e THEN tk ELSE task[i][f]
    BY ONLY Zenon, <1>2, <1>3, <1>4, j \in Job, e \in Epoch
  <1>6. RegTyped' /\ Counted'
    BY Zenon, RegIs DEF RegTyped, Counted, Slots
  <1>7. Handles'
    <2>1. Handles /\ reg' = reg
      BY Zenon, RegIs
    <2>2. \A i \in Job, f \in Epoch : /\ task'[i][f].pc = "none" <=> task[i][f].pc = "none"
                                      /\ task'[i][f].node = task[i][f].node
                                      /\ task'[i][f].cause = task[i][f].cause
      BY Zenon, <1>1, <1>2, <1>5
    <2> QED BY ONLY <2>1, <2>2 DEF Handles
  <1>8. Bookkeeping'
    BY Zenon, BookkeepingKept
  <1>9. TypeOK'
    <2>1. /\ backend' \in Backends /\ row' \in [Job -> Row \cup {NoJob}]
          /\ node' \in [Node -> {"up", "draining", "down"}]
      BY Zenon, TypesAre
    <2>2. sub' \in [Job -> SubType] /\ sweep' \in [Node -> SweepType]
      BY Zenon DEF MakerDone
    <2> QED BY Zenon, <1>5, <1>6, <1>8, <2>1, <2>2, TypesNext
  <1>10. tk.pc \in {"none", "queued"} /\ SavedShape(tk) /\ task[j][e].pc = "made"
    BY Zenon, <1>1, <1>2
  <1> QED BY Zenon, <1>5, <1>6, <1>7, <1>9, <1>10, MadeLeaves

LEMMA SweepSubmitKeeps ==
    ASSUME RegInv, NEW n \in Node, SweepSubmit(n)
    PROVE  RegInv'
  <1> DEFINE c == Oldest(n)
  <1>1. /\ sweep[n].pc = "submit" /\ UNCHANGED <<backend, row, node>>
        /\ UNCHANGED <<cancel, events>> /\ UNCHANGED sub
        /\ \/ /\ task' = [task EXCEPT ![c.job][c.epoch] = Idle]
              /\ deregisterJobHandle(n, c.job, c.epoch)
              /\ sweep' = SweepAt(n, "release")
           \/ /\ task' = [task EXCEPT ![c.job][c.epoch].pc = "queued"]
              /\ UNCHANGED <<reg, inFlight>>
              /\ sweep' = [sweep EXCEPT ![n] = Rest(n)]
    BY Zenon DEF SweepSubmit
  <1>2. c \in sweep[n].todo /\ c.job \in Job /\ c.epoch \in Epoch /\ c = Oldest(n)
    BY Zenon, <1>1, OldestIs
  <1> HIDE DEF c
  <1>3. task[c.job][c.epoch].pc = "made" /\ task[c.job][c.epoch].node = n /\ c.epoch # 1
    <2>1. task[c.job][c.epoch].pc = "made" /\ task[c.job][c.epoch].node = n /\ c.epoch > 1
      BY Zenon, <1>1, <1>2, ClaimIs
    <2> QED BY <2>1
  <1>4. \A m \in Node \ {n} : \A d \in sweep[m].todo :
          sweep[m].pc # "cas" => ~(d.job = c.job /\ d.epoch = c.epoch)
    <2>1. sweep[n].pc \notin {"idle", "cas"}
      BY ONLY <1>1
    <2>2. ClaimShape(n, c)
      BY Zenon, <1>2 DEF RegInv
    <2>3. \A m \in Node \ {n} : \A d \in sweep[m].todo :
            sweep[m].pc # "cas" /\ d.job = c.job => d.epoch # c.epoch
      BY ONLY Zenon, <2>1, <2>2 DEF ClaimShape
    <2> QED BY ONLY Zenon, <2>3
  <1>5. \A d \in sweep[n].todo : d # c =>
          d.job \in Job /\ d.epoch \in Epoch /\ d.job # c.job /\ task[d.job][d.epoch].pc = "none"
    <2>1. sweep[n].pc \notin {"idle", "cas"}
      BY ONLY <1>1
    <2>2. ASSUME NEW d \in sweep[n].todo, d # c
          PROVE  /\ d.job \in Job /\ d.epoch \in Epoch /\ d.job # c.job
                 /\ task[d.job][d.epoch].pc = "none"
      <3>1. d.job = c.job => d = c
        BY Zenon, <1>2, <2>1, ClaimIs
      <3>2. /\ d.job \in Job /\ d.epoch \in Epoch
            /\ d # Oldest(n) => task[d.job][d.epoch].pc = "none"
        BY Zenon, <2>1, ClaimIs
      <3> QED BY ONLY Zenon, <1>2, <2>2, <3>1, <3>2
    <2> QED BY Zenon, <2>2
  <1>6. sub' \in [Job -> SubType] /\ \A i \in Job : SubEnds(i)
    BY Zenon, <1>1, SubAndSweepStay
  <1>7. sweep \in [Node -> SweepType] /\ task \in [Job -> [Epoch -> TaskType]]
    BY Zenon, TypesAre
  <1>8. CASE /\ task' = [task EXCEPT ![c.job][c.epoch] = Idle]
             /\ deregisterJobHandle(n, c.job, c.epoch)
             /\ sweep' = SweepAt(n, "release")
    <2>1. /\ sweep' \in [Node -> SweepType] /\ sweep'[n].pc = "release"
          /\ sweep'[n].todo = sweep[n].todo
          /\ \A m \in Node \ {n} : sweep'[m] = sweep[m]
      BY Zenon, <1>7, <1>8 DEF SweepAt, SweepType
    <2>2. \A d \in sweep[n].todo : task'[d.job][d.epoch].pc = "none"
      <3> TAKE d \in sweep[n].todo
      <3>1. CASE d = c
        BY Zenon, <1>2, <1>7, <1>8, <3>1 DEF Idle
      <3>2. CASE d # c
        BY Zenon, <1>2, <1>5, <1>7, <1>8, <3>2
      <3> QED BY Zenon, <3>1, <3>2
    <2>3. \A m \in Node : SweepGoesOn(m)
      BY Zenon, <1>1, <1>2, <2>1, <2>2 DEF SweepGoesOn
    <2>4. \A m \in Node : \A d \in sweep[m].todo :
            d.job = c.job /\ d.epoch = c.epoch /\ sweep[m].pc # "cas" => sweep'[m] # sweep[m]
      BY Zenon, <1>1, <1>4, <2>1
    <2>6. MakerDone(c.job, c.epoch)
      BY Zenon, <1>3, <1>6, <2>1, <2>3, <2>4 DEF MakerDone
    <2>5. deregisterJobHandle(task[c.job][c.epoch].node, c.job, c.epoch)
      BY Zenon, <1>3, <1>8
    <2> QED BY Zenon, <1>1, <1>2, <1>3, <1>8, <2>5, <2>6, MadeDropped
  <1>9. CASE /\ task' = [task EXCEPT ![c.job][c.epoch].pc = "queued"]
             /\ UNCHANGED <<reg, inFlight>>
             /\ sweep' = [sweep EXCEPT ![n] = Rest(n)]
    <2>0. /\ Rest(n) \in SweepType /\ Rest(n).pc \in {"idle", "next"}
          /\ Rest(n).pc = "idle" <=> Rest(n).todo = {}
          /\ Rest(n).todo \subseteq sweep[n].todo
          /\ \A d \in Rest(n).todo : task[d.job][d.epoch].pc = "none" /\ d.job # c.job
      BY Zenon, <1>1, RestIs DEF c
    <2>1. /\ sweep' \in [Node -> SweepType] /\ sweep'[n] = Rest(n)
          /\ \A m \in Node \ {n} : sweep'[m] = sweep[m]
      BY Zenon, <1>7, <1>9, <2>0
    <2>2. \A d \in Rest(n).todo : task'[d.job][d.epoch].pc = "none"
      <3> TAKE d \in Rest(n).todo
      <3>1. d.job \in Job /\ d.epoch \in Epoch /\ d.job # c.job /\ task[d.job][d.epoch].pc = "none"
        BY Zenon, <1>5, <2>0
      <3> QED BY Zenon, <1>2, <1>7, <1>9, <3>1
    <2>3. \A m \in Node : SweepGoesOn(m)
      BY Zenon, <1>1, <2>0, <2>1, <2>2 DEF SweepGoesOn
    <2>4. \A m \in Node : \A d \in sweep[m].todo :
            d.job = c.job /\ d.epoch = c.epoch /\ sweep[m].pc # "cas" => sweep'[m] # sweep[m]
      BY <1>1, <1>4, <2>0, <2>1
    <2>5. MakerDone(c.job, c.epoch)
      BY Zenon, <1>3, <1>6, <2>1, <2>3, <2>4 DEF MakerDone
    <2> QED BY Zenon, <1>1, <1>2, <1>3, <1>9, <2>5, MadeQueued
  <1> QED BY Zenon, <1>1, <1>8, <1>9

LEMMA SubmitEnqueueKeeps ==
    ASSUME RegInv, NEW j \in Job, SubmitEnqueue(j)
    PROVE  RegInv'
  <1> DEFINE n == sub[j].node
  <1>1. /\ sub[j].pc = "registered" /\ UNCHANGED <<backend, row, node>>
        /\ UNCHANGED <<cancel, events>> /\ UNCHANGED sweep
        /\ \/ /\ task' = [task EXCEPT ![j][1] = Idle] /\ deregisterJobHandle(n, j, 1)
              /\ sub' = [sub EXCEPT ![j].pc = "reject"]
           \/ /\ task' = [task EXCEPT ![j][1].pc = "queued"] /\ UNCHANGED <<reg, inFlight>>
              /\ sub' = [sub EXCEPT ![j] = [pc |-> "accepted", node |-> Home]]
    BY Zenon DEF SubmitEnqueue, At
  <1>2. 1 \in Epoch /\ Home \in Node
    BY Zenon, Consts
  <1>3. task[j][1].pc = "made" /\ task[j][1].node = n
    <2>1. SubShape(j)
      BY Zenon DEF RegInv
    <2> QED BY Zenon, <1>1, <2>1 DEF SubShape
  <1>4. sweep' \in [Node -> SweepType] /\ \A m \in Node : SweepGoesOn(m)
    BY Zenon, <1>1, SubAndSweepStay
  <1>5. sub \in [Job -> SubType]
    BY Zenon, TypesAre
  <1>6. \A m \in Node : \A d \in sweep[m].todo : sweep[m].pc # "cas" => d.epoch # 1
    <2>1. \A m \in Node : \A d \in sweep[m].todo : sweep[m].pc # "cas" => d.epoch > 1
      BY Zenon DEF RegInv, ClaimShape
    <2> QED BY <2>1
  <1>7. /\ sub' \in [Job -> SubType] /\ sub'[j].pc \in {"reject", "accepted"}
        /\ \A i \in Job \ {j} : sub'[i] = sub[i]
    BY <1>1, <1>2, <1>5 DEF SubType
  <1>8. (\A i \in Job : SubEnds(i)) /\ (sub'[j].pc = "registered" => 1 # 1)
    BY Zenon, <1>7 DEF SubEnds
  <1>9. \A m \in Node : \A d \in sweep[m].todo :
          d.job = j /\ d.epoch = 1 /\ sweep[m].pc # "cas" => sweep'[m] # sweep[m]
    BY Zenon, <1>6
  <1>12. MakerDone(j, 1)
    BY Zenon, <1>4, <1>7, <1>8, <1>9 DEF MakerDone
  <1>10. CASE task' = [task EXCEPT ![j][1] = Idle] /\ deregisterJobHandle(n, j, 1)
    <2>1. deregisterJobHandle(task[j][1].node, j, 1)
      BY Zenon, <1>3, <1>10
    <2> QED BY Zenon, <1>1, <1>2, <1>3, <1>10, <1>12, <2>1, MadeDropped
  <1>11. CASE task' = [task EXCEPT ![j][1].pc = "queued"] /\ UNCHANGED <<reg, inFlight>>
    BY Zenon, <1>1, <1>2, <1>3, <1>11, <1>12, MadeQueued
  <1> QED BY Zenon, <1>1, <1>10, <1>11

LEMMA SubmitCreateKeeps ==
    ASSUME RegInv, NEW n \in Node, NEW j \in Job, SubmitCreate(n, j)
    PROVE  RegInv'
  <1>1. /\ sub[j].pc = "new" /\ UNCHANGED <<backend, task, reg, inFlight, node, sweep, cancel>>
        /\ row' = [row EXCEPT ![j] = CreateJob]
        /\ sub' = [sub EXCEPT ![j] = [pc |-> "created", node |-> n]] /\ Event
    BY Zenon DEF SubmitCreate
  <1>2. CreateJob = memCreateJob
    BY Zenon, RowIs, UnfencedWrites
  <1>3. memCreateJob \in Row /\ memCreateJob.results = {}
    BY Consts DEF memCreateJob, Row, Status, terminalStatuses
  <1>4. row \in [Job -> Row \cup {NoJob}] /\ sub \in [Job -> SubType]
    BY Zenon, TypesAre
  <1>5. /\ row' \in [Job -> Row \cup {NoJob}] /\ row'[j] = memCreateJob
        /\ \A i \in Job \ {j} : row'[i] = row[i]
    BY Zenon, <1>1, <1>2, <1>3, <1>4
  <1>6. /\ sub' \in [Job -> SubType] /\ sub'[j].pc = "created"
        /\ \A i \in Job \ {j} : sub'[i] = sub[i]
    BY Zenon, <1>1, <1>4 DEF SubType
  <1>7. \A e \in Epoch : task[j][e].pc = "none"
    BY Zenon, <1>1 DEF RegInv, SubShape
  <1>8. Bookkeeping'
    BY Zenon, <1>1, BookkeepingKept
  <1>9. TypeOK'
    BY Zenon, <1>1, <1>5, <1>6, <1>8, TypesAre, TypesNext DEF RegTyped
  <1>10. Counted' /\ Handles'
    BY <1>1 DEF RegInv, Counted, Slots, Handles
  <1>11. \A i \in Job : row'[i] # NoJob => IsFiniteSet(row'[i].results)
    BY Zenon, <1>3, <1>5, FS_EmptySet DEF RegInv
  <1>12. ASSUME NEW i \in Job PROVE SubShape(i)' /\ \A e \in Epoch : TaskShape(i, e)'
    <2>1. SubShape(i) /\ \A e \in Epoch : TaskShape(i, e)
      BY Zenon DEF RegInv
    <2>2. CASE i = j
      BY Zenon, <1>1, <1>6, <1>7, <2>1, <2>2, Consts DEF SubShape, TaskShape
    <2>3. CASE i # j
      BY Zenon, <1>1, <1>5, <1>6, <2>1, <2>3 DEF SubShape, TaskShape
    <2> QED BY Zenon, <2>2, <2>3
  <1>13. ASSUME NEW m \in Node PROVE SweepShape(m)'
    BY Zenon, <1>1 DEF RegInv, SweepShape
  <1>14. ASSUME NEW m \in Node, NEW c \in sweep[m].todo PROVE ClaimShape(m, c)'
    <2>1. ClaimShape(m, c) /\ c.job \in Job
      BY DEF RegInv, TypeOK
    <2>2. sweep[m].pc # "cas" => c.job # j
      BY Zenon, <1>1, <2>1 DEF ClaimShape
    <2>3. Oldest(m)' = Oldest(m)
      BY Zenon, <1>1 DEF Oldest
    <2> QED BY Zenon, <1>1, <1>5, <1>6, <2>1, <2>2, <2>3 DEF ClaimShape
  <1> QED BY Zenon, <1>1, <1>9, <1>10, <1>11, <1>12, <1>13, <1>14 DEF RegInv

(* A new executor. *)
LEMMA MadeIs ==
    ASSUME NEW m \in Node, NEW tk, tk = [Idle EXCEPT !.pc = "made", !.node = m]
    PROVE  tk \in TaskType /\ SavedShape(tk) /\ tk.pc = "made" /\ tk.node = m
  <1>1. tk = [pc |-> "made", node |-> m, n |-> 0, cause |-> "live", err |-> FALSE]
    BY Zenon DEF Idle
  <1>2. 0 \in 0..Matches
    BY Consts
  <1>3. tk \in TaskType
    BY ONLY Zenon, <1>1, <1>2, m \in Node DEF TaskType, Cause
  <1>4. tk.pc = "made" /\ tk.node = m /\ tk.n = 0
    BY ONLY Zenon, <1>1
  <1>5. SavedShape(tk)
    BY ONLY Zenon, <1>4 DEF SavedShape
  <1> QED BY Zenon, <1>3, <1>4, <1>5

LEMMA SubmitRegisterKeeps ==
    ASSUME RegInv, NEW j \in Job, SubmitRegister(j)
    PROVE  RegInv'
  <1> DEFINE n == sub[j].node
             tk == [Idle EXCEPT !.pc = "made", !.node = n]
  <1>1. sub[j].pc = "created" /\ UNCHANGED <<backend, row, node, sweep, cancel, events>>
    BY Zenon DEF SubmitRegister, At
  <1>2. Bookkeeping' /\ RowsMove
    BY Zenon, <1>1, BookkeepingKept, RowsStay
  <1>3. sub \in [Job -> SubType]
    BY Zenon, SubAndSweepStay
  <1>4. CASE registerRefused(n, j)
    <2>1. sub' = [sub EXCEPT ![j].pc = "reject"] /\ UNCHANGED <<task, reg, inFlight>>
      BY Zenon, <1>4 DEF SubmitRegister
    <2>2. sub' \in [Job -> SubType] /\ \A i \in Job : SubEnds(i)
      BY Zenon, <1>3, <2>1 DEF SubType, SubEnds
    <2> QED BY Zenon, <1>1, <1>2, <2>1, <2>2, SubAndSweepStay, NoExecutorMoves
  <1>5. CASE ~registerRefused(n, j)
    <2>1. /\ registered(n, j, 1) /\ task' = [task EXCEPT ![j][1] = tk]
          /\ sub' = [sub EXCEPT ![j].pc = "registered"] /\ reg[n][j] = 0
      BY Zenon, <1>5 DEF SubmitRegister, registerRefused
    <2>2. n \in Node /\ 1 \in Epoch
      BY Zenon, <1>3, Consts DEF SubType
    <2>3. registerReclaim(n, j, 1)
      BY Zenon, <2>1 DEF registered, registerReclaim
    <2>4. RegTyped' /\ Counted'
      BY Zenon, <2>2, <2>3, RegIs, CountUp
    <2>5. /\ tk \in TaskType /\ SavedShape(tk) /\ tk.pc = "made" /\ tk.node = n
      BY Zenon, <2>2, MadeIs
    <2>6. task[j][1].pc = "none"
      BY Zenon, <1>1 DEF RegInv, SubShape
    <2> HIDE DEF tk
    <2>7. /\ task' \in [Job -> [Epoch -> TaskType]]
          /\ \A i \in Job, f \in Epoch : task'[i][f] = IF i = j /\ f = 1 THEN tk ELSE task[i][f]
      <3>1. task \in [Job -> [Epoch -> TaskType]]
        BY Zenon, TypesAre
      <3> QED BY Zenon, <2>1, <2>2, <2>5, <3>1
    <2>8. \A m \in Node, i \in Job : reg'[m][i] = IF m = n /\ i = j THEN 1 ELSE reg[m][i]
      BY Zenon, <2>1, RegIs DEF registered, RegTyped
    <2>9. Handles'
      <3>1. Handles
        BY Zenon, RegIs
      <3> SUFFICES ASSUME NEW m \in Node, NEW i \in Job, NEW f \in Epoch
                   PROVE  /\ reg'[m][i] = f => task'[i][f].pc # "none" /\ task'[i][f].node = m
                          /\ task'[i][f].pc # "none" /\ task'[i][f].node = m
                               /\ task'[i][f].cause = "live" => reg'[m][i] = f
        BY Zenon DEF Handles
      <3>2. /\ reg[m][i] = f => task[i][f].pc # "none" /\ task[i][f].node = m
            /\ task[i][f].pc # "none" /\ task[i][f].node = m
                 /\ task[i][f].cause = "live" => reg[m][i] = f
        BY <3>1 DEF Handles
      <3>3. f # 0
        BY Zenon, Consts
      <3> QED BY <2>1, <2>5, <2>6, <2>7, <2>8, <3>2, <3>3
    <2>10. /\ sub' \in [Job -> SubType] /\ sub'[j] = [sub[j] EXCEPT !.pc = "registered"]
           /\ \A i \in Job \ {j} : sub'[i] = sub[i]
      BY Zenon, <1>3, <2>1 DEF SubType
    <2>11. sub'[j].pc = "registered" /\ sub'[j].node = n
      BY <1>3, <2>10 DEF SubType
    <2>12. TypeOK'
      BY Zenon, <1>1, <1>2, <2>4, <2>7, <2>10, TypesAre, TypesNext
    <2>13. ASSUME NEW i \in Job PROVE SubShape(i)'
      <3>1. SubShape(i)
        BY Zenon DEF RegInv
      <3>2. CASE i = j
        BY Zenon, <2>2, <2>5, <2>7, <2>11, <3>2 DEF SubShape
      <3>3. CASE i # j
        BY <1>1, <2>2, <2>7, <2>10, <3>1, <3>3 DEF SubShape
      <3> QED BY Zenon, <3>2, <3>3
    <2>14. ASSUME NEW i \in Job, NEW f \in Epoch PROVE TaskShape(i, f)'
      <3>1. TaskShape(i, f)
        BY Zenon DEF RegInv
      <3>2. row[j] = NoJob \/ 1 <= row[j].epoch
        BY RowIs DEF Epoch
      <3>3. CASE i = j /\ f = 1
        BY Zenon, <1>1, <2>5, <2>7, <3>2, <3>3 DEF TaskShape, SavedShape
      <3>4. CASE ~(i = j /\ f = 1)
        BY Zenon, <1>1, <2>7, <3>1, <3>4 DEF TaskShape
      <3> QED BY Zenon, <3>3, <3>4
    <2>15. ASSUME NEW m \in Node PROVE SweepShape(m)'
      BY Zenon, <1>1 DEF RegInv, SweepShape
    <2>16. ASSUME NEW m \in Node, NEW c \in sweep[m].todo PROVE ClaimShape(m, c)'
      <3>1. ClaimShape(m, c) /\ c.job \in Job /\ c.epoch \in Epoch
        BY DEF RegInv, TypeOK
      <3>2. sweep[m].pc # "cas" => task'[c.job][c.epoch] = task[c.job][c.epoch]
        <4>1. sweep[m].pc # "cas" => c.epoch > 1
          BY Zenon, <3>1 DEF ClaimShape
        <4>2. sweep[m].pc # "cas" => c.epoch # 1
          BY <4>1
        <4> QED BY Zenon, <2>7, <3>1, <4>2
      <3>3. Oldest(m)' = Oldest(m)
        BY Zenon, <1>1 DEF Oldest
      <3>4. sub'[c.job].pc # "new" <=> sub[c.job].pc # "new"
        BY Zenon, <1>1, <2>10, <2>11, <3>1
      <3> QED BY Zenon, <1>1, <3>1, <3>2, <3>3, <3>4 DEF ClaimShape
    <2> QED BY <1>1, <1>2, <2>4, <2>9, <2>12, <2>13, <2>14, <2>15, <2>16, FiniteKept DEF RegInv
  <1> QED BY Zenon, <1>4, <1>5

-----------------------------------------------------------------------------
(* The steps of a sweep that make claims and executors. *)

(* New claims of one sweep, each of a job whose row it moved to the epoch  *)
(* of the claim, or (sqlite, before the CAS) has just read.                *)
LEMMA NewClaimsKeep ==
    ASSUME RegInv, RowsMove, Bookkeeping', NEW n \in Node, node[n] = "up",
           UNCHANGED <<backend, task, reg, inFlight, node, sub>>,
           sweep' \in [Node -> SweepType], \A m \in Node \ {n} : sweep'[m] = sweep[m],
           sweep'[n].pc \in {"idle", "cas", "next"},
           sweep'[n].pc = "idle" <=> sweep'[n].todo = {},
           \A c, d \in sweep'[n].todo : c.job = d.job => c = d,
           sweep'[n].pc = "cas" => /\ backend = "sqlite"
                                   /\ \A c \in sweep'[n].todo : c.epoch < MaxEpoch,
           sweep'[n].pc # "cas" => \A c \in sweep'[n].todo :
             Claimed(c.job) /\ c.epoch = row'[c.job].epoch
    PROVE  RegInv'
  <1>1. TypeOK'
    <2>1. row' \in [Job -> Row \cup {NoJob}]
      BY Zenon DEF RowsMove
    <2> QED BY Zenon, <2>1, TypesAre, TypesNext DEF RegTyped
  <1>2. Counted' /\ Handles'
    BY DEF RegInv, Counted, Slots, Handles
  <1>3. ASSUME NEW i \in Job PROVE SubShape(i)'
    <2>1. SubShape(i) /\ RowMove(i)
      BY Zenon DEF RegInv, RowsMove
    <2>2. sub[i].pc = "new" => row'[i] = NoJob
      BY Zenon, <2>1 DEF SubShape, RowMove
    <2> QED BY Zenon, <2>1, <2>2 DEF SubShape
  <1>4. ASSUME NEW i \in Job, NEW f \in Epoch PROVE TaskShape(i, f)'
    <2>1. TaskShape(i, f)
      BY Zenon DEF RegInv
    <2> QED BY Zenon, <2>1, FiniteKept DEF TaskShape
  <1>5. ASSUME NEW m \in Node PROVE SweepShape(m)'
    <2>1. SweepShape(m)
      BY Zenon DEF RegInv
    <2> QED BY Zenon, <2>1 DEF SweepShape
  <1>6. ASSUME NEW c \in sweep'[n].todo, sweep'[n].pc # "cas"
        PROVE  /\ c.job \in Job /\ c.epoch \in Epoch /\ c.epoch > 1 /\ sub[c.job].pc # "new"
               /\ row'[c.job] # NoJob /\ c.epoch <= row'[c.job].epoch
               /\ task[c.job][c.epoch].pc = "none"
               /\ \A m \in Node \ {n} : \A d \in sweep[m].todo :
                    sweep[m].pc # "cas" /\ d.job = c.job => d.epoch # c.epoch
    <2>1. c.job \in Job /\ c.epoch \in Epoch
      BY Zenon DEF SweepType
    <2>2. /\ row[c.job] \in Row /\ row'[c.job] \in Row
          /\ c.epoch = row[c.job].epoch + 1 /\ c.epoch = row'[c.job].epoch
      BY Zenon, <1>6 DEF Claimed
    <2>3. /\ row[c.job] # NoJob /\ row'[c.job] # NoJob
          /\ row[c.job].epoch \in Nat /\ row[c.job].epoch >= 1
      <3>1. row[c.job] # NoJob /\ row'[c.job] # NoJob
        BY ONLY Zenon, <2>2, Consts
      <3>2. row[c.job].epoch \in Epoch
        BY ONLY <2>2 DEF Row
      <3> QED BY ONLY <3>1, <3>2, Consts DEF Epoch
    <2>4. sub[c.job].pc # "new"
      BY Zenon, <2>1, <2>3 DEF RegInv, SubShape
    <2>5. task[c.job][c.epoch].pc # "none" => c.epoch <= row[c.job].epoch
      BY Zenon, <2>1, <2>3 DEF RegInv, TaskShape
    <2>6. \A m \in Node \ {n} : \A d \in sweep[m].todo :
            sweep[m].pc # "cas" /\ d.job = c.job => d.epoch <= row[c.job].epoch
      <3> TAKE m \in Node \ {n}
      <3> TAKE d \in sweep[m].todo
      <3>1. ClaimShape(m, d)
        BY Zenon DEF RegInv
      <3> QED BY ONLY Zenon, <2>3, <3>1 DEF ClaimShape
    <2>7. \A m \in Node : \A d \in sweep[m].todo : d.epoch \in Nat
      <3>1. \A m \in Node : \A d \in sweep[m].todo : d.epoch \in Epoch
        <4>1. sweep \in [Node -> SweepType]
          BY Zenon, TypesAre
        <4> QED BY ONLY <4>1 DEF SweepType
      <3> QED BY Zenon, <3>1, Consts
    <2>8. c.epoch > 1 /\ c.epoch <= row'[c.job].epoch /\ ~(c.epoch <= row[c.job].epoch)
      BY ONLY <2>2, <2>3
    <2>9. \A m \in Node \ {n} : \A d \in sweep[m].todo :
            sweep[m].pc # "cas" /\ d.job = c.job => d.epoch # c.epoch
      BY Zenon, <2>6, <2>8
    <2> QED BY Zenon, <2>1, <2>3, <2>4, <2>5, <2>8, <2>9
  <1>7. ASSUME NEW m \in Node, NEW c \in sweep'[m].todo PROVE ClaimShape(m, c)'
    <2>1. CASE m = n
      <3>1. sweep'[n].pc # "submit"
        BY Zenon
      <3>2. CASE sweep'[n].pc # "cas"
        <4>1. c \in sweep'[n].todo
          BY Zenon, <2>1
        <4>2. /\ c.epoch > 1 /\ sub'[c.job].pc # "new"
              /\ row'[c.job] = NoJob \/ c.epoch <= row'[c.job].epoch
              /\ task'[c.job][c.epoch].pc = "none"
              /\ \A k \in Node \ {n} : \A d \in sweep'[k].todo :
                   sweep'[k].pc # "cas" /\ d.job = c.job => d.epoch # c.epoch
          <5>1. /\ c.epoch > 1 /\ sub[c.job].pc # "new"
                /\ row'[c.job] = NoJob \/ c.epoch <= row'[c.job].epoch
                /\ task[c.job][c.epoch].pc = "none"
            BY Zenon, <1>6, <3>2, <4>1
          <5>2. \A k \in Node \ {n} : \A d \in sweep[k].todo :
                   sweep[k].pc # "cas" /\ d.job = c.job => d.epoch # c.epoch
            BY Zenon, <1>6, <3>2, <4>1
          <5>3. \A k \in Node \ {n} : sweep'[k] = sweep[k]
            BY Zenon
          <5> QED BY Zenon, <5>1, <5>2, <5>3
        <4> QED BY ONLY Zenon, <2>1, <3>1, <4>2 DEF ClaimShape
      <3> QED BY Zenon, <2>1, <3>2 DEF ClaimShape
    <2>2. CASE m # n
      <3>1. sweep'[m] = sweep[m] /\ Oldest(m)' = Oldest(m)
        BY Zenon, <2>2 DEF Oldest
      <3>2. ClaimShape(m, c) /\ c.job \in Job /\ c.epoch \in Epoch
        <4>1. c \in sweep[m].todo
          BY Zenon, <3>1
        <4> QED BY Zenon, <4>1, TodoIs
      <3>3. row[c.job] = NoJob \/ c.epoch <= row[c.job].epoch =>
              row'[c.job] = NoJob \/ c.epoch <= row'[c.job].epoch
        BY Zenon, <3>2, FiniteKept
      <3>4. sweep[m].pc # "cas" => \A k \in Node \ {m} : \A d \in sweep'[k].todo :
              sweep'[k].pc # "cas" /\ d.job = c.job => d.epoch # c.epoch
        <4>1. sweep[m].pc # "cas" => \A k \in Node \ {m, n} : \A d \in sweep'[k].todo :
                sweep'[k].pc # "cas" /\ d.job = c.job => d.epoch # c.epoch
          BY <3>2 DEF ClaimShape
        <4>2. sweep[m].pc # "cas" => \A d \in sweep'[n].todo :
                sweep'[n].pc # "cas" /\ d.job = c.job => d.epoch # c.epoch
          BY <1>6, <2>2, <3>1
        <4> QED BY Zenon, <4>1, <4>2
      <3> QED BY Zenon, <3>1, <3>2, <3>3, <3>4 DEF ClaimShape
    <2> QED BY Zenon, <2>1, <2>2
  <1> QED BY Zenon, <1>1, <1>2, <1>3, <1>4, <1>5, <1>7, FiniteKept DEF RegInv

LEMMA SweepClaimKeeps ==
    ASSUME RegInv, NEW n \in Node, NEW S \in SUBSET Job, SweepClaim(n, S)
    PROVE  RegInv'
  <1> DEFINE C == Candidates(n, S)
             todo == {[job |-> j, epoch |-> row'[j].epoch, stale |-> row'[j].staleClaims] : j \in C}
             pc1 == IF backend = "sqlite" THEN "cas" ELSE "next"
  <1>1. /\ node[n] = "up" /\ C # {} /\ UNCHANGED <<backend, task, reg, inFlight, node, sub, cancel>>
        /\ sweep' = [sweep EXCEPT ![n] = [pc |-> pc1, todo |-> todo]]
        /\ Event \/ UNCHANGED events
    BY Zenon DEF SweepClaim
  <1>2. /\ RowsMove
        /\ backend = "sqlite" => row' = row
        /\ backend # "sqlite" => \A j \in Job : j \in C => Claimed(j)
    BY Zenon, SweepClaimRows
  <1>3. \A j \in C : j \in Job /\ row[j] \in Row /\ row[j].epoch < MaxEpoch
    BY Zenon, CandidatesRun
  <1> HIDE DEF C
  <1>4. \A j \in C : row'[j] \in Row
    BY Zenon, <1>2, <1>3 DEF Claimed
  <1>5. todo \in SUBSET [job : Job, epoch : Epoch, stale : Nat]
    BY <1>3, <1>4 DEF Row
  <1>6. \A c \in todo : c.job \in C /\ c.epoch = row'[c.job].epoch
    OBVIOUS
  <1>7. \A c, d \in todo : c.job = d.job => c = d
    OBVIOUS
  <1>8. todo # {}
    BY Zenon, <1>1
  <1> HIDE DEF todo
  <1>9. /\ sweep' \in [Node -> SweepType] /\ \A m \in Node \ {n} : sweep'[m] = sweep[m]
        /\ sweep'[n].pc = pc1 /\ sweep'[n].todo = todo
    BY Zenon, <1>1, <1>5, SubAndSweepStay DEF SweepType
  <1>10. Bookkeeping'
    BY Zenon, <1>1, BookkeepingKept
  <1>11. sweep'[n].pc = "cas" => backend = "sqlite" /\ \A c \in todo : c.epoch < MaxEpoch
    BY Zenon, <1>2, <1>3, <1>6, <1>9
  <1>12. sweep'[n].pc # "cas" => \A c \in todo : Claimed(c.job) /\ c.epoch = row'[c.job].epoch
    BY Zenon, <1>2, <1>3, <1>6, <1>9
  <1> QED BY <1>1, <1>2, <1>7, <1>8, <1>9, <1>10, <1>11, <1>12, NewClaimsKeep

LEMMA SweepCASKeeps ==
    ASSUME RegInv, NEW n \in Node, SweepCAS(n)
    PROVE  RegInv'
  <1> DEFINE todo == {[job |-> c.job, epoch |-> c.epoch + 1,
                       stale |-> sqliteClaim(row[c.job], c.epoch).staleClaims] : c \in Won(n)}
             pc1 == IF todo = {} THEN "idle" ELSE "next"
  <1>1. /\ sweep[n].pc = "cas" /\ UNCHANGED <<backend, task, reg, inFlight, node, sub, cancel, events>>
        /\ sweep' = [sweep EXCEPT ![n] = [pc |-> pc1, todo |-> todo]]
    BY Zenon DEF SweepCAS, Won
  <1>2. /\ RowsMove
        /\ \A c \in Won(n) : Claimed(c.job) /\ row[c.job].epoch = c.epoch
    BY Zenon, SweepCASRows
  <1>3. /\ Won(n) \subseteq sweep[n].todo
        /\ \A c \in Won(n) : c.job \in Job
        /\ \A c, d \in Won(n) : c.job = d.job => c = d
        /\ node[n] = "up"
    <2>1. SweepShape(n) /\ sweep \in [Node -> SweepType]
      BY Zenon, TypesAre DEF RegInv
    <2>2. Won(n) \subseteq sweep[n].todo
      BY Zenon DEF Won
    <2>3. \A c \in sweep[n].todo : c.job \in Job
      BY ONLY <2>1, n \in Node DEF SweepType
    <2>4. sweep[n].pc # "idle"
      BY ONLY <1>1
    <2> QED BY Zenon, <2>1, <2>2, <2>3, <2>4 DEF SweepShape
  <1>4. \A c \in Won(n) : sqliteClaim(row[c.job], c.epoch).staleClaims \in Nat
                          /\ c.epoch + 1 = row'[c.job].epoch /\ row'[c.job].epoch \in Epoch
    <2> TAKE c \in Won(n)
    <2>1. row[c.job] \in Row /\ row[c.job].epoch = c.epoch /\ Claimed(c.job)
          /\ row[c.job].status = "RUNNING" /\ row[c.job].epoch < MaxEpoch
      BY Zenon, <1>2 DEF Claimed
    <2> DEFINE r == row[c.job]
               q == sqliteClaim(r, r.epoch)
    <2>2. r \in Row /\ r.epoch < MaxEpoch /\ r.status = "RUNNING"
      BY Zenon, <2>1
    <2>3. q \in {memClaim(r), pgClaim(r), sqliteClaim(r, r.epoch)}
      BY Zenon
    <2> HIDE DEF r, q
    <2>4. q \in Row
      BY ONLY Zenon, <2>2, <2>3, ClaimMovesRow
    <2>5. sqliteClaim(row[c.job], c.epoch).staleClaims \in Nat
      BY Zenon, <2>1, <2>4 DEF q, r, Row
    <2>6. c.epoch + 1 = row'[c.job].epoch /\ row'[c.job].epoch \in Epoch
      BY Zenon, <2>1 DEF Claimed, Row
    <2> QED BY Zenon, <2>5, <2>6
  <1>5. todo \in SUBSET [job : Job, epoch : Epoch, stale : Nat]
    BY <1>3, <1>4
  <1>6. \A c \in todo : Claimed(c.job) /\ c.epoch = row'[c.job].epoch
    BY <1>2, <1>4
  <1>7. \A c, d \in todo : c.job = d.job => c = d
    BY <1>3
  <1> HIDE DEF todo
  <1>9. /\ sweep' \in [Node -> SweepType] /\ \A m \in Node \ {n} : sweep'[m] = sweep[m]
        /\ sweep'[n].pc = pc1 /\ sweep'[n].todo = todo
    BY Zenon, <1>1, <1>5, SubAndSweepStay DEF SweepType
  <1>10. Bookkeeping'
    BY Zenon, <1>1, BookkeepingKept
  <1> QED BY <1>1, <1>2, <1>3, <1>6, <1>7, <1>9, <1>10, NewClaimsKeep

(* reenqueueClaimed: the new executor takes over the handle its node had.  *)
LEMMA SweepRegisterKeeps ==
    ASSUME RegInv, NEW n \in Node, SweepRegister(n)
    PROVE  RegInv'
  <1> DEFINE c == Oldest(n)
             old == reg[n][c.job]
             new == [Idle EXCEPT !.pc = "made", !.node = n]
             Taken(e) == CASE e = c.epoch -> new
                           [] e = old /\ e # c.epoch -> Cancelled(task[c.job][e], "superseded")
                           [] OTHER -> task[c.job][e]
  <1>1. sweep[n].pc = "enqueue" /\ UNCHANGED <<backend, node, sub, cancel>>
    BY Zenon DEF SweepRegister
  <1>2. CASE /\ Event /\ task' = task /\ UNCHANGED <<reg, inFlight>>
             /\ sweep' = [sweep EXCEPT ![n] = Rest(n)]
             /\ row' = [row EXCEPT ![c.job] = UpdateJobStatus(c.job, c.epoch, "FAILED", 0).row]
    BY Zenon, <1>2, SweepWritesKeep
  <1>3. CASE /\ registerReclaim(n, c.job, c.epoch)
             /\ task' = [task EXCEPT ![c.job] = [e \in Epoch |-> Taken(e)]]
             /\ sweep' = SweepAt(n, "submit")
             /\ UNCHANGED <<row, events>>
    <2>1. c \in sweep[n].todo /\ c.job \in Job /\ c.epoch \in Epoch
      BY Zenon, <1>1, OldestIs
    <2>2. /\ c.epoch > 1 /\ sub[c.job].pc # "new" /\ task[c.job][c.epoch].pc = "none"
          /\ row[c.job] = NoJob \/ c.epoch <= row[c.job].epoch
          /\ \A m \in Node \ {n} : \A d \in sweep[m].todo :
                sweep[m].pc # "cas" /\ d.job = c.job => d.epoch # c.epoch
      BY Zenon, <1>1, <2>1 DEF RegInv, ClaimShape
    <2> HIDE DEF c
    <2>3. Bookkeeping' /\ RowsMove
      BY Zenon, <1>1, <1>3, BookkeepingKept, RowsStay
    <2>4. RegTyped' /\ Counted'
      BY Zenon, <1>3, <2>1, RegIs, CountUp
    <2>5. /\ new \in TaskType /\ SavedShape(new) /\ new.pc = "made" /\ new.node = n
      BY Zenon, MadeIs
    <2> HIDE DEF new
    <2>6. ASSUME NEW e \in Epoch, e # c.epoch
          PROVE  /\ Taken(e) \in TaskType /\ SavedShape(Taken(e))
                 /\ Taken(e).pc = task[c.job][e].pc /\ Taken(e).node = task[c.job][e].node
                 /\ Taken(e).cause = "live" => /\ task[c.job][e].cause = "live"
                                               /\ e # old
      <3>1. task[c.job][e] \in TaskType /\ SavedShape(task[c.job][e])
        BY Zenon, <2>1, ExecutorIs
      <3>2. CASE e = old
        <4>1. task[c.job][e].pc # "none"
          BY <2>1, <3>2 DEF RegInv, Handles
        <4>2. Taken(e) = Cancelled(task[c.job][e], "superseded")
          BY Zenon, <2>6, <3>2
        <4>3. Progress(task[c.job][e], Cancelled(task[c.job][e], "superseded"))
          BY Zenon, <3>1, <4>1, CancelledProgresses DEF Cause
        <4>4. /\ Cancelled(task[c.job][e], "superseded").pc = task[c.job][e].pc
              /\ Cancelled(task[c.job][e], "superseded").cause # "live"
          BY Zenon, <3>1 DEF Cancelled, TaskType, Cause
        <4> QED BY Zenon, <4>2, <4>3, <4>4 DEF Progress
      <3>3. CASE e # old
        BY Zenon, <2>6, <3>1, <3>3
      <3> QED BY Zenon, <3>2, <3>3
    <2>7. Taken(c.epoch) = new
      BY Zenon
    <2>8. /\ task' \in [Job -> [Epoch -> TaskType]]
          /\ \A i \in Job, f \in Epoch : task'[i][f] = IF i = c.job THEN Taken(f) ELSE task[i][f]
      <3>1. task \in [Job -> [Epoch -> TaskType]]
        BY Zenon, TypesAre
      <3>2. \A e \in Epoch : Taken(e) \in TaskType
        BY Zenon, <2>5, <2>6, <2>7
      <3> HIDE DEF Taken
      <3> QED BY Zenon, <1>3, <2>1, <3>1, <3>2
    <2> HIDE DEF Taken
    <2>9. \A m \in Node, i \in Job :
            reg'[m][i] = IF m = n /\ i = c.job THEN c.epoch ELSE reg[m][i]
      BY Zenon, <1>3, RegIs DEF registerReclaim, RegTyped
    <2>10. /\ sweep' \in [Node -> SweepType] /\ sweep'[n].pc = "submit"
           /\ sweep'[n].todo = sweep[n].todo
           /\ \A m \in Node \ {n} : sweep'[m] = sweep[m]
      BY Zenon, <1>3, SubAndSweepStay DEF SweepAt, SweepType
    <2>11. TypeOK'
      BY Zenon, <1>1, <1>3, <2>3, <2>4, <2>8, <2>10, TypesAre, TypesNext
    <2>12. Handles'
      <3> SUFFICES ASSUME NEW m \in Node, NEW i \in Job, NEW f \in Epoch
                   PROVE  /\ reg'[m][i] = f => task'[i][f].pc # "none" /\ task'[i][f].node = m
                          /\ task'[i][f].pc # "none" /\ task'[i][f].node = m
                               /\ task'[i][f].cause = "live" => reg'[m][i] = f
        BY Zenon DEF Handles
      <3>1. /\ reg[m][i] = f => task[i][f].pc # "none" /\ task[i][f].node = m
            /\ task[i][f].pc # "none" /\ task[i][f].node = m
                 /\ task[i][f].cause = "live" => reg[m][i] = f
        BY RegIs DEF Handles
      <3>2. CASE i # c.job
        BY Zenon, <2>8, <2>9, <3>1, <3>2
      <3>3. CASE i = c.job /\ f = c.epoch
        <4>1. reg[m][i] # f
          BY Zenon, <2>2, <3>1, <3>3
        <4> QED BY <2>5, <2>7, <2>8, <2>9, <3>3, <4>1
      <3>4. CASE i = c.job /\ f # c.epoch
        <4>1. /\ task'[i][f].pc = task[i][f].pc /\ task'[i][f].node = task[i][f].node
              /\ task'[i][f].cause = "live" => task[i][f].cause = "live" /\ f # old
          BY Zenon, <2>6, <2>8, <3>4
        <4> QED BY Zenon, <2>9, <3>1, <3>4, <4>1
      <3> QED BY Zenon, <3>2, <3>3, <3>4
    <2>13. ASSUME NEW i \in Job PROVE SubShape(i)'
      <3>1. SubShape(i) /\ 1 \in Epoch /\ c.epoch # 1
        BY <2>2, Consts DEF RegInv
      <3>2. task'[i][1].pc = task[i][1].pc /\ task'[i][1].node = task[i][1].node
        BY Zenon, <2>6, <2>8, <3>1
      <3>3. sub[i].pc = "new" => i # c.job
        BY Zenon, <2>2
      <3> QED BY Zenon, <1>1, <1>3, <2>8, <3>1, <3>2, <3>3 DEF SubShape
    <2>14. ASSUME NEW i \in Job, NEW f \in Epoch PROVE TaskShape(i, f)'
      <3>1. TaskShape(i, f)
        BY Zenon DEF RegInv
      <3>2. SavedShape(task'[i][f])
        <4>1. CASE i = c.job /\ f = c.epoch
          BY Zenon, <2>5, <2>7, <2>8, <4>1
        <4>2. CASE i = c.job /\ f # c.epoch
          BY Zenon, <2>6, <2>8, <4>2
        <4>3. CASE i # c.job
          BY Zenon, <2>8, <4>3, ExecutorIs
        <4> QED BY Zenon, <4>1, <4>2, <4>3
      <3>3. task'[i][f].pc # "none" => row[i] = NoJob \/ f <= row[i].epoch
        BY <2>2, <2>6, <2>8, <3>1 DEF TaskShape
      <3> QED BY Zenon, <1>3, <3>2, <3>3 DEF TaskShape, SavedShape
    <2>15. ASSUME NEW m \in Node PROVE SweepShape(m)'
      <3>1. SweepShape(m)
        BY Zenon DEF RegInv
      <3> QED BY Zenon, <1>1, <2>10, <3>1 DEF SweepShape
    <2>16. ASSUME NEW m \in Node, NEW d \in sweep'[m].todo PROVE ClaimShape(m, d)'
      <3>1. d \in sweep[m].todo /\ sweep'[m].todo = sweep[m].todo
            /\ (sweep'[m].pc = "cas" <=> sweep[m].pc = "cas")
        BY Zenon, <1>1, <2>10
      <3>2. ClaimShape(m, d) /\ d.job \in Job /\ d.epoch \in Epoch
        BY Zenon, <3>1, TodoIs
      <3>3. Oldest(m)' = Oldest(m)
        BY Zenon, <3>1 DEF Oldest
      <3>4. sweep[m].pc # "cas" => \A k \in Node \ {m} : \A x \in sweep'[k].todo :
              sweep'[k].pc # "cas" /\ x.job = d.job => x.epoch # d.epoch
        <4> SUFFICES ASSUME sweep[m].pc # "cas", NEW k \in Node \ {m}, NEW x \in sweep'[k].todo,
                            sweep'[k].pc # "cas", x.job = d.job
                     PROVE  x.epoch # d.epoch
          BY Zenon
        <4>1. x \in sweep[k].todo /\ sweep[k].pc # "cas"
          <5>1. CASE k = n
            <6>1. sweep[n].pc # "cas"
              BY ONLY <1>1
            <6> QED BY Zenon, <2>10, <5>1, <6>1
          <5>2. CASE k # n
            BY Zenon, <2>10, <5>2
          <5> QED BY Zenon, <5>1, <5>2
        <4> QED BY Zenon, <3>2, <4>1 DEF ClaimShape
      <3>5. sweep[m].pc # "cas" =>
              IF sweep'[m].pc = "submit" /\ d = Oldest(m)'
              THEN task'[d.job][d.epoch].pc = "made" /\ task'[d.job][d.epoch].node = m
              ELSE task'[d.job][d.epoch].pc = "none"
        <4>1. CASE m = n /\ d = c
          BY Zenon, <2>1, <2>5, <2>7, <2>8, <2>10, <3>3, <4>1 DEF c
        <4>2. CASE ~(m = n /\ d = c)
          <5>1. sweep[m].pc # "cas" => ~(d.job = c.job /\ d.epoch = c.epoch)
            <6>1. m = n => d.job # c.job
              BY Zenon, <2>1, <3>1, <4>2 DEF RegInv, SweepShape
            <6> QED BY Zenon, <2>2, <3>1, <6>1
          <5>2. sweep[m].pc # "cas" => /\ task'[d.job][d.epoch].pc = task[d.job][d.epoch].pc
                                       /\ task'[d.job][d.epoch].node = task[d.job][d.epoch].node
            BY <2>6, <2>8, <3>2, <5>1
          <5>3. m = n => sweep[m].pc = "enqueue" /\ d # Oldest(m)
            BY Zenon, <1>1, <4>2 DEF c
          <5> QED BY Zenon, <2>10, <3>2, <3>3, <5>2, <5>3 DEF ClaimShape
        <4> QED BY Zenon, <4>1, <4>2
      <3> QED BY Zenon, <1>1, <1>3, <3>1, <3>2, <3>4, <3>5 DEF ClaimShape
    <2> QED BY Zenon, <2>3, <2>4, <2>11, <2>12, <2>13, <2>14, <2>15, <2>16, FiniteKept DEF RegInv
  <1> QED BY Zenon, <1>2, <1>3 DEF SweepRegister

-----------------------------------------------------------------------------
(* Shutdown, crash and start. *)

LEMMA NodesKeep ==
    ASSUME RegInv, NEW n \in Node, Drain(n) \/ Start(n)
    PROVE  RegInv'
  <1>1. UNCHANGED <<backend, row, task, reg, inFlight, sub, sweep, cancel>>
    BY Zenon DEF Drain, Start
  <1>2. Bookkeeping' /\ RowsMove
    BY Zenon, <1>1, BookkeepingKept, RowsStay DEF Drain, Start
  <1>3. /\ node' \in [Node -> {"up", "draining", "down"}]
        /\ \A m \in Node : sweep[m].pc # "idle" => node'[m] = "up"
    <2>1. node \in [Node -> {"up", "draining", "down"}]
          /\ \A m \in Node : sweep[m].pc # "idle" => node[m] = "up"
      BY Zenon DEF RegInv, TypeOK, SweepShape
    <2> QED BY Zenon, <2>1 DEF Drain, Start
  <1>4. TypeOK'
    BY Zenon, <1>1, <1>2, <1>3, TypesAre, TypesNext DEF RegTyped
  <1>5. Counted' /\ Handles'
    <2>1. Counted /\ Handles
      BY Zenon DEF RegInv
    <2>2. \A m \in Node, t \in Tenant : Slots(m, t)' = Slots(m, t)
      BY ONLY Zenon, <1>1 DEF Slots
    <2>3. Counted'
      BY ONLY Zenon, <1>1, <2>1, <2>2 DEF Counted
    <2>4. Handles'
      BY ONLY <1>1, <2>1 DEF Handles
    <2> QED BY Zenon, <2>3, <2>4
  <1>6. ASSUME NEW i \in Job PROVE SubShape(i)' /\ \A e \in Epoch : TaskShape(i, e)'
    <2>1. SubShape(i) /\ \A e \in Epoch : TaskShape(i, e)
      BY Zenon DEF RegInv
    <2> QED BY Zenon, <1>1, <2>1 DEF SubShape, TaskShape
  <1>7. ASSUME NEW m \in Node PROVE SweepShape(m)' /\ \A c \in sweep[m].todo : ClaimShape(m, c)'
    <2>1. SweepShape(m) /\ \A c \in sweep[m].todo : ClaimShape(m, c)
      BY Zenon DEF RegInv
    <2>2. Oldest(m)' = Oldest(m)
      BY Zenon, <1>1 DEF Oldest
    <2>3. SweepShape(m)'
      BY ONLY Zenon, <1>1, <1>3, <2>1 DEF SweepShape
    <2>4. ASSUME NEW c \in sweep[m].todo PROVE ClaimShape(m, c)'
      <3>1. ClaimShape(m, c)
        BY Zenon, <2>1
      <3> QED BY ONLY Zenon, <1>1, <2>2, <3>1 DEF ClaimShape
    <2> QED BY Zenon, <2>3, <2>4
  <1> QED BY Zenon, <1>1, <1>2, <1>4, <1>5, <1>6, <1>7, FiniteKept DEF RegInv

LEMMA ExitKeeps ==
    ASSUME RegInv, NEW n \in Node, Crash(n) \/ Stop(n)
    PROVE  RegInv'
  <1>1. Exit(n) /\ UNCHANGED backend /\ (Event \/ UNCHANGED events)
    BY Zenon DEF Crash, Stop
  <1>2. row' \in [Job -> Row \cup {NoJob}] /\ \A j \in Job : row'[j] = row[j] \/ row'[j] = NoJob
    BY Zenon, <1>1 DEF Exit, RegInv, TypeOK
  <1>3. RowsMove
    BY Zenon, <1>2 DEF RowsMove, RowMove
  <1>4. Idle \in TaskType /\ Idle.pc = "none" /\ SavedShape(Idle)
    BY Consts DEF Idle, TaskType, Cause, SavedShape
  <1>5. /\ task' \in [Job -> [Epoch -> TaskType]]
        /\ \A j \in Job, e \in Epoch :
             task'[j][e] = IF task[j][e].node = n THEN Idle ELSE task[j][e]
    <2>1. task' = [j \in Job |-> [e \in Epoch |->
                    IF task[j][e].node = n THEN Idle ELSE task[j][e]]]
      BY Zenon, <1>1 DEF Exit
    <2>2. task \in [Job -> [Epoch -> TaskType]]
      BY Zenon DEF RegInv, TypeOK, TaskType
    <2> QED BY Zenon, <1>4, <2>1, <2>2
  <1>6. /\ sub' \in [Job -> SubType]
        /\ \A j \in Job :
             \/ sub'[j] = sub[j] /\ (sub[j].pc = "registered" => sub[j].node # n)
             \/ sub'[j].pc = "lost" /\ sub[j].pc # "new"
    <2>1. [pc |-> "lost", node |-> Home] \in SubType
      BY Zenon, Consts DEF SubType
    <2>2. sub' = [j \in Job |->
                    IF sub[j].node = n /\ sub[j].pc \in {"created", "registered", "reject"}
                    THEN [pc |-> "lost", node |-> Home] ELSE sub[j]]
      BY Zenon, <1>1 DEF Exit
    <2> QED BY Zenon, <2>1, <2>2, SubAndSweepStay
  <1>7. Bookkeeping'
    <2>1. [pc |-> "done", node |-> Home, told |-> "nothing"] \in CancelType
      BY Zenon, Consts DEF CancelType
    <2>2. cancel \in [Job -> CancelType]
      BY Zenon DEF RegInv, TypeOK, CancelType
    <2>3. cancel' \in [Job -> CancelType]
      BY Zenon, <1>1, <2>1, <2>2 DEF Exit
    <2>4. events' \in 0..MaxEvents
      BY <1>1, Consts DEF RegInv, TypeOK, Event
    <2> QED BY Zenon, <2>3, <2>4 DEF Bookkeeping
  <1>8. /\ sweep' \in [Node -> SweepType] /\ sweep'[n].pc = "idle" /\ sweep'[n].todo = {}
        /\ \A m \in Node \ {n} : sweep'[m] = sweep[m]
    BY Zenon, <1>1, SubAndSweepStay DEF Exit, SweepType
  <1>9. /\ node' \in [Node -> {"up", "draining", "down"}]
        /\ \A m \in Node \ {n} : node'[m] = node[m]
    BY Zenon, <1>1 DEF Exit, RegInv, TypeOK
  <1>10. /\ RegTyped'
         /\ \A m \in Node, j \in Job : reg'[m][j] = IF m = n THEN 0 ELSE reg[m][j]
         /\ \A m \in Node, t \in Tenant : inFlight'[m][t] = IF m = n THEN 0 ELSE inFlight[m][t]
    BY Zenon, <1>1, RegIs DEF Exit, RegTyped
  <1>11. Counted'
    <2> SUFFICES ASSUME NEW m \in Node, NEW t \in Tenant
                 PROVE  (IsFiniteSet(Slots(m, t)) /\ inFlight[m][t] = Cardinality(Slots(m, t)))'
      BY Zenon DEF Counted
    <2>1. IsFiniteSet(Slots(m, t)) /\ inFlight[m][t] = Cardinality(Slots(m, t))
      BY Zenon, RegIs DEF Counted
    <2>2. CASE m = n
      <3>1. Slots(m, t)' = {}
        BY Zenon, <1>10, <2>2 DEF Slots
      <3> QED BY Zenon, <1>10, <2>2, <3>1, FS_EmptySet
    <2>3. CASE m # n
      <3>1. Slots(m, t)' = Slots(m, t)
        BY Zenon, <1>10, <2>3 DEF Slots
      <3> QED BY Zenon, <1>10, <2>1, <2>3, <3>1
    <2> QED BY Zenon, <2>2, <2>3
  <1>12. Handles'
    <2>1. Handles /\ 0 \notin Epoch
      BY Zenon, RegIs, Consts
    <2> QED BY <1>4, <1>5, <1>10, <2>1 DEF Handles
  <1>13. TypeOK'
    BY Zenon, <1>1, <1>2, <1>5, <1>6, <1>7, <1>8, <1>9, <1>10, TypesAre, TypesNext
  <1>14. ASSUME NEW i \in Job PROVE SubShape(i)'
    <2>1. SubShape(i) /\ 1 \in Epoch
      BY Zenon, Consts DEF RegInv
    <2> QED BY Zenon, <1>2, <1>4, <1>5, <1>6, <2>1 DEF SubShape
  <1>15. ASSUME NEW i \in Job, NEW e \in Epoch PROVE TaskShape(i, e)'
    <2>1. TaskShape(i, e)
      BY Zenon DEF RegInv
    <2> QED BY Zenon, <1>2, <1>4, <1>5, <2>1 DEF TaskShape, SavedShape
  <1>16. ASSUME NEW m \in Node PROVE SweepShape(m)'
    <2>1. SweepShape(m)
      BY Zenon DEF RegInv
    <2> QED BY Zenon, <1>1, <1>8, <1>9, <2>1 DEF SweepShape
  <1>17. ASSUME NEW m \in Node, NEW c \in sweep'[m].todo PROVE ClaimShape(m, c)'
    <2>1. m # n /\ sweep'[m] = sweep[m]
      BY Zenon, <1>8
    <2>2. ClaimShape(m, c) /\ c.job \in Job /\ c.epoch \in Epoch
      BY Zenon, <2>1, TodoIs
    <2>3. Oldest(m)' = Oldest(m)
      BY Zenon, <2>1 DEF Oldest
    <2>4. /\ sub[c.job].pc # "new" => sub'[c.job].pc # "new"
          /\ row[c.job] = NoJob \/ c.epoch <= row[c.job].epoch =>
               row'[c.job] = NoJob \/ c.epoch <= row'[c.job].epoch
      BY Zenon, <1>2, <1>6, <2>2
    <2>5. /\ task[c.job][c.epoch].pc = "none" => task'[c.job][c.epoch].pc = "none"
          /\ task[c.job][c.epoch].node = m => task'[c.job][c.epoch] = task[c.job][c.epoch]
      BY Zenon, <1>4, <1>5, <2>1, <2>2
    <2>6. sweep[m].pc # "cas" => \A k \in Node \ {m} : \A d \in sweep'[k].todo :
            sweep'[k].pc # "cas" /\ d.job = c.job => d.epoch # c.epoch
      BY Zenon, <1>8, <2>2 DEF ClaimShape
    <2> QED BY Zenon, <2>1, <2>2, <2>3, <2>4, <2>5, <2>6 DEF ClaimShape
  <1> QED BY Zenon, <1>3, <1>11, <1>12, <1>13, <1>14, <1>15, <1>16, <1>17, FiniteKept DEF RegInv

-----------------------------------------------------------------------------
(* The first layer holds. *)

LEMMA RegInvInit == Init => RegInv
  <1> SUFFICES ASSUME Init PROVE RegInv
    BY Zenon
  <1>1. Idle \in TaskType /\ Idle.pc = "none"
    BY Consts DEF Idle, TaskType, Cause
  <1>2. TypeOK
    BY <1>1, Consts DEF Init, TypeOK, TaskType
  <1>3. Counted
    <2>1. \A n \in Node, t \in Tenant : Slots(n, t) = {} /\ inFlight[n][t] = 0
      BY Zenon DEF Init, Slots
    <2> QED BY Zenon, <2>1, FS_EmptySet DEF Counted
  <1>4. Handles
    BY Zenon, <1>1, Consts DEF Init, Handles
  <1>5. \A j \in Job : SubShape(j) /\ \A e \in Epoch : TaskShape(j, e)
    BY Zenon, <1>1, Consts DEF Init, SubShape, TaskShape
  <1>6. \A n \in Node : SweepShape(n) /\ sweep[n].todo = {}
    BY Zenon DEF Init, SweepShape
  <1> QED BY Zenon, <1>2, <1>3, <1>4, <1>5, <1>6 DEF RegInv, Init

LEMMA RegInvStays ==
    ASSUME RegInv, UNCHANGED vars
    PROVE  RegInv'
  <1>1. Bookkeeping' /\ RowsMove
    BY Zenon, BookkeepingKept, RowsStay DEF vars
  <1> QED BY Zenon, <1>1, SubAndSweepStay, NoExecutorMoves DEF vars

LEMMA RegInvNext ==
    ASSUME RegInv, [Next]_vars
    PROVE  RegInv'
  <1>1. CASE UNCHANGED vars
    BY Zenon, <1>1, RegInvStays
  <1>2. ASSUME NEW j \in Job, NEW e \in Epoch, Executing(j, e) \/ HeartbeatTick(j, e)
        PROVE  RegInv'
    BY Zenon, <1>2, ExecutingKeeps, HeartbeatKeeps
  <1>3. ASSUME NEW j \in Job,
               Submitting(j) \/ CancelStore(j) \/ CancelRunning(j) \/ ReapExpired(j)
        PROVE  RegInv'
    BY Zenon, <1>3, SubmitRegisterKeeps, SubmitEnqueueKeeps, CancellingKeeps DEF Submitting
  <1>4. ASSUME NEW n \in Node, NEW j \in Job,
               SubmitCreate(n, j) \/ CancelRead(n, j) \/ ReleaseRegisteredJobs(n, j)
        PROVE  RegInv'
    BY Zenon, <1>4, SubmitCreateKeeps, CancellingKeeps, ReleaseRegisteredKeeps
  <1>5. ASSUME NEW n \in Node, NEW j \in Job, NEW e \in Epoch, Take(n, j, e)
        PROVE  RegInv'
    BY Zenon, <1>5, TakeKeeps
  <1>6. ASSUME NEW n \in Node, Sweeping(n)
        PROVE  RegInv'
    BY Zenon, <1>6, SweepCASKeeps, SweepWritesKeep, SweepRegisterKeeps, SweepSubmitKeeps DEF Sweeping
  <1>7. ASSUME NEW n \in Node, Drain(n) \/ Crash(n) \/ Stop(n) \/ Start(n)
        PROVE  RegInv'
    BY Zenon, <1>7, NodesKeep, ExitKeeps
  <1>8. ASSUME NEW n \in Node, NEW S \in SUBSET Job, SweepClaim(n, S)
        PROVE  RegInv'
    BY Zenon, <1>8, SweepClaimKeeps
  <1> QED BY Zenon, <1>1, <1>2, <1>3, <1>4, <1>5, <1>6, <1>7, <1>8 DEF Next

LEMMA RegInvHolds == Spec => []RegInv
  <1>1. Init => RegInv
    BY Zenon, RegInvInit
  <1>2. RegInv /\ [Next]_vars => RegInv'
    BY Zenon, RegInvNext
  <1> QED BY <1>1, <1>2, PTL DEF Spec

(* For every number of nodes, jobs and claims and every store: tenantIn-   *)
(* Flight counts exactly the registered handles, and an executor nobody    *)
(* has cancelled is registered under its own handle, whatever the order of *)
(* submissions, sweeps, heartbeats, cancels, shutdowns and crashes         *)
(* (registerJob, registerReclaim, deregisterJobHandle).                    *)
THEOREM ExecutorsAccountedHolds == Spec => []ExecutorsAccounted
  <1>1. RegInv => ExecutorsAccounted
    <2> SUFFICES ASSUME RegInv PROVE ExecutorsAccounted
      BY Zenon
    <2>1. TypeOK /\ Counted /\ Handles
      BY Zenon DEF RegInv
    <2> QED BY ONLY <2>1 DEF ExecutorsAccounted, SlotsAccounted, Counted, Slots, Handles
  <1> QED BY <1>1, RegInvHolds, PTL
=============================================================================
