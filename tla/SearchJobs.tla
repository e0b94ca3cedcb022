---------------------------- MODULE SearchJobs -----------------------------
(***************************************************************************)
(* Async search jobs: submission, the bounded worker pool, the executor,   *)
(* its heartbeat, cancellation, the reclaim sweep, graceful shutdown and   *)
(* crashes (internal/domain/search, app.Shutdown), over one of the three   *)
(* stores of SearchStore.                                                  *)
(*                                                                         *)
(* A job is executed under a claim epoch: 1 for the submitter, one more    *)
(* for every claim by a sweep.  The execution of job j under epoch e is    *)
(* task[j][e], and since epochs are never shared it also stands for the    *)
(* in-process handle.  A search matches the entities 1..Matches, saved one *)
(* chunk each.  Time is left out: any RUNNING job may be judged stale at   *)
(* any moment, an executor may be paused for as long as it likes.          *)
(***************************************************************************)
EXTENDS SearchStore

CONSTANTS
    Backends,       \* the stores of the instance: memory, sqlite, postgres
    Node, Home,     \* the cluster; Home is the only node of memory and sqlite
    Job,            \* jobs, numbered in the order of creation
    Tenant, TenantOf,
    Matches,        \* entities a search matches
    Workers, QueueLen, StaleClaimBatch,
    maxPerTenant, maxAttempts,
    PromptSweep,    \* TRUE: a sweep is done with a claimed job before its claim ages
    MaxEpoch,       \* bound: claims of one job
    MaxEvents       \* bound: submissions, nodes joining, cancels, crashes, shutdowns, errors, pauses

Epoch == 1..MaxEpoch

(* A job's record and its result ids. *)
Row == [status : Status, epoch : Epoch, staleClaims : Nat, released : BOOLEAN,
        count : 0..Matches, results : SUBSET (Nat \X Nat)]

ASSUME SearchConstants ==
    /\ Backends \subseteq {"memory", "sqlite", "postgres"}
    /\ Home \in Node
    /\ Job \subseteq Nat \ {0}
    /\ TenantOf \in [Job -> Tenant]
    /\ {Matches, maxAttempts, MaxEvents} \subseteq Nat
    /\ {Workers, QueueLen, StaleClaimBatch, maxPerTenant, MaxEpoch} \subseteq Nat \ {0}
    /\ PromptSweep \in BOOLEAN
    /\ NoJob \notin Row

VARIABLES
    backend,   \* the store wired at startup
    row,       \* per job: its row in the store
    task,      \* per job and epoch: the executor and its context
    reg,       \* per node and job: the registered handle's epoch, 0 for none
    inFlight,  \* per node and tenant: tenantInFlight
    node,      \* per node: "up", "draining" (pool closed), "down"
    sub,       \* per job: where its SubmitAsync is, and on which node
    sweep,     \* per node: the claimed jobs ReclaimStaleJobs has still to handle
    cancel,    \* per job: where its CancelAsync is, and what it answered
    events     \* how many of the events MaxEvents bounds have happened

vars == <<backend, row, task, reg, inFlight, node, sub, sweep, cancel, events>>

(* Causes of a context: live, cancelled with nil, errJobReleased, errJobSuperseded. *)
Cause == {"live", "cancelled", "released", "superseded"}

(* An execution that has not begun, or is over. *)
Idle == [pc |-> "none", node |-> Home, n |-> 0, cause |-> "live", err |-> FALSE]

TypeOK ==
    /\ backend \in Backends
    /\ row \in [Job -> Row \cup {NoJob}]
    /\ task \in [Job -> [Epoch ->
         [pc : {"none", "made", "queued", "scan", "judge", "recover",
                "fail", "succeed"},
          node : Node, n : 0..Matches, cause : Cause, err : BOOLEAN]]]
    /\ reg \in [Node -> [Job -> Epoch \cup {0}]]
    /\ inFlight \in [Node -> [Tenant -> Nat]]
    /\ node \in [Node -> {"up", "draining", "down"}]
    /\ sub \in [Job -> [pc : {"new", "created", "registered", "reject",
                              "accepted", "rejected", "lost"}, node : Node]]
    /\ sweep \in [Node -> [pc : {"idle", "cas", "next", "enqueue", "submit", "release"},
                           todo : SUBSET [job : Job, epoch : Epoch, stale : Nat]]]
    /\ cancel \in [Job -> [pc : {"none", "read", "stored", "done"}, node : Node,
                           told : {"nothing", "cancelled", "terminal", "error"}]]
    /\ events \in 0..MaxEvents

Init ==
    /\ backend \in Backends
    /\ row = [j \in Job |-> NoJob]
    /\ task = [j \in Job |-> [e \in Epoch |-> Idle]]
    /\ reg = [n \in Node |-> [j \in Job |-> 0]]
    /\ inFlight = [n \in Node |-> [t \in Tenant |-> 0]]
    /\ node = [n \in Node |-> IF n = Home THEN "up" ELSE "down"]
    /\ sub = [j \in Job |-> [pc |-> "new", node |-> Home]]
    /\ sweep = [n \in Node |-> [pc |-> "idle", todo |-> {}]]
    /\ cancel = [j \in Job |-> [pc |-> "none", node |-> Home, told |-> "nothing"]]
    /\ events = 0

Event == events < MaxEvents /\ events' = events + 1

-----------------------------------------------------------------------------
(* The store wired at startup. *)

Of(memory, sqlite, postgres) ==
    CASE backend = "memory" -> memory [] backend = "sqlite" -> sqlite
      [] backend = "postgres" -> postgres

CreateJob == Of(memCreateJob, sqliteCreateJob, pgCreateJob)

GetJob(j) == Of(memGetJob(row[j]), sqliteGetJob(row[j]), pgGetJob(row[j]))

UpdateJobStatus(j, e, status, count) ==
    Of(memUpdateJobStatus(row[j], e, status, count),
       sqliteUpdateJobStatus(row[j], e, status, count),
       pgUpdateJobStatus(row[j], e, status, count))

SaveChunk(j, e, seq, ids) ==
    Of(memSaveChunk(row[j], e, seq, ids), sqliteSaveChunk(row[j], e, seq, ids),
       pgSaveChunk(row[j], e, seq, ids))

Heartbeat(j, e) ==
    Of(memHeartbeat(row[j], e), sqliteHeartbeat(row[j], e), pgHeartbeat(row[j], e))

Release(j, e) ==
    Of(memRelease(row[j], e), sqliteRelease(row[j], e), pgRelease(row[j], e))

Cancel(j) == Of(memCancel(row[j]), sqliteCancel(row[j]), pgCancel(row[j]))

GetResultIDs(j) ==
    Of(memGetResultIDs(row[j]), sqliteGetResultIDs(row[j]), pgGetResultIDs(row[j]))

ClearResults(j) ==
    Of(memClearResults(row[j]), sqliteClearResults(row[j]), pgClearResults(row[j]))

DeleteJob(j) == Of(memDeleteJob(row[j]), sqliteDeleteJob(row[j]), pgDeleteJob(row[j]))

-----------------------------------------------------------------------------
(* The registry of in-process handles. *)

(* CancelCauseFunc: the first cause stays. *)
Cancelled(tk, cause) == [tk EXCEPT !.cause = IF @ = "live" THEN cause ELSE @]

tenantAtCap(n, j) == inFlight[n][TenantOf[j]] >= maxPerTenant

(* registerJob's refusal; it runs under one acquisition of registryMu. *)
registerRefused(n, j) == reg[n][j] # 0 \/ tenantAtCap(n, j)

registered(n, j, e) ==
    /\ reg' = [reg EXCEPT ![n][j] = e]
    /\ inFlight' = [inFlight EXCEPT ![n][TenantOf[j]] = @ + 1]

(* registerReclaim: bypasses the cap and replaces a stale handle without   *)
(* counting it twice.                                                      *)
registerReclaim(n, j, e) ==
    /\ reg' = [reg EXCEPT ![n][j] = e]
    /\ inFlight' = IF reg[n][j] = 0
                   THEN [inFlight EXCEPT ![n][TenantOf[j]] = @ + 1] ELSE inFlight

(* Faulty variant of deregisterJobHandle: no comparison of handles. *)
deregisterAny(n, j, e) ==
    /\ reg' = [reg EXCEPT ![n][j] = 0]
    /\ inFlight' = IF reg[n][j] = 0 THEN inFlight
                   ELSE [inFlight EXCEPT ![n][TenantOf[j]] = @ - 1]

(* deregisterJobHandle: compare-and-delete on the handle's identity. *)
deregisterJobHandle(n, j, e) ==
    IF reg[n][j] # e THEN UNCHANGED <<reg, inFlight>>
    ELSE /\ reg' = [reg EXCEPT ![n][j] = 0]
         /\ inFlight' = [inFlight EXCEPT ![n][TenantOf[j]] = @ - 1]

registrySize(n) == Cardinality({j \in Job : reg[n][j] # 0})

-----------------------------------------------------------------------------
(* The worker pool. *)

TasksOn(n, pcs) == {je \in Job \X Epoch : /\ task[je[1]][je[2]].node = n
                                      /\ task[je[1]][je[2]].pc \in pcs}

Running == {"scan", "judge", "recover", "fail", "succeed"}

Cap == Workers + QueueLen

Full(n) == node[n] # "up" \/ Cardinality(TasksOn(n, {"queued"})) >= QueueLen

(* WorkerPool.worker takes a task off the queue; runAsyncJob returns at    *)
(* once when the handle was released or superseded while queued.           *)
Take(n, j, e) ==
    /\ node[n] # "down"
    /\ task[j][e].node = n /\ task[j][e].pc = "queued"
    /\ Cardinality(TasksOn(n, Running)) < Workers
    /\ IF task[j][e].cause \in {"released", "superseded"}
       THEN /\ task' = [task EXCEPT ![j][e] = Idle]
            /\ deregisterJobHandle(n, j, e)
       ELSE /\ task' = [task EXCEPT ![j][e].pc = "scan"]
            /\ UNCHANGED <<reg, inFlight>>
    /\ UNCHANGED <<backend, row, node, sub, sweep, cancel, events>>

-----------------------------------------------------------------------------
(* SubmitAsync, after validation: row, registration, queue. *)

At(j, pc) == sub[j].pc = pc /\ node[sub[j].node] # "down"

SubmitCreate(n, j) ==
    /\ node[n] # "down" /\ sub[j].pc = "new"
    /\ \A i \in Job : i < j => sub[i].pc # "new"
    /\ ~tenantAtCap(n, j) /\ Event
    /\ row' = [row EXCEPT ![j] = CreateJob]
    /\ sub' = [sub EXCEPT ![j] = [pc |-> "created", node |-> n]]
    /\ UNCHANGED <<backend, task, reg, inFlight, node, sweep, cancel>>

SubmitRegister(j) ==
    LET n == sub[j].node
    IN  /\ At(j, "created")
        /\ IF registerRefused(n, j)
           THEN /\ sub' = [sub EXCEPT ![j].pc = "reject"]
                /\ UNCHANGED <<task, reg, inFlight>>
           ELSE /\ registered(n, j, 1)
                /\ task' = [task EXCEPT ![j][1] = [Idle EXCEPT !.pc = "made", !.node = n]]
                /\ sub' = [sub EXCEPT ![j].pc = "registered"]
        /\ UNCHANGED <<backend, row, node, sweep, cancel, events>>

SubmitEnqueue(j) ==
    LET n == sub[j].node
    IN  /\ At(j, "registered")
        /\ IF Full(n)
           THEN /\ task' = [task EXCEPT ![j][1] = Idle]
                /\ deregisterJobHandle(n, j, 1)
                /\ sub' = [sub EXCEPT ![j].pc = "reject"]
           ELSE /\ task' = [task EXCEPT ![j][1].pc = "queued"]
                /\ sub' = [sub EXCEPT ![j] = [pc |-> "accepted", node |-> Home]]
                /\ UNCHANGED <<reg, inFlight>>
        /\ UNCHANGED <<backend, row, node, sweep, cancel, events>>

(* DeleteJob, not fenced; its failure is only logged. *)
SubmitReject(j) ==
    /\ At(j, "reject")
    /\ \/ row' = [row EXCEPT ![j] = DeleteJob(j)] /\ UNCHANGED events
       \/ Event /\ UNCHANGED row
    /\ sub' = [sub EXCEPT ![j] = [pc |-> "rejected", node |-> Home]]
    /\ UNCHANGED <<backend, task, reg, inFlight, node, sweep, cancel>>

-----------------------------------------------------------------------------
(* startHeartbeat's tick, from registration until the context is done: a   *)
(* write that fails (fenced out, job gone, store error) and a job found    *)
(* finished both cancel the context.                                       *)

Beating(j, e) == /\ task[j][e].pc # "none"
                 /\ task[j][e].cause = "live"
                 /\ node[task[j][e].node] # "down"

HeartbeatTick(j, e) ==
    /\ Beating(j, e)
    /\ \/ Heartbeat(j, e).err # "nil" /\ UNCHANGED events
       \/ GetJob(j).err = "nil" /\ GetJob(j).row.status # "RUNNING" /\ UNCHANGED events
       \/ Event
    /\ task' = [task EXCEPT ![j][e] = Cancelled(@, "cancelled")]
    /\ UNCHANGED <<backend, row, reg, inFlight, node, sub, sweep, cancel>>

-----------------------------------------------------------------------------
(* runAsyncJob. *)

On(j, e, pc) == task[j][e].pc = pc /\ node[task[j][e].node] # "down"

(* The deferred deregistration and cancel of every way out. *)
Finish(j, e) ==
    /\ task' = [task EXCEPT ![j][e] = Idle]
    /\ deregisterJobHandle(task[j][e].node, j, e)

(* Loading the schema, translating, opening the store or a panic: straight *)
(* to the failure write.                                                   *)
SetupFails(j, e) ==
    /\ On(j, e, "scan") /\ task[j][e].n = 0 /\ Event
    /\ task' = [task EXCEPT ![j][e].pc = "fail"]
    /\ UNCHANGED <<backend, row, reg, inFlight, node, sub, sweep, cancel>>

(* SaveResults: one chunk per step, the last flush empty.  A context that  *)
(* is done, a failed fence or insert, and a scan error end the loop.       *)
Save(j, e) ==
    LET tk  == task[j][e]
        ids == IF tk.n < Matches THEN {tk.n + 1} ELSE {}
        ans == SaveChunk(j, e, tk.n + 1, ids)
    IN  /\ On(j, e, "scan")
        /\ \/ /\ tk.cause = "live" /\ ans.err = "nil"
              /\ row' = [row EXCEPT ![j] = ans.row]
              /\ task' = [task EXCEPT ![j][e] =
                            IF ids = {} THEN [tk EXCEPT !.pc = "judge"]
                            ELSE [tk EXCEPT !.n = tk.n + 1]]
              /\ UNCHANGED events
           \/ /\ tk.cause # "live" \/ ans.err # "nil"
              /\ task' = [task EXCEPT ![j][e] = [tk EXCEPT !.pc = "judge", !.err = TRUE]]
              /\ UNCHANGED <<row, events>>
           \/ /\ Event
              /\ task' = [task EXCEPT ![j][e] = [tk EXCEPT !.pc = "judge", !.err = TRUE]]
              /\ UNCHANGED row
        /\ UNCHANGED <<backend, reg, inFlight, node, sub, sweep, cancel>>

(* The switch: a done context first, then the errors, then success. *)
Judge(j, e) ==
    LET tk == task[j][e]
    IN  /\ On(j, e, "judge")
        /\ task' = [task EXCEPT ![j][e].pc =
                      CASE tk.cause # "live" -> "recover"
                        [] tk.cause = "live" /\ tk.err -> "fail"
                        [] OTHER -> "succeed"]
        /\ UNCHANGED <<backend, row, reg, inFlight, node, sub, sweep, cancel, events>>

(* The recovery read: nothing is left to record for a job already CANCELLED. *)
Recover(j, e) ==
    /\ On(j, e, "recover")
    /\ IF GetJob(j).err = "nil" /\ GetJob(j).row.status = "CANCELLED"
       THEN Finish(j, e)
       ELSE /\ task' = [task EXCEPT ![j][e].pc = "fail"]
            /\ UNCHANGED <<reg, inFlight>>
    /\ UNCHANGED <<backend, row, node, sub, sweep, cancel, events>>

(* writeAsyncFailure: silent for a released or superseded handle; the      *)
(* write is fenced, and its failure is only logged.                        *)
writeAsyncFailure(j, e) ==
    /\ On(j, e, "fail")
    /\ \/ /\ task[j][e].cause \in {"released", "superseded"}
          /\ UNCHANGED <<row, events>>
       \/ /\ task[j][e].cause \notin {"released", "superseded"}
          /\ row' = [row EXCEPT ![j] = UpdateJobStatus(j, e, "FAILED", 0).row]
          /\ UNCHANGED events
       \/ Event /\ UNCHANGED row
    /\ Finish(j, e)
    /\ UNCHANGED <<backend, node, sub, sweep, cancel>>

(* The SUCCESSFUL write, on a context without cancellation. *)
WriteSuccess(j, e) ==
    /\ On(j, e, "succeed")
    /\ \/ /\ row' = [row EXCEPT ![j] = UpdateJobStatus(j, e, "SUCCESSFUL", task[j][e].n).row]
          /\ UNCHANGED events
       \/ Event /\ UNCHANGED row
    /\ Finish(j, e)
    /\ UNCHANGED <<backend, node, sub, sweep, cancel>>

-----------------------------------------------------------------------------
(* CancelAsync: read, store cancel, in-process abort. *)

CancelRead(n, j) ==
    /\ node[n] # "down" /\ cancel[j].pc = "none" /\ sub[j].pc = "accepted"
    /\ Event
    /\ cancel' = [cancel EXCEPT ![j] =
         CASE GetJob(j).err # "nil" -> [pc |-> "done", node |-> Home, told |-> "error"]
           [] GetJob(j).err = "nil" /\ GetJob(j).row.status # "RUNNING"
                -> [pc |-> "done", node |-> Home, told |-> "terminal"]
           [] OTHER -> [pc |-> "read", node |-> n, told |-> "nothing"]]
    /\ UNCHANGED <<backend, row, task, reg, inFlight, node, sub, sweep>>

CancelStore(j) ==
    /\ cancel[j].pc = "read" /\ node[cancel[j].node] # "down"
    /\ row' = [row EXCEPT ![j] = Cancel(j).row]
    /\ cancel' = [cancel EXCEPT ![j] =
         IF Cancel(j).err = "nil" THEN [@ EXCEPT !.pc = "stored"]
         ELSE [pc |-> "done", node |-> Home, told |-> "error"]]
    /\ UNCHANGED <<backend, task, reg, inFlight, node, sub, sweep, events>>

CancelRunning(j) ==
    LET n == cancel[j].node
        e == reg[n][j]
    IN  /\ cancel[j].pc = "stored" /\ node[n] # "down"
        /\ task' = IF e = 0 THEN task
                   ELSE [task EXCEPT ![j][e] = Cancelled(@, "cancelled")]
        /\ cancel' = [cancel EXCEPT ![j] = [pc |-> "done", node |-> Home, told |-> "cancelled"]]
        /\ UNCHANGED <<backend, row, reg, inFlight, node, sub, sweep, events>>

-----------------------------------------------------------------------------
(* What a client reads. *)

(* GetAsyncStatus: the status and the count it reports, or not found. *)
GetAsyncStatus(j) ==
    IF GetJob(j).err # "nil" THEN [status |-> "SEARCH_JOB_NOT_FOUND", total |-> 0]
    ELSE [status |-> GetJob(j).row.status, total |-> GetJob(j).row.count]

(* GetAsyncResults serves ids only of a SUCCESSFUL job. *)
GetAsyncResults(j) ==
    IF GetAsyncStatus(j).status # "SUCCESSFUL" THEN {} ELSE GetResultIDs(j)

-----------------------------------------------------------------------------
(* ReclaimStaleJobs. *)

(* The claims a sweep still has to handle, oldest job first. *)
Oldest(n) == CHOOSE c \in sweep[n].todo : \A d \in sweep[n].todo : c.job <= d.job

Held(j) == \E n \in Node : \E c \in sweep[n].todo : c.job = j

Rest(n) == LET todo == sweep[n].todo \ {Oldest(n)}
           IN  [pc |-> IF todo = {} THEN "idle" ELSE "next", todo |-> todo]

SweepAt(n, pc) == [sweep EXCEPT ![n].pc = pc]

(* Jobs that nobody is executing, submitting or about to re-run. *)
Orphans ==
    {j \in Job : /\ row[j] # NoJob /\ row[j].status = "RUNNING"
                 /\ task[j][row[j].epoch].pc = "none"
                 /\ sub[j].pc \notin {"created", "registered", "reject"}
                 /\ ~Held(j)}

(* Faulty variant of Candidates: only released jobs are taken. *)
ReleasedOnly(n, S) ==
    {j \in Job : row[j] # NoJob /\ row[j].status = "RUNNING"
                 /\ row[j].epoch < MaxEpoch /\ row[j].released}

(* What a sweep that judges stale the jobs in S would take: these and the  *)
(* released ones, the oldest first, as many as the node has room for.      *)
Candidates(n, S) ==
    LET all  == {j \in Job : row[j] # NoJob /\ row[j].status = "RUNNING"
                             /\ row[j].epoch < MaxEpoch /\ (row[j].released \/ j \in S)}
        room == Cap - registrySize(n)
        most == IF room < StaleClaimBatch THEN room ELSE StaleClaimBatch
    IN  {j \in all : Cardinality({i \in all : i < j}) < most}

(* ClaimStale: memory and postgres claim in one step, sqlite reads the     *)
(* candidates and claims each with a CAS.                                  *)
SweepClaim(n, S) ==
    LET C == Candidates(n, S)
    IN  /\ node[n] = "up" /\ sweep[n].pc = "idle"
        /\ Cap > registrySize(n) /\ C # {}
        /\ PromptSweep => \A j \in S : ~Held(j)
        /\ IF S \subseteq Orphans THEN UNCHANGED events ELSE Event
        /\ row' = IF backend = "sqlite" THEN row
                  ELSE [j \in Job |-> IF j \in C THEN Of(memClaim(row[j]), row[j], pgClaim(row[j]))
                                      ELSE row[j]]
        /\ sweep' = [sweep EXCEPT ![n] =
             [pc   |-> IF backend = "sqlite" THEN "cas" ELSE "next",
              todo |-> {[job |-> j, epoch |-> row'[j].epoch,
                         stale |-> row'[j].staleClaims] : j \in C}]]
        /\ UNCHANGED <<backend, task, reg, inFlight, node, sub, cancel>>

(* sqlite's loop of CAS updates; a candidate that was lost is skipped. *)
SweepCAS(n) ==
    LET seen  == sweep[n].todo
        won   == {c \in seen : sqliteClaim(row[c.job], c.epoch) # row[c.job]}
        todo  == {[job |-> c.job, epoch |-> c.epoch + 1,
                   stale |-> sqliteClaim(row[c.job], c.epoch).staleClaims] : c \in won}
    IN  /\ node[n] # "down" /\ sweep[n].pc = "cas"
        /\ row' = [j \in Job |-> IF \E c \in won : c.job = j
                                 THEN sqliteClaim(row[j], row[j].epoch) ELSE row[j]]
        /\ sweep' = [sweep EXCEPT ![n] = [pc |-> IF todo = {} THEN "idle" ELSE "next",
                                          todo |-> todo]]
        /\ UNCHANGED <<backend, task, reg, inFlight, node, sub, cancel, events>>

(* The attempt cap: a fenced FAILED, its failure only logged. *)
SweepAbandon(n) ==
    LET c == Oldest(n)
    IN  /\ node[n] # "down" /\ sweep[n].pc = "next" /\ maxAttempts <= c.stale
        /\ \/ /\ row' = [row EXCEPT ![c.job] =
                         UpdateJobStatus(c.job, c.epoch, "FAILED", 0).row]
              /\ UNCHANGED events
           \/ Event /\ UNCHANGED row
        /\ sweep' = [sweep EXCEPT ![n] = Rest(n)]
        /\ UNCHANGED <<backend, task, reg, inFlight, node, sub, cancel>>

(* Faulty variant of SweepClear: the job is re-run over the old rows. *)
SweepKeepsRows(n) ==
    /\ node[n] # "down" /\ sweep[n].pc = "next" /\ maxAttempts > Oldest(n).stale
    /\ sweep' = SweepAt(n, "enqueue")
    /\ UNCHANGED <<backend, row, task, reg, inFlight, node, sub, cancel, events>>

(* ClearResults, not fenced; on failure the job is released and left. *)
SweepClear(n) ==
    LET c == Oldest(n)
    IN  /\ node[n] # "down" /\ sweep[n].pc = "next" /\ maxAttempts > c.stale
        /\ \/ /\ row' = [row EXCEPT ![c.job] = ClearResults(c.job)]
              /\ sweep' = SweepAt(n, "enqueue")
              /\ UNCHANGED events
           \/ /\ Event
              /\ row' = [row EXCEPT ![c.job] = Release(c.job, c.epoch).row]
              /\ sweep' = [sweep EXCEPT ![n] = Rest(n)]
        /\ UNCHANGED <<backend, task, reg, inFlight, node, sub, cancel>>

(* reenqueueClaimed: a fresh context is registered under the new epoch and *)
(* its heartbeat started; a handle this node still had is superseded.  A   *)
(* stored job that does not decode is failed.                              *)
SweepRegister(n) ==
    LET c   == Oldest(n)
        old == reg[n][c.job]
        new == [Idle EXCEPT !.pc = "made", !.node = n]
    IN  /\ node[n] # "down" /\ sweep[n].pc = "enqueue"
        /\ \/ /\ registerReclaim(n, c.job, c.epoch)
              /\ task' = [task EXCEPT ![c.job] =
                   [e \in Epoch |-> CASE e = c.epoch -> new
                                      [] e = old /\ e # c.epoch -> Cancelled(@[e], "superseded")
                                      [] OTHER -> @[e]]]
              /\ sweep' = SweepAt(n, "submit")
              /\ UNCHANGED <<row, events>>
           \/ /\ Event
              /\ row' = [row EXCEPT ![c.job] = UpdateJobStatus(c.job, c.epoch, "FAILED", 0).row]
              /\ sweep' = [sweep EXCEPT ![n] = Rest(n)]
              /\ UNCHANGED <<task, reg, inFlight>>
        /\ UNCHANGED <<backend, node, sub, cancel>>

(* Submit to the pool; on ErrQueueFull the handle is dropped. *)
SweepSubmit(n) ==
    LET c == Oldest(n)
    IN  /\ node[n] # "down" /\ sweep[n].pc = "submit"
        /\ IF Full(n)
           THEN /\ task' = [task EXCEPT ![c.job][c.epoch] =
                              Idle]
                /\ deregisterJobHandle(n, c.job, c.epoch)
                /\ sweep' = SweepAt(n, "release")
           ELSE /\ task' = [task EXCEPT ![c.job][c.epoch].pc = "queued"]
                /\ sweep' = [sweep EXCEPT ![n] = Rest(n)]
                /\ UNCHANGED <<reg, inFlight>>
        /\ UNCHANGED <<backend, row, node, sub, cancel, events>>

(* ... and the job released for a node with room. *)
SweepRelease(n) ==
    LET c == Oldest(n)
    IN  /\ node[n] # "down" /\ sweep[n].pc = "release"
        /\ row' = [row EXCEPT ![c.job] = Release(c.job, c.epoch).row]
        /\ sweep' = [sweep EXCEPT ![n] = Rest(n)]
        /\ UNCHANGED <<backend, task, reg, inFlight, node, sub, cancel, events>>

(* ReapExpired: finished jobs past the snapshot TTL go, with their results. *)
ReapExpired(j) ==
    /\ row[j] # NoJob /\ \E n \in Node : node[n] = "up"
    /\ row' = [row EXCEPT ![j] = Of(memReapExpired(@), sqliteReapExpired(@), pgReapExpired(@))]
    /\ UNCHANGED <<backend, task, reg, inFlight, node, sub, sweep, cancel, events>>

-----------------------------------------------------------------------------
(* Shutdown and crash. *)

(* App.Shutdown: the reaper loop has ended its tick, the pool closes. *)
Drain(n) ==
    /\ node[n] = "up" /\ sweep[n].pc = "idle" /\ Event
    /\ node' = [node EXCEPT ![n] = "draining"]
    /\ UNCHANGED <<backend, row, task, reg, inFlight, sub, sweep, cancel>>

(* A release of this handle's job has nothing more to do. *)
HandedOver(j, e) == task[j][e].cause # "live" /\ Release(j, e).row = row[j]

(* ReleaseRegisteredJobs, once the drain budget is used up: each handle    *)
(* still registered is cancelled with errJobReleased and its job released  *)
(* in the store, without waiting for the executor.                         *)
ReleaseRegisteredJobs(n, j) ==
    LET e == reg[n][j]
    IN  /\ node[n] = "draining" /\ e # 0 /\ ~HandedOver(j, e)
        /\ task' = [task EXCEPT ![j][e] = Cancelled(@, "released")]
        /\ row' = [row EXCEPT ![j] = Release(j, e).row]
        /\ UNCHANGED <<backend, reg, inFlight, node, sub, sweep, cancel, events>>

(* The process is gone: registry, pool, sweep and requests with it, and    *)
(* the memory store.                                                       *)
Exit(n) ==
    /\ node' = [node EXCEPT ![n] = "down"]
    /\ row' = IF backend = "memory" THEN [j \in Job |-> NoJob] ELSE row
    /\ task' = [j \in Job |-> [e \in Epoch |->
                  IF task[j][e].node = n THEN Idle ELSE task[j][e]]]
    /\ reg' = [reg EXCEPT ![n] = [j \in Job |-> 0]]
    /\ inFlight' = [inFlight EXCEPT ![n] = [t \in Tenant |-> 0]]
    /\ sub' = [j \in Job |->
                 IF sub[j].node = n /\ sub[j].pc \in {"created", "registered", "reject"}
                 THEN [pc |-> "lost", node |-> Home] ELSE sub[j]]
    /\ sweep' = [sweep EXCEPT ![n] = [pc |-> "idle", todo |-> {}]]
    /\ cancel' = [j \in Job |->
                    IF cancel[j].node = n /\ cancel[j].pc \in {"read", "stored"}
                    THEN [pc |-> "done", node |-> Home, told |-> "nothing"] ELSE cancel[j]]

Crash(n) == node[n] # "down" /\ Event /\ Exit(n) /\ UNCHANGED backend

(* The process ends after Shutdown; everything registered was released. *)
Stop(n) ==
    /\ node[n] = "draining"
    /\ \A j \in Job : reg[n][j] # 0 => HandedOver(j, reg[n][j])
    /\ Exit(n)
    /\ UNCHANGED <<backend, events>>

(* Home is started again; another node may join a cluster over postgres. *)
Start(n) ==
    /\ node[n] = "down"
    /\ \/ n = Home /\ UNCHANGED events
       \/ n # Home /\ backend = "postgres" /\ Event
    /\ node' = [node EXCEPT ![n] = "up"]
    /\ UNCHANGED <<backend, row, task, reg, inFlight, sub, sweep, cancel>>

-----------------------------------------------------------------------------
Submitting(j) == SubmitRegister(j) \/ SubmitEnqueue(j) \/ SubmitReject(j)

Executing(j, e) ==
    \/ SetupFails(j, e) \/ Save(j, e) \/ Judge(j, e) \/ Recover(j, e)
    \/ writeAsyncFailure(j, e) \/ WriteSuccess(j, e)

Sweeping(n) ==
    \/ SweepCAS(n) \/ SweepAbandon(n) \/ SweepClear(n) \/ SweepRegister(n)
    \/ SweepSubmit(n) \/ SweepRelease(n)

Next ==
    \/ \E j \in Job, e \in Epoch : Executing(j, e) \/ HeartbeatTick(j, e)
    \/ \E j \in Job : Submitting(j) \/ CancelStore(j) \/ CancelRunning(j) \/ ReapExpired(j)
    \/ \E n \in Node, j \in Job : SubmitCreate(n, j) \/ CancelRead(n, j)
                                  \/ ReleaseRegisteredJobs(n, j)
    \/ \E n \in Node, j \in Job, e \in Epoch : Take(n, j, e)
    \/ \E n \in Node : Sweeping(n) \/ Drain(n) \/ Crash(n) \/ Stop(n) \/ Start(n)
    \/ \E n \in Node, S \in SUBSET Job : SweepClaim(n, S)

Spec == Init /\ [][Next]_vars

(* A live process runs its goroutines, its reaper ticks for as long as it  *)
(* is up, a shutdown ends, and Home is started again.                      *)
FairSpec ==
    /\ Spec
    /\ \A j \in Job : WF_vars(Submitting(j))
    /\ \A j \in Job, e \in Epoch : WF_vars(Executing(j, e))
    /\ \A n \in Node :
         /\ WF_vars(\E j \in Job, e \in Epoch : Take(n, j, e))
         /\ WF_vars(Sweeping(n))
         /\ SF_vars(SweepClaim(n, Orphans))
         /\ WF_vars(Stop(n) \/ \E j \in Job : ReleaseRegisteredJobs(n, j))
         /\ WF_vars(n = Home /\ Start(n))

-----------------------------------------------------------------------------
(* Properties. *)

(* A SUCCESSFUL job serves the whole result: every entity the search       *)
(* matched once, in scan order, and as many as the status reports, however *)
(* often the job was reclaimed and re-run (runAsyncJob, ClearResults).     *)
ResultsComplete ==
    \A j \in Job : GetAsyncStatus(j).status = "SUCCESSFUL" =>
        /\ GetAsyncResults(j) = {<<i, i>> : i \in 1..Matches}
        /\ GetAsyncStatus(j).total = Matches

(* tenantInFlight counts exactly the registered handles, and an executor   *)
(* nobody has cancelled is registered under its own handle: no submission, *)
(* self-reclaim or shutdown leaks a tenant's slot, and no executor gets    *)
(* beyond the reach of CancelRunning and the shutdown handoff              *)
(* (registerReclaim, deregisterJobHandle).                                 *)
SlotsAccounted ==
    \A n \in Node :
        /\ \A t \in Tenant : inFlight[n][t] =
             Cardinality({j \in Job : reg[n][j] # 0 /\ TenantOf[j] = t})
        /\ \A j \in Job, e \in Epoch :
             /\ reg[n][j] = e => task[j][e].pc # "none" /\ task[j][e].node = n
             /\ task[j][e].pc # "none" /\ task[j][e].node = n
                /\ task[j][e].cause = "live" => reg[n][j] = e

(* The registry of running jobs is exact. *)
ExecutorsAccounted == TypeOK /\ SlotsAccounted

(* A finished job is final: until it is deleted no late executor, sweep or *)
(* cancel changes its status or its count, or the results of a SUCCESSFUL  *)
(* one (guardWrite, fencedUpdate, probeFenced).                            *)
TerminalIsFinal ==
    [][\A j \in Job : row[j] # NoJob /\ row'[j] # NoJob /\ row[j].status \in terminalStatuses =>
         /\ row'[j].status = row[j].status
         /\ row'[j].count = row[j].count
         /\ row[j].status = "SUCCESSFUL" => row'[j].results = row[j].results]_vars

(* A shutdown hands its jobs over: the executor it cancelled does not fail *)
(* the job before another node, or this one after its restart, claims it   *)
(* (ReleaseRegisteredJobs, writeAsyncFailure).                             *)
HandoverNotFailed ==
    [][\A j \in Job :
         row[j] # NoJob /\ row[j].released /\ task[j][row[j].epoch].cause = "released"
         => row'[j] = NoJob \/ row'[j].status # "FAILED"]_vars

(* No late write undoes the end or the handover of a job. *)
JobsKept == TerminalIsFinal /\ HandoverNotFailed

(* Every job ends: crashes, shutdowns, lost claims and full queues leave   *)
(* no job RUNNING for ever, unless the claims of the instance are used up  *)
(* (ReclaimStaleJobs, reenqueueClaimed).                                   *)
JobsSettle ==
    \A j \in Job : (row[j] # NoJob /\ row[j].status = "RUNNING") ~>
        (row[j] = NoJob \/ row[j].status # "RUNNING" \/ row[j].epoch = MaxEpoch)
=============================================================================
