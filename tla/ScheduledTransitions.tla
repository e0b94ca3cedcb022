------------------------ MODULE ScheduledTransitions ------------------------
(***************************************************************************)
(* Timed transitions of one entity: the settle of a write arms the timers  *)
(* of the state it reaches (internal/domain/workflow/arm.go), the          *)
(* coordinator's scan loop throttles and hands out the due ones            *)
(* (internal/scheduler, internal/cluster/scheduler_rpc.go), and a worker   *)
(* resolves one timer in a transaction of its own (fire_scheduled.go),     *)
(* racing client writes, other workers and node crashes.  The rows live in *)
(* plugins/{memory,sqlite,postgres}/scheduled_task_store.go.               *)
(*                                                                         *)
(* Data is abstracted.  The id of a task row is its source state (there is *)
(* one entity and one scheduled transition per state).  Its time is a      *)
(* phase: Future, Due, Grace (past the timeout, inside the grace band) and *)
(* Over (past both).  A transaction carries two flags in place of version  *)
(* numbers: dirty, when another transaction committed a write of the       *)
(* entity since it began (or since its last segment, against which the     *)
(* segment's CompareAndSave is made), and torn, the rows another           *)
(* transaction changed since its snapshot (REPEATABLE READ on postgres).   *)
(***************************************************************************)
EXTENDS Integers, Sequences, FiniteSets

CONSTANTS State,     \* states of the workflow
          Fires,     \* Fires[s]: where the scheduled transition of s leads
          Initial,   \* state a created entity starts in
          Auto,      \* Auto[s]: where the automated transition of s leads
          Move,      \* manual transitions, as pairs of states
          Timed,     \* scheduled states whose schedule declares a timeout
          Function,  \* scheduled states timed by a Function callout
          Node,      \* node ids, 1..n (LowestLiveNodeID compares them)
          Principal,
          Creator,   \* principals that create the entity
          Setup,     \* deployments: plugin, processor mode, prompt or
                     \* not, nodes started, and a bound on the events
          Slot       \* bound: fires in flight at a time

VARIABLES backend,  \* which plugin stores the rows
          mode,     \* execution mode of the workflow's processors
          prompt,   \* fires finish within the redispatch backoff
          ent,      \* the committed entity: state and ChangeUser
          cut,      \* what the last committed write of the entity was: a
                    \* settled write, a segment's flush, or a flush that
                    \* moved it to a state whose timer it did not arm
          tasks,    \* committed rows, by source state
          outcomes, \* audit events of a timer since it was last armed
          tx,       \* the writers: fires in flight, and the client (0)
          scan,     \* due rows of a tick that are not yet handed out
          view,     \* gossip view: the members each node believes live
                    \* (empty for a node that is not part of the deployment)
          up,
          events    \* client writes, crashes, failures and rebinds left

vars == <<backend, mode, prompt, ent, cut, tasks, outcomes, tx, scan, view,
          up, events>>

Scheduled == DOMAIN Fires
Client == 0
Nobody == -1
Writer == Slot \union {Client}

Future == 0
Due == 1
Grace == 2
Over == 3

NoTask == [phase |-> -1]
NoOne == "nobody"

Idle == [pc |-> "idle", node |-> 0, task |-> NoOne, at |-> NoOne, to |-> NoOne,
         seed |-> NoOne, by |-> NoOne, verdict |-> NoOne, dirty |-> FALSE,
         torn |-> {}]

InTx == {"resolve", "open", "callout", "settle"}

Budget == events > 0 /\ events' = events - 1

Armed(who) == [phase |-> Future, held |-> FALSE, by |-> who]

LastPhase(s) == IF s \in Timed THEN Over ELSE Due

(***************************************************************************)
(* What a commit of writer w does to the others.                           *)
(***************************************************************************)
Disturb(T, w, wroteEntity, rows) ==
  [x \in Writer |->
    IF x = w \/ T[x].pc \notin InTx THEN T[x]
    ELSE [T[x] EXCEPT !.dirty = @ \/ wroteEntity,
                      !.torn = IF backend = "postgres" THEN @ \union rows ELSE {}]]

\* A commit that validates no reads.
CommitsUnvalidated(w, rows) == tx[w].torn \intersect rows = {}

\* memory and sqlite stage their row operations and validate the entities read
\* and written; postgres fails a statement on a row changed since the snapshot.
Commits(w, rows) == ~tx[w].dirty /\ tx[w].torn \intersect rows = {}

EndTx(w, rows, wroteEntity) ==
  tx' = Disturb([tx EXCEPT ![w] = Idle], w, wroteEntity, rows)

Abort(w) == tx' = [tx EXCEPT ![w] = Idle]

(***************************************************************************)
(* Rows.                                                                   *)
(***************************************************************************)
Pending == {s \in Scheduled : tasks[s] # NoTask}

\* Faulty: the rows of the states the entity left stay.
ReconcileUpsertOnly(s, arm) ==
  [r \in Scheduled |-> IF r # s THEN tasks[r] ELSE arm]

\* ReconcileForEntity upserts the armed rows and deletes those of other states
\* and the born-expired ones.  memory and sqlite find the other rows in
\* committed state; postgres in its snapshot, and fails on a row that has
\* changed since (Commits).
ReconcileForEntity(s, arm) ==
  [r \in Scheduled |-> IF r # s THEN NoTask ELSE arm]

\* The rows the reconcile of a write that settles in s upserts or deletes.
Touched(s) == Pending \union ({s} \intersect Scheduled)

\* armViaFunction: the result of a Function callout arms the timer, or says it
\* is born expired; its failure fails the write (WriteFails).
armViaFunction(s, who) ==
  {Armed(who)} \union (IF s \in Function THEN {NoTask} ELSE {})

\* reconcileScheduledTasks for a write that settles in s; fired is the source
\* state of the timer this write fires, if any (its own CANCEL event is
\* suppressed and FIRE recorded in its place).
reconcileScheduledTasks(s, who, fired) ==
  \E arm \in armViaFunction(s, who) :
    /\ tasks' = ReconcileForEntity(s, arm)
    /\ outcomes' =
         [r \in Scheduled |->
           CASE r = s -> IF arm = NoTask THEN <<"expired">> ELSE <<>>
             [] r # s /\ r = fired -> Append(outcomes[r], "fired")
             [] r # s /\ r # fired /\ tasks[r] # NoTask ->
                  Append(outcomes[r], "cancelled")
             [] OTHER -> outcomes[r]]

(***************************************************************************)
(* The scan loop.                                                          *)
(***************************************************************************)

\* A node's clock may run ahead of the others by less than the grace band: it
\* sees the phase of a row or the next one.  A single node has one clock.
Seen(s) ==
  {tasks[s].phase} \union
  (IF backend = "postgres" /\ tasks[s].phase < LastPhase(s)
   THEN {tasks[s].phase + 1} ELSE {})

\* Faulty: no member is below itself.
IsCoordinatorStrictly(members, n) == \A m \in members : n < m

\* An empty view (no gossip) makes the node its own coordinator.
IsCoordinator(members, n) == \A m \in members : n <= m

\* ScanDue: rows whose time has come and whose backoff has elapsed.
ScanDue(clock) ==
  {s \in Pending : clock[s] >= Due /\ ~tasks[s].held}

Tick(n) ==
  /\ up[n] /\ scan[n] = {}
  /\ IsCoordinator(view[n], n)
  /\ \E clock \in [Pending -> Future..Over] :
       /\ \A s \in Pending : clock[s] \in Seen(s)
       /\ ScanDue(clock) # {}
       /\ scan' = [scan EXCEPT ![n] = ScanDue(clock)]
  /\ UNCHANGED <<backend, mode, prompt, ent, cut, tasks, outcomes, tx, view,
                 up, events>>

\* RoundRobin.Pick: a member of the node's view; its turn (a cursor modulo the
\* number of members) is left open.
Pick(n) == view[n]

\* MarkRedispatch is a plain write outside any transaction.
MarkRedispatch(s) ==
  IF tasks[s] = NoTask THEN tasks ELSE [tasks EXCEPT ![s].held = TRUE]

\* The worker's side, local or behind the peer route: a goroutine that fires
\* the task under the system's identity; only the id in the request is used.
handle(T, target, s) ==
  \E w \in Slot :
    /\ T[w].pc = "idle" /\ \A v \in Slot : T[v].pc = "idle" => w <= v
    /\ tx' = [T EXCEPT ![w] = [Idle EXCEPT !.pc = "sent", !.node = target,
                                           !.task = s]]

\* ClusterExecutor.Execute: a task for this node is fired here; one for a peer
\* is forwarded, and dropped when the peer is down or the call fails.
ClusterExecute(T, n, target, s) ==
  \/ up[target] /\ handle(T, target, s) /\ UNCHANGED events
  \/ ~up[target] /\ tx' = T /\ UNCHANGED events
  \/ target # n /\ tx' = T /\ Budget

\* The tick throttles one row of its batch and hands it out.
Dispatch(n, s) ==
  /\ up[n] /\ s \in scan[n]
  /\ scan' = [scan EXCEPT ![n] = @ \ {s}]
  /\ tasks' = MarkRedispatch(s)
  /\ \E target \in Pick(n) :
       ClusterExecute(Disturb(tx, Nobody, FALSE, {s} \intersect Pending),
                      n, target, s)
  /\ UNCHANGED <<backend, mode, prompt, ent, cut, outcomes, view, up>>

\* The redispatch window of a row elapses; with prompt fires it outlasts every
\* fire of the row.
BackoffElapses(s) ==
  /\ s \in Pending /\ tasks[s].held
  /\ prompt => \A w \in Slot : tx[w].task # s
  /\ tasks' = [tasks EXCEPT ![s].held = FALSE]
  /\ UNCHANGED <<backend, mode, prompt, ent, cut, outcomes, tx, scan, view,
                 up, events>>

Age(s) ==
  /\ s \in Pending /\ tasks[s].phase < LastPhase(s)
  /\ tasks' = [tasks EXCEPT ![s].phase = @ + 1]
  /\ UNCHANGED <<backend, mode, prompt, ent, cut, outcomes, tx, scan, view,
                 up, events>>

(***************************************************************************)
(* FireScheduledTransition.                                                *)
(***************************************************************************)

\* The point read before Begin that seeds the origin of the fire.
FireSeed(w) ==
  /\ tx[w].pc = "sent"
  /\ LET row == tasks[tx[w].task]
     IN tx' = [tx EXCEPT ![w].pc = "seeded",
                         ![w].seed = IF row = NoTask THEN NoOne ELSE row.by]
  /\ UNCHANGED <<backend, mode, prompt, ent, cut, tasks, outcomes, scan, view,
                 up, events>>

\* The guards, in the order of the code: what the fire resolves to when its
\* clock shows phase p.  "drop" ends it with no effect.
Guards(w, p) ==
  LET s == tx[w].task
      row == tasks[s]
  IN IF row = NoTask THEN "drop"
     ELSE IF row.by # tx[w].seed THEN "drop"
     ELSE IF ent.state # s THEN "heal"
     ELSE IF p = Future THEN "drop"
     ELSE IF p = Over THEN "expired"
     ELSE IF p = Grace THEN "drop"
     ELSE "run"

\* Begin, the re-read of row and entity, and the guards.  A fire that passes
\* them finds its transition obsolete (a rebind of the workflow), or declines
\* on its criterion, or runs the transition.
FireRead(w) ==
  /\ tx[w].pc = "seeded"
  /\ LET s == tx[w].task
     IN \E p \in IF tasks[s] = NoTask THEN {Due} ELSE Seen(s) :
          LET v == Guards(w, p)
              read == [tx[w] EXCEPT !.by = tasks[s].by]
          IN \/ v = "drop" /\ Abort(w) /\ UNCHANGED events
             \/ /\ v \in {"heal", "expired"}
                /\ tx' = [tx EXCEPT ![w] = [read EXCEPT !.pc = "resolve",
                                                        !.verdict = v]]
                /\ UNCHANGED events
             \/ /\ v = "run"
                /\ tx' = [tx EXCEPT ![w] = [read EXCEPT !.pc = "resolve",
                                                        !.verdict = "cancelled"]]
                /\ Budget
             \/ /\ v = "run"
                /\ tx' = [tx EXCEPT ![w] = [read EXCEPT !.pc = "resolve",
                                                        !.verdict = "declined"]]
                /\ UNCHANGED events
             \/ /\ v = "run"
                /\ tx' = [tx EXCEPT ![w] = [read EXCEPT !.pc = "open",
                                                        !.at = s,
                                                        !.to = Fires[s]]]
                /\ UNCHANGED events
  /\ UNCHANGED <<backend, mode, prompt, ent, cut, tasks, outcomes, scan, view,
                 up>>

\* Delete the row, record the outcome, commit.  Healing a row the entity left
\* behind records none.
FireResolve(w) ==
  /\ tx[w].pc = "resolve"
  /\ LET s == tx[w].task
     IN IF Commits(w, {s})
        THEN /\ tasks' = [tasks EXCEPT ![s] = NoTask]
             /\ outcomes' = IF tx[w].verdict = "heal" THEN outcomes
                            ELSE [outcomes EXCEPT ![s] =
                                    Append(@, tx[w].verdict)]
             /\ EndTx(w, {s}, FALSE)
        ELSE Abort(w) /\ UNCHANGED <<tasks, outcomes>>
  /\ UNCHANGED <<backend, mode, prompt, ent, cut, scan, view, up,
                 events>>

(***************************************************************************)
(* The engine under a fire or a client write.                              *)
(***************************************************************************)

\* cascadeAutomated from state x: it settles there, or takes the automated
\* transition whose criterion holds.
cascadeAutomated(w, x) ==
  {[w EXCEPT !.pc = "settle", !.at = x, !.to = NoOne]} \union
  (IF x \in DOMAIN Auto
   THEN {[w EXCEPT !.pc = "open", !.at = x, !.to = Auto[x]]} ELSE {})

\* fireTransition with processors that run inside the transaction.
fireTransition(w) ==
  /\ tx[w].pc = "open"
  /\ \E next \in cascadeAutomated(tx[w], tx[w].to) : tx' = [tx EXCEPT ![w] = next]
  /\ UNCHANGED <<backend, mode, prompt, ent, cut, tasks, outcomes, scan, view,
                 up, events>>

\* flushAndCommitSegment: the entity is saved in the state it still has and
\* the transaction committed before the callout; no timer is reconciled.
\* With startNewTxOnDispatch the next transaction begins at once.
flushAndCommitSegment(w) ==
  /\ tx[w].pc = "open" /\ mode # "plain"
  /\ IF Commits(w, {})
     THEN /\ ent' = [state |-> tx[w].at, by |-> tx[w].by]
          /\ cut' = IF tx[w].at # ent.state \/ cut = "moved" THEN "moved"
                    ELSE "flushed"
          /\ tx' = Disturb([tx EXCEPT ![w].pc = "callout", ![w].torn = {}],
                           w, TRUE, {})
     ELSE Abort(w) /\ UNCHANGED <<ent, cut>>
  /\ UNCHANGED <<backend, mode, prompt, tasks, outcomes, scan, view,
                 up, events>>

\* The callout answered: without startNewTxOnDispatch TX_post begins here; the
\* result is applied by CompareAndSave against the flushed segment.
executeCommitBeforeDispatch(w) ==
  /\ tx[w].pc = "callout"
  /\ IF tx[w].dirty THEN Abort(w)
     ELSE \E next \in cascadeAutomated(tx[w], tx[w].to) :
            tx' = [tx EXCEPT ![w] = IF mode = "newTx" THEN next
                                    ELSE [next EXCEPT !.torn = {}]]
  /\ UNCHANGED <<backend, mode, prompt, ent, cut, tasks, outcomes, scan, view,
                 up, events>>

\* The cascade is over: reconcile the timers, save the entity, commit.
Settle(w) ==
  /\ tx[w].pc = "settle" /\ tx[w].verdict # "delete"
  /\ LET s == tx[w].at
     IN IF Commits(w, Scheduled)
        THEN /\ reconcileScheduledTasks(s, tx[w].seed, tx[w].task)
             /\ ent' = [state |-> s, by |-> tx[w].by]
             /\ cut' = "settled"
             /\ EndTx(w, Touched(s), TRUE)
        ELSE Abort(w) /\ UNCHANGED <<ent, cut, tasks, outcomes>>
  /\ UNCHANGED <<backend, mode, prompt, scan, view, up, events>>

\* A processor, criterion or Function callout fails, or the request ends: the
\* open transaction is rolled back, committed segments stay.
WriteFails(w) ==
  /\ tx[w].pc \in InTx
  /\ Budget
  /\ Abort(w)
  /\ UNCHANGED <<backend, mode, prompt, ent, cut, tasks, outcomes, scan, view,
                 up>>

(***************************************************************************)
(* Client writes.                                                          *)
(***************************************************************************)
Begin(p) == [Idle EXCEPT !.seed = p, !.by = p]

Execute(p) ==
  /\ tx[Client].pc = "idle" /\ ent.state = "absent"
  /\ \E next \in cascadeAutomated(Begin(p), Initial) :
       tx' = [tx EXCEPT ![Client] = next]
  /\ UNCHANGED <<backend, mode, prompt, ent, cut, tasks, outcomes, scan, view,
                 up, events>>

\* A manual transition by name; a scheduled one is refused by name.
ManualTransition(p, t) ==
  /\ tx[Client].pc = "idle" /\ <<ent.state, t>> \in Move
  /\ Budget
  /\ tx' = [tx EXCEPT ![Client] = [Begin(p) EXCEPT !.pc = "open",
                                     !.at = ent.state, !.to = t]]
  /\ UNCHANGED <<backend, mode, prompt, ent, cut, tasks, outcomes, scan, view,
                 up>>

\* An update in place cascades from the state the entity is in.
Loopback(p) ==
  /\ tx[Client].pc = "idle" /\ ent.state \in State
  /\ Budget
  /\ \E next \in cascadeAutomated(Begin(p), ent.state) :
       tx' = [tx EXCEPT ![Client] = next]
  /\ UNCHANGED <<backend, mode, prompt, ent, cut, tasks, outcomes, scan, view,
                 up>>

\* DeleteEntity leaves the timers to the fire's re-read guard.
DeleteEntity(p) ==
  /\ tx[Client].pc = "idle" /\ ent.state \in State
  /\ Budget
  /\ tx' = [tx EXCEPT ![Client] = [Begin(p) EXCEPT !.pc = "settle",
                                     !.verdict = "delete"]]
  /\ UNCHANGED <<backend, mode, prompt, ent, cut, tasks, outcomes, scan, view,
                 up>>

CommitDelete ==
  /\ tx[Client].pc = "settle" /\ tx[Client].verdict = "delete"
  /\ IF Commits(Client, {})
     THEN /\ ent' = [state |-> "gone", by |-> tx[Client].by]
          /\ cut' = "settled"
          /\ EndTx(Client, {}, TRUE)
     ELSE Abort(Client) /\ UNCHANGED <<ent, cut>>
  /\ UNCHANGED <<backend, mode, prompt, tasks, outcomes, scan, view,
                 up, events>>

(***************************************************************************)
(* Nodes.  Rows and entity outlive a node of the sqlite and postgres       *)
(* backends; the memory backend dies with its only node.                   *)
(***************************************************************************)
Live == {n \in Node : up[n]}

Gossip(n) ==
  /\ up[n] /\ view[n] # Live
  /\ view' = [view EXCEPT ![n] = Live]
  /\ UNCHANGED <<backend, mode, prompt, ent, cut, tasks, outcomes, tx, scan,
                 up, events>>

Crash(n) ==
  /\ up[n] /\ backend # "memory"
  /\ Budget
  /\ up' = [up EXCEPT ![n] = FALSE]
  /\ scan' = [scan EXCEPT ![n] = {}]
  /\ view' = [view EXCEPT ![n] = {n}]
  /\ tx' = [w \in Writer |-> IF w \in Slot /\ tx[w].node = n THEN Idle ELSE tx[w]]
  /\ UNCHANGED <<backend, mode, prompt, ent, cut, tasks, outcomes>>

Start(n) ==
  /\ ~up[n] /\ view[n] # {}
  /\ up' = [up EXCEPT ![n] = TRUE]
  /\ UNCHANGED <<backend, mode, prompt, ent, cut, tasks, outcomes, tx, scan,
                 view, events>>

Init ==
  /\ \E d \in Setup :
       /\ backend = d[1] /\ mode = d[2] /\ prompt = d[3]
       /\ up = [n \in Node |-> n \in d[4]] /\ events = d[5]
  /\ ent = [state |-> "absent", by |-> NoOne]
  /\ cut = "settled"
  /\ tasks = [s \in Scheduled |-> NoTask]
  /\ outcomes = [s \in Scheduled |-> <<>>]
  /\ tx = [w \in Writer |-> Idle]
  /\ scan = [n \in Node |-> {}]
  /\ view = [n \in Node |-> IF up[n] THEN Live ELSE {}]

Fire(w) == FireSeed(w) \/ FireRead(w) \/ FireResolve(w)

Engine(w) ==
  \/ fireTransition(w)
  \/ flushAndCommitSegment(w)
  \/ executeCommitBeforeDispatch(w)
  \/ Settle(w)

Next ==
  \/ \E n \in Node : Tick(n) \/ Gossip(n) \/ Crash(n) \/ Start(n)
  \/ \E n \in Node, s \in Scheduled : Dispatch(n, s)
  \/ \E s \in Scheduled : BackoffElapses(s) \/ Age(s)
  \/ \E w \in Slot : Fire(w)
  \/ \E w \in Writer : Engine(w) \/ WriteFails(w)
  \/ \E p \in Creator : Execute(p)
  \/ \E p \in Principal :
       \/ Loopback(p) \/ DeleteEntity(p)
       \/ \E t \in State : ManualTransition(p, t)
  \/ CommitDelete

Spec == Init /\ [][Next]_vars

\* The scan loop's ticker, the worker goroutines, gossip and the clock go on;
\* a node that is down need not come back.
Fairness ==
  /\ \A n \in Node : WF_vars(Tick(n)) /\ WF_vars(Gossip(n))
  /\ \A n \in Node, s \in Scheduled : WF_vars(Dispatch(n, s))
  /\ \A s \in Scheduled : WF_vars(BackoffElapses(s)) /\ WF_vars(Age(s))
  /\ \A w \in Slot : WF_vars(Fire(w) \/ Engine(w))

FairSpec == Spec /\ Fairness

(***************************************************************************)
(* Properties.                                                             *)
(***************************************************************************)
Row == {NoTask} \union
       [phase : Future..Over, held : BOOLEAN, by : Principal]

\* Every variable stays in its range (ranges of the rows and of the writers).
TypeOK ==
  /\ ent.state \in State \union {"absent", "gone"}
  /\ tasks \in [Scheduled -> Row]
  /\ \A w \in Writer :
       /\ tx[w].at \in State \union {NoOne}
       /\ tx[w].seed \in Principal \union {NoOne}
       /\ tx[w].torn \subseteq Scheduled
       /\ tx[w].torn # {} => backend = "postgres"
  /\ \A n \in Node : scan[n] \subseteq Scheduled /\ (scan[n] # {} => up[n])

\* No timer is lost: a live entity in a scheduled state has its row, unless
\* its timer was expired, declined or cancelled since it was armed there, or a
\* segment's flush moved the entity and its cascade has not settled.
TimerKept ==
  ent.state \in Scheduled /\ cut # "moved" =>
    tasks[ent.state] # NoTask \/ outcomes[ent.state] # <<>>

\* No timer outlives its state: the rows of a settled entity are those of its
\* state (ReconcileForEntity deletes the others; a deleted entity keeps its
\* rows until a fire finds it gone).
NoStrayTimer ==
  ent.state \in State /\ cut = "settled" => Pending \subseteq {ent.state}

\* A timer acts for the principal that wrote the entity into its state: the
\* row of a settled entity carries the entity's ChangeUser (the re-read guard
\* refuses a fire whose seed is another principal's).
OriginKept ==
  cut = "settled" /\ ent.state \in Pending => tasks[ent.state].by = ent.by

\* Within one transaction on postgres a timer has one outcome: two workers
\* never both fire, expire, decline or cancel the same arming.
OneOutcome ==
  backend = "postgres" /\ mode = "plain" =>
    \A s \in Scheduled : Len(outcomes[s]) <= 1

\* The rows of scheduled_tasks are the timers that the state of the entity calls
\* for, none lost, none left over, each for the right principal, and none of them
\* decided twice.
TimersExact == TypeOK /\ TimerKept /\ NoStrayTimer /\ OriginKept /\ OneOutcome

\* A fire moves the entity only along the transition its timer is for: the
\* state a fire commits is reached from its timer's source state, and the
\* entity was in that state (or on the fire's own way) when it committed.
FireFromSource ==
  [][\A w \in Slot :
       tx[w].pc = "settle" /\ tx'[w].pc = "idle" /\ ent' # ent =>
         ent.state = tx[w].task \/ cut = "moved"]_vars

\* A due timer is resolved: when fires finish within the redispatch backoff, a
\* row that is due is removed or re-armed, unless no node is left running.
DueResolved ==
  \A s \in Scheduled :
    (prompt /\ s \in Pending /\ tasks[s].phase >= Due) ~>
      (s \notin Pending \/ tasks[s].phase = Future \/ Live = {})
=============================================================================
