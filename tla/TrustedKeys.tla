------------------------------ MODULE TrustedKeys ------------------------------
(***************************************************************************)
(* The registry of trusted external keys: internal/auth/kv_trusted_store.go *)
(* with the coalescing runner of coalesce.go, behind the account endpoints  *)
(* of domain/account/trusted_adapter.go and the key lookup of the token     *)
(* exchange (token.go, verification.go).                                    *)
(*                                                                         *)
(* Every node keeps a cache of the whole registry and writes through to the *)
(* shared key-value store.  A mutation holds the cache lock across its KV   *)
(* write; a reconcile lists the KV store outside the lock and swaps the     *)
(* result in only if no mutation committed since it began.  A payload-free  *)
(* gossip ping starts a reconcile on the other nodes and may be lost.       *)
(*                                                                         *)
(* A record carries the version of the write that made it in place of its   *)
(* key material; dead holds the versions whose ValidTo has passed.  The     *)
(* generation counter is compared only with a value read earlier, so a      *)
(* running reconcile carries the flag "no mutation since" in its place.     *)
(***************************************************************************)
EXTENDS Integers, FiniteSets

CONSTANTS KNode,      \* nodes of the cluster
          KTenant,    \* tenants
          Kid,        \* key identifiers
          MaxPerTenant,         \* trusted-key cap, per tenant
          MaxReconcileAttempts, \* maxReconcileAttempts
          KLoad       \* the workloads: what is done, by whom, how often

VARIABLES kv,       \* the KV namespace "trusted-keys", by <<tenant, kid>>
          dead,     \* versions whose ValidTo has passed
          clock,    \* the last version handed out
          cache,    \* [node -> [kid -> cached record]]
          mut,      \* the mutation that holds the cache lock, per node
          rec,      \* the reconcile that holds reconcileMu, per node
          runner,   \* the ping coalescer, per node
          get,      \* a Get that missed the cache, per node
          ping,     \* nodes a change ping is under way to
          stale,    \* nodes past the staleness bound
          own,      \* history: version of a node's last acknowledged write of a key
          kload     \* the workload, what is left of it

kvars == <<kv, dead, clock, cache, mut, rec, runner, get, ping, stale, own, kload>>

NoKey == [ver |-> 0]
NoMut == [op |-> "none"]
NoGet == [pc |-> "none"]
Idle  == [pc |-> "idle"]

Slot == KTenant \X Kid
Valid(r) == r # NoKey /\ r.ver \notin dead

KInit ==
    /\ kload \in KLoad
    /\ kv = [s \in Slot |-> IF s \in kload.there THEN [ver |-> 1, active |-> TRUE]
                                                ELSE NoKey]
    /\ dead = {} /\ clock = 1
    /\ cache = [n \in KNode |-> [k \in Kid |->
                   IF \E t \in KTenant : <<t, k>> \in kload.there
                   THEN [ver |-> 1, active |-> TRUE,
                         tenant |-> CHOOSE t \in KTenant : <<t, k>> \in kload.there]
                   ELSE NoKey]]
    /\ mut = [n \in KNode |-> NoMut]
    /\ rec = [n \in KNode |-> Idle]
    /\ runner = [n \in KNode |-> "idle"]
    /\ get = [n \in KNode |-> NoGet]
    /\ ping = {} /\ stale = {}
    /\ own = [n \in KNode |-> [s \in Slot |-> 0]]

-----------------------------------------------------------------------------
(* Mutations.  The first step of each takes the cache lock, makes the       *)
(* checks against the cache and writes the KV store; the commit to the      *)
(* cache follows under the same lock.                                       *)

\* A mutation that forgets to bump the generation.
GenUnbumped(n) == UNCHANGED rec

\* gen.Add(1): a reconcile that is under way on n will discard its snapshot.
GenAdd(n) == rec' = [rec EXCEPT ![n] = IF @.pc = "idle" THEN @ ELSE [@ EXCEPT !.same = FALSE]]

\* broadcastChanged: the ping to every other node of the cluster.
broadcastChanged(n) == ping' = ping \cup (kload.nodes \ {n})

\* Keys of tenant t, other than k, that count against the cap on node n.
CountedSiblings(n, t, k) ==
    {j \in Kid \ {k} : Valid(cache[n][j]) /\ cache[n][j].tenant = t /\ cache[n][j].active}

\* Register refuses a key identifier another tenant holds, and the cap.
Registrable(n, t, k) ==
    /\ cache[n][k] # NoKey => cache[n][k].tenant = t
    /\ Cardinality(CountedSiblings(n, t, k)) < MaxPerTenant

\* Delete, Invalidate and Reactivate answer 404 unless the cache holds the
\* key for the calling tenant.
Held(n, t, k) == cache[n][k] # NoKey /\ cache[n][k].tenant = t

\* persistWithKey: the write succeeds, fails before it reached the store, or
\* reaches the store with its answer lost.  A fault of either kind leaves the
\* cache as it was.
Persist(n, s, r, then) ==
    \/ /\ kv' = [kv EXCEPT ![s] = r]
       /\ mut' = [mut EXCEPT ![n] = then]
       /\ kload' = [kload EXCEPT !.left = @ - 1]
    \/ /\ kload.faults > 0
       /\ \/ kv' = kv
          \/ kv' = [kv EXCEPT ![s] = r]
       /\ mut' = mut
       /\ kload' = [kload EXCEPT !.left = @ - 1, !.faults = @ - 1]

MayMutate(n, op) == /\ mut[n] = NoMut /\ op \in kload.ops
                    /\ kload.left > 0

RegisterTrustedKey(n, t, k, rotate) ==
    /\ MayMutate(n, IF rotate THEN "rotate" ELSE "register")
    /\ Registrable(n, t, k)
    /\ clock' = clock + 1
    /\ LET r == [ver |-> clock + 1, active |-> TRUE]
       IN Persist(n, <<t, k>>, r, [op |-> "register", t |-> t, k |-> k, r |-> r,
                                   todo |-> {}, rotate |-> rotate])
    /\ UNCHANGED <<dead, cache, rec, runner, get, ping, stale, own>>

DeleteTrustedKey(n, t, k) ==
    /\ MayMutate(n, "delete") /\ Held(n, t, k)
    /\ clock' = clock + 1
    /\ Persist(n, <<t, k>>, NoKey, [op |-> "delete", t |-> t, k |-> k, ver |-> clock + 1])
    /\ UNCHANGED <<dead, cache, rec, runner, get, ping, stale, own>>

\* The grace period ends with KeyExpires, which may follow at once.
InvalidateTrustedKey(n, t, k) ==
    /\ MayMutate(n, "invalidate") /\ Held(n, t, k)
    /\ clock' = clock + 1
    /\ LET r == [ver |-> clock + 1, active |-> FALSE]
       IN Persist(n, <<t, k>>, r, [op |-> "update", t |-> t, k |-> k, r |-> r])
    /\ UNCHANGED <<dead, cache, rec, runner, get, ping, stale, own>>

ReactivateTrustedKey(n, t, k) ==
    /\ MayMutate(n, "reactivate") /\ Held(n, t, k)
    /\ clock' = clock + 1
    /\ LET r == [ver |-> clock + 1, active |-> TRUE]
       IN Persist(n, <<t, k>>, r, [op |-> "update", t |-> t, k |-> k, r |-> r])
    /\ UNCHANGED <<dead, cache, rec, runner, get, ping, stale, own>>

Cached(t, r) == [ver |-> r.ver, active |-> r.active, tenant |-> t]

\* The commit of a Delete, an Invalidate or a Reactivate to the cache, the
\* generation bump, the ping and the release of the lock.
CommitMutation(n) ==
    /\ mut[n].op \in {"delete", "update"}
    /\ LET m == mut[n]
           ver == IF m.op = "delete" THEN m.ver ELSE m.r.ver
       IN /\ cache' = [cache EXCEPT ![n][m.k] = IF m.op = "delete" THEN NoKey
                                                ELSE Cached(m.t, m.r)]
          /\ own' = [own EXCEPT ![n][<<m.t, m.k>>] = ver]
    /\ GenAdd(n) /\ broadcastChanged(n)
    /\ mut' = [mut EXCEPT ![n] = NoMut]
    /\ UNCHANGED <<kv, dead, clock, runner, get, stale, kload>>

\* Register: the new key is committed to the cache and the generation bumped
\* before the siblings are turned over one by one.
CommitRegister(n) ==
    /\ mut[n].op = "register"
    /\ LET m == mut[n]
           siblings == {j \in Kid \ {m.k} : cache[n][j] # NoKey /\ cache[n][j].tenant = m.t
                                            /\ cache[n][j].active}
       IN /\ cache' = [cache EXCEPT ![n][m.k] = Cached(m.t, m.r)]
          /\ own' = [own EXCEPT ![n][<<m.t, m.k>>] = m.r.ver]
          /\ mut' = [mut EXCEPT ![n] = [op |-> "siblings", t |-> m.t,
                                        todo |-> IF m.rotate THEN siblings ELSE {}]]
    /\ GenAdd(n)
    /\ UNCHANGED <<kv, dead, clock, runner, get, ping, stale, kload>>

\* One sibling: its KV write, and the cached record overwritten in place.  A
\* write that fails is skipped and reported at the end.  The generation is
\* not bumped again.
InvalidateSibling(n, k) ==
    /\ mut[n].op = "siblings" /\ k \in mut[n].todo
    /\ clock' = clock + 1
    /\ mut' = [mut EXCEPT ![n].todo = @ \ {k}]
    /\ LET s == <<mut[n].t, k>>
           r == [ver |-> clock + 1, active |-> FALSE]
       IN \/ /\ kv' = [kv EXCEPT ![s] = r]
             /\ cache' = [cache EXCEPT ![n][k] = Cached(mut[n].t, r)]
             /\ own' = [own EXCEPT ![n][s] = clock + 1]
             /\ kload' = kload
          \/ /\ kload.faults > 0
             /\ kload' = [kload EXCEPT !.faults = @ - 1]
             /\ kv' \in {kv, [kv EXCEPT ![s] = r]}
             /\ UNCHANGED <<cache, own>>
    /\ UNCHANGED <<dead, rec, runner, get, ping, stale>>

EndRegister(n) ==
    /\ mut[n].op = "siblings" /\ mut[n].todo = {}
    /\ broadcastChanged(n)
    /\ mut' = [mut EXCEPT ![n] = NoMut]
    /\ UNCHANGED <<kv, dead, clock, cache, rec, runner, get, stale, own, kload>>

-----------------------------------------------------------------------------
(* Get past a cache miss, or past the staleness bound: a KV read outside    *)
(* the lock, then the record read is put into the cache.                    *)

GetMiss(n, t, k) ==
    /\ "get" \in kload.ops /\ kload.left > 0 /\ get[n] = NoGet /\ mut[n] = NoMut
    /\ n \in stale \/ cache[n][k] = NoKey
    /\ kv[<<t, k>>] # NoKey
    /\ get' = [get EXCEPT ![n] = [pc |-> "read", t |-> t, k |-> k, r |-> kv[<<t, k>>]]]
    /\ kload' = [kload EXCEPT !.left = @ - 1]
    /\ UNCHANGED <<kv, dead, clock, cache, mut, rec, runner, ping, stale, own>>

loadOne(n) ==
    /\ get[n] # NoGet /\ mut[n] = NoMut
    /\ cache' = [cache EXCEPT ![n][get[n].k] = Cached(get[n].t, get[n].r)]
    /\ GenAdd(n)
    /\ get' = [get EXCEPT ![n] = NoGet]
    /\ UNCHANGED <<kv, dead, clock, mut, runner, ping, stale, own, kload>>

-----------------------------------------------------------------------------
(* Reconcile. *)

ReconcileBegin(n, by) ==
    rec' = [rec EXCEPT ![n] = [pc |-> "gen", by |-> by, attempt |-> 1, same |-> TRUE,
                               entries |-> << >>]]

\* StartReconcileLoop: the jittered timer fires.
ReconcileTick(n) ==
    /\ rec[n].pc = "idle"
    /\ ReconcileBegin(n, "loop")
    /\ UNCHANGED <<kv, dead, clock, cache, mut, runner, get, ping, stale, own, kload>>

\* handlePing and coalescingRunner.Trigger: run now, or once more at the end.  (A
\* trigger before the run has begun to read also asks for another run, which
\* finds nothing the first did not.)
handlePing(n) ==
    /\ n \in ping
    /\ ping' = ping \ {n}
    /\ runner' = [runner EXCEPT ![n] = IF @ = "idle" THEN "due" ELSE
                                       IF @ = "due" THEN "due" ELSE "dirty"]
    /\ UNCHANGED <<kv, dead, clock, cache, mut, rec, get, stale, own, kload>>

\* The coalescer's goroutine gets reconcileMu.
RunnerReconciles(n) ==
    /\ runner[n] = "due" /\ rec[n].pc = "idle"
    /\ ReconcileBegin(n, "ping")
    /\ runner' = [runner EXCEPT ![n] = "running"]
    /\ UNCHANGED <<kv, dead, clock, cache, mut, get, ping, stale, own, kload>>

\* The runner's goroutine after a run: once more if a trigger arrived, else stop.
RunnerAfter(n) ==
    runner' = IF rec[n].by # "ping" THEN runner
              ELSE [runner EXCEPT ![n] = IF @ = "dirty" THEN "due" ELSE "idle"]

\* kv.List; a transport failure, or the attempt's deadline, ends the reconcile
\* and keeps the cache.
ReconcileList(n) ==
    /\ rec[n].pc = "gen"
    /\ \/ /\ rec' = [rec EXCEPT ![n].pc = "listed", ![n].entries = kv]
          /\ UNCHANGED <<runner, kload>>
       \/ /\ kload.faults > 0
          /\ kload' = [kload EXCEPT !.faults = @ - 1]
          /\ rec' = [rec EXCEPT ![n] = Idle]
          /\ RunnerAfter(n)
    /\ UNCHANGED <<kv, dead, clock, cache, mut, get, ping, stale, own>>

\* buildTrustedKeyMap: the cache is keyed by the key identifier alone, so of
\* two tenants' records for one identifier the map iteration picks one.
buildTrustedKeyMap(entries) ==
    {c \in [Kid -> {NoKey} \cup {Cached(s[1], entries[s]) : s \in {x \in Slot : entries[x] # NoKey}}] :
        \A k \in Kid :
            LET owners == {t \in KTenant : entries[<<t, k>>] # NoKey}
            IN IF owners = {} THEN c[k] = NoKey
               ELSE \E t \in owners : c[k] = Cached(t, entries[<<t, k>>])}

\* The swap under the cache lock, discarded if a mutation committed since the
\* generation was read; the attempts are bounded.
Reconcile(n) ==
    /\ rec[n].pc = "listed" /\ mut[n] = NoMut
    /\ IF rec[n].same
       THEN /\ cache' \in {[cache EXCEPT ![n] = fresh] : fresh \in buildTrustedKeyMap(rec[n].entries)}
            /\ stale' = stale \ {n}
            /\ rec' = [rec EXCEPT ![n] = Idle]
            /\ RunnerAfter(n)
       ELSE /\ UNCHANGED <<cache, stale>>
            /\ IF rec[n].attempt < MaxReconcileAttempts
               THEN /\ rec' = [rec EXCEPT ![n] = [@ EXCEPT !.pc = "gen", !.same = TRUE,
                                                  !.attempt = @ + 1, !.entries = << >>]]
                    /\ UNCHANGED runner
               ELSE /\ rec' = [rec EXCEPT ![n] = Idle]
                    /\ RunnerAfter(n)
    /\ UNCHANGED <<kv, dead, clock, mut, get, ping, own, kload>>

-----------------------------------------------------------------------------
(* Time and the network. *)

\* A ValidTo passes.
KeyExpires(v) ==
    /\ "expire" \in kload.ops /\ kload.left > 0
    /\ v \in {kv[s].ver : s \in Slot} \ (dead \cup {0})
    /\ dead' = dead \cup {v}
    /\ kload' = [kload EXCEPT !.left = @ - 1]
    /\ UNCHANGED <<kv, clock, cache, mut, rec, runner, get, ping, stale, own>>

PingLost(n) ==
    /\ n \in ping /\ kload.faults > 0
    /\ ping' = ping \ {n}
    /\ kload' = [kload EXCEPT !.faults = @ - 1]
    /\ UNCHANGED <<kv, dead, clock, cache, mut, rec, runner, get, stale, own>>

\* No reconcile succeeded within stalenessMultiplier intervals.
BoundPasses(n) ==
    /\ n \notin stale /\ kload.faults > 0
    /\ stale' = stale \cup {n}
    /\ kload' = [kload EXCEPT !.faults = @ - 1]
    /\ UNCHANGED <<kv, dead, clock, cache, mut, rec, runner, get, ping, own>>

KStep(n) ==
    \/ CommitMutation(n) \/ CommitRegister(n) \/ EndRegister(n)
    \/ \E k \in Kid : InvalidateSibling(n, k)
    \/ loadOne(n)

KReconciles(n) == ReconcileList(n) \/ Reconcile(n) \/ RunnerReconciles(n)

KNext ==
    \/ \E n \in kload.nodes, t \in kload.tenants, k \in kload.kids :
          \/ \E rotate \in BOOLEAN : RegisterTrustedKey(n, t, k, rotate)
          \/ DeleteTrustedKey(n, t, k)
          \/ InvalidateTrustedKey(n, t, k)
          \/ ReactivateTrustedKey(n, t, k)
          \/ GetMiss(n, t, k)
    \/ \E n \in kload.nodes : KStep(n) \/ KReconciles(n)
    \/ \E n \in kload.nodes : ReconcileTick(n) \/ handlePing(n) \/ PingLost(n) \/ BoundPasses(n)
    \/ \E v \in 1 .. clock : KeyExpires(v)

\* Goroutines that can run do run; the timer of the reconcile loop keeps firing.
KFairness == \A n \in KNode : WF_kvars(n \in kload.nodes /\ KStep(n))
                           /\ WF_kvars(n \in kload.nodes /\ KReconciles(n))
                           /\ WF_kvars(n \in kload.nodes /\ ReconcileTick(n))

-----------------------------------------------------------------------------
(* What the token exchange accepts. *)

\* ListForVerification, getTrustedKeyByKID and the checks of handleTokenExchange:
\* nothing past the staleness bound, else an unexpired active cached key.
ListForVerification(n) ==
    IF n \in stale THEN {} ELSE {k \in Kid : Valid(cache[n][k])}
getTrustedKeyByKID(n, k) == k \in ListForVerification(n) /\ cache[n][k].active

-----------------------------------------------------------------------------
(* Properties. *)

KeysTypeOK ==
    /\ \A s \in Slot : kv[s] = NoKey \/ (kv[s].ver \in 1 .. clock /\ kv[s].active \in BOOLEAN)
    /\ \A n \in KNode, k \in Kid : cache[n][k] = NoKey
          \/ (cache[n][k].tenant \in KTenant /\ cache[n][k].ver \in 1 .. clock)
    /\ \A n \in KNode : /\ rec[n].pc \in {"idle", "gen", "listed"}
                        /\ runner[n] \in {"idle", "due", "running", "dirty"}
                        /\ runner[n] \in {"running", "dirty"} =>
                              rec[n].pc # "idle" /\ rec[n].by = "ping"
    /\ ping \subseteq KNode /\ stale \subseteq KNode

\* A node never serves, of a key it has changed itself, a record older than the
\* change it acknowledged: the generation guard discards a snapshot of the KV
\* store that a mutation overtook.  Stated without the read-through of Get and
\* without rotation, which the guard does not cover.
OwnWritesKept ==
    kload.ops \cap {"get", "rotate"} = {} =>
       \A n \in KNode, t \in KTenant, k \in Kid :
          cache[n][k] # NoKey /\ cache[n][k].tenant = t
             => cache[n][k].ver >= own[n][<<t, k>>]

\* A rotation writes the new key before it turns the siblings over, so that
\* whatever KV write fails, a tenant with an active key in the store keeps one
\* (one node, nothing invalidated by hand).
RotationKeepsOne ==
    kload.ops = {"rotate"} /\ Cardinality(kload.nodes) = 1 =>
       \A t \in KTenant :
          (\E k \in Kid : <<t, k>> \in kload.there)
             => \E k \in Kid : kv[<<t, k>>] # NoKey /\ kv[<<t, k>>].active

\* The caches and the store keep what was acknowledged.
KeysKept == KeysTypeOK /\ OwnWritesKept /\ RotationKeepsOne

\* Whatever pings are lost, lists fail and read-throughs come late, every cache
\* comes to hold the registry of the KV store and keeps to it: the reconcile
\* loop is the backstop.
KeysConverge ==
    <>[](\A n \in kload.nodes : cache[n] \in buildTrustedKeyMap(kv))
=============================================================================
