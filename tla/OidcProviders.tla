----------------------------- MODULE OidcProviders -----------------------------
(***************************************************************************)
(* The registry of OIDC providers: internal/auth/oidc (service.go,          *)
(* registry.go, broadcast.go, singleflight.go, kv_store.go, jwks_source.go, *)
(* validator.go) over the JWKS cache of internal/auth/http_jwks_source.go.  *)
(*                                                                         *)
(* The KV store holds a blob per provider and an index entry per (tenant,   *)
(* uri).  A node holds a map of providers, a key source for each provider   *)
(* it has warmed, and an index from a key identifier to the providers that  *)
(* the first resolution of the key found.  An admin operation is a sequence *)
(* of KV writes, a map change, a discovery fetch, the installation of a     *)
(* source and a broadcast; no lock spans two of them.                       *)
(*                                                                         *)
(* The providers share one identity provider (one issuer, one key), each    *)
(* coordinate belongs to a tenant of its own, and a token is told apart by  *)
(* its audience, which is the coordinate it is meant for.  The ownership    *)
(* history is an audit log that nothing reads back, and is left out.        *)
(***************************************************************************)
EXTENDS Integers, FiniteSets

CONSTANTS PNode,   \* nodes of the cluster
          Ref,     \* (tenant, uri) coordinates
          Pid,     \* provider identifiers
          MaxReloadAttempts, \* maxReloadAttempts
          PLoad    \* the workloads: what is done, where, how often

VARIABLES blob,    \* [Pid -> provider], the provider blobs
          index,   \* [Ref -> Pid], the uri index
          used,    \* provider identifiers handed out
          provs,   \* [node -> [Ref -> provider]], Registry.providers
          rough,   \* coordinates whose map entry is not deeply equal to its KV form
          srcs,    \* [node -> [Ref -> source]], Registry.sources
          kidIndex,\* [node -> SUBSET Ref], the entry of the one key
          reload,  \* the ReloadAll that holds reconcileMu, per node
          svc,     \* the admin operations under way, per node
          met,     \* coordinates two of them met on since the last full reload, per node
          tasks,   \* goroutines at work on one provider or on all, per node
          casts,   \* broadcasts under way to a node
          up,      \* the identity provider answers
          old,     \* nodes whose last reconcile is past the staleness bound
          pload    \* the workload, what is left of it

kvpart == <<blob, index, used>>
pvars == <<blob, index, used, provs, rough, srcs, kidIndex, reload, svc, met, tasks, casts,
           up, old, pload>>

NoPid  == "noPid"
NoProv == [id |-> NoPid]
NoSrc  == [keys |-> "none"]
Still  == [pc |-> "idle"]
All    == "all"

\* OidcProvider.  The audience it expects is its own coordinate; pinned says that
\* Issuers is set and does not hold the issuer of the discovery document.
Prov(id, r) == [id |-> id, ref |-> r, active |-> TRUE, pinned |-> FALSE]
Active(p) == p # NoProv /\ p.active

Job(r, by, pc) == [ref |-> r, by |-> by, pc |-> pc]
Jobs(map, by) == {Job(r, by, "fetch") : r \in {q \in Ref : Active(map[q])}}

\* Every node has loaded the providers and runs the one-shot warm-up.
PInit ==
    /\ pload \in PLoad
    /\ blob = [i \in Pid |-> IF \E r \in pload.there : pload.ids[r] = i
                             THEN Prov(i, CHOOSE r \in pload.there : pload.ids[r] = i)
                             ELSE NoProv]
    /\ index = [r \in Ref |-> IF r \in pload.there THEN pload.ids[r] ELSE NoPid]
    /\ used = {pload.ids[r] : r \in pload.there}
    /\ provs = [n \in PNode |-> [r \in Ref |-> IF r \in pload.there THEN blob[pload.ids[r]]
                                                                   ELSE NoProv]]
    /\ rough = [n \in PNode |-> {}]
    /\ srcs = [n \in PNode |-> [r \in Ref |-> NoSrc]]
    /\ kidIndex = [n \in PNode |-> {}]
    /\ reload = [n \in PNode |-> Still]
    /\ svc = [n \in PNode |-> {}]
    /\ met = [n \in PNode |-> {}]
    /\ tasks = [n \in PNode |-> IF n \in pload.nodes THEN Jobs(provs[n], "start") ELSE {}]
    /\ casts = [n \in PNode |-> {}]
    /\ up = TRUE
    /\ old = {}

Fault == pload.faults > 0 /\ pload' = [pload EXCEPT !.faults = @ - 1]

-----------------------------------------------------------------------------
(* The registry of one node. *)

\* A mutation that forgets to bump mapGen.
mapGenUnbumped(n) == UNCHANGED reload

\* mapGen.Add(1): a ReloadAll under way on n will discard its snapshot.
mapGenAdd(n) == reload' = [reload EXCEPT ![n] = IF @.pc = "idle" THEN @
                                                ELSE [@ EXCEPT !.same = FALSE]]

\* The map entry of a provider built by Register carries a monotonic clock
\* reading that its KV form has not: isRough.
addToProviderMap(n, p, isRough) ==
    /\ provs' = [provs EXCEPT ![n][p.ref] = p]
    /\ rough' = [rough EXCEPT ![n] = IF isRough THEN @ \cup {p.ref} ELSE @ \ {p.ref}]
    /\ mapGenAdd(n)

\* A tenant's map that is emptied stays, unlike in a map built from the store.
invalidateOne(n, r) ==
    /\ provs' = [provs EXCEPT ![n][r] = NoProv]
    /\ rough' = [rough EXCEPT ![n] = IF provs[n][r] = NoProv THEN @ ELSE @ \cup {r}]
    /\ srcs' = [srcs EXCEPT ![n][r] = NoSrc]
    /\ kidIndex' = [kidIndex EXCEPT ![n] = @ \ {r}]
    /\ mapGenAdd(n)

\* reloadOneInternal up to its lookup of the provider: what there is left to do.
\* act is whether the provider it found is active, which the new source keeps.
Fetched(n, r) ==
    LET p == provs[n][r]
    IN CASE ~up \/ p = NoProv -> [pc |-> "done"]
         [] up /\ p # NoProv /\ p.pinned -> [pc |-> "unpin"]
         [] OTHER -> [pc |-> "install", act |-> p.active]

\* Its second half, under the write lock: the provider is not looked up again.
\* Keys already cached are kept when only the discovery document is refreshed.
Installed(n, r, f, syncKeys) ==
    srcs' = [srcs EXCEPT ![n][r] =
                IF f.pc = "unpin" THEN NoSrc
                ELSE IF syncKeys \/ @ = NoSrc THEN [keys |-> "empty", act |-> f.act]
                ELSE @]

broadcastOp(n, op, r) ==
    casts' = [k \in PNode |-> IF k = n \/ k \notin pload.nodes THEN casts[k]
                              ELSE casts[k] \cup {[op |-> op, ref |-> r]}]

-----------------------------------------------------------------------------
(* Admin operations: service.go over kv_store.go. *)

registryVars == <<provs, rough, srcs, kidIndex, reload, tasks, casts, up, old>>
svcOnly == <<registryVars, met>>

MayAdmin(n, op) == n \in pload.nodes /\ op \in pload.ops /\ pload.left > 0

\* Operations are told apart by when they began.
Op(op, pc, p, keys) == [op |-> op, pc |-> pc, p |-> p, keys |-> keys, no |-> pload.left]
OpsOn(n, r) == {s \in svc[n] : s.p # NoProv /\ s.p.ref = r}
Starts(n, s) ==
    /\ svc' = [svc EXCEPT ![n] = @ \cup {s}]
    /\ met' = [met EXCEPT ![n] = @ \cup {r \in Ref : s.p # NoProv /\ s.p.ref = r /\ OpsOn(n, r) # {}}]
Begin(n, s) == Starts(n, s) /\ pload' = [pload EXCEPT !.left = @ - 1]
At(s, ops, pc) == s.op \in ops /\ s.pc = pc
Goto(n, s, pc) == svc' = [svc EXCEPT ![n] = (@ \ {s}) \cup {[s EXCEPT !.pc = pc]}]
EndSvc(n, s) == svc' = [svc EXCEPT ![n] = @ \ {s}]

\* uuid.New()
NewPid == CHOOSE i \in Pid : i \notin used

\* Register's duplicate check, GetByURI: absent, or an index entry whose blob is
\* gone, which is then deleted.  An error of the store counts as absent.
Register(n, r) ==
    /\ MayAdmin(n, "register") /\ r \in pload.refs /\ used # Pid
    /\ \E failed \in BOOLEAN :
          LET id == NewPid
              orphan == ~failed /\ index[r] # NoPid /\ blob[index[r]] = NoProv
              s == Op("register", IF orphan THEN "orphan" ELSE "index", Prov(id, r), TRUE)
          IN /\ failed \/ orphan \/ index[r] = NoPid
             /\ failed => pload.faults > 0
             /\ Starts(n, s)
             /\ pload' = [pload EXCEPT !.left = @ - 1, !.faults = IF failed THEN @ - 1 ELSE @]
    /\ used' = used \cup {NewPid}
    /\ UNCHANGED <<blob, index>> /\ UNCHANGED registryVars

GetByURI(n, s) ==
    /\ At(s, {"register"}, "orphan")
    /\ index' = [index EXCEPT ![s.p.ref] = NoPid]
    /\ Goto(n, s, "index")
    /\ UNCHANGED <<blob, used, pload>> /\ UNCHANGED svcOnly

\* The store's Register: the index entry, then the blob; if the second write
\* fails the index entry is deleted.
RegisterIndex(n, s) ==
    /\ At(s, {"register"}, "index")
    /\ \/ /\ index' = [index EXCEPT ![s.p.ref] = s.p.id]
          /\ Goto(n, s, "blob") /\ UNCHANGED pload
       \/ Fault /\ EndSvc(n, s) /\ UNCHANGED index
    /\ UNCHANGED <<blob, used>> /\ UNCHANGED svcOnly

RegisterBlob(n, s) ==
    /\ At(s, {"register"}, "blob")
    /\ \/ /\ blob' = [blob EXCEPT ![s.p.id] = s.p]
          /\ Goto(n, s, "validate") /\ UNCHANGED pload
       \/ Fault /\ Goto(n, s, "delIndex") /\ UNCHANGED blob
    /\ UNCHANGED <<index, used>> /\ UNCHANGED svcOnly

\* The registration stands if the index names it; else, and if the index cannot
\* be read, it is deleted.
RaceValidateIndex(n, s) ==
    /\ At(s, {"register"}, "validate")
    /\ \/ /\ Goto(n, s, IF index[s.p.ref] = s.p.id THEN "map" ELSE "delBlob")
          /\ UNCHANGED pload
       \/ Fault /\ Goto(n, s, "delBlob")
    /\ UNCHANGED kvpart /\ UNCHANGED svcOnly

\* The store's Delete: the blob, then the index entry whatever it names; an
\* error ends the operation.
DeleteBlob(n, s) ==
    /\ At(s, {"register", "delete"}, "delBlob")
    /\ \/ /\ blob' = [blob EXCEPT ![s.p.id] = NoProv]
          /\ Goto(n, s, "delIndex") /\ UNCHANGED pload
       \/ Fault /\ EndSvc(n, s) /\ UNCHANGED blob
    /\ UNCHANGED <<index, used>> /\ UNCHANGED svcOnly

DeleteIndex(n, s) ==
    /\ At(s, {"register", "delete"}, "delIndex")
    /\ \/ /\ index' = [index EXCEPT ![s.p.ref] = NoPid]
          /\ IF s.op = "delete" THEN Goto(n, s, "drop") ELSE EndSvc(n, s)
          /\ UNCHANGED pload
       \/ Fault /\ EndSvc(n, s) /\ UNCHANGED index
    /\ UNCHANGED <<blob, used>> /\ UNCHANGED svcOnly

\* Update, Invalidate, Reactivate and Delete first read the blob; Update of an
\* inactive provider and the other two where nothing changes stop there.
Update(n, p, pin) ==
    /\ MayAdmin(n, "update") /\ Active(p)
    /\ Begin(n, Op("update", "put", [p EXCEPT !.pinned = pin], TRUE))
    /\ UNCHANGED kvpart /\ UNCHANGED registryVars

Invalidate(n, p) ==
    /\ MayAdmin(n, "invalidate") /\ Active(p)
    /\ Begin(n, Op("invalidate", "put", [p EXCEPT !.active = FALSE], TRUE))
    /\ UNCHANGED kvpart /\ UNCHANGED registryVars

Reactivate(n, p, keys) ==
    /\ MayAdmin(n, "reactivate") /\ p # NoProv /\ ~p.active
    /\ Begin(n, Op("reactivate", "put", [p EXCEPT !.active = TRUE], keys))
    /\ UNCHANGED kvpart /\ UNCHANGED registryVars

Delete(n, p) ==
    /\ MayAdmin(n, "delete") /\ p # NoProv
    /\ Begin(n, Op("delete", "delBlob", p, TRUE))
    /\ UNCHANGED kvpart /\ UNCHANGED registryVars

\* The store's Update overwrites the blob, also one deleted since it was read.
StoreUpdate(n, s) ==
    /\ At(s, {"update", "invalidate", "reactivate"}, "put")
    /\ \/ /\ blob' = [blob EXCEPT ![s.p.id] = s.p]
          /\ Goto(n, s, IF s.op = "invalidate" THEN "drop" ELSE "map")
          /\ UNCHANGED pload
       \/ Fault /\ EndSvc(n, s) /\ UNCHANGED blob
    /\ UNCHANGED <<index, used>> /\ UNCHANGED svcOnly

\* The registry's half of Register, Update and Reactivate: the map, the fetch,
\* the source, the broadcast.  A cleared issuer list may be empty rather than
\* nil, which its KV form is not.
AdminMap(n, s) ==
    /\ At(s, {"register", "update", "reactivate"}, "map")
    /\ \E isRough \in BOOLEAN :
          /\ s.op = "register" => isRough
          /\ isRough => \/ s.op = "register"
                        \/ s.op = "update" /\ ~s.p.pinned
          /\ addToProviderMap(n, s.p, isRough)
    /\ Goto(n, s, "fetch")
    /\ UNCHANGED kvpart /\ UNCHANGED <<srcs, kidIndex, tasks, casts, up, old, met, pload>>

AdminFetch(n, s) ==
    /\ s.pc = "fetch"
    /\ LET f == Fetched(n, s.p.ref)
       IN IF f.pc = "done" THEN Goto(n, s, "cast")
          ELSE svc' = [svc EXCEPT ![n] = (@ \ {s}) \cup
                          {[op |-> s.op, pc |-> "source", p |-> s.p, keys |-> s.keys, no |-> s.no, f |-> f]}]
    /\ UNCHANGED kvpart /\ UNCHANGED svcOnly /\ UNCHANGED pload

AdminSource(n, s) ==
    /\ s.pc = "source"
    /\ Installed(n, s.p.ref, s.f, s.keys)
    /\ Goto(n, s, "cast")
    /\ UNCHANGED kvpart
    /\ UNCHANGED <<provs, rough, kidIndex, reload, tasks, casts, up, old, met, pload>>

\* The registry's half of Invalidate and Delete.
AdminDrop(n, s) ==
    /\ At(s, {"invalidate", "delete"}, "drop")
    /\ invalidateOne(n, s.p.ref)
    /\ Goto(n, s, "cast")
    /\ UNCHANGED kvpart /\ UNCHANGED <<tasks, casts, up, old, met, pload>>

AdminCast(n, s) ==
    /\ s.pc = "cast"
    /\ CASE s.op \in {"invalidate", "delete"} -> broadcastOp(n, "invalidate", s.p.ref)
         [] s.op = "reload" -> broadcastOp(n, "reload_all", All)
         [] OTHER -> broadcastOp(n, "reload", s.p.ref)
    /\ EndSvc(n, s)
    /\ UNCHANGED kvpart
    /\ UNCHANGED <<provs, rough, srcs, kidIndex, reload, tasks, up, old, met, pload>>

-----------------------------------------------------------------------------
(* ReloadAll: the reconcile loop, the reload endpoint and its broadcast.    *)

\* The start-up warm-up has drained, so both loops run.
Started(n) == n \in pload.nodes /\ ~\E t \in tasks[n] : t.by = "start"

\* reconcileMu is taken and the generation read.
ReloadBegins(n, by) ==
    /\ reload[n] = Still
    /\ reload' = [reload EXCEPT ![n] = [pc |-> "load", by |-> by, attempt |-> 1, same |-> TRUE]]

reconcileTick(n) ==
    /\ Started(n)
    /\ ReloadBegins(n, "loop")
    /\ UNCHANGED kvpart
    /\ UNCHANGED <<provs, rough, srcs, kidIndex, svc, tasks, casts, up, old, met, pload>>

\* A ReloadAllAndWarm of the endpoint (svc) or of a broadcast (a task): its stage,
\* and its next stage with the goroutines it starts.
Forced(n, pc) == {s \in svc[n] : At(s, {"reload"}, pc)}
Forcing(n, w, pc) == IF w = "admin" THEN Forced(n, pc) # {}
                                    ELSE Job(All, "cast", pc) \in tasks[n]
Moves(n, w, pc, next, jobs) ==
    IF w = "admin"
    THEN /\ LET s == CHOOSE x \in Forced(n, pc) : TRUE
            IN IF next = "end" THEN EndSvc(n, s) ELSE Goto(n, s, next)
         /\ tasks' = [tasks EXCEPT ![n] = @ \cup jobs]
    ELSE /\ tasks' = [tasks EXCEPT ![n] = (@ \ {Job(All, "cast", pc)}) \cup jobs
                         \cup (IF next = "end" THEN {} ELSE {Job(All, "cast", next)})]
         /\ UNCHANGED svc

ServiceReloadAll(n) ==
    /\ MayAdmin(n, "reload")
    /\ Begin(n, Op("reload", "wait", NoProv, TRUE))
    /\ UNCHANGED kvpart /\ UNCHANGED registryVars

\* reloadWarmMu, then reconcileMu.
ReloadAllAndWarm(n, w) ==
    /\ Forcing(n, w, "wait")
    /\ ~\E v \in {"admin", "cast"}, pc \in {"reload", "warm", "pool"} : Forcing(n, v, pc)
    /\ ReloadBegins(n, w)
    /\ Moves(n, w, "wait", "reload", {})
    /\ UNCHANGED kvpart
    /\ UNCHANGED <<provs, rough, srcs, kidIndex, casts, up, old, met, pload>>

\* The reload is over; the endpoint's and the broadcast's go on if it succeeded.
ReloadEnds(n, ok) ==
    /\ reload' = [reload EXCEPT ![n] = Still]
    /\ IF reload[n].by = "loop" THEN UNCHANGED <<svc, tasks>>
       ELSE Moves(n, reload[n].by, "reload", IF ok THEN "warm" ELSE "end", {})

\* store.LoadAll: the blobs at one moment, or an error that keeps the map.
LoadAll(n) ==
    /\ reload[n].pc = "load"
    /\ \/ /\ reload' = [reload EXCEPT ![n] = [pc |-> "swap", by |-> @.by, attempt |-> @.attempt,
                                              same |-> @.same, b |-> blob,
                                              amid |-> {r \in met[n] : OpsOn(n, r) # {}}]]
          /\ UNCHANGED <<svc, tasks, pload>>
       \/ Fault /\ ReloadEnds(n, FALSE)
    /\ UNCHANGED kvpart
    /\ UNCHANGED <<provs, rough, srcs, kidIndex, casts, up, old, met>>

\* The maps a list of blobs gives: of two for one coordinate either may be last.
MapsOf(b) ==
    {m \in [Ref -> {b[i] : i \in Pid} \cup {NoProv}] :
        \A r \in Ref : LET at == {i \in Pid : b[i] # NoProv /\ b[i].ref = r}
                       IN m[r] \in (IF at = {} THEN {NoProv} ELSE {b[i] : i \in at})}

\* Faulty: a map with the same coordinates is taken for an equal one.
ReloadByCoordinate(n) ==
    /\ reload[n].pc = "swap" /\ reload[n].same
    /\ \E m \in MapsOf(reload[n].b) :
          LET equal == \A r \in Ref : (m[r] = NoProv) <=> (provs[n][r] = NoProv)
          IN /\ provs' = [provs EXCEPT ![n] = IF equal THEN @ ELSE m]
             /\ srcs' = [srcs EXCEPT ![n] = [r \in Ref |-> IF m[r] = NoProv THEN NoSrc ELSE @[r]]]
             /\ kidIndex' = [kidIndex EXCEPT ![n] = IF equal THEN @ ELSE {}]
             /\ met' = [met EXCEPT ![n] = {r \in @ : equal \/ r \in reload[n].amid \/ OpsOn(n, r) # {}}]
    /\ rough' = [rough EXCEPT ![n] = {}]
    /\ old' = old \ {n}
    /\ ReloadEnds(n, TRUE)
    /\ UNCHANGED kvpart /\ UNCHANGED <<casts, up, pload>>

\* The swap.  A changed generation discards the snapshot; an equal map leaves the
\* key index; sources of providers no longer there go either way.
ReloadSwap(n) ==
    /\ reload[n].pc = "swap" /\ reload[n].same
    /\ \E m \in MapsOf(reload[n].b) :
          /\ provs' = [provs EXCEPT ![n] = m]
          /\ srcs' = [srcs EXCEPT ![n] = [r \in Ref |-> IF m[r] = NoProv THEN NoSrc ELSE @[r]]]
          /\ LET equal == m = provs[n] /\ rough[n] = {}
             IN kidIndex' = [kidIndex EXCEPT ![n] = IF equal THEN @ ELSE {}]
    /\ rough' = [rough EXCEPT ![n] = {}]
    /\ old' = old \ {n}
    /\ met' = [met EXCEPT ![n] = {r \in @ : r \in reload[n].amid \/ OpsOn(n, r) # {}}]
    /\ ReloadEnds(n, TRUE)
    /\ UNCHANGED kvpart /\ UNCHANGED <<casts, up, pload>>

ReloadRetry(n) ==
    /\ reload[n].pc = "swap" /\ ~reload[n].same
    /\ IF reload[n].attempt = MaxReloadAttempts THEN ReloadEnds(n, FALSE)
       ELSE /\ reload' = [reload EXCEPT ![n] = [pc |-> "load", by |-> @.by, same |-> TRUE,
                                                attempt |-> @.attempt + 1]]
            /\ UNCHANGED <<svc, tasks>>
    /\ UNCHANGED kvpart
    /\ UNCHANGED <<provs, rough, srcs, kidIndex, casts, up, old, met, pload>>

\* WarmJWKS of a forced reload: a pool over the active providers, awaited.
WarmJWKS(n, w) ==
    /\ Forcing(n, w, "warm")
    /\ Moves(n, w, "warm", "pool", Jobs(provs[n], "pool"))
    /\ UNCHANGED kvpart
    /\ UNCHANGED <<provs, rough, srcs, kidIndex, reload, casts, up, old, met, pload>>

PoolDrains(n, w) ==
    /\ Forcing(n, w, "pool") /\ ~\E t \in tasks[n] : t.by = "pool"
    /\ Moves(n, w, "pool", IF w = "admin" THEN "cast" ELSE "end", {})
    /\ UNCHANGED kvpart
    /\ UNCHANGED <<provs, rough, srcs, kidIndex, reload, casts, up, old, met, pload>>

-----------------------------------------------------------------------------
(* Goroutines that work on one provider. *)

taskOnly == <<provs, rough, kidIndex, reload, svc, met, up, old, pload>>

\* StartWarmupRetryLoop: a tick takes the cold active providers, one by one.
coldActiveRefs(n) == {r \in Ref : Active(provs[n][r]) /\ srcs[n][r] = NoSrc}
warmupTick(n) ==
    /\ Started(n) /\ ~\E t \in tasks[n] : t.by = "retry"
    /\ coldActiveRefs(n) # {}
    /\ tasks' = [tasks EXCEPT ![n] = @ \cup {Job(r, "retry", "fetch") : r \in coldActiveRefs(n)}]
    /\ UNCHANGED kvpart /\ UNCHANGED taskOnly /\ UNCHANGED <<srcs, casts>>

\* handleBroadcast through Dispatch: dropped while one for its key is in flight.
handleBroadcast(n, m) ==
    /\ m \in casts[n]
    /\ casts' = [casts EXCEPT ![n] = @ \ {m}]
    /\ tasks' = IF \E t \in tasks[n] : t.by = "cast" /\ t.ref = m.ref THEN tasks
                ELSE [tasks EXCEPT ![n] = @ \cup
                        {Job(m.ref, "cast", CASE m.op = "reload" -> "fetch"
                                              [] m.op = "invalidate" -> "invalidate"
                                              [] m.op = "reload_all" -> "wait")}]
    /\ UNCHANGED kvpart /\ UNCHANGED taskOnly /\ UNCHANGED srcs

\* reloadOne.
TaskFetch(n, t) ==
    /\ t \in tasks[n] /\ t.pc = "fetch"
    /\ t.by = "retry" => ~\E u \in tasks[n] : u.by = "retry" /\ u.pc = "source"
    /\ LET f == Fetched(n, t.ref)
       IN tasks' = [tasks EXCEPT ![n] = (@ \ {t}) \cup
                       (IF f.pc = "done" THEN {}
                        ELSE {[ref |-> t.ref, by |-> t.by, pc |-> "source", f |-> f]})]
    /\ UNCHANGED kvpart /\ UNCHANGED taskOnly /\ UNCHANGED <<srcs, casts>>

TaskSource(n, t) ==
    /\ t \in tasks[n] /\ t.pc = "source"
    /\ Installed(n, t.ref, t.f, TRUE)
    /\ tasks' = [tasks EXCEPT ![n] = @ \ {t}]
    /\ UNCHANGED kvpart /\ UNCHANGED taskOnly /\ UNCHANGED casts

TaskInvalidate(n, t) ==
    /\ t \in tasks[n] /\ t.pc = "invalidate"
    /\ invalidateOne(n, t.ref)
    /\ tasks' = [tasks EXCEPT ![n] = @ \ {t}]
    /\ UNCHANGED kvpart /\ UNCHANGED <<svc, casts, up, old, met, pload>>

-----------------------------------------------------------------------------
(* The key of a token: ResolveKey, then the audience check of Validate.     *)

\* The source's own provider must be active; then a cached key, else a fetch.
\* The first failure is a missing key, the second a transient error.
GateOpen(n, r) == srcs[n][r].act
GetKey(n, r) == GateOpen(n, r) /\ (srcs[n][r].keys = "cached" \/ up)

Warm(n, r) == Active(provs[n][r]) /\ srcs[n][r] # NoSrc
issMatches(n, r) == ~provs[n][r].pinned
collectKeyEligibleRefs(n, refs) == {r \in refs : Warm(n, r) /\ issMatches(n, r) /\ GetKey(n, r)}

\* The coordinate that owns the key of a token with audience aud, or the error.
disposeCandidates(n, refs, aud) ==
    LET eligible  == collectKeyEligibleRefs(n, refs)
        transient == {r \in refs : Warm(n, r) /\ issMatches(n, r) /\ GateOpen(n, r) /\ ~GetKey(n, r)}
        rejected  == {r \in refs : Warm(n, r) /\ ~issMatches(n, r)}
    IN CASE Cardinality(eligible) = 1 -> eligible
         [] Cardinality(eligible) > 1 -> IF aud \in eligible THEN {aud} ELSE {"unknown"}
         [] eligible = {} /\ transient # {} -> {"unavailable"}
         [] eligible = {} /\ transient = {} /\ rejected # {} -> {"issuer"}
         [] OTHER -> {"unknown"}

\* The hot path over the key index; the cold path over the whole map after it.
IsCold(n, aud) == disposeCandidates(n, kidIndex[n], aud) = {"unknown"}
Candidates(n, aud) == IF IsCold(n, aud) THEN Ref ELSE kidIndex[n]
Resolved(n, aud) == IF n \in old THEN {"stale"} ELSE disposeCandidates(n, Candidates(n, aud), aud)

\* Every key asked for is cached; the cold path adds all eligible coordinates.
ResolveKey(n, aud) ==
    /\ n \in pload.nodes /\ "token" \in pload.ops /\ n \notin old
    /\ LET eligible == collectKeyEligibleRefs(n, Candidates(n, aud))
       IN /\ srcs' = [srcs EXCEPT ![n] = [r \in Ref |-> IF r \in eligible
                                                       THEN [@[r] EXCEPT !.keys = "cached"] ELSE @[r]]]
          /\ kidIndex' = [kidIndex EXCEPT ![n] =
                             IF IsCold(n, aud) /\ Resolved(n, aud) \subseteq Ref
                             THEN @ \cup eligible ELSE @]
    /\ UNCHANGED kvpart /\ UNCHANGED <<provs, rough, reload, svc, tasks, casts, up, old, met, pload>>

\* A signature that does not verify evicts the coordinate from the index.
EvictKidEntry(n, aud) ==
    /\ n \in pload.nodes /\ "evict" \in pload.ops
    /\ Resolved(n, aud) \subseteq kidIndex[n] /\ Fault
    /\ kidIndex' = [kidIndex EXCEPT ![n] = @ \ Resolved(n, aud)]
    /\ UNCHANGED kvpart /\ UNCHANGED <<provs, rough, srcs, reload, svc, tasks, casts, up, old, met>>

\* The coordinate whose tenant a token with audience aud is given, if any.
Validate(n, aud) == Resolved(n, aud) \cap {aud}

-----------------------------------------------------------------------------
(* The environment. *)

\* The JWKS cache passes its TTL.
KeysAge(n, r) ==
    /\ srcs[n][r] # NoSrc /\ srcs[n][r].keys = "cached" /\ Fault
    /\ srcs' = [srcs EXCEPT ![n][r].keys = "empty"]
    /\ UNCHANGED kvpart
    /\ UNCHANGED <<provs, rough, kidIndex, reload, svc, tasks, casts, up, old, met>>

IdpDown == /\ up /\ "down" \in pload.ops /\ Fault /\ up' = FALSE
           /\ UNCHANGED kvpart
           /\ UNCHANGED <<provs, rough, srcs, kidIndex, reload, svc, tasks, casts, old, met>>
IdpUp == /\ ~up /\ up' = TRUE
         /\ UNCHANGED kvpart
         /\ UNCHANGED <<provs, rough, srcs, kidIndex, reload, svc, tasks, casts, old, met, pload>>

CastLost(n, m) ==
    /\ m \in casts[n] /\ Fault
    /\ casts' = [casts EXCEPT ![n] = @ \ {m}]
    /\ UNCHANGED kvpart
    /\ UNCHANGED <<provs, rough, srcs, kidIndex, reload, svc, tasks, up, old, met>>

\* No reconcile succeeded for stalenessMultiplier intervals.
reconcileStale(n) ==
    /\ Started(n) /\ n \notin old /\ Fault
    /\ old' = old \cup {n}
    /\ UNCHANGED kvpart
    /\ UNCHANGED <<provs, rough, srcs, kidIndex, reload, svc, met, tasks, casts, up>>

\* The process dies and comes back: LoadProvidersFromKV, then the warm-up.
Restart(n) ==
    /\ n \in pload.nodes /\ "crash" \in pload.ops /\ Fault
    /\ \E m \in MapsOf(blob) : /\ provs' = [provs EXCEPT ![n] = m]
                               /\ tasks' = [tasks EXCEPT ![n] = Jobs(m, "start")]
    /\ rough' = [rough EXCEPT ![n] = {}]
    /\ srcs' = [srcs EXCEPT ![n] = [r \in Ref |-> NoSrc]]
    /\ kidIndex' = [kidIndex EXCEPT ![n] = {}]
    /\ reload' = [reload EXCEPT ![n] = Still]
    /\ svc' = [svc EXCEPT ![n] = {}]
    /\ met' = [met EXCEPT ![n] = {}]
    /\ casts' = [casts EXCEPT ![n] = {}]
    /\ old' = old \ {n}
    /\ UNCHANGED kvpart /\ UNCHANGED up

\* The endpoints.  A request refused for its role, its body or its uri, or for a
\* tenant identifier that is no uuid, changes nothing.
RegisterOidcProvider(n) == \E r \in Ref : Register(n, r)
UpdateOidcProvider(n) == \E i \in Pid, pin \in BOOLEAN : Update(n, blob[i], pin)
InvalidateOidcProvider(n) == \E i \in Pid : Invalidate(n, blob[i])
ReactivateOidcProvider(n) == \E i \in Pid, keys \in BOOLEAN : Reactivate(n, blob[i], keys)
DeleteOidcProvider(n) == \E i \in Pid : Delete(n, blob[i])

AdminBegins(n) ==
    \/ RegisterOidcProvider(n) \/ UpdateOidcProvider(n) \/ InvalidateOidcProvider(n)
    \/ ReactivateOidcProvider(n) \/ DeleteOidcProvider(n) \/ ServiceReloadAll(n)
AdminStep(n) == \E s \in svc[n] :
    \/ GetByURI(n, s) \/ RegisterIndex(n, s) \/ RegisterBlob(n, s) \/ RaceValidateIndex(n, s)
    \/ DeleteBlob(n, s) \/ DeleteIndex(n, s) \/ StoreUpdate(n, s) \/ AdminMap(n, s)
    \/ AdminFetch(n, s) \/ AdminSource(n, s) \/ AdminDrop(n, s) \/ AdminCast(n, s)
ForceStep(n) == \E w \in {"admin", "cast"} :
                   ReloadAllAndWarm(n, w) \/ WarmJWKS(n, w) \/ PoolDrains(n, w)
ReloadStep(n) == LoadAll(n) \/ ReloadSwap(n) \/ ReloadRetry(n)
RetryStep(n) == \E t \in tasks[n] : t.by = "retry" /\ (TaskFetch(n, t) \/ TaskSource(n, t))
TaskStep(n) == \/ \E t \in tasks[n] :
                     t.by # "retry" /\ (TaskFetch(n, t) \/ TaskSource(n, t) \/ TaskInvalidate(n, t))
               \/ \E m \in casts[n] : handleBroadcast(n, m)

PNext ==
    \/ \E n \in PNode :
          \/ AdminBegins(n) \/ AdminStep(n) \/ ForceStep(n) \/ ReloadStep(n) \/ TaskStep(n)
          \/ RetryStep(n) \/ reconcileTick(n) \/ warmupTick(n) \/ reconcileStale(n) \/ Restart(n)
          \/ \E r \in Ref : ResolveKey(n, r) \/ EvictKidEntry(n, r) \/ KeysAge(n, r)
          \/ \E m \in casts[n] : CastLost(n, m)
    \/ IdpDown \/ IdpUp

\* Goroutines run, the two timers keep firing and the identity provider comes
\* back; a Go mutex lets every waiter in, hence the strong fairness of a forced
\* reload.  Nothing makes an admin or a client act.
PFairness ==
    /\ \A n \in PNode : /\ WF_pvars(AdminStep(n)) /\ SF_pvars(ForceStep(n))
                        /\ WF_pvars(ReloadStep(n)) /\ WF_pvars(TaskStep(n)) /\ WF_pvars(RetryStep(n))
                        /\ WF_pvars(reconcileTick(n)) /\ WF_pvars(warmupTick(n))
    /\ WF_pvars(IdpUp)

-----------------------------------------------------------------------------
(* Properties. *)

Source == {NoSrc} \cup [keys : {"empty", "cached"}, act : BOOLEAN]
ProvidersTypeOK ==
    /\ \A i \in Pid : blob[i] = NoProv \/ (blob[i].id = i /\ blob[i].ref \in Ref)
    /\ \A r \in Ref : index[r] \in used \cup {NoPid}
    /\ \A n \in PNode :
          /\ \A r \in Ref : provs[n][r] = NoProv \/ provs[n][r].ref = r
          /\ srcs[n] \in [Ref -> Source] /\ kidIndex[n] \subseteq Ref /\ rough[n] \subseteq Ref
          /\ reload[n].pc \in {"idle", "load", "swap"}
          /\ Forced(n, "reload") # {} => reload[n] # Still /\ reload[n].by = "admin"

\* The active providers of the store, by coordinate, where none has two blobs.
Stored(r) == {blob[i] : i \in {j \in Pid : blob[j] # NoProv /\ blob[j].ref = r}}
AgreesOn(n, r) == {p \in {provs[n][r]} : Active(p)} = {p \in Stored(r) : Active(p)}
Agrees(n) == \A r \in Ref : AgreesOn(n, r)
One(r) == Cardinality(Stored(r)) <= 1
Single == \A r \in Ref : One(r)

\* On the only node of a cluster whose store does not fail, the provider that
\* authenticates is the active one of the store whenever no admin operation on it
\* is under way: a ReloadAll that read the store before a change never puts the
\* older map back (mapGen, registry.go).  Except after two operations on one
\* provider overlapped, which no lock keeps apart (service.go), until a
\* ReloadAll that began after both swaps, and for two registrations of one
\* coordinate that both stand.
OwnChangesKept ==
    \A n \in pload.nodes, r \in Ref :
        pload.nodes = {n} /\ pload.reliable /\ OpsOn(n, r) = {} /\ r \notin met[n] /\ One(r)
          => AgreesOn(n, r)

\* A single node serves the providers of its store, but for that exception.
ProvidersKept == ProvidersTypeOK /\ OwnChangesKept

\* A source is only ever dropped or emptied by an operation on its provider, by
\* a warm-up or by age, never by a ReloadAll that still finds the provider: a
\* reload is not a cache flush (registry.go, ReloadAll).
SourcesSurvive ==
    [][\A n \in PNode : ReloadSwap(n)
          => \A r \in Ref : provs'[n][r] # NoProv => srcs'[n][r] = srcs[n][r]]_pvars

\* Whatever broadcasts are lost or dropped and wherever a node restarts, every
\* node's active providers become and stay those of the store (StartReconcileLoop).
ProvidersConverge == <>[](Single => \A n \in pload.nodes : Agrees(n))

\* Every active provider whose discovery document it accepts gets a key source
\* on every node, though the identity provider was down (StartWarmupRetryLoop),
\* unless a coordinate has two blobs, between which ReloadAll takes turns.
ProvidersWarm ==
    <>[](Single => \A n \in pload.nodes, r \in Ref :
            Active(provs[n][r]) /\ ~provs[n][r].pinned => srcs[n][r] # NoSrc)

\* Registries come to agree with the store and to have their keys, and no reload
\* takes a source away meanwhile.
ProvidersSettle == SourcesSurvive /\ ProvidersConverge /\ ProvidersWarm

=============================================================================
