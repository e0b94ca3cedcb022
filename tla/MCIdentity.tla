----------------------------- MODULE MCIdentity -----------------------------
(* The three parts of the identity subsystem on small instances.  They share *)
(* no state, so in a behaviour only one of them has a workload.              *)
EXTENDS TrustedKeys, OidcProviders, TokenService, TLC

CONSTANTS n1, n2, t1, t2, k1, k2, r1, r2, i1, i2, i3, c1, c2, p1, p2, p3

vars == <<kvars, pvars, tvars>>

\* Workloads of the trusted keys.
KL(nodes, ops, tenants, kids, left, faults, there) ==
    [nodes |-> nodes, ops |-> ops, tenants |-> tenants, kids |-> kids,
     left |-> left, faults |-> faults, there |-> there]
NoKeyLoad == KL({}, {}, {}, {}, 0, 0, {})
KeyLoads == {NoKeyLoad,
    KL({n1}, {"register", "delete", "invalidate", "reactivate"}, {t1}, {k1}, 3, 1, {<<t1, k1>>}),
    KL({n1}, {"rotate"}, {t1}, {k1, k2}, 2, 2, {<<t1, k1>>}),
    KL({n1, n2}, {"get", "delete"}, {t1}, {k1}, 2, 1, {<<t1, k1>>}),
    KL({n1, n2}, {"register"}, {t1, t2}, {k1}, 2, 0, {}),
    KL({n1}, {"get", "expire", "rotate"}, {t1}, {k1, k2}, 2, 1, {<<t1, k1>>})}

\* Workloads of the OIDC providers.
PL(nodes, ops, left, faults, there, refs, reliable) ==
    [nodes |-> nodes, ops |-> ops, left |-> left, faults |-> faults, there |-> there,
     refs |-> refs, reliable |-> reliable, ids |-> (r1 :> i1 @@ r2 :> i2)]
NoProviderLoad == PL({}, {}, 0, 0, {}, {}, TRUE)
ProviderLoads == {NoProviderLoad,
    PL({n1}, {"register", "update", "invalidate", "reactivate", "delete", "reload"}, 2, 0, {r1}, {r2}, TRUE),
    PL({n1}, {"invalidate", "reactivate", "delete", "register", "down", "crash"}, 2, 1, {r1}, {r1}, FALSE),
    PL({n1, n2}, {"invalidate", "delete"}, 1, 1, {r1}, {}, FALSE),
    PL({n1, n2}, {"delete", "reload"}, 1, 1, {r1}, {}, FALSE),
    PL({n1}, {"token", "evict", "register", "down"}, 1, 1, {r1}, {r2}, FALSE)}

\* Workloads of the token service.
TL(ops, left, aud) == [ops |-> ops, left |-> left, aud |-> aud, pair |-> p1, client |-> c1, tenant |-> t1]
NoTokenLoad == TL({}, 0, "client")
TokenLoads == {NoTokenLoad,
    TL({"reset", "delete", "credentials"}, 3, "client"),
    TL({"create", "rotate", "expire", "credentials"}, 3, "human"),
    TL({"issue", "reactivate", "invalidate", "drop", "credentials"}, 3, "client"),
    TL({"exchange", "trust", "delete"}, 2, "client")}

Init == /\ KInit /\ PInit /\ TInit
        /\ \/ kload # NoKeyLoad /\ pload = NoProviderLoad /\ tload = NoTokenLoad
           \/ kload = NoKeyLoad /\ pload # NoProviderLoad /\ tload = NoTokenLoad
           \/ kload = NoKeyLoad /\ pload = NoProviderLoad /\ tload # NoTokenLoad

Next == \/ KNext /\ UNCHANGED <<pvars, tvars>>
        \/ PNext /\ UNCHANGED <<kvars, tvars>>
        \/ TNext /\ UNCHANGED <<kvars, pvars>>

Spec == Init /\ [][Next]_vars /\ KFairness /\ PFairness

\* The caches of trusted keys and the registries of providers come to agree with
\* what the store holds, and no source is lost on the way.
IdentitySettles == ProvidersSettle /\ KeysConverge
=============================================================================
