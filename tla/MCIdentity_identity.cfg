SPECIFICATION Spec
CHECK_DEADLOCK FALSE
CONSTANTS
    n1 = n1  n2 = n2  t1 = t1  t2 = t2  k1 = k1  k2 = k2
    r1 = r1  r2 = r2  i1 = i1  i2 = i2  i3 = i3
    c1 = c1  c2 = c2  p1 = p1  p2 = p2  p3 = p3
    KNode = {n1, n2}
    KTenant = {t1, t2}
    Kid = {k1, k2}
    MaxPerTenant = 2
    MaxReconcileAttempts = 2
    KLoad <- KeyLoads
    PNode = {n1, n2}
    Ref = {r1, r2}
    Pid = {i1, i2, i3}
    MaxReloadAttempts = 2
    PLoad <- ProviderLoads
    Client = {c1, c2}
    TTenant = {t1, t2}
    Pair = {p1, p2, p3}
    Admin = {"a1", "a2"}
    Asker = {"q1", "q2"}
    NoClient = NoClient
    NoPair = NoPair
    NoUser = NoUser
    Absent = Absent
    TLoad <- TokenLoads
INVARIANTS KeysKept ProvidersKept CredentialsKept
PROPERTIES IdentitySettles
