---------------------------- MODULE TokenService ----------------------------
(* The built-in identity service of one process: its machine clients and    *)
(* their secrets (InMemoryM2MClientStore behind the /clients adapters), its *)
(* signing key pairs (InMemoryKeyStore behind /oauth/keys), the token       *)
(* endpoint with the client-credentials and the token-exchange grants, and  *)
(* the validation of the tokens it has issued.                              *)
(*                                                                          *)
(* The stores are maps behind a lock, so one call of a store is one step; a *)
(* handler that makes two calls takes two steps and others run in between.  *)
(* Signatures, claims' times and request formats are not modelled: a token  *)
(* is its claims and the identifier of the key that signed it.              *)
EXTENDS Integers, FiniteSets

CONSTANTS
    Client,     \* client identifiers
    TTenant,    \* tenants
    Pair,       \* signing key pairs
    Admin,      \* administrators' requests in flight
    Asker,      \* token requests in flight
    NoClient, NoPair, NoUser,
    Absent,     \* a claim the token does not carry
    TLoad       \* workloads: ops, left, and the first pair (with its audience) and client

VARIABLES
    clients,    \* client -> [sec, tenant, roles] or NoClient
    pairs,      \* pair -> [aud, active, over, from] or NoPair
    trusted,    \* the trusted key of the exchange: "active", "inactive", "unknown"
    adm,        \* administrator -> its request between two store calls
    ask,        \* token request -> its state
    tokens,     \* tokens issued
    secs,       \* secrets generated so far
    gone,       \* client -> secrets revoked by an answered reset or delete, and 0 if deleted
    tload

tvars == <<clients, pairs, trusted, adm, ask, tokens, secs, gone, tload>>

Audience == {"client", "human"}
NoAdm == [pc |-> "idle"]
NoAsk == [pc |-> "idle"]

May(op) == op \in tload.ops /\ tload.left > 0
Spend == tload' = [tload EXCEPT !.left = @ - 1]

-----------------------------------------------------------------------------
(* Machine clients. *)

\* Create under the store's lock; CreateTechnicalUser retries a taken identifier
\* with a fresh one, so that the client made is always a new one.
Create(c, t, admin) ==
    /\ clients' = [clients EXCEPT ![c] = [sec |-> secs + 1, tenant |-> t,
                      roles |-> IF admin THEN {"M2M", "ADMIN"} ELSE {"M2M"}]]
    /\ secs' = secs + 1

CreateTechnicalUser(c, t, admin) ==
    /\ May("create") /\ clients[c] = NoClient /\ gone[c] = {}
    /\ Create(c, t, admin) /\ Spend
    /\ UNCHANGED <<pairs, trusted, adm, ask, tokens, gone>>

\* clientBelongsToTenant: the same 404 for another tenant's client and for none.
clientBelongsToTenant(c, t) == clients[c] # NoClient /\ clients[c].tenant = t

\* The Get and the tenant check both DeleteTechnicalUser and
\* ResetTechnicalUserSecret begin with.
LookUpClient(a, op, c, t) ==
    /\ May(op) /\ adm[a] = NoAdm
    /\ Spend
    /\ adm' = IF clientBelongsToTenant(c, t)
              THEN [adm EXCEPT ![a] = [pc |-> op, c |-> c, was |-> clients[c]]]
              ELSE adm
    /\ UNCHANGED <<clients, pairs, trusted, ask, tokens, secs, gone>>

\* InMemoryM2MClientStore.Delete; a client deleted meanwhile is a 404.
DeleteTechnicalUser(a) ==
    /\ adm[a].pc = "delete"
    /\ LET c == adm[a].c
       IN /\ clients' = [clients EXCEPT ![c] = NoClient]
          /\ gone' = [gone EXCEPT ![c] = @ \cup (IF clients[c] = NoClient THEN {}
                                                 ELSE {0, clients[c].sec})]
    /\ adm' = [adm EXCEPT ![a] = NoAdm]
    /\ UNCHANGED <<pairs, trusted, ask, tokens, secs, tload>>

\* A plausible rewrite of ResetSecret: the copy read first is put back.
ResetWritesCopy(a) ==
    /\ adm[a].pc = "reset"
    /\ LET c == adm[a].c
       IN /\ clients' = [clients EXCEPT ![c] = [adm[a].was EXCEPT !.sec = secs + 1]]
          /\ gone' = [gone EXCEPT ![c] = @ \cup {adm[a].was.sec}]
    /\ secs' = secs + 1
    /\ adm' = [adm EXCEPT ![a] = NoAdm]
    /\ UNCHANGED <<pairs, trusted, ask, tokens, tload>>

\* ResetSecret generates and hashes outside the lock, then replaces the hash
\* of the record in place; a client deleted meanwhile is a 404.
ResetTechnicalUserSecret(a) ==
    /\ adm[a].pc = "reset"
    /\ LET c == adm[a].c
       IN IF clients[c] = NoClient THEN UNCHANGED <<clients, secs, gone>>
          ELSE /\ clients' = [clients EXCEPT ![c].sec = secs + 1]
               /\ secs' = secs + 1
               /\ gone' = [gone EXCEPT ![c] = @ \cup {clients[c].sec}]
    /\ adm' = [adm EXCEPT ![a] = NoAdm]
    /\ UNCHANGED <<pairs, trusted, ask, tokens, tload>>

-----------------------------------------------------------------------------
(* Signing key pairs. *)

\* The later of ValidFrom, counted from the bootstrap key's.
Latest == Cardinality({p \in Pair : pairs[p] # NoPair})

Siblings(p, aud) == {o \in Pair \ {p} : pairs[o] # NoPair /\ pairs[o].aud = aud /\ pairs[o].active}

\* InMemoryKeyStore.Save: the siblings of the audience are turned over and the
\* new key stored under one lock.  Their grace period ends with PairExpires.
Save(p, aud, rotate) ==
    pairs' = [o \in Pair |->
                IF o = p THEN [aud |-> aud, active |-> TRUE, over |-> FALSE, from |-> Latest]
                ELSE IF rotate /\ o \in Siblings(p, aud) THEN [pairs[o] EXCEPT !.active = FALSE]
                     ELSE pairs[o]]

\* IssueJwtKeyPair: the key identifier is random, hence new.
IssueJwtKeyPair(p, aud, rotate) ==
    /\ May(IF rotate THEN "rotate" ELSE "issue") /\ pairs[p] = NoPair
    /\ Save(p, aud, rotate) /\ Spend
    /\ UNCHANGED <<clients, trusted, adm, ask, tokens, secs, gone>>

\* The store's Delete, Invalidate and Reactivate, each under its lock; a key it
\* does not hold is a 404.
DeletePair(p) == pairs[p] # NoPair /\ pairs' = [pairs EXCEPT ![p] = NoPair]
InvalidatePair(p) == pairs[p] # NoPair /\ pairs' = [pairs EXCEPT ![p].active = FALSE]
ReactivatePair(p) == /\ pairs[p] # NoPair
                     /\ pairs' = [pairs EXCEPT ![p].active = TRUE, ![p].over = FALSE, ![p].from = Latest]

DeleteJwtKeyPair(p) ==
    /\ May("drop") /\ DeletePair(p) /\ Spend
    /\ UNCHANGED <<clients, trusted, adm, ask, tokens, secs, gone>>

InvalidateJwtKeyPair(p) ==
    /\ May("invalidate") /\ InvalidatePair(p) /\ Spend
    /\ UNCHANGED <<clients, trusted, adm, ask, tokens, secs, gone>>

ReactivateJwtKeyPair(p) ==
    /\ May("reactivate") /\ ReactivatePair(p) /\ Spend
    /\ UNCHANGED <<clients, trusted, adm, ask, tokens, secs, gone>>

\* A ValidTo passes: nothing is written, GetActive and ListForVerification skip the key.
PairExpires(p) ==
    /\ May("expire") /\ pairs[p] # NoPair /\ ~pairs[p].over
    /\ pairs' = [pairs EXCEPT ![p].over = TRUE] /\ Spend
    /\ UNCHANGED <<clients, trusted, adm, ask, tokens, secs, gone>>

\* GetActive: of the active, unexpired keys of the audience one with the
\* latest ValidFrom (map order breaks ties).
Usable(aud) == {p \in Pair : pairs[p] # NoPair /\ pairs[p].aud = aud /\ pairs[p].active /\ ~pairs[p].over}
GetActive(aud) == {p \in Usable(aud) : \A o \in Usable(aud) : pairs[o].from <= pairs[p].from}

\* ListForVerification and the JWKS endpoint: the grace-period keys included.
JWKS == {p \in Pair : pairs[p] # NoPair /\ ~pairs[p].over}

\* localKeySource.GetKey: an invalidated pair verifies nothing.
localKeySource(p) == pairs[p] # NoPair /\ pairs[p].active

-----------------------------------------------------------------------------
(* The token endpoint. *)

\* The request arrives with a secret the client was once given.
\* floor: what had been revoked, with the answer given, when it arrived.
TokenRequest(q, c, s, grant, subject) ==
    /\ May(grant) /\ ask[q] = NoAsk
    /\ s \in 1 .. secs
    /\ ask' = [ask EXCEPT ![q] = [pc |-> "verify", c |-> c, sec |-> s, grant |-> grant,
                                  subject |-> subject, floor |-> gone[c]]]
    /\ Spend
    /\ UNCHANGED <<clients, pairs, trusted, adm, tokens, secs, gone>>

Refuse(q) == ask' = [ask EXCEPT ![q] = NoAsk]
Goes(q, pc) == ask' = [ask EXCEPT ![q].pc = pc]

\* VerifySecret: the hash is copied under the lock and compared outside it.
VerifySecret(q) ==
    /\ ask[q].pc = "verify"
    /\ IF clients[ask[q].c] # NoClient /\ clients[ask[q].c].sec = ask[q].sec
       THEN Goes(q, IF ask[q].grant = "exchange" THEN "subject" ELSE "client")
       ELSE Refuse(q)
    /\ UNCHANGED <<clients, pairs, trusted, adm, tokens, secs, gone, tload>>

\* handleTokenExchange up to the tenant check: the key that signed the subject
\* token must be known, active and within its validity.
VerifySubject(q) ==
    /\ ask[q].pc = "subject"
    /\ IF trusted = "active" THEN Goes(q, "client") ELSE Refuse(q)
    /\ UNCHANGED <<clients, pairs, trusted, adm, tokens, secs, gone, tload>>

\* The claims of the two grants.
ClientClaims(c, r) == [sub |-> c, user |-> c, org |-> r.tenant, scopes |-> r.roles,
                       userRoles |-> Absent, act |-> NoUser]
ExchangeClaims(c, u) == [sub |-> u.sub, user |-> u.sub, org |-> u.org, scopes |-> Absent,
                         userRoles |-> u.roles, act |-> c]

\* m2mStore.Get: the record the claims are taken from.  A client deleted
\* meanwhile is refused; an exchange also needs its tenant to be the subject's.
ReadClient(q) ==
    /\ ask[q].pc = "client"
    /\ LET r == clients[ask[q].c]
           u == ask[q].subject
       IN IF r = NoClient \/ (ask[q].grant = "exchange" /\ r.tenant # u.org)
          THEN Refuse(q)
          ELSE ask' = [ask EXCEPT ![q] = [pc |-> "sign", c |-> @.c, sec |-> @.sec, floor |-> @.floor,
                          of |-> r, grant |-> @.grant, subject |-> u,
                          claims |-> IF @.grant = "exchange" THEN ExchangeClaims(@.c, u)
                                     ELSE ClientClaims(@.c, r)]]
    /\ UNCHANGED <<clients, pairs, trusted, adm, tokens, secs, gone, tload>>

\* GetActive("client") and Sign; no key is a server error.
SignToken(q) ==
    /\ ask[q].pc = "sign"
    /\ IF GetActive("client") = {} THEN UNCHANGED tokens
       ELSE \E p \in GetActive("client") :
               tokens' = tokens \cup {[kid |-> p, claims |-> ask[q].claims, sec |-> ask[q].sec,
                                       floor |-> ask[q].floor, grant |-> ask[q].grant,
                                       of |-> ask[q].of, subject |-> ask[q].subject]}
    /\ Refuse(q)
    /\ UNCHANGED <<clients, pairs, trusted, adm, secs, gone, tload>>

-----------------------------------------------------------------------------
(* Validation. *)

\* buildUserContext: a token with scopes and no user_roles is a service; the
\* roles are the user's, or the scopes where the user has none.
buildUserContext(claims) ==
    [user |-> claims.user, tenant |-> claims.org,
     kind |-> IF claims.userRoles = Absent /\ claims.scopes # Absent THEN "service" ELSE "user",
     roles |-> IF claims.userRoles \in {Absent, {}}
               THEN IF claims.scopes = Absent THEN {} ELSE claims.scopes
               ELSE claims.userRoles]

\* JWKSValidator.Validate.  ChainedValidator: an unknown key falls through to the
\* federated validator, which does not know it either.  Authenticate: every
\* failure is the one authentication failure.
JWKSValidate(tok) == IF localKeySource(tok.kid) THEN buildUserContext(tok.claims) ELSE Absent
ChainedValidate(tok) == JWKSValidate(tok)
Authenticate(tok) == IF ChainedValidate(tok) = Absent THEN NoUser ELSE ChainedValidate(tok)

\* The administrators change the trusted key the exchange rests on.
TrustChanges(s) ==
    /\ May("trust") /\ trusted # s
    /\ trusted' = s /\ Spend
    /\ UNCHANGED <<clients, pairs, adm, ask, tokens, secs, gone>>

-----------------------------------------------------------------------------
Subject == [sub : {"human"}, org : TTenant, roles : {{}, {"USER"}}]

\* NewAuthService: the bootstrap key pair is the only one; one client exists.
TInit ==
    /\ tload \in TLoad
    /\ pairs = [p \in Pair |-> IF p = tload.pair THEN [aud |-> tload.aud, active |-> TRUE,
                                                       over |-> FALSE, from |-> 0] ELSE NoPair]
    /\ clients = [c \in Client |-> IF c = tload.client THEN [sec |-> 1, tenant |-> tload.tenant,
                                                             roles |-> {"M2M"}] ELSE NoClient]
    /\ trusted = "active" /\ secs = 1
    /\ adm = [a \in Admin |-> NoAdm] /\ ask = [q \in Asker |-> NoAsk]
    /\ tokens = {} /\ gone = [c \in Client |-> {}]

TNext ==
    \/ \E c \in Client, t \in TTenant : \/ \E admin \in BOOLEAN : CreateTechnicalUser(c, t, admin)
                                        \/ \E a \in Admin, op \in {"delete", "reset"} : LookUpClient(a, op, c, t)
    \/ \E a \in Admin : DeleteTechnicalUser(a) \/ ResetTechnicalUserSecret(a)
    \/ \E p \in Pair : \/ \E aud \in Audience, rotate \in BOOLEAN : IssueJwtKeyPair(p, aud, rotate)
                       \/ DeleteJwtKeyPair(p) \/ InvalidateJwtKeyPair(p) \/ ReactivateJwtKeyPair(p)
                       \/ PairExpires(p)
    \/ \E s \in {"active", "inactive", "unknown"} : TrustChanges(s)
    \/ \E q \in Asker, c \in Client, s \in 1 .. secs :
          \/ TokenRequest(q, c, s, "credentials", NoUser)
          \/ \E u \in Subject : TokenRequest(q, c, s, "exchange", u)
    \/ \E q \in Asker : VerifySecret(q) \/ VerifySubject(q) \/ ReadClient(q) \/ SignToken(q)

-----------------------------------------------------------------------------
(* Properties. *)

\* Of a key pair and of a client what the stores may hold.
TokensTypeOK ==
    /\ \A p \in Pair : pairs[p] = NoPair \/ (pairs[p].aud \in Audience /\ pairs[p].from \in 0 .. Cardinality(Pair))
    /\ \A c \in Client : clients[c] = NoClient
          \/ (clients[c].sec \in 1 .. secs /\ clients[c].tenant \in TTenant)
    /\ \A tok \in tokens : tok.kid \in Pair

\* Once a reset or a delete of a client's credentials has been answered, no
\* request that arrives later gets a token with what was revoked, whatever
\* resets, deletes and token requests overlap; and no deleted client comes back.
RevokedStaysRevoked ==
    /\ \A tok \in tokens : tok.sec \notin tok.floor
    /\ \A c \in Client : clients[c] # NoClient => gone[c] \cap {0, clients[c].sec} = {}

\* Concurrent rotations never leave two active signing keys for one audience,
\* where keys are only ever issued by rotation (store.go, Save).
OneSigningKey ==
    tload.ops \cap {"issue", "reactivate"} = {} =>
       \A p, o \in Pair : p # o /\ localKeySource(p) /\ localKeySource(o) => pairs[p].aud # pairs[o].aud

\* A token that authenticates yields the principal it was issued for: the
\* client's tenant and roles as a service, or, for an exchange, the subject as
\* a user of that same tenant, even a user without roles; and it verifies for
\* an outside verifier too unless its key's validity is over.
PrincipalKept ==
    \A tok \in tokens : LET uc == Authenticate(tok) IN uc # NoUser =>
       /\ uc.tenant = tok.of.tenant
       /\ tok.grant = "credentials" => uc.kind = "service" /\ uc.roles = tok.of.roles
       /\ tok.grant = "exchange" => uc.kind = "user" /\ uc.roles = tok.subject.roles
       /\ tok.kid \in JWKS \/ pairs[tok.kid].over

\* Credentials, signing keys and the principals of tokens stay what was granted.
CredentialsKept == TokensTypeOK /\ RevokedStaysRevoked /\ OneSigningKey /\ PrincipalKept
=============================================================================
