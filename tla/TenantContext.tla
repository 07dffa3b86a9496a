--------------------------- MODULE TenantContext ---------------------------
(***************************************************************************)
(* The tenant of a request (camp44/middleware/tenant_oidc.py, tenant.py,   *)
(* core/oauth.py, their order in main.py).  OIDCTenantMiddleware checks a  *)
(* Bearer token against the identity provider's key set, which the process *)
(* fetches once; TenantMiddleware checks it against Camp44's own secret.   *)
(* The middleware added last runs first.                                   *)
(***************************************************************************)
EXTENDS Naturals

CONSTANTS
  Keys,         \* signing keys of the identity provider
  Tenants,
  Requests,     \* requests in flight
  MaxRestarts,  \* bound on the restarts of the process
  None

VARIABLES
  idp,       \* the provider: [key, up, retired]; it publishes its current key
  jwks,      \* OIDCTokenValidator._jwks: None, a key, or "error"
  known,     \* history: an answer of the provider was cached by this process
  current,   \* history: keys the provider published since this process started
  req,       \* req[r]: a request in the middleware chain
  restarts

vars == <<idp, jwks, known, current, req, restarts>>

Token == [by : Keys \cup {"camp44", "nobody"}, tenant : Tenants]
Idle == [pc |-> "idle"]

Init ==
  /\ idp \in [key : Keys, up : {"up"}, retired : {{}}]
  /\ jwks = None /\ known = FALSE
  /\ current = {idp.key}
  /\ req = [r \in Requests |-> Idle]
  /\ restarts = 0

At(r, label) == req[r].pc = label
Serve(r, rec) == req' = [req EXCEPT ![r] = rec]

(* A client signed in at the provider, at Camp44, or nowhere. *)
Arrive(r, token) ==
  /\ req[r].pc \in {"idle", "done", "failed"}
  /\ token.by \in {idp.key, "camp44", "nobody"} \cup idp.retired
  /\ Serve(r, [pc |-> IF jwks = None THEN "fetch" ELSE "validate", token |-> token,
               tenant |-> None, fetched |-> jwks, late |-> known])
  /\ UNCHANGED <<idp, jwks, known, current, restarts>>

(* get_jwks(): a connection error is not caught; an error page in JSON is  *)
(* taken for the key set; on any other page response.json() raises, and    *)
(* the request goes on without a tenant.                                   *)
Fetch(r) ==
  /\ At(r, "fetch")
  /\ \/ /\ idp.up = "up"
        /\ Serve(r, [req[r] EXCEPT !.pc = "store", !.fetched = idp.key])
     \/ /\ idp.up = "error"
        /\ Serve(r, [req[r] EXCEPT !.pc = "store", !.fetched = "error"])
     \/ /\ idp.up = "page"
        /\ Serve(r, [req[r] EXCEPT !.pc = "local"])
     \/ /\ idp.up = "down"
        /\ Serve(r, [pc |-> "failed", late |-> req[r].late])
  /\ UNCHANGED <<idp, jwks, known, current, restarts>>

(* Mutant: the answer is used and not kept. *)
Uncached(fetched) == None

(* cls._jwks = response.json() *)
Cached(fetched) == fetched

Store(r) ==
  /\ At(r, "store")
  /\ jwks' = Cached(req[r].fetched)
  /\ known' = TRUE
  /\ Serve(r, [req[r] EXCEPT !.pc = "validate"])
  /\ UNCHANGED <<idp, current, restarts>>

(* validate_token(): claims, or None for any other token. *)
Claims(r) == IF req[r].token.by \in Keys /\ req[r].token.by = req[r].fetched
             THEN req[r].token.tenant ELSE None

Validate(r) ==
  /\ At(r, "validate")
  /\ Serve(r, [req[r] EXCEPT !.pc = "local", !.tenant = Claims(r)])
  /\ UNCHANGED <<idp, jwks, known, current, restarts>>

(* TenantMiddleware: the tenant of a Camp44 token, or None. *)
Local(r) == IF req[r].token.by = "camp44" THEN req[r].token.tenant ELSE None

Tenant(r) ==
  /\ At(r, "local")
  /\ Serve(r, [req[r] EXCEPT !.pc = "done", !.tenant = Local(r)])
  /\ UNCHANGED <<idp, jwks, known, current, restarts>>

-----------------------------------------------------------------------------
(* The provider rotates its key, goes down, answers errors, comes back. *)
Rotate(k) ==
  /\ k \notin idp.retired \cup {idp.key}
  /\ idp' = [idp EXCEPT !.key = k, !.retired = @ \cup {idp.key}]
  /\ current' = current \cup {k}
  /\ UNCHANGED <<jwks, known, req, restarts>>

Turn(state) ==
  /\ idp.up # state
  /\ idp' = [idp EXCEPT !.up = state]
  /\ UNCHANGED <<jwks, known, current, req, restarts>>

Restart ==
  /\ restarts < MaxRestarts
  /\ restarts' = restarts + 1
  /\ jwks' = None /\ known' = FALSE
  /\ current' = {idp.key}
  /\ req' = [r \in Requests |-> Idle]
  /\ UNCHANGED idp

Next ==
  \/ \E r \in Requests :
       \/ \E token \in Token : Arrive(r, token)
       \/ Fetch(r) \/ Store(r) \/ Validate(r) \/ Tenant(r)
  \/ \E k \in Keys : Rotate(k)
  \/ \E state \in {"up", "down", "error", "page"} : Turn(state)
  \/ Restart

Spec == Init /\ [][Next]_vars

-----------------------------------------------------------------------------
(* Properties *)

(* Type invariant. *)
TypeOK ==
  /\ idp.key \in Keys /\ idp.key \notin idp.retired
  /\ current \subseteq Keys
  /\ jwks \in current \cup {"error", None}
  /\ \A r \in Requests :
       At(r, "validate") \/ At(r, "local") => req[r].tenant \in Tenants \cup {None}

(* A request runs with its own token's tenant or none, and with a tenant   *)
(* only if Camp44 signed the token or the provider did, with a key that it *)
(* published while this process ran: a key retired before the process      *)
(* started is not accepted, however requests race for the key set and keys *)
(* rotate meanwhile.  (One retired later is, as long as it is cached.)     *)
RetiredKeysAreRefused ==
  \A r \in Requests : (At(r, "local") \/ At(r, "done")) /\ req[r].tenant # None =>
    /\ req[r].tenant = req[r].token.tenant
    /\ req[r].token.by \in current \cup {"camp44"}

(* Once an answer of the provider, right or wrong, is cached, none of its  *)
(* troubles fails a request that comes later; a page that is not JSON is   *)
(* not cached, and a connection error after it fails requests still.       *)
OutagesSpareCached ==
  \A r \in Requests : At(r, "failed") => ~ req[r].late

=============================================================================
