--------------------------- MODULE ServicesProofs ---------------------------
(***************************************************************************)
(* TLAPS proofs about the four services of MCServices, for any sets of     *)
(* keys, tenants, requests, apps, uploads, dates, processes, threads,      *)
(* events and workers: only a key of the process's time gives a request a  *)
(* tenant, uploads are answered as they are stored, so are the dates of    *)
(* the demo by requests that nobody overlaps, and the metering pipeline    *)
(* loses and repeats nothing without a cause.                              *)
(***************************************************************************)
EXTENDS MCServices, SequencesExt, SequenceTheorems, FiniteSetTheorems, TLAPS

-----------------------------------------------------------------------------
(* The tenant middleware *)

ProviderOK ==
  /\ idp \in [key : Keys, up : {"up", "down", "error", "page"}, retired : SUBSET Keys]
  /\ idp.key \in current \ idp.retired /\ current \subseteq Keys
  /\ jwks \in current \cup {"error", None}
  /\ known \in BOOLEAN
  /\ known => jwks # None

(* The key set a request uses was published while this process ran, and so *)
(* was the key whose token gave a request its tenant.  A request that      *)
(* fetches arrived before an answer was cached.                            *)
ChainOK(r) ==
  LET q == chain[r] IN
  \/ q = [pc |-> "idle"]
  \/ q = [pc |-> "failed", late |-> FALSE]
  \/ /\ q.pc \in {"fetch", "store", "validate", "local", "done"}
     /\ q = [pc |-> q.pc, token |-> q.token, tenant |-> q.tenant,
             fetched |-> q.fetched, late |-> q.late]
     /\ q.late \in BOOLEAN
     /\ q.token.tenant \in Tenants /\ q.tenant \in Tenants \cup {None}
     /\ q.pc = "fetch" => ~ q.late
     /\ q.pc \in {"store", "validate"} => q.fetched \in current \cup {"error"}
     /\ q.tenant # None => /\ q.tenant = q.token.tenant
                           /\ q.token.by \in current \cup {"camp44"}

MiddlewareIInv ==
  /\ ProviderOK
  /\ chain = [r \in Requests |-> chain[r]]
  /\ \A r \in Requests : ChainOK(r)

USE NoneIsNothing

LEMMA MiddlewareStarts == Middleware!Init => MiddlewareIInv
BY DEF Middleware!Init, MiddlewareIInv, ProviderOK, ChainOK, Middleware!Idle

LEMMA MiddlewareServed ==
  ASSUME MiddlewareIInv, NEW r \in Requests, NEW q, Middleware!Serve(r, q)
  PROVE  /\ chain'[r] = q /\ \A x \in Requests : x # r => chain'[x] = chain[x]
         /\ chain' = [x \in Requests |-> chain'[x]]
BY DEF MiddlewareIInv, Middleware!Serve

(* Keys are never unpublished while the process runs.                      *)
LEMMA MiddlewareUndisturbed ==
  ASSUME NEW r \in Requests, ChainOK(r), chain'[r] = chain[r],
         current \subseteq current'
  PROVE  ChainOK(r)'
BY DEF ChainOK

LEMMA MiddlewareServes ==
  ASSUME MiddlewareIInv, NEW r \in Requests, NEW q, Middleware!Serve(r, q),
         ProviderOK', UNCHANGED current, ChainOK(r)'
  PROVE  MiddlewareIInv'
BY MiddlewareServed, MiddlewareUndisturbed DEF MiddlewareIInv

LEMMA ArriveKeeps ==
  ASSUME MiddlewareIInv, NEW r \in Requests, NEW token \in Middleware!Token,
         Middleware!Arrive(r, token)
  PROVE  MiddlewareIInv'
<1> DEFINE q == [pc |-> IF jwks = None THEN "fetch" ELSE "validate", token |-> token,
                 tenant |-> None, fetched |-> jwks, late |-> known]
<1>1. /\ Middleware!Serve(r, q) /\ UNCHANGED <<idp, jwks, known, current>>
      /\ token.tenant \in Tenants
  BY DEF Middleware!Arrive, Middleware!Token
<1>2. chain'[r] = q
  BY <1>1, MiddlewareServed
<1>3. ProviderOK' /\ UNCHANGED current
  BY <1>1 DEF MiddlewareIInv, ProviderOK
<1>4. ChainOK(r)'
  BY <1>1, <1>2, <1>3 DEF ChainOK, MiddlewareIInv, ProviderOK
<1> QED
  BY <1>1, <1>3, <1>4, MiddlewareServes

(* Changing fields of a request. *)
LEMMA ChainFetched ==
  ASSUME NEW r, NEW y,
         r = [pc |-> r.pc, token |-> r.token, tenant |-> r.tenant,
              fetched |-> r.fetched, late |-> r.late]
  PROVE  [r EXCEPT !.pc = "store", !.fetched = y] =
           [pc |-> "store", token |-> r.token, tenant |-> r.tenant,
            fetched |-> y, late |-> r.late]
<1> DEFINE s == [r EXCEPT !.pc = "store"]
           a == r.pc
           b == r.token
           c == r.tenant
           d == r.fetched
           e == r.late
<1>1. r = [pc |-> a, token |-> b, tenant |-> c, fetched |-> d, late |-> e]
  OBVIOUS
<1>2. s = [pc |-> "store", token |-> b, tenant |-> c, fetched |-> d, late |-> e]
  <2> HIDE DEF a, b, c, d, e
  <2> QED
    BY <1>1
<1>3. [s EXCEPT !.fetched = y] = [pc |-> "store", token |-> b, tenant |-> c,
                             fetched |-> y, late |-> e]
  <2> HIDE DEF s, a, b, c, d, e
  <2> QED
    BY <1>2
<1> QED
  BY <1>3, Zenon

LEMMA ChainTenant ==
  ASSUME NEW r, NEW x, NEW y,
         r = [pc |-> r.pc, token |-> r.token, tenant |-> r.tenant,
              fetched |-> r.fetched, late |-> r.late]
  PROVE  [r EXCEPT !.pc = x, !.tenant = y] =
           [pc |-> x, token |-> r.token, tenant |-> y,
            fetched |-> r.fetched, late |-> r.late]
<1> DEFINE s == [r EXCEPT !.pc = x]
           a == r.pc
           b == r.token
           c == r.tenant
           d == r.fetched
           e == r.late
<1>1. r = [pc |-> a, token |-> b, tenant |-> c, fetched |-> d, late |-> e]
  OBVIOUS
<1>2. s = [pc |-> x, token |-> b, tenant |-> c, fetched |-> d, late |-> e]
  <2> HIDE DEF a, b, c, d, e
  <2> QED
    BY <1>1
<1>3. [s EXCEPT !.tenant = y] = [pc |-> x, token |-> b, tenant |-> y,
                             fetched |-> d, late |-> e]
  <2> HIDE DEF s, a, b, c, d, e
  <2> QED
    BY <1>2
<1> QED
  BY <1>3, Zenon

LEMMA ChainGoes ==
  ASSUME NEW r, NEW x,
         r = [pc |-> r.pc, token |-> r.token, tenant |-> r.tenant,
              fetched |-> r.fetched, late |-> r.late]
  PROVE  [r EXCEPT !.pc = x] =
           [pc |-> x, token |-> r.token, tenant |-> r.tenant,
            fetched |-> r.fetched, late |-> r.late]
<1> DEFINE a == r.pc
           b == r.token
           c == r.tenant
           d == r.fetched
           e == r.late
<1>1. r = [pc |-> a, token |-> b, tenant |-> c, fetched |-> d, late |-> e]
  OBVIOUS
<1>2. [r EXCEPT !.pc = x] = [pc |-> x, token |-> b, tenant |-> c,
                             fetched |-> d, late |-> e]
  <2> HIDE DEF a, b, c, d, e
  <2> QED
    BY <1>1
<1> QED
  BY <1>2, Zenon

LEMMA ChainShape ==
  ASSUME MiddlewareIInv, NEW r \in Requests,
         chain[r].pc \in {"fetch", "store", "validate", "local", "done"}
  PROVE  LET q == chain[r] IN
         q = [pc |-> q.pc, token |-> q.token, tenant |-> q.tenant,
              fetched |-> q.fetched, late |-> q.late]
BY DEF MiddlewareIInv, ChainOK

LEMMA FetchKeeps ==
  ASSUME MiddlewareIInv, NEW r \in Requests, Middleware!Fetch(r)
  PROVE  MiddlewareIInv'
<1> DEFINE q == chain[r]
           key == IF idp.up = "up" THEN idp.key ELSE "error"
           to == [pc |-> "store", token |-> q.token, tenant |-> q.tenant,
                  fetched |-> key, late |-> q.late]
           stay == [pc |-> "local", token |-> q.token, tenant |-> q.tenant,
                    fetched |-> q.fetched, late |-> q.late]
<1>1. q.pc = "fetch" /\ UNCHANGED <<idp, jwks, known, current>>
  BY DEF Middleware!Fetch, Middleware!At
<1>2. ProviderOK' /\ UNCHANGED current
  BY <1>1 DEF MiddlewareIInv, ProviderOK
<1>3. [q EXCEPT !.pc = "store", !.fetched = key] =
        [pc |-> "store", token |-> q.token, tenant |-> q.tenant,
         fetched |-> key, late |-> q.late]
  <2>1. q = [pc |-> q.pc, token |-> q.token, tenant |-> q.tenant,
             fetched |-> q.fetched, late |-> q.late]
    BY <1>1, ChainShape
  <2> HIDE DEF key
  <2> QED
    BY <2>1, ChainFetched, ZenonT(60)
<1>4. \/ Middleware!Serve(r, to)
      \/ Middleware!Serve(r, stay)
      \/ Middleware!Serve(r, [pc |-> "failed", late |-> FALSE])
  <2>1. q.late = FALSE
    BY <1>1 DEF MiddlewareIInv, ChainOK
  <2>2. CASE /\ idp.up = "up"
             /\ Middleware!Serve(r, [q EXCEPT !.pc = "store", !.fetched = idp.key])
    <3>1. key = idp.key
      BY <2>2
    <3> QED
      BY <2>2, <3>1, <1>3, Zenon
  <2>3. CASE /\ idp.up = "error"
             /\ Middleware!Serve(r, [q EXCEPT !.pc = "store", !.fetched = "error"])
    <3>1. key = "error"
      BY <2>3
    <3> QED
      BY <2>3, <3>1, <1>3, Zenon
  <2>4. CASE Middleware!Serve(r, [q EXCEPT !.pc = "local"])
    <3>1. [q EXCEPT !.pc = "local"] = stay
      BY <1>1, ChainShape, ChainGoes, Zenon
    <3> QED
      BY <2>4, <3>1, Zenon
  <2>5. CASE Middleware!Serve(r, [pc |-> "failed", late |-> q.late])
    BY <2>5, <2>1, Zenon
  <2> QED
    BY <2>2, <2>3, <2>4, <2>5, Zenon DEF Middleware!Fetch
<1>5. key \in current \cup {"error"}
  BY DEF MiddlewareIInv, ProviderOK
<1> HIDE DEF key
<1>6. CASE Middleware!Serve(r, to)
  <2>1. chain'[r] = to
    BY <1>6, MiddlewareServed
  <2>2. ChainOK(r)'
    BY <1>1, <1>2, <1>5, <2>1 DEF MiddlewareIInv, ChainOK
  <2> QED
    BY <1>2, <1>6, <2>2, MiddlewareServes
<1>7. CASE Middleware!Serve(r, [pc |-> "failed", late |-> FALSE])
  BY <1>2, <1>7, MiddlewareServed, MiddlewareServes DEF ChainOK
<1>8. CASE Middleware!Serve(r, stay)
  <2>1. chain'[r] = stay
    BY <1>8, MiddlewareServed
  <2>2. ChainOK(r)'
    BY <1>1, <1>2, <2>1 DEF MiddlewareIInv, ChainOK
  <2> QED
    BY <1>2, <1>8, <2>2, MiddlewareServes
<1> QED
  BY <1>4, <1>6, <1>7, <1>8

LEMMA StoreKeeps ==
  ASSUME MiddlewareIInv, NEW r \in Requests, Middleware!Store(r)
  PROVE  MiddlewareIInv'
<1> DEFINE q == chain[r]
           to == [pc |-> "validate", token |-> q.token, tenant |-> q.tenant,
                  fetched |-> q.fetched, late |-> q.late]
<1>1. /\ q.pc = "store" /\ UNCHANGED <<idp, current>> /\ jwks' = q.fetched /\ known' = TRUE
      /\ Middleware!Serve(r, [q EXCEPT !.pc = "validate"])
  BY DEF Middleware!Store, Middleware!At, Middleware!Cached
<1>2. [q EXCEPT !.pc = "validate"] = to
  BY <1>1, ChainShape, ChainGoes, Zenon
<1>3. Middleware!Serve(r, to)
  BY <1>1, <1>2, Zenon
<1>4. q.fetched \in current \cup {"error"} /\ q.fetched # None
  BY <1>1 DEF MiddlewareIInv, ChainOK, ProviderOK
<1>5. /\ UNCHANGED <<idp, current>> /\ jwks' = q.fetched /\ known' = TRUE
  BY <1>1
<1>6. ProviderOK' /\ UNCHANGED current
  BY <1>4, <1>5 DEF MiddlewareIInv, ProviderOK
<1>7. chain'[r] = to
  BY <1>3, MiddlewareServed
<1>8. q.pc = "store"
  BY <1>1
<1>9. ChainOK(r)'
  BY <1>6, <1>7, <1>8 DEF MiddlewareIInv, ChainOK
<1> QED
  BY <1>3, <1>6, <1>9, MiddlewareServes

(* Only a key that the provider published makes a token's tenant count.    *)
LEMMA ValidateKeeps ==
  ASSUME MiddlewareIInv, NEW r \in Requests, Middleware!Validate(r)
  PROVE  MiddlewareIInv'
<1> DEFINE q == chain[r]
           claims == Middleware!Claims(r)
           to == [pc |-> "local", token |-> q.token, tenant |-> claims,
                  fetched |-> q.fetched, late |-> q.late]
<1>1. /\ q.pc = "validate" /\ UNCHANGED <<idp, jwks, known, current>>
  BY DEF Middleware!Validate, Middleware!At
<1>2. Middleware!Serve(r, [q EXCEPT !.pc = "local", !.tenant = claims])
  BY Zenon DEF Middleware!Validate
<1>3. [q EXCEPT !.pc = "local", !.tenant = claims] =
        [pc |-> "local", token |-> q.token, tenant |-> claims,
         fetched |-> q.fetched, late |-> q.late]
  <2>1. q = [pc |-> q.pc, token |-> q.token, tenant |-> q.tenant,
             fetched |-> q.fetched, late |-> q.late]
    BY <1>1, ChainShape
  <2> HIDE DEF claims
  <2> QED
    BY <2>1, ChainTenant, Zenon
<1>4. Middleware!Serve(r, to)
  BY <1>2, <1>3, Zenon
<1>5. ProviderOK' /\ UNCHANGED current
  BY <1>1 DEF MiddlewareIInv, ProviderOK
<1>6. /\ claims \in Tenants \cup {None}
      /\ claims # None => claims = q.token.tenant /\ q.token.by \in current
  BY <1>1, ErrorIsNoKey DEF MiddlewareIInv, ChainOK, Middleware!Claims
<1>7. chain'[r] = to
  BY <1>4, MiddlewareServed
<1> HIDE DEF claims
<1>8. ChainOK(r)'
  BY <1>1, <1>5, <1>6, <1>7 DEF MiddlewareIInv, ChainOK
<1> QED
  BY <1>4, <1>5, <1>8, MiddlewareServes

LEMMA TenantKeeps ==
  ASSUME MiddlewareIInv, NEW r \in Requests, Middleware!Tenant(r)
  PROVE  MiddlewareIInv'
<1> DEFINE q == chain[r]
           local == Middleware!Local(r)
           to == [pc |-> "done", token |-> q.token, tenant |-> local,
                  fetched |-> q.fetched, late |-> q.late]
<1>1. /\ q.pc = "local" /\ UNCHANGED <<idp, jwks, known, current>>
  BY DEF Middleware!Tenant, Middleware!At
<1>2. Middleware!Serve(r, [q EXCEPT !.pc = "done", !.tenant = local])
  BY Zenon DEF Middleware!Tenant
<1>3. [q EXCEPT !.pc = "done", !.tenant = local] =
        [pc |-> "done", token |-> q.token, tenant |-> local,
         fetched |-> q.fetched, late |-> q.late]
  <2>1. q = [pc |-> q.pc, token |-> q.token, tenant |-> q.tenant,
             fetched |-> q.fetched, late |-> q.late]
    BY <1>1, ChainShape
  <2> HIDE DEF local
  <2> QED
    BY <2>1, ChainTenant, Zenon
<1>4. Middleware!Serve(r, to)
  BY <1>2, <1>3, Zenon
<1>5. ProviderOK' /\ UNCHANGED current
  BY <1>1 DEF MiddlewareIInv, ProviderOK
<1>6. /\ local \in Tenants \cup {None}
      /\ local # None => local = q.token.tenant /\ q.token.by = "camp44"
  BY <1>1 DEF MiddlewareIInv, ChainOK, Middleware!Local
<1>7. chain'[r] = to
  BY <1>4, MiddlewareServed
<1> HIDE DEF local
<1>8. ChainOK(r)'
  BY <1>1, <1>5, <1>6, <1>7 DEF MiddlewareIInv, ChainOK
<1> QED
  BY <1>4, <1>5, <1>8, MiddlewareServes
LEMMA ProviderRotates ==
  ASSUME NEW r, NEW x, NEW y,
         r = [key |-> r.key, up |-> r.up, retired |-> r.retired]
  PROVE  [r EXCEPT !.key = x, !.retired = y] =
           [key |-> x, up |-> r.up, retired |-> y]
<1> DEFINE s == [r EXCEPT !.key = x]
           a == r.key
           b == r.up
           c == r.retired
<1>1. r = [key |-> a, up |-> b, retired |-> c]
  OBVIOUS
<1>2. s = [key |-> x, up |-> b, retired |-> c]
  <2> HIDE DEF a, b, c
  <2> QED
    BY <1>1
<1>3. [s EXCEPT !.retired = y] = [key |-> x, up |-> b, retired |-> y]
  <2> HIDE DEF s, a, b, c
  <2> QED
    BY <1>2
<1> QED
  BY <1>3, Zenon

(* A key that the provider retires stays among those it published. *)
LEMMA RotateKeeps ==
  ASSUME MiddlewareIInv, NEW k \in Keys, Middleware!Rotate(k)
  PROVE  MiddlewareIInv'
<1> DEFINE old == idp.key
           turn == idp.up
           gone == idp.retired
<1>1. idp = [key |-> old, up |-> turn, retired |-> gone]
  BY DEF MiddlewareIInv, ProviderOK
<1>2. idp' = [idp EXCEPT !.key = k, !.retired = gone \cup {old}]
  BY Zenon DEF Middleware!Rotate
<1>3. [idp EXCEPT !.key = k, !.retired = gone \cup {old}] =
        [key |-> k, up |-> turn, retired |-> gone \cup {old}]
  BY <1>1, ProviderRotates, Zenon
<1>4. idp' = [key |-> k, up |-> turn, retired |-> gone \cup {old}]
  BY <1>2, <1>3, Zenon
<1>5. k \notin gone \cup {old} /\ UNCHANGED <<jwks, known, chain>>
  BY DEF Middleware!Rotate
<1>6. /\ old \in Keys /\ turn \in {"up", "down", "error", "page"} /\ gone \subseteq Keys
      /\ jwks \in current \cup {"error", None}
      /\ known \in BOOLEAN /\ (known => jwks # None)
  BY DEF MiddlewareIInv, ProviderOK
<1>7. current' = current \cup {k} /\ old \in current /\ current \subseteq Keys
  BY DEF Middleware!Rotate, MiddlewareIInv, ProviderOK
<1>8. ProviderOK'
  <2>1. UNCHANGED <<jwks, known>>
    BY <1>5
  <2>2. /\ idp'.key = k /\ idp'.retired = gone \cup {old}
        /\ idp' \in [key : Keys, up : {"up", "down", "error", "page"}, retired : SUBSET Keys]
    <3> HIDE DEF old, turn, gone
    <3> QED
      BY <1>4, <1>6
  <2> HIDE DEF old, turn, gone
  <2> QED
    BY <2>1, <2>2, <1>5, <1>6, <1>7 DEF ProviderOK
<1> QED
  BY <1>5, <1>7, <1>8, MiddlewareUndisturbed DEF MiddlewareIInv

LEMMA TurnKeeps ==
  ASSUME MiddlewareIInv, NEW state \in {"up", "down", "error", "page"},
         Middleware!Turn(state)
  PROVE  MiddlewareIInv'
<1>1. UNCHANGED <<jwks, known, current, chain>> /\ idp' = [idp EXCEPT !.up = state]
  BY DEF Middleware!Turn
<1>2. /\ idp'.key = idp.key /\ idp'.retired = idp.retired
      /\ idp' \in [key : Keys, up : {"up", "down", "error", "page"}, retired : SUBSET Keys]
  BY <1>1 DEF MiddlewareIInv, ProviderOK
<1>3. UNCHANGED <<jwks, known, current, chain>>
  BY <1>1
<1>4. ProviderOK'
  BY <1>2, <1>3 DEF MiddlewareIInv, ProviderOK
<1> QED
  BY <1>3, <1>4, MiddlewareUndisturbed DEF MiddlewareIInv

LEMMA MiddlewareRestarts ==
  ASSUME MiddlewareIInv, Middleware!Restart
  PROVE  MiddlewareIInv'
BY DEF MiddlewareIInv, Middleware!Restart, Middleware!Idle, ProviderOK, ChainOK

LEMMA MiddlewareStutters ==
  ASSUME MiddlewareIInv, UNCHANGED <<idp, jwks, known, current, chain>>
  PROVE  MiddlewareIInv'
<1>1. ProviderOK'
  BY DEF MiddlewareIInv, ProviderOK
<1> QED
  BY <1>1, MiddlewareUndisturbed DEF MiddlewareIInv

LEMMA MiddlewareSteps ==
  ASSUME MiddlewareIInv, [Next]_vars
  PROVE  MiddlewareIInv'
<1>1. CASE Middleware!Next
  BY <1>1, ArriveKeeps, FetchKeeps, StoreKeeps, ValidateKeeps, TenantKeeps,
     RotateKeeps, TurnKeeps, MiddlewareRestarts DEF Middleware!Next
<1>2. CASE UNCHANGED tenantVars
  BY <1>2, MiddlewareStutters DEF tenantVars
<1> QED
  BY <1>1, <1>2 DEF Next, vars

LEMMA MiddlewareImplies ==
  ASSUME MiddlewareIInv
  PROVE  MiddlewareInv
<1>1. Middleware!TypeOK
  BY DEF MiddlewareIInv, ProviderOK, ChainOK, Middleware!TypeOK, Middleware!At
<1>2. Middleware!RetiredKeysAreRefused
  BY DEF MiddlewareIInv, ChainOK, Middleware!RetiredKeysAreRefused, Middleware!At
<1>3. Middleware!OutagesSpareCached
  BY DEF MiddlewareIInv, ChainOK, Middleware!OutagesSpareCached, Middleware!At
<1> QED
  BY <1>1, <1>2, <1>3 DEF MiddlewareInv

(* tenant_oidc.py, tenant.py, oauth.py:34-41: whatever the provider does   *)
(* (down, an error page in JSON or not, keys rotated) and however requests *)
(* overlap, a request has no tenant but its own token's, and that only if  *)
(* Camp44 signed it, or the provider with a key that it published while    *)
(* this process ran; and once an answer is cached, no trouble of the       *)
(* provider fails a request that comes later.                              *)
THEOREM RetiredKeysGiveNoTenant == Spec => []MiddlewareInv
<1>1. Init => MiddlewareIInv
  BY MiddlewareStarts DEF Init
<1>2. MiddlewareIInv /\ [Next]_vars => MiddlewareIInv'
  BY MiddlewareSteps
<1>3. MiddlewareIInv => MiddlewareInv
  BY MiddlewareImplies
<1> QED
  BY <1>1, <1>2, <1>3, PTL DEF Spec
-----------------------------------------------------------------------------
(* Uploads *)

(* Who made the bucket of an app began when there was none. *)
Maker(v, a) ==
  /\ v \in Files \ prior
  /\ up[v].pc \notin {"new", "find", "make"} /\ up[v].app = a

(* An upload that goes on has a bucket.  One that failed by itself lost    *)
(* the bucket to its maker, which can only be another one.                 *)
UploadOK(u) ==
  LET q == up[u] IN
  \/ q = [pc |-> "new"] /\ u \notin objects \cup prior
  \/ /\ q = [pc |-> q.pc, app |-> q.app, size |-> q.size]
     /\ q.pc \in {"find", "make", "read", "put", "stored", "refused", "error"}
     /\ q.app \in Apps /\ q.size \in {"small", "large"}
     /\ q.pc \in {"read", "put", "stored"} \/ u \in prior => q.app \in buckets
     /\ q.pc \in {"put", "stored"} \/ u \in objects => q.size = "small"
     /\ q.pc = "stored" => u \in objects
     /\ u \in objects => q.pc = "stored" \/ (q.pc = "error" /\ u \in fault)
     /\ q.pc = "make" => u \notin prior
     /\ q.pc = "error" /\ u \notin fault =>
          /\ u \notin prior /\ q.app \in buckets
          /\ \E v \in Files \ {u} : Maker(v, q.app)

StorageIInv ==
  /\ buckets \subseteq Apps /\ objects \subseteq Files
  /\ fault \subseteq Files /\ prior \subseteq Files
  /\ up = [u \in Files |-> up[u]]
  /\ \A u \in Files : UploadOK(u)
  /\ \A a \in buckets : \E v \in Files : Maker(v, a)

LEMMA UploadGoes ==
  ASSUME NEW r, NEW x,
         r = [pc |-> r.pc, app |-> r.app, size |-> r.size]
  PROVE  [r EXCEPT !.pc = x] =
           [pc |-> x, app |-> r.app, size |-> r.size]
<1> DEFINE a == r.pc
           b == r.app
           c == r.size
<1>1. r = [pc |-> a, app |-> b, size |-> c]
  OBVIOUS
<1>2. [r EXCEPT !.pc = x] = [pc |-> x, app |-> b, size |-> c]
  <2> HIDE DEF a, b, c
  <2> QED
    BY <1>1
<1> QED
  BY <1>2, Zenon

LEMMA StorageStarts == Storage!Init => StorageIInv
BY DEF Storage!Init, StorageIInv, UploadOK

(* An upload moves. *)
LEMMA UploadMoved ==
  ASSUME StorageIInv, NEW u \in Files, up[u].pc # "new",
         NEW label, Storage!Go(u, label)
  PROVE  LET q == up[u] IN
         /\ up' = [up EXCEPT ![u] = [pc |-> label, app |-> q.app, size |-> q.size]]
         /\ q = [pc |-> q.pc, app |-> q.app, size |-> q.size]
         /\ up'[u] = [pc |-> label, app |-> q.app, size |-> q.size]
         /\ \A v \in Files : v # u => up'[v] = up[v]
         /\ up' = [v \in Files |-> up'[v]]
<1> DEFINE q == up[u]
<1>1. q = [pc |-> q.pc, app |-> q.app, size |-> q.size]
  BY DEF StorageIInv, UploadOK
<1>2. [q EXCEPT !.pc = label] = [pc |-> label, app |-> q.app, size |-> q.size]
  BY <1>1, UploadGoes, Zenon
<1>3. up' = [up EXCEPT ![u] = [q EXCEPT !.pc = label]]
  BY Zenon DEF Storage!Go
<1>4. up' = [up EXCEPT ![u] = [pc |-> label, app |-> q.app, size |-> q.size]]
  BY <1>2, <1>3, Zenon
<1> QED
  BY <1>1, <1>4 DEF StorageIInv

(* A maker of a bucket stays one. *)
LEMMA MakerStays ==
  ASSUME NEW u \in Files, \A v \in Files : v # u => up'[v] = up[v],
         prior' \subseteq prior \cup {u}, u \in prior' => u \in prior \/ up[u].pc = "new",
         up[u].pc \notin {"new", "find", "make"} =>
           up'[u].pc \notin {"new", "find", "make"} /\ up'[u].app = up[u].app,
         NEW v \in Files, NEW a, Maker(v, a)
  PROVE  Maker(v, a)'
BY DEF Maker

(* What another upload does leaves an upload as it is. *)
LEMMA UploadUndisturbed ==
  ASSUME NEW u \in Files, NEW x \in Files, UploadOK(x), up'[x] = up[x],
         \A a : \A v \in Files : Maker(v, a) => Maker(v, a)',
         buckets \subseteq buckets',
         x \in objects' <=> x \in objects, x \in prior' <=> x \in prior,
         x \in fault' <=> x \in fault
  PROVE  UploadOK(x)'
<1>1. \A a : (\E v \in Files \ {x} : Maker(v, a)) =>
               \E v \in Files \ {x} : Maker(v, a)'
  OBVIOUS
<1> HIDE DEF Maker
<1> QED
  BY <1>1 DEF UploadOK

(* Step by step: the upload that moves is as it should be, the others are  *)
(* undisturbed.                                                            *)
LEMMA StorageMoves ==
  ASSUME StorageIInv, NEW u \in Files,
         \A v \in Files : v # u => up'[v] = up[v],
         up' = [v \in Files |-> up'[v]],
         prior' \subseteq prior \cup {u}, prior \subseteq prior',
         u \in prior' => u \in prior \/ up[u].pc = "new",
         up[u].pc \notin {"new", "find", "make"} =>
           up'[u].pc \notin {"new", "find", "make"} /\ up'[u].app = up[u].app,
         objects \subseteq objects', objects' \subseteq objects \cup {u},
         fault \subseteq fault', fault' \subseteq fault \cup {u},
         buckets \subseteq buckets', buckets' \subseteq Apps,
         \A a \in buckets' \ buckets : Maker(u, a)',
         UploadOK(u)'
  PROVE  StorageIInv'
<1>1. \A a : \A v \in Files : Maker(v, a) => Maker(v, a)'
  BY MakerStays
<1>2. \A x \in Files : UploadOK(x)'
  <2> TAKE x \in Files
  <2>1. CASE x # u
    <3>1. /\ x \in objects' <=> x \in objects
          /\ x \in prior' <=> x \in prior
          /\ x \in fault' <=> x \in fault
      BY <2>1
    <3> QED
      BY <1>1, <2>1, <3>1, UploadUndisturbed DEF StorageIInv
  <2> QED
    BY <2>1
<1>3. \A a \in buckets' : \E v \in Files : Maker(v, a)'
  BY <1>1 DEF StorageIInv
<1> QED
  BY <1>2, <1>3 DEF StorageIInv
LEMMA BeginKeeps ==
  ASSUME StorageIInv, NEW u \in Files, NEW a \in Apps,
         NEW size \in {"small", "large"}, Storage!Begin(u, a, size)
  PROVE  StorageIInv'
<1> DEFINE q == [pc |-> "find", app |-> a, size |-> size]
<1>1. /\ up[u].pc = "new" /\ up' = [up EXCEPT ![u] = q]
      /\ prior' = IF a \in buckets THEN prior \cup {u} ELSE prior
      /\ UNCHANGED <<buckets, objects, fault>>
  BY DEF Storage!Begin, Storage!At
<1>2. /\ up'[u] = q /\ up' = [v \in Files |-> up'[v]]
      /\ \A v \in Files : v # u => up'[v] = up[v]
  BY <1>1 DEF StorageIInv
<1>3. u \notin objects \cup prior
  BY <1>1 DEF StorageIInv, UploadOK
<1>4. UploadOK(u)'
  BY <1>1, <1>2, <1>3 DEF UploadOK
<1> QED
  BY <1>1, <1>2, <1>4, StorageMoves DEF StorageIInv

LEMMA FindKeeps ==
  ASSUME StorageIInv, NEW u \in Files, Storage!Find(u)
  PROVE  StorageIInv'
<1> DEFINE label == IF Storage!Missing(u) THEN "make" ELSE "read"
<1>1. /\ up[u].pc = "find" /\ Storage!Go(u, label)
      /\ UNCHANGED <<buckets, objects, fault, prior>>
  BY Zenon DEF Storage!Find, Storage!At
<1>2. label \in {"make", "read"} /\ (label = "read" <=> up[u].app \in buckets)
  BY DEF Storage!Missing
<1> HIDE DEF label
<1>3. /\ up'[u] = [pc |-> label, app |-> up[u].app, size |-> up[u].size]
      /\ \A v \in Files : v # u => up'[v] = up[v]
      /\ up' = [v \in Files |-> up'[v]]
  BY <1>1, UploadMoved
<1>4. UploadOK(u)'
  BY <1>1, <1>2, <1>3 DEF StorageIInv, UploadOK
<1> QED
  BY <1>1, <1>3, <1>4, StorageMoves DEF StorageIInv

(* An upload that finds the bucket there by now lost to its maker. *)
LEMMA MakeKeeps ==
  ASSUME StorageIInv, NEW u \in Files, Storage!Make(u)
  PROVE  StorageIInv'
<1> DEFINE label == IF up[u].app \in buckets THEN "error" ELSE "read"
<1>1. /\ up[u].pc = "make" /\ Storage!Go(u, label)
      /\ buckets' = buckets \cup {up[u].app}
      /\ UNCHANGED <<objects, fault, prior>>
  BY Zenon DEF Storage!Make, Storage!At
<1>2. /\ label \in {"error", "read"}
      /\ label = "error" => up[u].app \in buckets
      /\ label # "error" => up[u].app \notin buckets
  OBVIOUS
<1> HIDE DEF label
<1>3. /\ up'[u] = [pc |-> label, app |-> up[u].app, size |-> up[u].size]
      /\ \A v \in Files : v # u => up'[v] = up[v]
      /\ up' = [v \in Files |-> up'[v]]
  BY <1>1, UploadMoved
<1>4. u \notin prior /\ u \notin objects /\ up[u].app \in Apps
  BY <1>1 DEF StorageIInv, UploadOK
<1>5. Maker(u, up[u].app)'
  BY <1>1, <1>2, <1>3, <1>4 DEF Maker
<1>6. ASSUME label = "error"
      PROVE  \E v \in Files \ {u} : Maker(v, up[u].app)'
  <2>1. PICK v \in Files : Maker(v, up[u].app)
    BY <1>2, <1>6 DEF StorageIInv
  <2>2. v # u
    BY <1>1, <2>1 DEF Maker
  <2> QED
    BY <1>1, <1>3, <2>1, <2>2 DEF Maker
<1>7. UploadOK(u)'
  <2> DEFINE was == up[u]
  <2>1. /\ up'[u].pc = label /\ up'[u].app = was.app /\ up'[u].size = was.size
        /\ up'[u] = [pc |-> label, app |-> was.app, size |-> was.size]
        /\ was.app \in buckets' /\ u \notin prior' /\ u \notin objects'
    BY <1>1, <1>3, <1>4
  <2>2. /\ was.app \in Apps /\ was.size \in {"small", "large"}
    BY <1>1 DEF StorageIInv, UploadOK
  <2>3. label = "error" =>
          \E v \in Files \ {u} :
            /\ v \in Files \ prior'
            /\ up'[v].pc \notin {"new", "find", "make"} /\ up'[v].app = was.app
    BY <1>3, <1>6 DEF Maker
  <2> HIDE DEF was
  <2> QED
    BY <1>2, <2>1, <2>2, <2>3 DEF UploadOK, Maker
<1>8. /\ buckets' \subseteq Apps /\ buckets \subseteq buckets'
      /\ \A a \in buckets' \ buckets : a = up[u].app
  BY <1>1, <1>4 DEF StorageIInv
<1> QED
  BY <1>1, <1>3, <1>5, <1>7, <1>8, StorageMoves DEF StorageIInv

LEMMA ReadKeeps ==
  ASSUME StorageIInv, NEW u \in Files, Storage!Read(u)
  PROVE  StorageIInv'
<1> DEFINE label == IF up[u].size = "large" THEN "refused" ELSE "put"
<1>1. /\ up[u].pc = "read" /\ Storage!Go(u, label)
      /\ UNCHANGED <<buckets, objects, fault, prior>>
  BY Zenon DEF Storage!Read, Storage!At
<1>2. label \in {"refused", "put"} /\ (label = "put" => up[u].size # "large")
  OBVIOUS
<1> HIDE DEF label
<1>3. /\ up'[u] = [pc |-> label, app |-> up[u].app, size |-> up[u].size]
      /\ \A v \in Files : v # u => up'[v] = up[v]
      /\ up' = [v \in Files |-> up'[v]]
  BY <1>1, UploadMoved
<1>4. UploadOK(u)'
  BY <1>1, <1>2, <1>3 DEF StorageIInv, UploadOK
<1> QED
  BY <1>1, <1>2, <1>3, <1>4, StorageMoves DEF StorageIInv

LEMMA PutKeeps ==
  ASSUME StorageIInv, NEW u \in Files, Storage!Put(u)
  PROVE  StorageIInv'
<1>1. /\ up[u].pc = "put" /\ up[u].app \in buckets /\ Storage!Go(u, "stored")
      /\ objects' = objects \cup {u} /\ UNCHANGED <<buckets, fault, prior>>
  BY Zenon DEF Storage!Put, Storage!At
<1>2. /\ up'[u] = [pc |-> "stored", app |-> up[u].app, size |-> up[u].size]
      /\ \A v \in Files : v # u => up'[v] = up[v]
      /\ up' = [v \in Files |-> up'[v]]
  BY <1>1, UploadMoved
<1>3. UploadOK(u)'
  BY <1>1, <1>2 DEF StorageIInv, UploadOK
<1> QED
  BY <1>1, <1>2, <1>3, StorageMoves DEF StorageIInv

LEMMA FaultKeeps ==
  ASSUME StorageIInv, NEW u \in Files, NEW done \in BOOLEAN,
         Storage!Fault(u, done)
  PROVE  StorageIInv'
<1>1. /\ up[u].pc \in {"find", "make", "put"} /\ Storage!Go(u, "error")
      /\ fault' = fault \cup {u}
      /\ buckets' = IF done /\ up[u].pc = "make" THEN buckets \cup {up[u].app}
                                                ELSE buckets
      /\ objects' = IF done /\ up[u].pc = "put" THEN objects \cup {u} ELSE objects
      /\ UNCHANGED prior
  BY Zenon DEF Storage!Fault, Storage!Faulty, Storage!At
<1>2. /\ up'[u] = [pc |-> "error", app |-> up[u].app, size |-> up[u].size]
      /\ \A v \in Files : v # u => up'[v] = up[v]
      /\ up' = [v \in Files |-> up'[v]]
  BY <1>1, UploadMoved
<1>3. /\ up[u].app \in Apps
      /\ up[u].size \in {"small", "large"}
      /\ u \in prior => up[u].app \in buckets /\ up[u].pc # "make"
      /\ up[u].pc = "put" => up[u].size = "small"
      /\ u \notin objects
  BY <1>1 DEF StorageIInv, UploadOK
<1>4. UploadOK(u)'
  BY <1>1, <1>2, <1>3 DEF UploadOK
<1>5. /\ buckets' \subseteq Apps /\ buckets \subseteq buckets'
      /\ objects \subseteq objects' /\ objects' \subseteq objects \cup {u}
      /\ \A a \in buckets' \ buckets : Maker(u, a)'
  BY <1>1, <1>2, <1>3 DEF StorageIInv, Maker
<1> QED
  BY <1>1, <1>2, <1>4, <1>5, StorageMoves DEF StorageIInv

LEMMA StorageSteps ==
  ASSUME StorageIInv, [Next]_vars
  PROVE  StorageIInv'
<1>1. CASE Storage!Next
  BY <1>1, BeginKeeps, FindKeeps, MakeKeeps, ReadKeeps, PutKeeps, FaultKeeps
     DEF Storage!Next
<1>2. CASE UNCHANGED uploadVars
  <2>1. UNCHANGED <<buckets, objects, up, fault, prior>>
    BY <1>2 DEF uploadVars
  <2> QED
    BY <2>1 DEF StorageIInv, UploadOK, Maker
<1> QED
  BY <1>1, <1>2 DEF Next, vars

LEMMA StorageImplies ==
  ASSUME StorageIInv
  PROVE  StorageInv
<1>1. Storage!TypeOK
  BY DEF StorageIInv, UploadOK, Storage!TypeOK
<1>2. Storage!AnsweredAsStored
  BY DEF StorageIInv, UploadOK, Storage!AnsweredAsStored, Storage!At
<1>3. Storage!OnlyFirstUploadsRace
  BY DEF StorageIInv, UploadOK, Maker, Storage!OnlyFirstUploadsRace, Storage!At
<1> QED
  BY <1>1, <1>2, <1>3 DEF StorageInv

(* integrations.py:59-95: however many uploads overlap and whatever MinIO  *)
(* fails at, what a client is told is what is stored, and an upload fails  *)
(* without MinIO only if it raced for the first bucket of its app.         *)
THEOREM UploadsAreAnsweredAsStored == Spec => []StorageInv
<1>1. Init => StorageIInv
  BY StorageStarts DEF Init
<1>2. StorageIInv /\ [Next]_vars => StorageIInv'
  BY StorageSteps
<1>3. StorageIInv => StorageInv
  BY StorageImplies
<1> QED
  BY <1>1, <1>2, <1>3, PTL DEF Spec
-----------------------------------------------------------------------------
(* Demo availability *)

HIDE NoneIsNothing

Lists == Seq(Dates)
Configurations == [schedule : Schedules, blocked : Lists]

(* The list a request holds: a shared one is the process's own. *)
HeldList(q) == IF q.shared THEN default[q.proc] ELSE q.config.blocked

(* block-date and its DELETE change a list that needs it. *)
Needed(list, o) ==
  /\ o.date \in Dates
  /\ \/ o.op = "block" /\ ~ Demo!Contains(list, o.date)
     \/ o.op = "unblock" /\ Demo!Contains(list, o.date)

Done(list, o) ==
  /\ o.date \in Dates
  /\ \/ o.op = "block" /\ Demo!Contains(list, o.date)
     \/ o.op = "unblock" /\ (~ Demo!Contains(list, o.date) \/ o.date \in twice)

StoreOK ==
  /\ row = None \/ row \in Configurations
  /\ default \in [Processes -> Lists]
  /\ fails \in 0..MaxFails
  /\ twice \subseteq Dates

ChangeOK(q) ==
  /\ q.pc = "change"
  /\ q = [pc |-> "change", proc |-> q.proc, op |-> q.op, config |-> q.config,
          shared |-> q.shared]
  /\ q.proc \in Processes /\ q.shared \in BOOLEAN
  /\ q.op \in Demo!Op /\ q.op.op # "put"
  /\ q.config \in Configurations

CommitOK(q) ==
  /\ q.pc = "commit"
  /\ q = [pc |-> "commit", proc |-> q.proc, op |-> q.op, config |-> q.config,
          shared |-> q.shared, seen |-> q.seen]
  /\ q.proc \in Processes /\ q.shared \in BOOLEAN
  /\ q.op \in Demo!Op
  /\ q.op.op = "put" => ~ q.shared /\ q.config = q.op.config
  /\ q.config \in Configurations
  /\ q.seen # None => row # None

RequestsOK ==
  /\ asked = [t \in Threads |-> asked[t]]
  /\ \A t \in Threads :
       asked[t] = [pc |-> "idle"] \/ ChangeOK(asked[t]) \/ CommitOK(asked[t])

(* No list holds a date twice that did not come to it twice. *)
SinglesOK ==
  /\ row # None => Demo!Repeated(row.blocked) \subseteq twice
  /\ \A p \in Processes : Demo!Repeated(default[p]) \subseteq twice
  /\ \A t \in Threads : Demo!Busy(t) =>
       Demo!Repeated(asked[t].config.blocked) \subseteq twice

(* Only a failed save leaves a date in a process's list without a row,     *)
(* unless a request is about to store it.                                  *)
DefaultsOK ==
  row = None /\ fails = 0 =>
    \A p \in Processes :
      \/ default[p] = <<>>
      \/ \E t \in Threads :
           asked[t].pc = "commit" /\ asked[t].shared /\ asked[t].proc = p

(* A request that nobody has overlapped holds what is stored, and then     *)
(* what becomes of it.                                                     *)
LoneChange(q) ==
  /\ q.pc = "change"
  /\ q.shared <=> row = None
  /\ q.config = Demo!Stored
  /\ Needed(HeldList(q), q.op)

LoneCommit(q) ==
  /\ q.pc = "commit"
  /\ q.seen = row
  /\ \/ q.op.op = "put"
     \/ /\ q.config.schedule = Demo!Stored.schedule
        /\ Done(HeldList(q), q.op)
        /\ fails = 0 \/ row # None =>
             /\ Needed(Demo!Stored.blocked, q.op)
             /\ HeldList(q) = Demo!Changed(Demo!Stored.blocked, q.op)

LonesOK ==
  /\ alone \subseteq Threads
  /\ \A t \in alone :
       /\ \A u \in Threads \ {t} : ~ Demo!Busy(u)
       /\ LoneChange(asked[t]) \/ LoneCommit(asked[t])

AnsweredOK ==
  answered # None =>
    /\ Demo!Quiet
    /\ answered.op = "block" =>
         IF row = None THEN fails > 0 ELSE Demo!Contains(row.blocked, answered.date)
    /\ answered.op = "unblock" =>
         \/ row = None
         \/ ~ Demo!Contains(row.blocked, answered.date)
         \/ answered.date \in twice

DemoIInv ==
  /\ StoreOK /\ RequestsOK /\ SinglesOK
  /\ DefaultsOK /\ LonesOK /\ AnsweredOK

LEMMA ConfigurationWith ==
  ASSUME NEW r, NEW x,
         r = [schedule |-> r.schedule, blocked |-> r.blocked]
  PROVE  [r EXCEPT !.blocked = x] =
           [schedule |-> r.schedule, blocked |-> x]
<1> DEFINE a == r.schedule
           b == r.blocked
<1>1. r = [schedule |-> a, blocked |-> b]
  OBVIOUS
<1>2. [r EXCEPT !.blocked = x] = [schedule |-> a, blocked |-> x]
  <2> HIDE DEF a, b
  <2> QED
    BY <1>1
<1> QED
  BY <1>2, Zenon

(* The operators of DemoAvailability on lists. *)
LEMMA LeastNumber ==
  ASSUME NEW I \in SUBSET Nat, I # {}
  PROVE  \E x \in I : \A y \in I : x =< y
<1> DEFINE R == OpToRel(<, Nat)
<1>1. IsWellFoundedOn(R, Nat)
  BY NatLessThanWellFounded
<1>2. PICK x \in I : \A y \in I : ~ (<<y, x>> \in R)
  <2> HIDE DEF R
  <2> QED
    BY <1>1, WFMin
<1>3. \A y \in I : ~ (y < x)
  BY <1>2 DEF OpToRel
<1> QED
  BY <1>3

LEMMA Repeats ==
  ASSUME NEW list \in Lists, NEW d
  PROVE  d \in Demo!Repeated(list) <=>
           d \in Dates /\ \E i, j \in 1..Len(list) : i # j /\ list[i] = d /\ list[j] = d
BY DEF Demo!Repeated, Lists

LEMMA EmptyRepeatsNothing == <<>> \in Lists /\ Demo!Repeated(<<>>) = {}
BY DEF Demo!Repeated, Lists

LEMMA Appended ==
  ASSUME NEW list \in Lists, NEW d \in Dates
  PROVE  /\ Append(list, d) \in Lists
         /\ Demo!Contains(Append(list, d), d)
         /\ ~ Demo!Contains(list, d) =>
              Demo!Repeated(Append(list, d)) \subseteq Demo!Repeated(list)
<1> DEFINE new == Append(list, d)
<1>1. list \in Seq(Dates) /\ Len(list) \in Nat
  BY DEF Lists
<1>2. /\ new \in Seq(Dates) /\ Len(new) = Len(list) + 1
      /\ new[Len(list) + 1] = d
      /\ \A i \in 1..Len(list) : new[i] = list[i]
  BY <1>1
<1> HIDE DEF new
<1>3. Demo!Contains(new, d)
  BY <1>1, <1>2 DEF Demo!Contains
<1>4. ASSUME ~ Demo!Contains(list, d), NEW x, x \in Demo!Repeated(new)
      PROVE  x \in Demo!Repeated(list)
  <2>1. PICK i, j \in 1..Len(new) : x \in Dates /\ i # j /\ new[i] = x /\ new[j] = x
    BY <1>2, <1>4, Repeats DEF Lists
  <2>2. i \in 1..Len(list) /\ j \in 1..Len(list)
    BY <1>1, <1>2, <1>4, <2>1 DEF Demo!Contains
  <2> QED
    BY <1>2, <2>1, <2>2, Repeats
<1> QED
  BY <1>2, <1>3, <1>4 DEF new, Lists

LEMMA Removed ==
  ASSUME NEW list \in Lists, NEW d \in Dates
  PROVE  /\ Demo!RemoveFirst(list, d) \in Lists
         /\ Demo!Contains(list, d) =>
              /\ Demo!Repeated(Demo!RemoveFirst(list, d)) \subseteq Demo!Repeated(list)
              /\ \/ ~ Demo!Contains(Demo!RemoveFirst(list, d), d)
                 \/ d \in Demo!Repeated(list)
<1>1. list \in Seq(Dates) /\ Len(list) \in Nat
  BY DEF Lists
<1>2. CASE ~ Demo!Contains(list, d)
  <2>1. Demo!RemoveFirst(list, d) = list
    BY <1>2 DEF Demo!RemoveFirst, Demo!Contains
  <2> QED
    BY <1>2, <2>1
<1>3. CASE Demo!Contains(list, d)
  <2> DEFINE at == Demo!SelectInSeq(list, LAMBDA v : v = d)
             I == {i \in 1..Len(list) : list[i] = d}
  <2>1. I \subseteq Nat /\ I # {}
    BY <1>1, <1>3 DEF Demo!Contains
  <2>2. at = Demo!Min(I)
    BY <2>1 DEF Demo!SelectInSeq
  <2>3. at \in I
    <3> HIDE DEF I, at
    <3> QED
      BY <2>1, <2>2, LeastNumber DEF Demo!Min
  <2>4. PICK k \in 1..Len(list) : k = at /\ list[k] = d
    BY <2>3
  <2> DEFINE left == SubSeq(list, 1, k - 1)
             right == SubSeq(list, k + 1, Len(list))
             new == left \o right
  <2>5. Demo!RemoveFirst(list, d) = new
    BY <2>4 DEF Demo!RemoveFirst, Demo!RemoveAt
  <2> HIDE DEF at, I
  <2>6. /\ left \in Seq(Dates) /\ Len(left) = k - 1
        /\ \A i \in 1..(k - 1) : left[i] = list[i]
    BY <1>1
  <2>7. /\ right \in Seq(Dates) /\ Len(right) = Len(list) - k
        /\ \A i \in 1..(Len(list) - k) : right[i] = list[k + i]
    BY <1>1
  <2>8. /\ new \in Seq(Dates) /\ Len(new) = Len(list) - 1
        /\ \A i \in 1..(Len(list) - 1) :
             new[i] = IF i < k THEN list[i] ELSE list[i + 1]
    <3> HIDE DEF left, right
    <3>1. /\ new \in Seq(Dates) /\ Len(new) = Len(left) + Len(right)
          /\ \A i \in 1..(Len(left) + Len(right)) :
               new[i] = IF i <= Len(left) THEN left[i] ELSE right[i - Len(left)]
      <4>1. \A l, r \in Seq(Dates) :
              /\ l \o r \in Seq(Dates) /\ Len(l \o r) = Len(l) + Len(r)
              /\ \A i \in 1..(Len(l) + Len(r)) :
                   (l \o r)[i] = IF i <= Len(l) THEN l[i] ELSE r[i - Len(l)]
        BY ConcatProperties
      <4> QED
        BY <2>6, <2>7, <4>1, Zenon
    <3> HIDE DEF new
    <3>2. \A i \in 1..(Len(list) - 1) : i < k => new[i] = list[i]
      BY <1>1, <2>4, <2>6, <2>7, <3>1
    <3>3. ASSUME NEW i \in 1..(Len(list) - 1), ~ (i < k)
          PROVE  new[i] = list[i + 1]
      <4>1. i - (k - 1) \in 1..(Len(list) - k) /\ k + (i - (k - 1)) = i + 1
        BY <1>1, <3>3
      <4>2. new[i] = right[i - (k - 1)]
        <5>1. Len(left) = k - 1 /\ Len(right) = Len(list) - k
          BY <2>6, <2>7
        <5>2. i \in 1..(Len(left) + Len(right)) /\ ~ (i <= Len(left))
          BY <1>1, <3>3, <5>1
        <5> QED
          BY <3>1, <5>1, <5>2, Zenon
      <4>3. right[i - (k - 1)] = list[k + (i - (k - 1))]
        BY <2>7, <4>1, Zenon
      <4>4. list[k + (i - (k - 1))] = list[i + 1]
        BY <4>1, Zenon
      <4> QED
        BY <4>2, <4>3, <4>4, Zenon
    <3> QED
      BY <1>1, <2>4, <2>6, <2>7, <3>1, <3>2, <3>3
  <2> HIDE DEF new
  <2>9. ASSUME NEW x, x \in Demo!Repeated(new)
        PROVE  x \in Demo!Repeated(list)
    <3>1. PICK i, j \in 1..(Len(list) - 1) :
            x \in Dates /\ i # j /\ new[i] = x /\ new[j] = x
      BY <2>8, <2>9, Repeats DEF Lists
    <3> DEFINE old(n) == IF n < k THEN n ELSE n + 1
    <3>2. /\ old(i) \in 1..Len(list) /\ old(j) \in 1..Len(list) /\ old(i) # old(j)
          /\ list[old(i)] = x /\ list[old(j)] = x
      BY <1>1, <2>8, <3>1
    <3> QED
      BY <3>1, <3>2, Repeats
  <2>10. ASSUME Demo!Contains(new, d)
         PROVE  d \in Demo!Repeated(list)
    <3>1. PICK i \in 1..(Len(list) - 1) : new[i] = d
      BY <2>8, <2>10 DEF Demo!Contains
    <3> DEFINE old == IF i < k THEN i ELSE i + 1
    <3>2. old \in 1..Len(list) /\ old # k /\ list[old] = d
      BY <1>1, <2>8, <3>1
    <3> QED
      BY <2>4, <3>2, Repeats
  <2> QED
    BY <2>5, <2>8, <2>9, <2>10 DEF Lists
<1> QED
  BY <1>2, <1>3

LEMMA ChangesList ==
  ASSUME NEW list \in Lists, NEW o, o.op \in {"block", "unblock"}, o.date \in Dates
  PROVE  /\ Demo!Changed(list, o) \in Lists
         /\ Needed(list, o) /\ Demo!Repeated(list) \subseteq twice =>
              /\ Demo!Repeated(Demo!Changed(list, o)) \subseteq twice
              /\ Done(Demo!Changed(list, o), o)
<1>1. CASE o.op = "block"
  <2>1. Demo!Changed(list, o) = Append(list, o.date)
    BY <1>1 DEF Demo!Changed
  <2> QED
    BY <1>1, <2>1, Appended DEF Needed, Done
<1>2. CASE o.op = "unblock"
  <2>1. Demo!Changed(list, o) = Demo!RemoveFirst(list, o.date)
    BY <1>2 DEF Demo!Changed
  <2> QED
    BY <1>2, <2>1, Removed DEF Needed, Done
<1> QED
  BY <1>1, <1>2

LEMMA NoneIsNoConfiguration == None \notin Configurations
BY NoneIsNothing DEF Configurations, Lists

LEMMA DemoStarts == Demo!Init => DemoIInv
<1> SUFFICES ASSUME Demo!Init
             PROVE  DemoIInv
  OBVIOUS
<1>1. /\ row = None /\ default = [p \in Processes |-> <<>>] /\ fails = 0
      /\ asked = [t \in Threads |-> [pc |-> "idle"]]
      /\ alone = {} /\ answered = None /\ twice = {}
  BY DEF Demo!Init, Demo!Idle
<1>2. StoreOK
  BY <1>1, EmptyRepeatsNothing, FailuresAreCounted DEF StoreOK
<1>3. RequestsOK
  BY <1>1 DEF RequestsOK
<1>4. SinglesOK
  BY <1>1, EmptyRepeatsNothing DEF SinglesOK, Demo!Busy, Demo!At
<1>5. DefaultsOK
  BY <1>1 DEF DefaultsOK
<1>6. LonesOK /\ AnsweredOK
  BY <1>1 DEF LonesOK, AnsweredOK
<1> QED
  BY <1>2, <1>3, <1>4, <1>5, <1>6 DEF DemoIInv

LEMMA DemoServes ==
  ASSUME DemoIInv, NEW t \in Threads, NEW r, Demo!Serve(t, r)
  PROVE  /\ asked'[t] = r /\ \A u \in Threads : u # t => asked'[u] = asked[u]
         /\ asked' = [u \in Threads |-> asked'[u]]
BY DEF DemoIInv, RequestsOK, Demo!Serve

LEMMA BusyIs ==
  ASSUME DemoIInv, NEW t \in Threads
  PROVE  /\ Demo!Busy(t) <=> asked[t].pc \in {"change", "commit"}
         /\ asked[t].pc = "change" => ChangeOK(asked[t])
         /\ asked[t].pc = "commit" => CommitOK(asked[t])
         /\ ~ Demo!Busy(t) => asked[t] = [pc |-> "idle"]
BY DEF DemoIInv, RequestsOK, ChangeOK, CommitOK, Demo!Busy, Demo!At

LEMMA StoredIs ==
  ASSUME DemoIInv
  PROVE  /\ Demo!Stored \in Configurations
         /\ Demo!Stored = IF row = None
                          THEN [schedule |-> "default", blocked |-> <<>>] ELSE row
         /\ Demo!Repeated(Demo!Stored.blocked) \subseteq twice
<1>1. Demo!Stored = IF row = None
                    THEN [schedule |-> "default", blocked |-> <<>>] ELSE row
  BY DEF Demo!Stored, Demo!DefaultConfig
<1> QED
  BY <1>1, EmptyRepeatsNothing
     DEF DemoIInv, StoreOK, SinglesOK, Configurations, Schedules

LEMMA CurrentIs ==
  ASSUME DemoIInv, NEW p \in Processes
  PROVE  Demo!Current(p).blocked = IF row = None THEN default[p] ELSE Demo!Stored.blocked
<1> DEFINE list == default[p]
           given == [schedule |-> "default", blocked |-> <<>>]
<1>1. [given EXCEPT !.blocked = list] = [schedule |-> "default", blocked |-> list]
  <2>1. given = [schedule |-> given.schedule, blocked |-> given.blocked]
        /\ given.schedule = "default"
    OBVIOUS
  <2>2. [given EXCEPT !.blocked = list] =
          [schedule |-> given.schedule, blocked |-> list]
    <3> HIDE DEF list, given
    <3> QED
      BY <2>1, ConfigurationWith, Zenon
  <2> HIDE DEF list
  <2> QED
    BY <2>1, <2>2, Zenon
<1>2. row = None => Demo!Current(p) = [schedule |-> "default", blocked |-> list]
  BY <1>1, Zenon DEF Demo!Current, Demo!DefaultConfig
<1>3. row # None => Demo!Current(p) = row
  BY Zenon DEF Demo!Current
<1> HIDE DEF list
<1> QED
  BY <1>2, <1>3, StoredIs DEF list

LEMMA HeldIs ==
  ASSUME DemoIInv, NEW t \in Threads, Demo!Busy(t)
  PROVE  /\ Demo!Held(t) = [schedule |-> asked[t].config.schedule,
                            blocked |-> HeldList(asked[t])]
         /\ Demo!Held(t) \in Configurations
         /\ HeldList(asked[t]) \in Lists
         /\ Demo!Repeated(HeldList(asked[t])) \subseteq twice
<1> DEFINE q == asked[t]
           list == default[q.proc]
<1>1. /\ q.config = [schedule |-> q.config.schedule, blocked |-> q.config.blocked]
      /\ q.config.schedule \in Schedules /\ q.config.blocked \in Lists
      /\ q.proc \in Processes /\ list \in Lists
  BY BusyIs DEF ChangeOK, CommitOK, DemoIInv, StoreOK, Configurations
<1>2. [q.config EXCEPT !.blocked = list] =
        [schedule |-> q.config.schedule, blocked |-> list]
  <2> DEFINE config == q.config
  <2>1. config = [schedule |-> config.schedule, blocked |-> config.blocked]
    BY <1>1
  <2> HIDE DEF list, config
  <2>2. [config EXCEPT !.blocked = list] =
          [schedule |-> config.schedule, blocked |-> list]
    BY <2>1, ConfigurationWith, Zenon
  <2> QED
    BY <2>2, Zenon DEF config
<1>3. Demo!Held(t) = IF q.shared THEN [schedule |-> q.config.schedule, blocked |-> list]
                     ELSE q.config
  BY <1>2, Zenon DEF Demo!Held
<1>4. HeldList(q) = IF q.shared THEN list ELSE q.config.blocked
  BY DEF HeldList
<1>5. /\ Demo!Repeated(list) \subseteq twice
      /\ Demo!Repeated(q.config.blocked) \subseteq twice
  BY <1>1 DEF DemoIInv, SinglesOK
<1> HIDE DEF list, q
<1>6. HeldList(q) \in Lists /\ Demo!Repeated(HeldList(q)) \subseteq twice
  BY <1>1, <1>4, <1>5
<1>7. Demo!Held(t) = [schedule |-> q.config.schedule, blocked |-> HeldList(q)]
  BY <1>1, <1>3, <1>4
<1> QED
  BY <1>1, <1>6, <1>7 DEF Configurations, q

(* The parts of the invariant that speak of one request, of the lists, of  *)
(* the defaults.                                                           *)
LEMMA RequestsStay ==
  ASSUME DemoIInv, NEW t \in Threads, row # None => row' # None,
         asked' = [u \in Threads |-> asked'[u]],
         \A u \in Threads : u # t => asked'[u] = asked[u],
         asked'[t] = [pc |-> "idle"] \/ ChangeOK(asked[t])' \/ CommitOK(asked[t])'
  PROVE  RequestsOK'
<1>1. \A u \in Threads : u # t =>
        asked'[u] = [pc |-> "idle"] \/ ChangeOK(asked[u])' \/ CommitOK(asked[u])'
  BY DEF DemoIInv, RequestsOK, ChangeOK, CommitOK
<1> QED
  BY <1>1 DEF RequestsOK

LEMMA SinglesStay ==
  ASSUME DemoIInv, NEW t \in Threads, UNCHANGED <<row, default>>,
         twice \subseteq twice',
         \A u \in Threads : u # t => asked'[u] = asked[u],
         Demo!Busy(t)' => Demo!Repeated(asked'[t].config.blocked) \subseteq twice'
  PROVE  SinglesOK'
BY DEF DemoIInv, SinglesOK, Demo!Repeated, Demo!Busy, Demo!At

LEMMA DefaultsStay ==
  ASSUME DemoIInv, NEW t \in Threads, UNCHANGED <<row, default, fails>>,
         \A u \in Threads : u # t => asked'[u] = asked[u],
         asked[t].pc # "commit"
  PROVE  DefaultsOK'
BY DEF DemoIInv, DefaultsOK

(* While nobody stores anything, a quiet service has empty defaults. *)
LEMMA QuietDefaults ==
  ASSUME DemoIInv, NEW p \in Processes, row = None, fails = 0,
         \A t \in Threads : asked[t].pc # "commit"
  PROVE  default[p] = <<>>
BY DEF DemoIInv, DefaultsOK

LEMMA LoadDemoKeeps ==
  ASSUME DemoIInv, NEW t \in Threads, NEW p \in Processes, NEW o \in Demo!Op,
         Demo!Load(t, p, o)
  PROVE  DemoIInv'
<1> DEFINE list == Demo!Current(p).blocked
           stored == Demo!Stored
           q == [pc |-> "change", proc |-> p, op |-> o, config |-> stored,
                 shared |-> row = None]
<1>1. /\ ~ Demo!Busy(t) /\ o.op # "put" /\ UNCHANGED <<row, default, fails, twice>>
      /\ \/ /\ IF o.op = "block" THEN ~ Demo!Contains(list, o.date)
               ELSE Demo!Contains(list, o.date)
            /\ Demo!Begin(t, q)
         \/ /\ IF o.op = "block" THEN Demo!Contains(list, o.date)
               ELSE ~ Demo!Contains(list, o.date)
            /\ alone' = {} /\ answered' = IF Demo!Quiet THEN o ELSE None
            /\ UNCHANGED asked
  BY Zenon DEF Demo!Load
<1>2. /\ o.op \in {"block", "unblock"} /\ o.date \in Dates
      /\ asked[t].pc = "idle" /\ UNCHANGED <<row, default, fails, twice>>
  BY <1>1, BusyIs DEF Demo!Op
<1> HIDE DEF list, q
<1>3. \/ Needed(list, o) /\ Demo!Begin(t, q)
      \/ /\ \/ o.op = "block" /\ Demo!Contains(list, o.date)
            \/ o.op = "unblock" /\ ~ Demo!Contains(list, o.date)
         /\ alone' = {} /\ answered' = IF Demo!Quiet THEN o ELSE None
         /\ UNCHANGED asked
  BY <1>1, <1>2 DEF Needed
<1>4. list = IF row = None THEN default[p] ELSE stored.blocked
  BY CurrentIs DEF list
<1>5. stored' = stored
  BY <1>2 DEF Demo!Stored
<1>6. stored \in Configurations /\ Demo!Repeated(stored.blocked) \subseteq twice
      /\ (row # None => stored = row)
  BY StoredIs
<1>7. StoreOK'
  BY <1>2 DEF DemoIInv, StoreOK
<1>8. CASE Needed(list, o) /\ Demo!Begin(t, q)
  <2>1. /\ Demo!Serve(t, q) /\ answered' = None
        /\ alone' = IF Demo!Quiet THEN {t} ELSE {}
    BY <1>8, Zenon DEF Demo!Begin
  <2> HIDE DEF stored
  <2>2. /\ asked'[t] = q /\ \A u \in Threads : u # t => asked'[u] = asked[u]
        /\ asked' = [u \in Threads |-> asked'[u]]
    BY <2>1, DemoServes
  <2>3. /\ asked'[t].pc = "change" /\ asked'[t].proc = p /\ asked'[t].op = o
        /\ asked'[t].config = stored /\ asked'[t].shared = (row = None)
        /\ asked'[t] = [pc |-> "change", proc |-> asked'[t].proc, op |-> asked'[t].op,
                        config |-> asked'[t].config, shared |-> asked'[t].shared]
    BY <2>2 DEF q
  <2>4. RequestsOK'
    <3>1. ChangeOK(asked[t])'
      BY <1>1, <1>6, <2>3 DEF ChangeOK, Demo!Op
    <3> QED
      BY <1>2, <2>2, <3>1, RequestsStay
  <2>5. SinglesOK'
    BY <1>2, <1>6, <2>2, <2>3, SinglesStay
  <2>6. DefaultsOK'
    BY <1>2, <2>2, DefaultsStay
  <2>7. LonesOK'
    <3>1. ASSUME Demo!Quiet
          PROVE  LoneChange(asked[t])'
      <4>1. HeldList(asked[t])' = list
        <5>1. CASE row = None
          <6>1. asked'[t].shared
            BY <2>3, <5>1, Zenon
          <6> QED
            BY <1>2, <1>4, <2>3, <5>1, <6>1 DEF HeldList
        <5>2. CASE row # None
          <6>1. ~ asked'[t].shared
            BY <2>3, <5>2, Zenon
          <6> QED
            BY <1>4, <2>3, <5>2, <6>1 DEF HeldList
        <5> QED
          BY <5>1, <5>2
      <4>2. (asked'[t].shared <=> row' = None)
        BY <1>2, <2>3, Zenon
      <4>3. asked'[t].config = Demo!Stored'
        BY <1>5, <2>3 DEF stored
      <4> QED
        BY <1>2, <1>8, <2>3, <4>1, <4>2, <4>3
           DEF LoneChange, Needed, Demo!Contains
    <3> QED
      BY <2>1, <2>2, <3>1 DEF LonesOK, Demo!Quiet, Demo!Busy, Demo!At
  <2>8. AnsweredOK'
    BY <2>1 DEF AnsweredOK
  <2> QED
    BY <1>7, <2>4, <2>5, <2>6, <2>7, <2>8 DEF DemoIInv
<1>9. CASE /\ \/ o.op = "block" /\ Demo!Contains(list, o.date)
              \/ o.op = "unblock" /\ ~ Demo!Contains(list, o.date)
           /\ alone' = {} /\ answered' = IF Demo!Quiet THEN o ELSE None
           /\ UNCHANGED asked
  <2> HIDE DEF stored
  <2>1. RequestsOK' /\ SinglesOK' /\ DefaultsOK' /\ LonesOK'
    BY <1>2, <1>9
       DEF DemoIInv, RequestsOK, ChangeOK, CommitOK, SinglesOK, Demo!Repeated,
           Demo!Busy, Demo!At, DefaultsOK, LonesOK
  <2>2. ASSUME Demo!Quiet, row = None
        PROVE  o.op = "block" => fails > 0
    <3>1. list = default[p]
      BY <1>4, <2>2
    <3>2. fails = 0 => list = <<>>
      BY <2>2, <3>1, QuietDefaults DEF Demo!Quiet, Demo!Busy, Demo!At
    <3>3. fails # 0 => fails > 0
      BY FailuresAreCounted DEF DemoIInv, StoreOK
    <3> QED
      BY <1>9, <3>2, <3>3 DEF Demo!Contains
  <2>3. row # None => list = row.blocked
    BY <1>4, <1>6
  <2>4. AnsweredOK'
    BY <1>2, <1>9, <2>2, <2>3
       DEF AnsweredOK, Demo!Quiet, Demo!Busy, Demo!At, Demo!Contains
  <2> QED
    BY <1>7, <2>1, <2>4 DEF DemoIInv
<1> QED
  BY <1>3, <1>8, <1>9

LEMMA PutDemoKeeps ==
  ASSUME DemoIInv, NEW t \in Threads, NEW p \in Processes, NEW o \in Demo!Op,
         Demo!Put(t, p, o)
  PROVE  DemoIInv'
<1> DEFINE q == [pc |-> "commit", proc |-> p, op |-> o, config |-> o.config,
                 shared |-> FALSE, seen |-> row]
<1>1. /\ ~ Demo!Busy(t) /\ o.op = "put"
      /\ Demo!Begin(t, q) /\ twice' = twice \cup Demo!Repeated(o.config.blocked)
      /\ UNCHANGED <<row, default, fails>>
  BY Zenon DEF Demo!Put
<1>2. /\ Demo!Serve(t, q) /\ answered' = None
      /\ alone' = IF Demo!Quiet THEN {t} ELSE {}
  BY <1>1, Zenon DEF Demo!Begin
<1>3. o.config \in Configurations
  <2>1. o.config \in Bodies
    BY <1>1 DEF Demo!Op
  <2>2. \A d \in Dates : <<d, d>> \in Lists
    BY DEF Lists
  <2> QED
    BY <2>1, <2>2 DEF Bodies, Configurations, Schedules
<1>4. /\ asked'[t] = q /\ \A u \in Threads : u # t => asked'[u] = asked[u]
      /\ asked' = [u \in Threads |-> asked'[u]]
  <2> HIDE DEF q
  <2> QED
    BY <1>2, DemoServes
<1>5. /\ asked'[t].pc = "commit" /\ asked'[t].proc = p /\ asked'[t].op = o
      /\ asked'[t].config = o.config /\ asked'[t].shared = FALSE
      /\ asked'[t].seen = row
      /\ asked'[t] = [pc |-> "commit", proc |-> asked'[t].proc, op |-> asked'[t].op,
                      config |-> asked'[t].config, shared |-> asked'[t].shared,
                      seen |-> asked'[t].seen]
  BY <1>4
<1> HIDE DEF q
<1>6. StoreOK'
  <2>1. Demo!Repeated(o.config.blocked) \subseteq Dates
    BY DEF Demo!Repeated
  <2> QED
    BY <1>1, <2>1 DEF DemoIInv, StoreOK
<1>7. RequestsOK'
  <2>1. CommitOK(asked[t])'
    BY <1>1, <1>3, <1>5 DEF CommitOK, Demo!Op
  <2> QED
    BY <1>1, <1>4, <2>1, RequestsStay
<1>8. SinglesOK'
  BY <1>1, <1>4, <1>5, SinglesStay
<1>9. asked[t].pc # "commit"
  BY <1>1 DEF Demo!Busy, Demo!At
<1>10. DefaultsOK'
  BY <1>1, <1>4, <1>9, DefaultsStay
<1>11. LonesOK'
  <2>1. LoneCommit(asked[t])'
    BY <1>1, <1>5 DEF LoneCommit
  <2> QED
    BY <1>2, <1>4, <2>1 DEF LonesOK, Demo!Quiet, Demo!Busy, Demo!At
<1>12. AnsweredOK'
  BY <1>2 DEF AnsweredOK
<1> QED
  BY <1>6, <1>7, <1>8, <1>10, <1>11, <1>12 DEF DemoIInv

(* A lone request that is busy is the only one, and nobody was answered.   *)
LEMMA BusyAlone ==
  ASSUME DemoIInv, NEW t \in Threads, Demo!Busy(t)
  PROVE  /\ answered = None
         /\ alone \subseteq {t}
         /\ t \in alone => /\ \A u \in Threads \ {t} : ~ Demo!Busy(u)
                           /\ LoneChange(asked[t]) \/ LoneCommit(asked[t])
BY DEF DemoIInv, AnsweredOK, LonesOK, Demo!Quiet

LEMMA RaiseKeeps ==
  ASSUME DemoIInv, NEW t \in Threads, Demo!RemoveRaises(t)
  PROVE  DemoIInv' /\ t \notin alone
<1>1. /\ Demo!Serve(t, [pc |-> "idle"]) /\ alone' = {} /\ answered' = None
      /\ asked[t].pc = "change" /\ UNCHANGED <<row, default, fails, twice>>
  BY DEF Demo!RemoveRaises, Demo!Fail, Demo!Idle, Demo!At
<1>2. /\ asked'[t] = [pc |-> "idle"] /\ \A u \in Threads : u # t => asked'[u] = asked[u]
      /\ asked' = [u \in Threads |-> asked'[u]]
  BY <1>1, DemoServes
<1>3. StoreOK' /\ LonesOK' /\ AnsweredOK'
  BY <1>1 DEF DemoIInv, StoreOK, LonesOK, AnsweredOK
<1>4. RequestsOK'
  BY <1>1, <1>2, RequestsStay
<1>5. SinglesOK'
  <2>1. ~ Demo!Busy(t)'
    BY <1>2 DEF Demo!Busy, Demo!At
  <2> QED
    BY <1>1, <1>2, <2>1, SinglesStay
<1>6. DefaultsOK'
  BY <1>1, <1>2, DefaultsStay
<1>7. t \notin alone
  <2>1. Demo!Busy(t)
    BY <1>1 DEF Demo!Busy, Demo!At
  <2>2. Demo!Held(t).blocked = HeldList(asked[t])
    BY <2>1, HeldIs
  <2>3. /\ asked[t].op.op = "unblock"
        /\ ~ Demo!Contains(HeldList(asked[t]), asked[t].op.date)
    BY <2>2, Zenon DEF Demo!RemoveRaises, Demo!Gone
  <2>4. ~ LoneCommit(asked[t])
    BY <1>1 DEF LoneCommit
  <2> QED
    BY <2>1, <2>3, <2>4, BusyAlone DEF LoneChange, Needed
<1> QED
  BY <1>3, <1>4, <1>5, <1>6, <1>7 DEF DemoIInv

(* The changed list is the one the request holds from then on. *)
LEMMA ChangeKeeps ==
  ASSUME DemoIInv, NEW t \in Threads, Demo!Change(t)
  PROVE  DemoIInv'
<1> DEFINE r == asked[t]
           list == Demo!Changed(Demo!Held(t).blocked, r.op)
           held == HeldList(r)
           config == IF r.shared THEN r.config
                     ELSE [schedule |-> r.config.schedule, blocked |-> list]
           q == [pc |-> "commit", proc |-> r.proc, op |-> r.op,
                 config |-> config, shared |-> r.shared, seen |-> row]
<1>1. /\ r.pc = "change" /\ UNCHANGED <<row, fails, alone, answered>>
      /\ default' = IF r.shared THEN [default EXCEPT ![r.proc] = list] ELSE default
      /\ Demo!Serve(t, [pc |-> "commit", proc |-> r.proc, op |-> r.op,
                        config |-> IF r.shared THEN r.config
                                   ELSE [r.config EXCEPT !.blocked = list],
                        shared |-> r.shared, seen |-> row])
      /\ twice' = IF t \in alone THEN twice ELSE twice \cup Demo!Repeated(list)
  BY Zenon DEF Demo!Change, Demo!At
<1>2. ChangeOK(r) /\ Demo!Busy(t)
  BY <1>1, BusyIs
<1>3. /\ Demo!Held(t) = [schedule |-> r.config.schedule, blocked |-> held]
      /\ held \in Lists /\ Demo!Repeated(held) \subseteq twice
  BY <1>2, HeldIs
<1>4. r.op.op \in {"block", "unblock"} /\ r.op.date \in Dates
  BY <1>2 DEF ChangeOK, Demo!Op
<1>5. list = Demo!Changed(held, r.op)
  <2>1. Demo!Held(t).blocked = held
    BY <1>3
  <2> QED
    BY <2>1, Zenon
<1> HIDE DEF list
<1>6. list \in Lists /\ (Needed(held, r.op) =>
                           /\ Demo!Repeated(list) \subseteq twice
                           /\ Done(list, r.op))
  BY <1>3, <1>4, <1>5, ChangesList
<1>7. [r.config EXCEPT !.blocked = list] =
        [schedule |-> r.config.schedule, blocked |-> list]
  <2> DEFINE old == r.config
  <2>1. old = [schedule |-> old.schedule, blocked |-> old.blocked]
    BY <1>2 DEF ChangeOK, Configurations
  <2> HIDE DEF old
  <2>2. [old EXCEPT !.blocked = list] = [schedule |-> old.schedule, blocked |-> list]
    BY <2>1, ConfigurationWith, Zenon
  <2> QED
    BY <2>2, Zenon DEF old
<1>8. Demo!Serve(t, q)
  BY <1>1, <1>7, Zenon
<1>9. /\ r.config \in Configurations /\ r.shared \in BOOLEAN /\ r.proc \in Processes
      /\ default \in [Processes -> Lists]
  BY <1>2 DEF ChangeOK, DemoIInv, StoreOK
<1>10. /\ config \in Configurations /\ config.schedule = r.config.schedule
       /\ r.shared => config = r.config
       /\ ~ r.shared => config.blocked = list
  BY <1>6, <1>9 DEF Configurations
<1> HIDE DEF config
<1>11. /\ asked'[t] = q /\ \A u \in Threads : u # t => asked'[u] = asked[u]
       /\ asked' = [u \in Threads |-> asked'[u]]
  <2> HIDE DEF q
  <2> QED
    BY <1>8, DemoServes
<1>12. /\ asked'[t].pc = "commit" /\ asked'[t].proc = r.proc /\ asked'[t].op = r.op
       /\ asked'[t].config = config /\ asked'[t].shared = r.shared
       /\ asked'[t].seen = row
       /\ asked'[t] = [pc |-> "commit", proc |-> asked'[t].proc, op |-> asked'[t].op,
                       config |-> asked'[t].config, shared |-> asked'[t].shared,
                       seen |-> asked'[t].seen]
  BY <1>11
<1> HIDE DEF q
<1>13. /\ UNCHANGED <<row, fails, alone, answered>>
       /\ default' \in [Processes -> Lists]
       /\ r.shared => default'[r.proc] = list
       /\ \A p \in Processes : ~ r.shared \/ p # r.proc => default'[p] = default[p]
  <2>1. CASE r.shared
    BY <1>1, <1>6, <1>9, <2>1
  <2>2. CASE ~ r.shared
    BY <1>1, <1>9, <2>2
  <2> QED
    BY <2>1, <2>2
<1>14. t \in alone => Needed(held, r.op)
  BY <1>1, <1>2, BusyAlone DEF LoneChange, LoneCommit
<1>15. /\ twice \subseteq twice' /\ twice' \subseteq Dates
       /\ Demo!Repeated(list) \subseteq twice'
       /\ t \in alone => twice' = twice
  BY <1>1, <1>6, <1>14 DEF DemoIInv, StoreOK, Demo!Repeated
<1>16. StoreOK'
  BY <1>13, <1>15 DEF DemoIInv, StoreOK
<1>17. RequestsOK'
  <2>1. CommitOK(asked[t])'
    BY <1>2, <1>9, <1>10, <1>12, <1>13 DEF CommitOK, ChangeOK
  <2> QED
    BY <1>11, <1>13, <2>1, RequestsStay
<1>18. SinglesOK'
  <2>1. Demo!Repeated(config.blocked) \subseteq twice'
    <3>1. Demo!Repeated(r.config.blocked) \subseteq twice
      BY <1>2 DEF DemoIInv, SinglesOK
    <3> QED
      BY <1>9, <1>10, <1>15, <3>1
  <2>2. \A p \in Processes : Demo!Repeated(default'[p]) \subseteq twice'
    BY <1>9, <1>13, <1>15 DEF DemoIInv, SinglesOK
  <2> QED
    BY <1>11, <1>12, <1>13, <1>15, <2>1, <2>2
       DEF DemoIInv, SinglesOK, Demo!Busy, Demo!At, Demo!Repeated
<1>19. DefaultsOK'
  <2>1. \A u \in Threads : asked[u].pc = "commit" => asked'[u] = asked[u]
    BY <1>1, <1>11
  <2> SUFFICES ASSUME row' = None, fails' = 0, NEW p \in Processes,
                      default'[p] # <<>>
               PROVE  \E u \in Threads : /\ asked'[u].pc = "commit"
                                         /\ asked'[u].shared /\ asked'[u].proc = p
    BY DEF DefaultsOK
  <2>2. CASE r.shared /\ p = r.proc
    BY <1>12, <2>2, Zenon
  <2>3. CASE ~ r.shared \/ p # r.proc
    <3>1. default[p] # <<>> /\ row = None /\ fails = 0
      BY <1>13, <2>3
    <3>2. PICK u \in Threads : asked[u].pc = "commit" /\ asked[u].shared /\ asked[u].proc = p
      BY <3>1, Zenon DEF DemoIInv, DefaultsOK
    <3> QED
      BY <2>1, <3>2, Zenon
  <2> QED
    BY <2>2, <2>3
<1>20. LonesOK'
  <2> SUFFICES ASSUME t \in alone
               PROVE  LoneCommit(asked[t])' /\ \A u \in Threads \ {t} : ~ Demo!Busy(u)'
    BY <1>2, <1>13, BusyAlone DEF LonesOK
  <2>1. /\ (r.shared <=> row = None) /\ r.config = Demo!Stored
        /\ \A u \in Threads \ {t} : ~ Demo!Busy(u)
    BY <1>1, <1>2, BusyAlone, Zenon DEF LoneChange, LoneCommit
  <2>2. HeldList(asked[t])' = list
    BY <1>9, <1>10, <1>12, <1>13 DEF HeldList
  <2>3. Demo!Stored' = Demo!Stored
    BY <1>13 DEF Demo!Stored
  <2>4. fails = 0 \/ row # None => held = Demo!Stored.blocked
    <3>1. row # None => held = Demo!Stored.blocked
      BY <2>1, <1>9 DEF HeldList
    <3>2. row = None /\ fails = 0 => held = default[r.proc] /\ default[r.proc] = <<>>
      BY <1>1, <1>9, <2>1, QuietDefaults DEF HeldList, Demo!Busy, Demo!At
    <3> QED
      BY <3>1, <3>2, StoredIs
  <2>5. LoneCommit(asked[t])'
    <3>1. Done(HeldList(asked[t]), asked[t].op)'
      BY <1>6, <1>12, <1>14, <1>15, <2>2 DEF Done, Demo!Contains
    <3>2. asked'[t].config.schedule = Demo!Stored'.schedule
      BY <1>10, <1>12, <2>1, <2>3
    <3>3. ASSUME fails = 0 \/ row # None
          PROVE  /\ Needed(Demo!Stored'.blocked, r.op)
                 /\ list = Demo!Changed(Demo!Stored'.blocked, r.op)
      BY <1>5, <1>14, <2>3, <2>4, <3>3, Zenon
    <3> QED
      BY <1>12, <1>13, <2>2, <3>1, <3>2, <3>3
         DEF LoneCommit, Needed, Demo!Contains, Demo!Changed
  <2>6. \A u \in Threads \ {t} : ~ Demo!Busy(u)'
    BY <1>11, <2>1 DEF Demo!Busy, Demo!At
  <2> QED
    BY <2>5, <2>6
<1>21. AnsweredOK'
  BY <1>2, <1>13, BusyAlone DEF AnsweredOK
<1> QED
  BY <1>16, <1>17, <1>18, <1>19, <1>20, <1>21 DEF DemoIInv

(* What a lone request writes is the configuration it holds. *)
LEMMA CommitIs ==
  ASSUME DemoIInv, NEW t \in Threads, Demo!Commit(t)
  PROVE  /\ CommitOK(asked[t]) /\ Demo!Busy(t)
         /\ Demo!Serve(t, [pc |-> "idle"]) /\ UNCHANGED <<default, fails, twice>>
         /\ alone' = {}
         /\ row' # None
         /\ row' = row \/ row' = Demo!Held(t)
         /\ answered' = IF t \in alone THEN asked[t].op ELSE None
         /\ t \in alone => row' = Demo!Held(t)
<1>1. asked[t].pc = "commit" /\ UNCHANGED <<default, fails, twice>>
  BY Zenon DEF Demo!Commit, Demo!At
<1>2. CommitOK(asked[t]) /\ Demo!Busy(t)
  BY <1>1, BusyIs
<1>3. Demo!Held(t) # None
  BY <1>2, HeldIs, NoneIsNoConfiguration
<1>4. t \in alone => asked[t].seen = row
  BY <1>1, <1>2, BusyAlone DEF LoneChange, LoneCommit
<1>5. CASE asked[t].seen = None /\ row # None
  <2>1. Demo!Fail(t) /\ UNCHANGED row
    BY <1>5, Zenon DEF Demo!Commit
  <2>2. /\ Demo!Serve(t, [pc |-> "idle"]) /\ alone' = {} /\ answered' = None
        /\ UNCHANGED row
    BY <2>1, Zenon DEF Demo!Fail, Demo!Idle
  <2> QED
    BY <1>1, <1>2, <1>4, <1>5, <2>2
<1>6. CASE ~ (asked[t].seen = None /\ row # None)
  <2>1. row' = Demo!Saved(t) /\ Demo!Answer(t)
    BY <1>6, Zenon DEF Demo!Commit
  <2>2. /\ Demo!Serve(t, [pc |-> "idle"]) /\ alone' = {}
        /\ answered' = IF t \in alone THEN asked[t].op ELSE None
    BY <2>1, Zenon DEF Demo!Answer, Demo!Idle
  <2>3. row' = IF Demo!Held(t) = asked[t].seen THEN row ELSE Demo!Held(t)
    BY <2>1, Zenon DEF Demo!Saved
  <2>4. Demo!Held(t) = asked[t].seen => row # None
    BY <1>2, <1>3 DEF CommitOK
  <2> QED
    BY <1>1, <1>2, <1>3, <1>4, <2>2, <2>3, <2>4
<1> QED
  BY <1>5, <1>6

LEMMA CommitDemoKeeps ==
  ASSUME DemoIInv, NEW t \in Threads, Demo!Commit(t)
  PROVE  DemoIInv'
<1> DEFINE q == asked[t]
<1>1. /\ CommitOK(q) /\ Demo!Busy(t)
      /\ Demo!Serve(t, [pc |-> "idle"]) /\ UNCHANGED <<default, fails, twice>>
      /\ alone' = {} /\ row' # None
      /\ row' = row \/ row' = Demo!Held(t)
      /\ answered' = IF t \in alone THEN q.op ELSE None
      /\ t \in alone => row' = Demo!Held(t)
  BY CommitIs
<1>2. /\ Demo!Held(t).blocked = HeldList(q) /\ Demo!Held(t) \in Configurations
      /\ Demo!Repeated(HeldList(q)) \subseteq twice
  BY <1>1, HeldIs
<1>3. /\ asked'[t] = [pc |-> "idle"] /\ \A u \in Threads : u # t => asked'[u] = asked[u]
      /\ asked' = [u \in Threads |-> asked'[u]]
  BY <1>1, DemoServes
<1>4. StoreOK'
  BY <1>1, <1>2 DEF DemoIInv, StoreOK
<1>5. RequestsOK'
  BY <1>1, <1>3, RequestsStay
<1>6. SinglesOK'
  <2>1. Demo!Repeated(row'.blocked) \subseteq twice
    BY <1>1, <1>2 DEF DemoIInv, SinglesOK
  <2> QED
    BY <1>1, <1>3, <2>1
       DEF DemoIInv, SinglesOK, Demo!Busy, Demo!At, Demo!Repeated
<1>7. DefaultsOK' /\ LonesOK'
  BY <1>1 DEF DefaultsOK, LonesOK
<1>8. AnsweredOK'
  <2> SUFFICES ASSUME t \in alone, answered' = q.op
               PROVE  AnsweredOK'
    BY <1>1 DEF AnsweredOK
  <2>1. \A u \in Threads \ {t} : ~ Demo!Busy(u)
    BY <1>1, BusyAlone
  <2>2. Demo!Quiet'
    BY <1>3, <2>1 DEF Demo!Quiet, Demo!Busy, Demo!At
  <2>3. q.op.op = "put" \/ Done(HeldList(q), q.op)
    BY <1>1, BusyAlone DEF LoneChange, LoneCommit, CommitOK
  <2>4. row'.blocked = HeldList(q)
    BY <1>1, <1>2
  <2> HIDE DEF q
  <2> QED
    BY <1>1, <2>2, <2>3, <2>4 DEF AnsweredOK, Done, Demo!Contains
<1> QED
  BY <1>4, <1>5, <1>6, <1>7, <1>8 DEF DemoIInv

LEMMA CommitFailsKeeps ==
  ASSUME DemoIInv, NEW t \in Threads, Demo!CommitFails(t)
  PROVE  DemoIInv'
<1>1. /\ Demo!Serve(t, [pc |-> "idle"]) /\ alone' = {} /\ answered' = None
      /\ fails < MaxFails /\ fails' = fails + 1 /\ UNCHANGED <<row, default, twice>>
  BY DEF Demo!CommitFails, Demo!Fail, Demo!Idle
<1>2. /\ asked'[t] = [pc |-> "idle"] /\ \A u \in Threads : u # t => asked'[u] = asked[u]
      /\ asked' = [u \in Threads |-> asked'[u]]
  BY <1>1, DemoServes
<1>3. StoreOK' /\ fails' # 0
  BY <1>1, FailuresAreCounted DEF DemoIInv, StoreOK
<1>4. RequestsOK'
  BY <1>1, <1>2, RequestsStay
<1>5. SinglesOK'
  <2>1. ~ Demo!Busy(t)'
    BY <1>2 DEF Demo!Busy, Demo!At
  <2> QED
    BY <1>1, <1>2, <2>1, SinglesStay
<1>6. DefaultsOK' /\ LonesOK' /\ AnsweredOK'
  BY <1>1, <1>3 DEF DefaultsOK, LonesOK, AnsweredOK
<1> QED
  BY <1>3, <1>4, <1>5, <1>6 DEF DemoIInv

(* A restart empties the list of a process, and ends the requests that     *)
(* share it.                                                               *)
LEMMA RestartDemoKeeps ==
  ASSUME DemoIInv, NEW p \in Processes, Demo!Restart(p)
  PROVE  DemoIInv'
<1>1. /\ default' = [default EXCEPT ![p] = <<>>]
      /\ asked' = [t \in Threads |-> IF Demo!Busy(t) /\ asked[t].proc = p
                                     THEN [pc |-> "idle"] ELSE asked[t]]
      /\ alone' = {t \in alone : asked[t].proc # p}
      /\ UNCHANGED <<row, fails, answered, twice>>
  BY DEF Demo!Restart, Demo!Idle
<1>2. \A t \in Threads :
        \/ asked'[t] = [pc |-> "idle"]
        \/ asked'[t] = asked[t] /\ (Demo!Busy(t) => asked[t].proc # p)
  BY <1>1
<1>3. /\ default' \in [Processes -> Lists] /\ default'[p] = <<>>
      /\ \A x \in Processes : x # p => default'[x] = default[x]
      /\ UNCHANGED <<row, fails, answered, twice>>
  BY <1>1, EmptyRepeatsNothing DEF DemoIInv, StoreOK
<1>4. StoreOK'
  BY <1>3 DEF DemoIInv, StoreOK
<1>5. RequestsOK'
  <2>1. asked' = [t \in Threads |-> asked'[t]]
    BY <1>1
  <2>2. ASSUME NEW t \in Threads
        PROVE  asked'[t] = [pc |-> "idle"] \/ ChangeOK(asked[t])' \/ CommitOK(asked[t])'
    BY <1>2, <1>3 DEF DemoIInv, RequestsOK, ChangeOK, CommitOK
  <2> QED
    BY <2>1, <2>2 DEF RequestsOK
<1>6. SinglesOK'
  BY <1>2, <1>3, EmptyRepeatsNothing
     DEF DemoIInv, SinglesOK, Demo!Repeated, Demo!Busy, Demo!At
<1>7. DefaultsOK'
  <2>1. \A t \in Threads : asked[t].pc = "commit" /\ asked[t].proc # p =>
                             asked'[t] = asked[t]
    BY <1>1
  <2> SUFFICES ASSUME row' = None, fails' = 0, NEW x \in Processes,
                      default'[x] # <<>>
               PROVE  \E t \in Threads : /\ asked'[t].pc = "commit"
                                         /\ asked'[t].shared /\ asked'[t].proc = x
    BY DEF DefaultsOK
  <2>2. x # p /\ default[x] # <<>> /\ row = None /\ fails = 0
    BY <1>3
  <2>3. PICK t \in Threads : asked[t].pc = "commit" /\ asked[t].shared /\ asked[t].proc = x
    BY <2>2, Zenon DEF DemoIInv, DefaultsOK
  <2> QED
    BY <2>1, <2>2, <2>3, Zenon
<1>8. LonesOK'
  <2> SUFFICES ASSUME NEW t \in alone, asked[t].proc # p
               PROVE  /\ \A u \in Threads \ {t} : ~ Demo!Busy(u)'
                      /\ LoneChange(asked[t])' \/ LoneCommit(asked[t])'
    BY <1>1 DEF DemoIInv, LonesOK
  <2>1. /\ t \in Threads /\ \A u \in Threads \ {t} : ~ Demo!Busy(u)
        /\ LoneChange(asked[t]) \/ LoneCommit(asked[t])
    BY DEF DemoIInv, LonesOK
  <2>2. Demo!Busy(t)
    BY <2>1 DEF LoneChange, LoneCommit, Demo!Busy, Demo!At
  <2>3. asked'[t] = asked[t] /\ asked[t].proc \in Processes
    BY <1>1, <2>1, <2>2, BusyIs DEF ChangeOK, CommitOK
  <2>4. HeldList(asked[t])' = HeldList(asked[t]) /\ Demo!Stored' = Demo!Stored
    BY <1>3, <2>3 DEF HeldList, Demo!Stored
  <2>5. \A u \in Threads \ {t} : ~ Demo!Busy(u)'
    BY <1>2, <2>1 DEF Demo!Busy, Demo!At
  <2>6. LoneChange(asked[t]) => LoneChange(asked[t])'
    BY <1>3, <2>3, <2>4 DEF LoneChange, Needed, Demo!Contains
  <2>7. LoneCommit(asked[t]) => LoneCommit(asked[t])'
    BY <1>3, <2>3, <2>4 DEF LoneCommit, Needed, Done, Demo!Contains, Demo!Changed
  <2> QED
    BY <2>1, <2>5, <2>6, <2>7
<1>9. AnsweredOK'
  BY <1>2, <1>3
     DEF DemoIInv, AnsweredOK, Demo!Quiet, Demo!Busy, Demo!At, Demo!Contains
<1> QED
  BY <1>4, <1>5, <1>6, <1>7, <1>8, <1>9 DEF DemoIInv

LEMMA DemoStutters ==
  ASSUME DemoIInv, UNCHANGED demoVars
  PROVE  DemoIInv'
<1>1. UNCHANGED <<row, default, asked, fails, alone, answered, twice>>
  BY DEF demoVars
<1>2. StoreOK' /\ RequestsOK' /\ SinglesOK' /\ DefaultsOK'
  BY <1>1 DEF DemoIInv, StoreOK, RequestsOK, ChangeOK, CommitOK, SinglesOK,
     DefaultsOK, Demo!Repeated, Demo!Busy, Demo!At
<1>3. LonesOK' /\ AnsweredOK'
  BY <1>1 DEF DemoIInv, LonesOK, LoneChange, LoneCommit, AnsweredOK, HeldList,
     Needed, Done, Demo!Stored, Demo!Contains, Demo!Changed, Demo!Quiet,
     Demo!Busy, Demo!At
<1> QED
  BY <1>2, <1>3 DEF DemoIInv

LEMMA DemoSteps ==
  ASSUME DemoIInv, [Next]_vars
  PROVE  DemoIInv'
<1>1. CASE Demo!Next
  BY <1>1, LoadDemoKeeps, RaiseKeeps, ChangeKeeps, PutDemoKeeps, CommitDemoKeeps,
     CommitFailsKeeps, RestartDemoKeeps DEF Demo!Next
<1>2. CASE UNCHANGED demoVars
  BY <1>2, DemoStutters
<1> QED
  BY <1>1, <1>2 DEF Next, vars

LEMMA DemoImplies ==
  ASSUME DemoIInv
  PROVE  AvailabilityInv
<1>1. Demo!TypeOK
  BY DEF Demo!TypeOK, DemoIInv, StoreOK, Configurations, Lists
<1>2. Demo!BlockedIsStored /\ Demo!UnblockedIsGone
  BY DEF Demo!BlockedIsStored, Demo!UnblockedIsGone, DemoIInv, AnsweredOK
<1> QED
  BY <1>1, <1>2 DEF AvailabilityInv

(* demo_booking.py:103-146, for any number of threads and processes, and   *)
(* whatever overlapped, failed or crashed before: a date that a request    *)
(* nobody overlapped answered as blocked is stored, unless a failed save   *)
(* left it in the defaults and no row is stored; one it answered as        *)
(* unblocked is gone, unless it had been stored twice, by a PUT or by      *)
(* requests that overlapped.                                               *)
THEOREM AnsweredDatesAreStored == Spec => []AvailabilityInv
<1>1. Init => DemoIInv
  BY DemoStarts DEF Init
<1>2. DemoIInv /\ [Next]_vars => DemoIInv'
  BY DemoSteps
<1>3. DemoIInv => AvailabilityInv
  BY DemoImplies
<1> QED
  BY <1>1, <1>2, <1>3, PTL DEF Spec

LEMMA LoneCommitsAreAtomic ==
  ASSUME DemoIInv, NEW t \in alone, Demo!Commit(t), fails = 0 \/ row # None
  PROVE  Demo!Effect(t)
<1> DEFINE q == asked[t]
           list == HeldList(q)
           old == Demo!Stored
<1>1. t \in Threads
  BY DEF DemoIInv, LonesOK
<1>2. /\ CommitOK(q) /\ Demo!Busy(t) /\ row' # None /\ row' = Demo!Held(t)
  BY <1>1, CommitIs
<1>3. Demo!Stored' = [schedule |-> q.config.schedule, blocked |-> list]
  <2>1. Demo!Held(t) = [schedule |-> q.config.schedule, blocked |-> list]
    BY <1>1, <1>2, HeldIs
  <2> QED
    BY <1>2, <2>1 DEF Demo!Stored
<1>4. LoneCommit(q)
  BY <1>1, <1>2, BusyAlone DEF LoneChange, CommitOK
<1>5. CASE q.op.op = "put"
  <2>1. ~ q.shared /\ q.config = q.op.config /\ q.config \in Configurations
    BY <1>2, <1>5 DEF CommitOK
  <2>2. Demo!Stored' = q.op.config
    BY <1>3, <2>1 DEF HeldList, Configurations
  <2> QED
    BY <1>5, <2>2, Zenon DEF Demo!Effect, Demo!Record!Put
<1>6. CASE /\ q.config.schedule = old.schedule
           /\ Needed(old.blocked, q.op)
           /\ list = Demo!Changed(old.blocked, q.op)
  <2>1. old = [schedule |-> old.schedule, blocked |-> old.blocked]
    BY StoredIs DEF Configurations
  <2>2. [old EXCEPT !.blocked = list] = [schedule |-> old.schedule, blocked |-> list]
    <3> HIDE DEF old, list
    <3> QED
      BY <2>1, ConfigurationWith, Zenon
  <2>3. Demo!Stored' = [old EXCEPT !.blocked = list]
    BY <1>3, <1>6, <2>2, Zenon
  <2>4. CASE q.op.op = "block" /\ ~ Demo!Contains(old.blocked, q.op.date)
    <3>1. list = Append(old.blocked, q.op.date)
      BY <1>6, <2>4, Zenon DEF Demo!Changed
    <3>2. Demo!Stored' = [old EXCEPT !.blocked = Append(old.blocked, q.op.date)]
      BY <2>3, <3>1, Zenon
    <3> QED
      BY <2>4, <3>2, Zenon
         DEF Demo!Effect, Demo!Record!Block, Demo!Record!Contains, Demo!Contains
  <2>5. CASE q.op.op = "unblock" /\ Demo!Contains(old.blocked, q.op.date)
    <3>1. list = Demo!RemoveFirst(old.blocked, q.op.date)
      <4>1. q.op.op # "block"
        BY <2>5
      <4> QED
        BY <1>6, <4>1, Zenon DEF Demo!Changed
    <3>2. Demo!Stored' =
            [old EXCEPT !.blocked = Demo!RemoveFirst(old.blocked, q.op.date)]
      BY <2>3, <3>1, Zenon
    <3>3. Demo!RemoveFirst(old.blocked, q.op.date) =
            Demo!Record!RemoveFirst(old.blocked, q.op.date)
      BY Zenon DEF Demo!RemoveFirst, Demo!RemoveAt, Demo!SelectInSeq, Demo!Min,
         Demo!Record!RemoveFirst, Demo!Record!RemoveAt, Demo!Record!SelectInSeq,
         Demo!Record!Min
    <3> QED
      BY <2>5, <3>2, <3>3, Zenon
         DEF Demo!Effect, Demo!Record!Unblock, Demo!Record!Contains, Demo!Contains
  <2> QED
    BY <1>6, <2>4, <2>5 DEF Needed
<1> QED
  BY <1>4, <1>5, <1>6 DEF LoneCommit

(* demo_booking.py:103-146, for any number of threads and processes: a     *)
(* request that nobody overlaps changes the stored configuration as it     *)
(* says, all at once, and is not refused, whatever requests overlapped,    *)
(* failed or crashed before it (after a failed save: once a row is         *)
(* stored).                                                                *)
THEOREM LoneRequestsAreAtomic == Spec => AloneIsAtomic
<1> DEFINE Atomic == \A t \in alone :
             /\ ~ Demo!RemoveRaises(t)
             /\ Demo!Commit(t) /\ (fails = 0 \/ row # None) => Demo!Effect(t)
<1>1. Init => DemoIInv /\ Demo!Stored = Demo!DefaultConfig
  BY DemoStarts, Zenon DEF Init, Demo!Init, Demo!Stored
<1>2. DemoIInv /\ [Next]_vars => DemoIInv'
  BY DemoSteps
<1>3. DemoIInv => [Atomic]_demoVars
  BY LoneCommitsAreAtomic, RaiseKeeps DEF DemoIInv, LonesOK
<1> HIDE DEF Atomic
<1>4. Spec => []DemoIInv
  BY <1>1, <1>2, PTL DEF Spec
<1>5. Spec => [][Atomic]_demoVars
  BY <1>3, <1>4, PTL DEF Spec
<1>6. Spec => Demo!Stored = Demo!DefaultConfig
  BY <1>1, PTL DEF Spec
<1> QED
  BY <1>5, <1>6, PTL DEF AloneIsAtomic, Demo!AloneIsAtomic, Atomic, demoVars, Demo!vars
-----------------------------------------------------------------------------
(* The metering pipeline *)

Places == 1..Len(log)

MessagesOK ==
  /\ log \in Seq(Events) /\ attempts \in Seq(Nat) /\ Len(attempts) = Len(log)
  /\ queue \subseteq Places /\ synced \subseteq Places
  /\ answer = [e \in Events |-> answer[e]]
  /\ \A e \in Events : answer[e] \in {"open", "202"} => \E m \in Places : log[m] = e

(* What a worker acknowledges it has processed; what the broker remembers  *)
(* as delivered is in the hands of one connected worker.                   *)
Working(w) == worker[w] \in {"process", "ack", "nack"}

WorkerOK(w) ==
  /\ worker[w] \in {"connect", "consume", "process", "ack", "nack", "wait", "exited"}
  /\ conn[w] \in BOOLEAN
  /\ IF Working(w) THEN job[w] \in Places ELSE job[w] = None
  /\ unacked[w] # None =>
       conn[w] /\ unacked[w] = job[w] /\ unacked[w] \in Places \ queue
  /\ worker[w] \in {"ack", "nack"} => attempts[job[w]] > 0

WorkersOK ==
  /\ worker = [w \in Workers |-> worker[w]] /\ conn = [w \in Workers |-> conn[w]]
  /\ job = [w \in Workers |-> job[w]] /\ unacked = [w \in Workers |-> unacked[w]]
  /\ \A w \in Workers : WorkerOK(w)
  /\ \A v, w \in Workers : unacked[v] = unacked[w] /\ unacked[v] # None => v = w

Kept(m) ==
  m \in queue \/ (\E w \in Workers : unacked[w] = m) \/ attempts[m] > 0

KeptOK ==
  /\ \A m \in synced : Kept(m)
  /\ faults.crash = 0 => \A m \in Places : Kept(m)

(* Where a message can still be processed: it waits, or is being processed *)
(* by a worker, be it one whose connection is lost.                        *)
Waits(m) == IF m \in queue THEN 1 ELSE 0
On(m) == {w \in Workers : worker[w] = "process" /\ job[w] = m}

CountOK ==
  \A m \in Places :
    attempts[m] + Waits(m) + Cardinality(On(m))
      <= 1 + faults.loss + faults.press + faults.crash

(* A worker ends, or is about to: acknowledging on a lost connection.      *)
Ending == {w \in Workers : worker[w] = "exited" \/ (Working(w) /\ ~ conn[w])}

EndsOK ==
  Cardinality(Ending)
    <= faults.loss + faults.press + Cardinality(Workers) * faults.crash

PipelineIInv ==
  /\ faults = [loss |-> faults.loss, press |-> faults.press, crash |-> faults.crash]
  /\ {faults.loss, faults.press, faults.crash} \subseteq Nat
  /\ MessagesOK /\ WorkersOK /\ KeptOK /\ CountOK /\ EndsOK

LEMMA FaultsLose ==
  ASSUME NEW r, NEW x,
         r = [loss |-> r.loss, press |-> r.press, crash |-> r.crash]
  PROVE  [r EXCEPT !.loss = x] =
           [loss |-> x, press |-> r.press, crash |-> r.crash]
<1> DEFINE a == r.loss
           b == r.press
           c == r.crash
<1>1. r = [loss |-> a, press |-> b, crash |-> c]
  OBVIOUS
<1>2. [r EXCEPT !.loss = x] = [loss |-> x, press |-> b, crash |-> c]
  <2> HIDE DEF a, b, c
  <2> QED
    BY <1>1
<1> QED
  BY <1>2, Zenon

LEMMA FaultsPress ==
  ASSUME NEW r, NEW x,
         r = [loss |-> r.loss, press |-> r.press, crash |-> r.crash]
  PROVE  [r EXCEPT !.press = x] =
           [loss |-> r.loss, press |-> x, crash |-> r.crash]
<1> DEFINE a == r.loss
           b == r.press
           c == r.crash
<1>1. r = [loss |-> a, press |-> b, crash |-> c]
  OBVIOUS
<1>2. [r EXCEPT !.press = x] = [loss |-> a, press |-> x, crash |-> c]
  <2> HIDE DEF a, b, c
  <2> QED
    BY <1>1
<1> QED
  BY <1>2, Zenon

LEMMA FaultsCrash ==
  ASSUME NEW r, NEW x,
         r = [loss |-> r.loss, press |-> r.press, crash |-> r.crash]
  PROVE  [r EXCEPT !.crash = x] =
           [loss |-> r.loss, press |-> r.press, crash |-> x]
<1> DEFINE a == r.loss
           b == r.press
           c == r.crash
<1>1. r = [loss |-> a, press |-> b, crash |-> c]
  OBVIOUS
<1>2. [r EXCEPT !.crash = x] = [loss |-> a, press |-> b, crash |-> x]
  <2> HIDE DEF a, b, c
  <2> QED
    BY <1>1
<1> QED
  BY <1>2, Zenon

(* Finite sets of workers. *)
LEMMA WorkerSets ==
  ASSUME IsFiniteSet(Workers)
  PROVE  \A S, T \in SUBSET Workers, w \in Workers :
           /\ Cardinality(S) \in Nat /\ Cardinality(S) <= Cardinality(Workers)
           /\ S \subseteq T => Cardinality(S) <= Cardinality(T)
           /\ S \subseteq T \cup {w} => Cardinality(S) <= Cardinality(T) + 1
           /\ w \in T /\ S \subseteq T \ {w} => Cardinality(S) <= Cardinality(T) - 1
<1> TAKE S, T \in SUBSET Workers, w \in Workers
<1>1. IsFiniteSet(S) /\ IsFiniteSet(T)
  BY FS_Subset
<1>2. /\ Cardinality(S) \in Nat /\ Cardinality(T) \in Nat
      /\ Cardinality(S) <= Cardinality(Workers)
  BY <1>1, FS_CardinalityType, FS_Subset
<1>3. S \subseteq T => Cardinality(S) <= Cardinality(T)
  BY <1>1, FS_Subset
<1>4. /\ IsFiniteSet(T \cup {w})
      /\ Cardinality(T \cup {w}) = IF w \in T THEN Cardinality(T)
                                   ELSE Cardinality(T) + 1
  BY <1>1, FS_AddElement
<1>5. S \subseteq T \cup {w} => Cardinality(S) <= Cardinality(T) + 1
  <2>1. S \subseteq T \cup {w} => Cardinality(S) <= Cardinality(T \cup {w})
    BY <1>4, FS_Subset
  <2> QED
    BY <1>2, <1>4, <2>1
<1>6. /\ IsFiniteSet(T \ {w})
      /\ Cardinality(T \ {w}) = IF w \in T THEN Cardinality(T) - 1 ELSE Cardinality(T)
  BY <1>1, FS_RemoveElement
<1>7. w \in T /\ S \subseteq T \ {w} => Cardinality(S) <= Cardinality(T) - 1
  <2>1. S \subseteq T \ {w} => Cardinality(S) <= Cardinality(T \ {w})
    BY <1>6, FS_Subset
  <2> QED
    BY <1>2, <1>6, <2>1
<1> QED
  BY <1>2, <1>3, <1>5, <1>7

Assumed == IsFiniteSet(Workers) /\ None \notin Nat

LEMMA PipelineTypes ==
  ASSUME Assumed, PipelineIInv
  PROVE  /\ faults.loss \in Nat /\ faults.press \in Nat /\ faults.crash \in Nat
         /\ Cardinality(Workers) \in Nat /\ Cardinality(Ending) \in Nat
         /\ Ending \subseteq Workers
         /\ \A m : On(m) \subseteq Workers /\ Cardinality(On(m)) \in Nat
         /\ \A m \in Places : attempts[m] \in Nat /\ Waits(m) \in 0..1
         /\ Len(log) \in Nat /\ None \notin Places
<1>1. /\ Ending \subseteq Workers
      /\ \A m : On(m) \subseteq Workers
  BY DEF Ending, On
<1>2. Cardinality(Workers) \in Nat
  BY FS_CardinalityType DEF Assumed
<1>3. \A S \in SUBSET Workers : Cardinality(S) \in Nat
  BY FS_CardinalityType, FS_Subset DEF Assumed
<1>4. Len(log) \in Nat /\ \A m \in Places : attempts[m] \in Nat
  BY DEF PipelineIInv, MessagesOK, Places
<1>5. None \notin Places
  BY <1>4 DEF Assumed, Places
<1> QED
  BY <1>1, <1>2, <1>3, <1>4, <1>5 DEF PipelineIInv, Waits

LEMMA PipelineStarts ==
  ASSUME Assumed, Pipeline!Init
  PROVE  PipelineIInv
<1>1. /\ log = <<>> /\ attempts = <<>> /\ queue = {} /\ synced = {}
      /\ answer = [e \in Events |-> "none"]
      /\ unacked = [w \in Workers |-> None] /\ conn = [w \in Workers |-> FALSE]
      /\ worker = [w \in Workers |-> "connect"] /\ job = [w \in Workers |-> None]
      /\ faults = [loss |-> 0, press |-> 0, crash |-> 0]
  BY DEF Pipeline!Init
<1>2. MessagesOK /\ Places = {}
  BY <1>1 DEF MessagesOK, Places
<1>3. WorkersOK
  BY <1>1 DEF WorkersOK, WorkerOK, Working
<1>4. KeptOK /\ CountOK
  BY <1>1, <1>2 DEF KeptOK, CountOK
<1>5. EndsOK
  <2>1. Ending = {}
    BY <1>1 DEF Ending, Working
  <2>2. Cardinality(Ending) = 0 /\ Cardinality(Workers) \in Nat
    BY <2>1, FS_EmptySet, FS_CardinalityType DEF Assumed
  <2> QED
    BY <1>1, <2>2 DEF EndsOK
<1> QED
  BY <1>1, <1>2, <1>3, <1>4, <1>5 DEF PipelineIInv

LEMMA PublishKeeps ==
  ASSUME Assumed, PipelineIInv, NEW e \in Events, Pipeline!Publish(e)
  PROVE  PipelineIInv'
<1> PICK n : n = Len(log) + 1
  OBVIOUS
<1>1. /\ log' = Append(log, e) /\ attempts' = Append(attempts, 0)
      /\ answer' = [answer EXCEPT ![e] = "open"] /\ queue' = queue \cup {n}
      /\ UNCHANGED <<synced, unacked, conn, worker, job, faults>>
  BY DEF Pipeline!Publish
<1>2. /\ log \in Seq(Events) /\ attempts \in Seq(Nat) /\ Len(attempts) = Len(log)
      /\ queue \subseteq Places /\ synced \subseteq Places
      /\ answer = [x \in Events |-> answer[x]]
      /\ \A x \in Events : answer[x] \in {"open", "202"} =>
           \E m \in Places : log[m] = x
      /\ Len(log) \in Nat
  BY DEF PipelineIInv, MessagesOK
<1>3. /\ log' \in Seq(Events) /\ attempts' \in Seq(Nat)
      /\ Len(log') = n /\ Len(attempts') = n /\ log'[n] = e /\ attempts'[n] = 0
      /\ \A m \in Places : log'[m] = log[m] /\ attempts'[m] = attempts[m]
  BY <1>1, <1>2 DEF Places
<1>4. Places' = Places \cup {n} /\ n \notin Places
  BY <1>2, <1>3 DEF Places
<1>5. MessagesOK'
  BY <1>1, <1>2, <1>3, <1>4 DEF MessagesOK
<1>6. UNCHANGED <<synced, unacked, conn, worker, job, faults>>
  BY <1>1
<1>7. \A w \in Workers : Working(w) => job[w] \in Places
  BY DEF PipelineIInv, WorkersOK, WorkerOK
<1>8. \A w \in Workers : unacked[w] # None => unacked[w] \in Places
  BY DEF PipelineIInv, WorkersOK, WorkerOK
<1>9. WorkersOK'
  <2> SUFFICES \A w \in Workers : WorkerOK(w)'
    BY <1>6 DEF PipelineIInv, WorkersOK
  <2> TAKE w \in Workers
  <2>1. WorkerOK(w)
    BY DEF PipelineIInv, WorkersOK
  <2>2. unacked[w] # None => unacked[w] \in Places' \ queue'
    BY <1>1, <1>4, <2>1 DEF WorkerOK
  <2>3. IF Working(w) THEN job[w] \in Places' ELSE job[w] = None
    BY <1>4, <2>1 DEF WorkerOK
  <2>4. worker[w] \in {"ack", "nack"} => attempts'[job[w]] > 0
    BY <1>3, <1>7, <2>1 DEF WorkerOK, Working
  <2> QED
    BY <1>6, <2>1, <2>2, <2>3, <2>4 DEF WorkerOK, Working
<1>10. KeptOK'
  BY <1>1, <1>2, <1>3, <1>4 DEF PipelineIInv, KeptOK, Kept
<1>11. CountOK'
  <2>1. \A m : On(m)' = On(m)
    BY <1>6 DEF On
  <2>2. On(n) = {}
    BY <1>4, <1>7 DEF On, Working
  <2>3. Cardinality(On(n)) = 0
    BY <2>2, FS_EmptySet
  <2>4. \A m \in Places : Waits(m)' = Waits(m)
    BY <1>1, <1>4 DEF Waits
  <2>5. Waits(n)' = 1
    BY <1>1 DEF Waits
  <2>6. ASSUME NEW m \in Places'
        PROVE  attempts'[m] + Waits(m)' + Cardinality(On(m))
                 <= 1 + faults.loss + faults.press + faults.crash
    <3>1. CASE m = n
      BY <1>3, <2>3, <2>5, <3>1, PipelineTypes
    <3>2. CASE m \in Places
      BY <1>3, <2>4, <3>2 DEF PipelineIInv, CountOK
    <3> QED
      BY <1>4, <3>1, <3>2
  <2> QED
    BY <1>6, <2>1, <2>6 DEF CountOK
<1>12. EndsOK'
  <2>1. Ending' = Ending
    BY <1>6 DEF Ending, Working
  <2> QED
    BY <1>6, <2>1 DEF PipelineIInv, EndsOK
<1> QED
  BY <1>5, <1>6, <1>9, <1>10, <1>11, <1>12 DEF PipelineIInv

(* Answer and Sync disturb the messages only. *)
LEMMA AnswerKeeps ==
  ASSUME Assumed, PipelineIInv, NEW e \in Events, NEW code \in {"202", "500"},
         Pipeline!Answer(e, code)
  PROVE  PipelineIInv'
<1>1. /\ answer[e] = "open" /\ answer' = [answer EXCEPT ![e] = code]
      /\ UNCHANGED <<log, queue, synced, unacked, conn, worker, job, attempts, faults>>
  BY DEF Pipeline!Answer
<1>2. MessagesOK'
  BY <1>1 DEF PipelineIInv, MessagesOK, Places
<1> QED
  BY <1>1, <1>2 DEF PipelineIInv, WorkersOK, WorkerOK, KeptOK, CountOK, EndsOK,
     Kept, Waits, On, Ending, Working, Places

LEMMA SyncKeeps ==
  ASSUME Assumed, PipelineIInv, NEW m, Pipeline!Sync(m)
  PROVE  PipelineIInv'
<1>1. /\ m \in queue /\ synced' = synced \cup {m}
      /\ UNCHANGED <<log, answer, queue, unacked, conn, worker, job, attempts, faults>>
  BY DEF Pipeline!Sync
<1>2. MessagesOK'
  BY <1>1 DEF PipelineIInv, MessagesOK, Places
<1>3. KeptOK'
  BY <1>1 DEF PipelineIInv, KeptOK, Kept, Places
<1> QED
  BY <1>1, <1>2, <1>3 DEF PipelineIInv, WorkersOK, WorkerOK, CountOK, EndsOK,
     Waits, On, Ending, Working, Places

(* One worker moves: it is at step s with the connection c, the job j and   *)
(* the delivered message u, and the others are as they were.               *)
LEMMA OneMoves ==
  ASSUME Assumed, PipelineIInv, NEW w \in Workers, NEW s, NEW c, NEW j, NEW u,
         UNCHANGED log,
         worker' = [worker EXCEPT ![w] = s], conn' = [conn EXCEPT ![w] = c],
         job' = [job EXCEPT ![w] = j], unacked' = [unacked EXCEPT ![w] = u],
         WorkerOK(w)',
         u # None => u = unacked[w] \/ u \in queue,
         \A v \in Workers \ {w} : unacked[v] # None => unacked[v] \notin queue',
         \A m \in Places : attempts[m] > 0 => attempts'[m] > 0
  PROVE  WorkersOK'
<1>1. /\ worker' = [v \in Workers |-> worker'[v]] /\ conn' = [v \in Workers |-> conn'[v]]
      /\ job' = [v \in Workers |-> job'[v]]
      /\ unacked' = [v \in Workers |-> unacked'[v]]
      /\ unacked'[w] = u
      /\ \A v \in Workers \ {w} : /\ worker'[v] = worker[v] /\ conn'[v] = conn[v]
                                  /\ job'[v] = job[v] /\ unacked'[v] = unacked[v]
  BY DEF PipelineIInv, WorkersOK
<1>2. ASSUME NEW v \in Workers \ {w}
      PROVE  WorkerOK(v)'
  <2>1. WorkerOK(v)
    BY DEF PipelineIInv, WorkersOK
  <2>2. Places' = Places
    BY DEF Places
  <2>3. worker[v] \in {"ack", "nack"} => attempts'[job[v]] > 0
    BY <2>1 DEF WorkerOK, Working
  <2>4. unacked[v] # None => unacked[v] \in Places \ queue'
    BY <2>1 DEF WorkerOK
  <2> QED
    BY <1>1, <2>1, <2>2, <2>3, <2>4 DEF WorkerOK, Working
<1>3. ASSUME NEW v \in Workers, NEW x \in Workers,
             unacked'[v] = unacked'[x], unacked'[v] # None
      PROVE  v = x
  <2>1. \A y \in Workers : unacked[y] # None => unacked[y] \notin queue
    BY DEF PipelineIInv, WorkersOK, WorkerOK
  <2>2. \A y \in Workers \ {w} : unacked[y] = u => u = None
    BY <2>1 DEF PipelineIInv, WorkersOK
  <2> QED
    BY <1>1, <1>3, <2>2 DEF PipelineIInv, WorkersOK
<1> QED
  BY <1>1, <1>2, <1>3 DEF WorkersOK

(* So do the workers that process a message or are about to end. *)
LEMMA OneMovesSets ==
  ASSUME PipelineIInv, NEW w \in Workers, NEW s, NEW c, NEW j,
         worker' = [worker EXCEPT ![w] = s], conn' = [conn EXCEPT ![w] = c],
         job' = [job EXCEPT ![w] = j]
  PROVE  /\ \A m : On(m)' = IF s = "process" /\ j = m THEN On(m) \cup {w}
                                                      ELSE On(m) \ {w}
         /\ Ending' = IF s = "exited" \/ (s \in {"process", "ack", "nack"} /\ ~ c)
                      THEN Ending \cup {w} ELSE Ending \ {w}
<1>1. /\ worker'[w] = s /\ conn'[w] = c /\ job'[w] = j
      /\ \A v \in Workers \ {w} :
           worker'[v] = worker[v] /\ conn'[v] = conn[v] /\ job'[v] = job[v]
  BY DEF PipelineIInv, WorkersOK
<1>2. ASSUME NEW m
      PROVE  On(m)' = IF s = "process" /\ j = m THEN On(m) \cup {w} ELSE On(m) \ {w}
  BY <1>1 DEF On
<1>3. Ending' = IF s = "exited" \/ (s \in {"process", "ack", "nack"} /\ ~ c)
                THEN Ending \cup {w} ELSE Ending \ {w}
  BY <1>1 DEF Ending, Working
<1> QED
  BY <1>2, <1>3

LEMMA NothingMoves ==
  ASSUME PipelineIInv, NEW w \in Workers
  PROVE  /\ worker = [worker EXCEPT ![w] = worker[w]]
         /\ conn = [conn EXCEPT ![w] = conn[w]]
         /\ job = [job EXCEPT ![w] = job[w]]
         /\ unacked = [unacked EXCEPT ![w] = unacked[w]]
         /\ WorkerOK(w)
BY DEF PipelineIInv, WorkersOK

(* What a worker does with its job leaves the other messages alone. *)
LEMMA ConnectKeeps ==
  ASSUME Assumed, PipelineIInv, NEW w \in Workers,
         Pipeline!Connect(w) \/ Pipeline!Notice(w) \/ Pipeline!Retry(w)
  PROVE  PipelineIInv'
<1>1. PICK s, c :
        /\ ~ Working(w) /\ worker[w] # "exited"
        /\ s \in {"connect", "consume", "wait"} /\ c \in BOOLEAN
        /\ conn[w] => c
        /\ worker' = [worker EXCEPT ![w] = s] /\ conn' = [conn EXCEPT ![w] = c]
        /\ UNCHANGED <<log, answer, queue, synced, unacked, job, attempts, faults>>
  <2>1. CASE Pipeline!Connect(w)
    BY <2>1 DEF Pipeline!Connect, Pipeline!Goes, Working
  <2>2. CASE Pipeline!Notice(w)
    BY <2>2, NothingMoves DEF Pipeline!Notice, Pipeline!Goes, Pipeline!broker, Working,
       WorkerOK
  <2>3. CASE Pipeline!Retry(w)
    BY <2>3, NothingMoves DEF Pipeline!Retry, Pipeline!Goes, Pipeline!broker, Working,
       WorkerOK
  <2> QED
    BY <2>1, <2>2, <2>3
<1>2. job[w] = None /\ unacked[w] = None
  <2>1. WorkerOK(w)
    BY NothingMoves
  <2>2. job[w] = None
    BY <1>1, <2>1 DEF WorkerOK
  <2> QED
    BY <2>1, <2>2 DEF WorkerOK
<1>3. WorkersOK'
  <2>1. worker'[w] = s /\ conn'[w] = c
    BY <1>1 DEF PipelineIInv, WorkersOK
  <2>2. WorkerOK(w)'
    BY <1>1, <1>2, <2>1 DEF WorkerOK, Working
  <2>3. \A v \in Workers \ {w} : unacked[v] # None => unacked[v] \notin queue'
    BY <1>1 DEF PipelineIInv, WorkersOK, WorkerOK
  <2>4. job' = [job EXCEPT ![w] = None] /\ unacked' = [unacked EXCEPT ![w] = None]
    BY <1>1, <1>2, NothingMoves
  <2> QED
    BY <1>1, <2>2, <2>3, <2>4, OneMoves
<1>4. /\ \A m : On(m)' = On(m) \ {w}
      /\ Ending' = Ending \ {w}
  <2>1. job' = [job EXCEPT ![w] = job[w]]
    BY <1>1, NothingMoves
  <2> QED
    BY <1>1, <2>1, OneMovesSets
<1>5. /\ \A m : On(m) \ {w} = On(m)
      /\ Ending \ {w} = Ending
  BY <1>1 DEF On, Ending, Working
<1>6. MessagesOK' /\ KeptOK'
  BY <1>1 DEF PipelineIInv, MessagesOK, KeptOK, Kept, Places
<1>7. CountOK' /\ EndsOK'
  BY <1>1, <1>4, <1>5 DEF PipelineIInv, CountOK, EndsOK, Waits, Places
<1> QED
  BY <1>1, <1>3, <1>6, <1>7 DEF PipelineIInv

(* The broker puts back what w had; a fault explains the repetition.       *)
LEMMA BackKeeps ==
  ASSUME Assumed, PipelineIInv, NEW w \in Workers,
         queue' = queue \cup Pipeline!Unacked({w}),
         unacked' = [unacked EXCEPT ![w] = None],
         UNCHANGED <<log, answer, synced, attempts>>,
         \A m : On(m)' \subseteq On(m),
         {faults'.loss, faults'.press, faults'.crash} \subseteq Nat,
         faults'.crash = faults.crash,
         faults'.loss + faults'.press = faults.loss + faults.press + 1
  PROVE  /\ MessagesOK' /\ KeptOK' /\ CountOK'
         /\ \A v \in Workers \ {w} : unacked[v] # None => unacked[v] \notin queue'
<1>1. /\ \A m : m \in queue' <=> m \in queue \/ (m = unacked[w] /\ m # None)
      /\ Places' = Places
  BY DEF Pipeline!Unacked, Places
<1>2. \A v \in Workers : unacked[v] # None => unacked[v] \in Places \ queue
  BY DEF PipelineIInv, WorkersOK, WorkerOK
<1>3. MessagesOK'
  BY <1>1, <1>2 DEF PipelineIInv, MessagesOK
<1>4. KeptOK'
  <2>1. \A v \in Workers \ {w} : unacked'[v] = unacked[v]
    BY DEF PipelineIInv, WorkersOK
  <2>2. ASSUME NEW m \in Places, Kept(m)
        PROVE  Kept(m)'
    <3>1. m # None
      BY PipelineTypes
    <3> QED
      BY <1>1, <2>1, <2>2, <3>1 DEF Kept
  <2> QED
    BY <1>1, <2>2 DEF PipelineIInv, KeptOK, MessagesOK
<1>5. CountOK'
  <2>1. PICK f \in Nat : f = faults.loss + faults.press + faults.crash
    BY PipelineTypes
  <2>2. faults'.loss + faults'.press + faults'.crash = f + 1
    BY <2>1, PipelineTypes
  <2>3. 1 + faults'.loss + faults'.press + faults'.crash = f + 2
    <3>1. \A a, b, c \in Nat : a + b + c = f + 1 => 1 + a + b + c = f + 2
      OBVIOUS
    <3> QED
      BY <2>2, <3>1
  <2>4. ASSUME NEW m \in Places
        PROVE  attempts[m] + Waits(m)' + Cardinality(On(m)') <= f + 2
    <3>1. attempts[m] + Waits(m) + Cardinality(On(m)) <= f + 1
      BY <2>1, PipelineTypes DEF PipelineIInv, CountOK
    <3>2. Waits(m) \in 0..1 /\ Waits(m)' \in 0..1
      BY DEF Waits
    <3>3. /\ Cardinality(On(m)) \in Nat /\ Cardinality(On(m)') \in Nat
          /\ Cardinality(On(m)') <= Cardinality(On(m))
      BY PipelineTypes, WorkerSets DEF Assumed
    <3>4. attempts[m] \in Nat
      BY PipelineTypes
    <3> QED
      BY <3>1, <3>2, <3>3, <3>4
  <2> QED
    BY <1>1, <2>3, <2>4 DEF CountOK
<1>6. \A v \in Workers \ {w} : unacked[v] # None => unacked[v] \notin queue'
  BY <1>1, <1>2 DEF PipelineIInv, WorkersOK
<1> QED
  BY <1>3, <1>4, <1>5, <1>6

LEMMA LoseKeeps ==
  ASSUME Assumed, PipelineIInv, NEW w \in Workers, Pipeline!Lose(w)
  PROVE  PipelineIInv'
<1>1. /\ conn[w] /\ faults' = [faults EXCEPT !.loss = faults.loss + 1]
      /\ conn' = [conn EXCEPT ![w] = FALSE]
      /\ queue' = queue \cup Pipeline!Unacked({w})
      /\ unacked' = [unacked EXCEPT ![w] = None]
      /\ UNCHANGED <<log, answer, synced, worker, job, attempts>>
  BY Zenon DEF Pipeline!Lose
<1>2. faults' = [loss |-> faults.loss + 1, press |-> faults.press,
                 crash |-> faults.crash]
  BY <1>1, FaultsLose DEF PipelineIInv
<1>3. /\ faults' = [loss |-> faults'.loss, press |-> faults'.press,
                    crash |-> faults'.crash]
      /\ faults'.loss = faults.loss + 1 /\ faults'.press = faults.press
      /\ faults'.crash = faults.crash
  BY <1>2
<1>4. /\ \A m : On(m)' = On(m)
      /\ Ending' \subseteq Ending \cup {w}
  <2>1. \A v \in Workers \ {w} : conn'[v] = conn[v]
    BY <1>1 DEF PipelineIInv, WorkersOK
  <2> QED
    BY <1>1, <2>1 DEF On, Ending, Working
<1>5. /\ MessagesOK' /\ KeptOK' /\ CountOK'
      /\ \A v \in Workers \ {w} : unacked[v] # None => unacked[v] \notin queue'
  <2>1. /\ {faults'.loss, faults'.press, faults'.crash} \subseteq Nat
        /\ faults'.loss + faults'.press = faults.loss + faults.press + 1
    BY <1>3, PipelineTypes
  <2> QED
    BY <1>1, <1>3, <1>4, <2>1, BackKeeps
<1>6. WorkersOK'
  <2>1. /\ worker' = [worker EXCEPT ![w] = worker[w]]
        /\ job' = [job EXCEPT ![w] = job[w]] /\ WorkerOK(w)
    BY <1>1, NothingMoves
  <2>2. conn'[w] = FALSE /\ unacked'[w] = None
    BY <1>1 DEF PipelineIInv, WorkersOK
  <2>3. WorkerOK(w)'
    BY <1>1, <2>1, <2>2 DEF WorkerOK, Working, Places
  <2> QED
    BY <1>1, <1>5, <2>1, <2>3, OneMoves
<1>7. EndsOK'
  <2>1. Ending' \subseteq Workers
    BY DEF Ending
  <2>2. Cardinality(Ending') \in Nat /\ Cardinality(Ending') <= Cardinality(Ending) + 1
    BY <1>4, <2>1, WorkerSets, PipelineTypes DEF Assumed
  <2>3. PICK k \in Nat : k = Cardinality(Workers) * faults.crash
    BY PipelineTypes
  <2>4. Cardinality(Ending) <= faults.loss + faults.press + k
    BY <2>3 DEF PipelineIInv, EndsOK
  <2>5. Cardinality(Ending') <= faults.loss + 1 + faults.press + k
    BY <2>2, <2>4, PipelineTypes
  <2> QED
    BY <1>3, <2>3, <2>5 DEF EndsOK
<1>8. {faults'.loss, faults'.press, faults'.crash} \subseteq Nat
  BY <1>3, PipelineTypes
<1> QED
  BY <1>3, <1>5, <1>6, <1>7, <1>8 DEF PipelineIInv

LEMMA PressKeeps ==
  ASSUME Assumed, PipelineIInv, NEW w \in Workers, Pipeline!Press(w)
  PROVE  PipelineIInv'
<1>1. PICK s :
        /\ s \in {"connect", "wait", "exited"}
        /\ faults' = [faults EXCEPT !.press = faults.press + 1]
        /\ worker' = [worker EXCEPT ![w] = s]
        /\ conn' = [conn EXCEPT ![w] = FALSE] /\ job' = [job EXCEPT ![w] = None]
        /\ queue' = queue \cup Pipeline!Unacked({w})
        /\ unacked' = [unacked EXCEPT ![w] = None]
        /\ UNCHANGED <<log, answer, synced, attempts>>
  <2> DEFINE s == CASE worker[w] \in {"connect", "wait"} -> "exited"
                    [] OTHER -> IF conn[w] THEN "connect" ELSE "wait"
  <2>1. s \in {"connect", "wait", "exited"}
    OBVIOUS
  <2>2. worker' = [worker EXCEPT ![w] = s]
    BY DEF Pipeline!Press, Pipeline!Goes
  <2>3. faults' = [faults EXCEPT !.press = faults.press + 1]
    BY Zenon DEF Pipeline!Press
  <2>4. /\ conn' = [conn EXCEPT ![w] = FALSE] /\ job' = [job EXCEPT ![w] = None]
        /\ queue' = queue \cup Pipeline!Unacked({w})
        /\ unacked' = [unacked EXCEPT ![w] = None]
        /\ UNCHANGED <<log, answer, synced, attempts>>
    BY Zenon DEF Pipeline!Press
  <2> HIDE DEF s
  <2> QED
    BY <2>1, <2>2, <2>3, <2>4, Zenon
<1>2. faults' = [loss |-> faults.loss, press |-> faults.press + 1,
                 crash |-> faults.crash]
  BY <1>1, FaultsPress DEF PipelineIInv
<1>3. /\ faults' = [loss |-> faults'.loss, press |-> faults'.press,
                    crash |-> faults'.crash]
      /\ faults'.loss = faults.loss /\ faults'.press = faults.press + 1
      /\ faults'.crash = faults.crash
  BY <1>2
<1>4. /\ \A m : On(m)' \subseteq On(m)
      /\ Ending' \subseteq Ending \cup {w}
  <2>1. /\ \A m : On(m)' = IF s = "process" /\ None = m THEN On(m) \cup {w}
                                                        ELSE On(m) \ {w}
        /\ Ending' = IF s = "exited" \/ (s \in {"process", "ack", "nack"} /\ ~ FALSE)
                     THEN Ending \cup {w} ELSE Ending \ {w}
    BY <1>1, OneMovesSets
  <2> QED
    BY <1>1, <2>1
<1>5. /\ MessagesOK' /\ KeptOK' /\ CountOK'
      /\ \A v \in Workers \ {w} : unacked[v] # None => unacked[v] \notin queue'
  <2>1. /\ {faults'.loss, faults'.press, faults'.crash} \subseteq Nat
        /\ faults'.loss + faults'.press = faults.loss + faults.press + 1
    BY <1>3, PipelineTypes
  <2> QED
    BY <1>1, <1>3, <1>4, <2>1, BackKeeps
<1>6. WorkersOK'
  <2>1. worker'[w] = s /\ conn'[w] = FALSE /\ job'[w] = None /\ unacked'[w] = None
    BY <1>1 DEF PipelineIInv, WorkersOK
  <2>2. WorkerOK(w)'
    BY <1>1, <2>1 DEF WorkerOK, Working
  <2> QED
    BY <1>1, <1>5, <2>2, OneMoves
<1>7. EndsOK'
  <2>1. Ending' \subseteq Workers
    BY DEF Ending
  <2>2. Cardinality(Ending') \in Nat /\ Cardinality(Ending') <= Cardinality(Ending) + 1
    BY <1>4, <2>1, WorkerSets, PipelineTypes DEF Assumed
  <2>3. PICK k \in Nat : k = Cardinality(Workers) * faults.crash
    BY PipelineTypes
  <2>4. Cardinality(Ending) <= faults.loss + faults.press + k
    BY <2>3 DEF PipelineIInv, EndsOK
  <2>5. Cardinality(Ending') <= faults.loss + (faults.press + 1) + k
    BY <2>2, <2>4, PipelineTypes
  <2> QED
    BY <1>3, <2>3, <2>5 DEF EndsOK
<1>8. {faults'.loss, faults'.press, faults'.crash} \subseteq Nat
  BY <1>3, PipelineTypes
<1> QED
  BY <1>3, <1>5, <1>6, <1>7, <1>8 DEF PipelineIInv

LEMMA DeliverKeeps ==
  ASSUME Assumed, PipelineIInv, NEW w \in Workers, Pipeline!Deliver(w)
  PROVE  PipelineIInv'
<1>1. PICK m \in queue :
        /\ worker[w] = "consume" /\ conn[w]
        /\ queue' = queue \ {m} /\ job' = [job EXCEPT ![w] = m]
        /\ unacked' = [unacked EXCEPT ![w] = m]
        /\ worker' = [worker EXCEPT ![w] = "process"]
        /\ UNCHANGED <<log, answer, synced, conn, attempts, faults>>
  BY Zenon DEF Pipeline!Deliver, Pipeline!Goes
<1>2. /\ m \in Places /\ m # None /\ Places' = Places
      /\ conn' = [conn EXCEPT ![w] = conn[w]]
  BY <1>1, NothingMoves, PipelineTypes DEF PipelineIInv, MessagesOK, Places
<1>3. /\ worker'[w] = "process" /\ job'[w] = m /\ unacked'[w] = m
      /\ \A v \in Workers \ {w} : unacked'[v] = unacked[v]
  BY <1>1 DEF PipelineIInv, WorkersOK
<1>4. unacked[w] = None
  <2>1. WorkerOK(w)
    BY NothingMoves
  <2>2. job[w] = None
    BY <1>1, <2>1 DEF WorkerOK, Working
  <2> QED
    BY <2>1, <2>2 DEF WorkerOK
<1>5. WorkersOK'
  <2>1. WorkerOK(w)
    BY NothingMoves
  <2>2. WorkerOK(w)'
    <3>1. conn'[w] \in BOOLEAN /\ conn'[w] /\ m \in Places' /\ m \notin queue'
      BY <1>1, <1>2, <2>1 DEF WorkerOK
    <3> QED
      BY <1>3, <3>1 DEF WorkerOK, Working
  <2>3. \A v \in Workers \ {w} : unacked[v] # None => unacked[v] \notin queue'
    BY <1>1 DEF PipelineIInv, WorkersOK, WorkerOK
  <2> QED
    BY <1>1, <1>2, <2>2, <2>3, OneMoves
<1>6. MessagesOK'
  BY <1>1, <1>2 DEF PipelineIInv, MessagesOK
<1>7. KeptOK'
  <2>1. ASSUME NEW x \in Places, Kept(x)
        PROVE  Kept(x)'
    <3>1. x # None
      BY PipelineTypes
    <3> QED
      BY <1>1, <1>3, <1>4, <2>1, <3>1 DEF Kept
  <2> QED
    BY <1>1, <1>2, <2>1 DEF PipelineIInv, KeptOK, MessagesOK
<1>8. /\ \A x : On(x)' = IF m = x THEN On(x) \cup {w} ELSE On(x) \ {w}
      /\ Ending' = Ending \ {w}
  <2>1. /\ \A x : On(x)' = IF "process" = "process" /\ m = x THEN On(x) \cup {w}
                                                            ELSE On(x) \ {w}
        /\ Ending' = IF "process" = "exited"
                         \/ ("process" \in {"process", "ack", "nack"} /\ ~ conn[w])
                     THEN Ending \cup {w} ELSE Ending \ {w}
    BY <1>1, <1>2, OneMovesSets
  <2> QED
    BY <1>1, <2>1
<1>9. CountOK'
  <2>1. ASSUME NEW x \in Places
        PROVE  Waits(x)' + Cardinality(On(x)') <= Waits(x) + Cardinality(On(x))
    <3>1. /\ Cardinality(On(x)) \in Nat /\ Cardinality(On(x)') \in Nat
          /\ x # m => Cardinality(On(x)') <= Cardinality(On(x))
          /\ x = m => Cardinality(On(x)') <= Cardinality(On(x)) + 1
      <4>1. On(x) \subseteq Workers /\ On(x)' \subseteq Workers
        BY DEF On
      <4> QED
        BY <1>8, <4>1, WorkerSets DEF Assumed
    <3>2. /\ x # m => Waits(x)' = Waits(x)
          /\ x = m => Waits(x)' = 0 /\ Waits(x) = 1
          /\ Waits(x) \in 0..1
      BY <1>1 DEF Waits
    <3> QED
      BY <3>1, <3>2
  <2>2. PICK f \in Nat : f = 1 + faults.loss + faults.press + faults.crash
    BY PipelineTypes
  <2>3. ASSUME NEW x \in Places
        PROVE  attempts[x] + Waits(x)' + Cardinality(On(x)') <= f
    <3>1. attempts[x] + Waits(x) + Cardinality(On(x)) <= f
      BY <2>2 DEF PipelineIInv, CountOK
    <3>2. /\ attempts[x] \in Nat /\ Waits(x) \in 0..1 /\ Waits(x)' \in 0..1
          /\ Cardinality(On(x)) \in Nat
      BY PipelineTypes DEF Waits
    <3>3. Cardinality(On(x)') \in Nat
      <4>1. On(x)' \subseteq Workers
        BY DEF On
      <4> QED
        BY <4>1, WorkerSets DEF Assumed
    <3> QED
      BY <2>1, <3>1, <3>2, <3>3
  <2> QED
    BY <1>1, <1>2, <2>2, <2>3 DEF CountOK
<1>10. EndsOK'
  <2>1. Ending \ {w} = Ending
    BY <1>1 DEF Ending, Working
  <2> QED
    BY <1>1, <1>8, <2>1 DEF PipelineIInv, EndsOK
<1> QED
  BY <1>1, <1>5, <1>6, <1>7, <1>9, <1>10 DEF PipelineIInv

LEMMA ProcessKeeps ==
  ASSUME Assumed, PipelineIInv, NEW w \in Workers, Pipeline!Process(w)
  PROVE  PipelineIInv'
<1>1. PICK s, m :
        /\ worker[w] = "process" /\ m = job[w] /\ s \in {"ack", "nack"}
        /\ attempts' = [attempts EXCEPT ![m] = attempts[m] + 1]
        /\ worker' = [worker EXCEPT ![w] = s]
        /\ UNCHANGED <<log, answer, queue, synced, unacked, conn, job, faults>>
  BY DEF Pipeline!Process, Pipeline!Goes
<1>2. WorkerOK(w)
  BY NothingMoves
<1>3. m \in Places /\ Places' = Places
  BY <1>1, <1>2 DEF WorkerOK, Working, Places
<1>4. /\ attempts \in Seq(Nat) /\ Len(attempts) = Len(log) /\ Len(log) \in Nat
  BY DEF PipelineIInv, MessagesOK
<1>5. /\ attempts' \in Seq(Nat) /\ Len(attempts') = Len(log)
      /\ attempts'[m] = attempts[m] + 1
      /\ \A x \in Places \ {m} : attempts'[x] = attempts[x]
      /\ \A x \in Places : attempts[x] > 0 => attempts'[x] > 0
      /\ attempts'[m] > 0
  BY <1>1, <1>3, <1>4 DEF Places
<1>6. MessagesOK'
  BY <1>1, <1>3, <1>5 DEF PipelineIInv, MessagesOK
<1>7. WorkersOK'
  <2>1. worker'[w] = s
    BY <1>1 DEF PipelineIInv, WorkersOK
  <2>2. WorkerOK(w)'
    BY <1>1, <1>2, <1>3, <1>5, <2>1 DEF WorkerOK, Working
  <2>3. \A v \in Workers \ {w} : unacked[v] # None => unacked[v] \notin queue'
    BY <1>1 DEF PipelineIInv, WorkersOK, WorkerOK
  <2>4. /\ conn' = [conn EXCEPT ![w] = conn[w]] /\ job' = [job EXCEPT ![w] = job[w]]
        /\ unacked' = [unacked EXCEPT ![w] = unacked[w]]
    BY <1>1, NothingMoves
  <2>5. UNCHANGED log /\ worker' = [worker EXCEPT ![w] = s]
    BY <1>1
  <2>6. \A x \in Places : attempts[x] > 0 => attempts'[x] > 0
    BY <1>5
  <2> QED
    BY <2>2, <2>3, <2>4, <2>5, <2>6, OneMoves
<1>8. KeptOK'
  <2>1. \A x \in Places : Kept(x) => Kept(x)'
    BY <1>1, <1>5 DEF Kept
  <2> QED
    BY <1>1, <1>3, <2>1 DEF PipelineIInv, KeptOK, MessagesOK
<1>9. \A x : On(x)' = On(x) \ {w}
  <2>1. conn' = [conn EXCEPT ![w] = conn[w]] /\ job' = [job EXCEPT ![w] = job[w]]
    BY <1>1, NothingMoves
  <2> QED
    BY <1>1, <2>1, OneMovesSets
<1>10. Ending' = Ending
  <2>1. \A v \in Workers \ {w} : worker'[v] = worker[v]
    BY <1>1 DEF PipelineIInv, WorkersOK
  <2>2. worker'[w] = s
    BY <1>1 DEF PipelineIInv, WorkersOK
  <2> QED
    BY <1>1, <2>1, <2>2 DEF Ending, Working
<1>11. CountOK'
  <2>1. PICK f \in Nat : f = 1 + faults.loss + faults.press + faults.crash
    BY PipelineTypes
  <2>2. ASSUME NEW x \in Places
        PROVE  attempts'[x] + Waits(x) + Cardinality(On(x)') <= f
    <3>1. attempts[x] + Waits(x) + Cardinality(On(x)) <= f
      BY <2>1 DEF PipelineIInv, CountOK
    <3>2. attempts[x] \in Nat /\ Waits(x) \in 0..1 /\ Cardinality(On(x)) \in Nat
      BY PipelineTypes
    <3>3. /\ Cardinality(On(x)') \in Nat
          /\ Cardinality(On(x)') <= Cardinality(On(x))
          /\ x = m => Cardinality(On(x)') <= Cardinality(On(x)) - 1
      <4>1. On(x) \subseteq Workers /\ On(x)' \subseteq Workers
        BY DEF On
      <4>2. x = m => w \in On(x)
        BY <1>1 DEF On
      <4> QED
        BY <1>9, <4>1, <4>2, WorkerSets DEF Assumed
    <3>4. CASE x = m
      BY <1>5, <3>1, <3>2, <3>3, <3>4
    <3>5. CASE x # m
      BY <1>5, <3>1, <3>2, <3>3, <3>5
    <3> QED
      BY <3>4, <3>5
  <2>3. \A x : Waits(x)' = Waits(x)
    BY <1>1 DEF Waits
  <2> QED
    BY <1>1, <1>3, <2>1, <2>2, <2>3 DEF CountOK
<1> QED
  BY <1>1, <1>6, <1>7, <1>8, <1>10, <1>11 DEF PipelineIInv, EndsOK

LEMMA FinishKeeps ==
  ASSUME Assumed, PipelineIInv, NEW w \in Workers, Pipeline!Finish(w)
  PROVE  PipelineIInv'
<1>1. PICK s :
        /\ worker[w] \in {"ack", "nack"}
        /\ s = "consume" \/ (~ conn[w] /\ s \in {"exited", "wait"})
        /\ job' = [job EXCEPT ![w] = None] /\ unacked' = [unacked EXCEPT ![w] = None]
        /\ worker' = [worker EXCEPT ![w] = s]
        /\ UNCHANGED <<log, answer, queue, synced, conn, attempts, faults>>
  BY DEF Pipeline!Finish, Pipeline!Goes, Pipeline!Settle
<1>2. WorkerOK(w) /\ conn' = [conn EXCEPT ![w] = conn[w]] /\ Places' = Places
  BY <1>1, NothingMoves DEF Places
<1>3. /\ worker'[w] = s /\ job'[w] = None /\ unacked'[w] = None
      /\ \A v \in Workers \ {w} : unacked'[v] = unacked[v]
  BY <1>1 DEF PipelineIInv, WorkersOK
<1>4. MessagesOK'
  BY <1>1, <1>2 DEF PipelineIInv, MessagesOK
<1>5. WorkersOK'
  <2>1. WorkerOK(w)'
    BY <1>1, <1>2, <1>3 DEF WorkerOK, Working
  <2>2. \A v \in Workers \ {w} : unacked[v] # None => unacked[v] \notin queue'
    BY <1>1 DEF PipelineIInv, WorkersOK, WorkerOK
  <2> QED
    BY <1>1, <1>2, <2>1, <2>2, OneMoves
<1>6. KeptOK'
  <2>1. ASSUME NEW x \in Places, Kept(x)
        PROVE  Kept(x)'
    <3>1. x # None
      BY PipelineTypes
    <3>2. unacked[w] = x => attempts[x] > 0
      BY <1>1, <1>2, <3>1 DEF WorkerOK
    <3> QED
      BY <1>1, <1>3, <2>1, <3>2 DEF Kept
  <2> QED
    BY <1>1, <1>2, <2>1 DEF PipelineIInv, KeptOK, MessagesOK
<1>7. /\ \A x : On(x)' = On(x) \ {w}
      /\ Ending' = IF s = "exited" THEN Ending \cup {w} ELSE Ending \ {w}
  BY <1>1, <1>2, OneMovesSets
<1>8. /\ \A x : On(x) \ {w} = On(x)
      /\ s = "exited" => Ending \cup {w} = Ending
  BY <1>1 DEF On, Ending, Working
<1>9. CountOK'
  BY <1>1, <1>2, <1>7, <1>8 DEF PipelineIInv, CountOK, Waits
<1>10. EndsOK'
  <2>1. PICK k \in Nat :
          k = faults.loss + faults.press + Cardinality(Workers) * faults.crash
    BY PipelineTypes
  <2>2. /\ Ending' \subseteq Workers
        /\ Ending' \subseteq Ending
    BY <1>7, <1>8 DEF Ending
  <2>3. Cardinality(Ending') \in Nat /\ Cardinality(Ending') <= Cardinality(Ending)
    BY <2>2, WorkerSets, PipelineTypes DEF Assumed
  <2>4. Cardinality(Ending) <= k
    BY <2>1 DEF PipelineIInv, EndsOK
  <2>5. Cardinality(Ending') <= k
    BY <2>3, <2>4, PipelineTypes
  <2> QED
    BY <1>1, <2>1, <2>5 DEF EndsOK
<1> QED
  BY <1>1, <1>4, <1>5, <1>6, <1>9, <1>10 DEF PipelineIInv

(* A crash puts back what was on disk and ends every connection: it        *)
(* explains one repetition of each message and the end of every worker.    *)
LEMMA CrashKeeps ==
  ASSUME Assumed, PipelineIInv, Pipeline!Crash
  PROVE  PipelineIInv'
<1>1. /\ faults' = [faults EXCEPT !.crash = faults.crash + 1]
      /\ queue' = (queue \cup Pipeline!Unacked(Workers)) \cap synced
      /\ unacked' = [w \in Workers |-> None] /\ conn' = [w \in Workers |-> FALSE]
      /\ answer' = [e \in Events |-> IF answer[e] = "open" THEN "500" ELSE answer[e]]
      /\ UNCHANGED <<log, synced, worker, job, attempts>>
  BY Zenon DEF Pipeline!Crash
<1>2. faults' = [loss |-> faults.loss, press |-> faults.press,
                 crash |-> faults.crash + 1]
  BY <1>1, FaultsCrash DEF PipelineIInv
<1>3. /\ faults' = [loss |-> faults'.loss, press |-> faults'.press,
                    crash |-> faults'.crash]
      /\ faults'.loss = faults.loss /\ faults'.press = faults.press
      /\ faults'.crash = faults.crash + 1
  BY <1>2
<1>4. Places' = Places
  BY <1>1 DEF Places
<1>5. MessagesOK'
  BY <1>1, <1>4 DEF PipelineIInv, MessagesOK
<1>6. WorkersOK'
  BY <1>1, <1>4 DEF PipelineIInv, WorkersOK, WorkerOK, Working
<1>7. KeptOK'
  <2>1. ASSUME NEW m \in synced
        PROVE  Kept(m)'
    <3>1. m # None /\ Kept(m)
      BY PipelineTypes DEF PipelineIInv, MessagesOK, KeptOK
    <3>2. m \in queue \/ (\E w \in Workers : unacked[w] = m) => m \in queue'
      BY <1>1, <2>1, <3>1 DEF Pipeline!Unacked
    <3> QED
      BY <1>1, <3>1, <3>2 DEF Kept
  <2>2. faults'.crash # 0
    BY <1>3, PipelineTypes
  <2> QED
    BY <1>1, <2>1, <2>2 DEF KeptOK
<1>8. CountOK'
  <2>1. PICK f \in Nat : f = faults.loss + faults.press + faults.crash
    BY PipelineTypes
  <2>2. 1 + faults'.loss + faults'.press + faults'.crash = f + 2
    <3>1. \A a, b, c \in Nat : f = a + b + c => 1 + a + b + (c + 1) = f + 2
      OBVIOUS
    <3>2. 1 + faults.loss + faults.press + (faults.crash + 1) = f + 2
      BY <2>1, <3>1, PipelineTypes
    <3> QED
      BY <1>3, <3>2
  <2>3. \A m : On(m)' = On(m)
    BY <1>1 DEF On
  <2>4. ASSUME NEW m \in Places
        PROVE  attempts[m] + Waits(m)' + Cardinality(On(m)) <= f + 2
    <3>1. attempts[m] + Waits(m) + Cardinality(On(m)) <= f + 1
      BY <2>1, PipelineTypes DEF PipelineIInv, CountOK
    <3>2. /\ Waits(m) \in 0..1 /\ Waits(m)' \in 0..1
          /\ attempts[m] \in Nat /\ Cardinality(On(m)) \in Nat
      BY PipelineTypes DEF Waits
    <3> QED
      BY <3>1, <3>2
  <2> QED
    BY <1>1, <1>4, <2>2, <2>3, <2>4 DEF CountOK
<1>9. EndsOK'
  <2>1. PICK c \in Nat : c = Cardinality(Workers)
    BY PipelineTypes
  <2>2. PICK k \in Nat : k = c * faults.crash
    BY <2>1, PipelineTypes
  <2>3. c * (faults.crash + 1) = k + c
    BY <2>2, PipelineTypes
  <2>4. Cardinality(Ending') \in Nat /\ Cardinality(Ending') <= c
    <3>1. Ending' \subseteq Workers
      BY DEF Ending
    <3>2. IsFiniteSet(Workers)
      BY DEF Assumed
    <3> QED
      BY <2>1, <3>1, <3>2, FS_Subset, FS_CardinalityType
  <2>5. Cardinality(Ending') <= faults.loss + faults.press + (k + c)
    BY <2>4, PipelineTypes
  <2> QED
    BY <1>1, <1>3, <2>1, <2>3, <2>5 DEF EndsOK
<1>10. {faults'.loss, faults'.press, faults'.crash} \subseteq Nat
  BY <1>3, PipelineTypes
<1> QED
  BY <1>3, <1>5, <1>6, <1>7, <1>8, <1>9, <1>10 DEF PipelineIInv

LEMMA PipelineSteps ==
  ASSUME Assumed, PipelineIInv, [Pipeline!Next]_(Pipeline!vars)
  PROVE  PipelineIInv'
<1>1. CASE UNCHANGED Pipeline!vars
  <2>1. UNCHANGED <<log, answer, queue, synced, unacked, conn, worker, job, attempts,
                    faults>>
    BY <1>1 DEF Pipeline!vars
  <2> QED
    BY <2>1 DEF PipelineIInv, MessagesOK, WorkersOK, WorkerOK, KeptOK, CountOK, EndsOK,
       Kept, Waits, On, Ending, Working, Places
<1>2. CASE Pipeline!Next
  <2>1. ASSUME NEW e \in Events,
               Pipeline!Publish(e) \/ \E code \in {"202", "500"} : Pipeline!Answer(e, code)
        PROVE  PipelineIInv'
    BY <2>1, PublishKeeps, AnswerKeeps
  <2>2. ASSUME NEW m, Pipeline!Sync(m)
        PROVE  PipelineIInv'
    BY <2>2, SyncKeeps
  <2>3. ASSUME NEW w \in Workers,
               Pipeline!Connect(w) \/ Pipeline!Notice(w) \/ Pipeline!Retry(w)
        PROVE  PipelineIInv'
    BY <2>3, ConnectKeeps
  <2>4. ASSUME NEW w \in Workers,
               Pipeline!Deliver(w) \/ Pipeline!Process(w) \/ Pipeline!Finish(w)
        PROVE  PipelineIInv'
    BY <2>4, DeliverKeeps, ProcessKeeps, FinishKeeps
  <2>5. ASSUME NEW w \in Workers, Pipeline!Lose(w) \/ Pipeline!Press(w)
        PROVE  PipelineIInv'
    BY <2>5, LoseKeeps, PressKeeps
  <2> QED
    BY <1>2, <2>1, <2>2, <2>3, <2>4, <2>5, CrashKeeps DEF Pipeline!Next
<1> QED
  BY <1>1, <1>2

LEMMA PipelineImplies ==
  ASSUME Assumed, PipelineIInv
  PROVE  Pipeline!PipelineInv
<1>1. Pipeline!Messages = Places
  BY DEF Pipeline!Messages, Places, PipelineIInv, MessagesOK
<1>2. /\ log \in Seq(Events) /\ queue \subseteq Places /\ synced \subseteq Places
  BY DEF PipelineIInv, MessagesOK
<1>3. Pipeline!TypeOK
  <2>1. ASSUME NEW w \in Workers
        PROVE  /\ worker[w] \in {"connect", "consume", "process", "ack", "nack", "wait",
                                 "exited"}
               /\ job[w] \in Places \cup {None}
               /\ worker[w] \in {"process", "ack", "nack"} <=> job[w] # None
               /\ unacked[w] # None =>
                    conn[w] /\ unacked[w] = job[w] /\ unacked[w] \notin queue
    <3>1. WorkerOK(w) /\ None \notin Places
      BY NothingMoves, PipelineTypes
    <3> QED
      BY <3>1 DEF WorkerOK, Working
  <2> QED
    BY <1>1, <1>2, <2>1 DEF Pipeline!TypeOK
<1>4. \A m \in Places : Kept(m) => Pipeline!Kept(m)
  <2> SUFFICES ASSUME NEW m \in Places, Kept(m)
               PROVE  m \in queue \cup Pipeline!Unacked(Workers) \cup Pipeline!Processed
    BY DEF Pipeline!Kept
  <2>1. m # None
    BY PipelineTypes
  <2> QED
    BY <1>1, <2>1 DEF Kept, Pipeline!Unacked, Pipeline!Processed
<1>5. Pipeline!StoredIsKept /\ Pipeline!AcceptedIsKept
  BY <1>1, <1>2, <1>4
     DEF Pipeline!StoredIsKept, Pipeline!AcceptedIsKept, PipelineIInv, KeptOK, MessagesOK
<1>6. Pipeline!RepeatsAreExplained
  <2> SUFFICES ASSUME NEW m \in Places
               PROVE  attempts[m] <= 1 + faults.loss + faults.press + faults.crash
    BY <1>1 DEF Pipeline!RepeatsAreExplained
  <2>1. PICK f \in Nat : f = 1 + faults.loss + faults.press + faults.crash
    BY PipelineTypes
  <2>2. attempts[m] + Waits(m) + Cardinality(On(m)) <= f
    BY <2>1 DEF PipelineIInv, CountOK
  <2>3. attempts[m] \in Nat /\ Waits(m) \in 0..1 /\ Cardinality(On(m)) \in Nat
    BY PipelineTypes
  <2>4. attempts[m] <= f
    BY <2>2, <2>3
  <2> QED
    BY <2>1, <2>4
<1>7. Pipeline!EndsAreExplained
  <2> DEFINE E == {w \in Workers : worker[w] = "exited"}
  <2>1. E \subseteq Ending /\ E \subseteq Workers /\ Ending \subseteq Workers
    BY DEF Ending
  <2>2. \A S : Pipeline!Cardinality(S) = Cardinality(S)
    BY DEF Pipeline!Cardinality, Cardinality
  <2>3. Cardinality(E) \in Nat /\ Cardinality(E) <= Cardinality(Ending)
    <3>1. IsFiniteSet(Ending)
      BY <2>1, FS_Subset DEF Assumed
    <3> HIDE DEF E
    <3> QED
      BY <2>1, <3>1, FS_Subset, FS_CardinalityType
  <2>4. PICK k \in Nat :
          k = faults.loss + faults.press + Cardinality(Workers) * faults.crash
    BY PipelineTypes
  <2>5. Cardinality(Ending) <= k
    BY <2>4 DEF PipelineIInv, EndsOK
  <2>6. Cardinality(E) <= k
    <3> HIDE DEF E
    <3> QED
      BY <2>3, <2>5, PipelineTypes
  <2> QED
    BY <2>2, <2>4, <2>6 DEF Pipeline!EndsAreExplained
<1> QED
  BY <1>3, <1>5, <1>6, <1>7 DEF Pipeline!PipelineInv

(* metering_processor.py:20-66, metering.py:30-65: whatever the number of  *)
(* workers and faults, what the broker stored is not lost, what was        *)
(* answered 202 is not lost before a crash of the broker, and a message is *)
(* repeated, and a worker ends, only for a fault that explains it.         *)
THEOREM NothingIsLostOrRepeated == Spec => []PipelineInv
<1>1. Assumed
  BY NoneIsNoMessage, WorkersAreFinite DEF Assumed
<1>2. Init => PipelineIInv
  BY <1>1, PipelineStarts DEF Init
<1>3. PipelineIInv /\ [Next]_vars => PipelineIInv'
  <2>1. [Next]_vars => [Pipeline!Next]_(Pipeline!vars)
    BY DEF Next, vars, pipelineVars, Pipeline!vars
  <2> QED
    BY <1>1, <2>1, PipelineSteps
<1>4. PipelineIInv => PipelineInv
  BY <1>1, PipelineImplies DEF PipelineInv
<1> QED
  BY <1>2, <1>3, <1>4, PTL DEF Spec
=============================================================================
