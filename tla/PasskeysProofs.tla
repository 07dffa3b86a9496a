--------------------------- MODULE PasskeysProofs ---------------------------
(***************************************************************************)
(* TLAPS proofs about Passkeys, for any set of challenges, credentials and *)
(* worker threads and any bound on the counters: a challenge is taken out  *)
(* once, answers at most one sign-in, is dropped by no other ceremony, and *)
(* a user who registered a passkey keeps a credential in the column.       *)
(***************************************************************************)
EXTENDS Passkeys, TLAPS

-----------------------------------------------------------------------------
(* The inductive invariant *)

Ceremonies == {"registration", "authentication"}
Registering == {"pop", "attested"}
SigningIn == {"email", "discoverable", "asserted"}

(* The steps at which a request works on a challenge it took out. *)
Holds(t) == req[t].pc \in {"attested", "asserted"}

(* A challenge is pending for one ceremony at a time, and one that was     *)
(* taken out is not pending.                                               *)
Pending(c) == c \in discoverable \/ \E p \in Ceremonies : pending[p] = c

ChallengesInv ==
  /\ pending["registration"] # None =>
       pending["registration"] # pending["authentication"]
  /\ \A p \in Ceremonies : pending[p] \notin discoverable
  /\ \A c \in taken : ~ Pending(c)

(* The ORM never wrote a count that a sign-in advanced. *)
SomeStored == registered # {} => DOMAIN column # {}
CountsInv == \A k \in DOMAIN column : column[k] = 0

CoreInv == TypeOK /\ SomeStored /\ CountsInv /\ OneSignInPerChallenge

(* What clients hold. *)
ClientInv ==
  /\ \A a \in created : a.key \in Keys /\ a.challenge \in issued
  /\ \A a \in signed :
       a.key \in registered /\ a.challenge \in issued /\ a.count \in Counts

(* A request answers with what its client holds.  The credentials it       *)
(* loaded are none only if it registers one; and if there were some, there *)
(* are some now.                                                           *)
RequestInv(t) ==
  /\ req[t].pc \in {"idle"} \cup Registering \cup SigningIn
  /\ req[t].pc \in Registering => req[t].answer \in created
  /\ req[t].pc \in SigningIn =>
       req[t].answer \in signed /\ DOMAIN req[t].loaded # {}
  /\ ~ At(t, "idle") /\ DOMAIN req[t].loaded # {} => DOMAIN column # {}

(* A challenge that was taken out is in the hands of one request, or       *)
(* answered by the assertion that signed the user in, or wasted.           *)
HolderInv ==
  /\ \A t \in Threads : Holds(t) => req[t].challenge \in taken
  /\ \A t, u \in Threads :
       Holds(t) /\ Holds(u) /\ t # u => req[t].challenge # req[u].challenge
  /\ \A a \in accepted :
       /\ a.challenge \in taken
       /\ \A t \in Threads : Holds(t) => req[t].challenge # a.challenge

IInv ==
  /\ CoreInv
  /\ req = [t \in Threads |-> req[t]]
  /\ ChallengesInv /\ ClientInv /\ HolderInv
  /\ \A t \in Threads : RequestInv(t)

-----------------------------------------------------------------------------

USE NoneIsNothing, MaxCountIsNat

LEMMA InitIInv == Init => IInv
<1> SUFFICES ASSUME Init PROVE IInv
  OBVIOUS
<1>1. CoreInv
  BY DEF Init, CoreInv, TypeOK, SomeStored, CountsInv, OneSignInPerChallenge,
         Counts, Idle, At
<1>2. ChallengesInv /\ ClientInv
  BY DEF Init, ChallengesInv, ClientInv, Ceremonies
<1>3. HolderInv /\ \A t \in Threads : RequestInv(t)
  BY DEF Init, HolderInv, Holds, RequestInv, Idle, At, Registering, SigningIn
<1>4. req = [t \in Threads |-> req[t]]
  BY DEF Init
<1> QED
  BY <1>1, <1>2, <1>3, <1>4 DEF IInv

(* What Serve() does to the requests. *)
LEMMA Served ==
  ASSUME IInv, NEW t \in Threads, NEW r, Serve(t, r)
  PROVE  /\ req'[t] = r
         /\ \A u \in Threads : u # t => req'[u] = req[u]
         /\ req' = [u \in Threads |-> req'[u]]
BY DEF IInv, Serve

(* A request that is not served is not disturbed. *)
LEMMA Undisturbed ==
  ASSUME IInv, NEW t \in Threads, req'[t] = req[t],
         created \subseteq created', signed \subseteq signed',
         DOMAIN column # {} => DOMAIN column' # {}
  PROVE  RequestInv(t)'
BY DEF IInv, RequestInv, At

(* Steps of the clients and of time leave the requests and the column. *)
LEMMA RequestsStay ==
  ASSUME IInv, UNCHANGED <<column, req, taken, accepted>>,
         created \subseteq created', signed \subseteq signed'
  PROVE  /\ req' = [t \in Threads |-> req'[t]]
         /\ HolderInv'
         /\ \A t \in Threads : RequestInv(t)'
<1>1. HolderInv'
  BY DEF IInv, HolderInv, Holds
<1>2. \A t \in Threads : RequestInv(t)'
  BY Undisturbed
<1> QED
  BY <1>1, <1>2 DEF IInv

-----------------------------------------------------------------------------
(* Challenges and clients *)

LEMMA PurgedShape ==
  ASSUME IInv
  PROVE  /\ Purged \in [Ceremonies -> issued \cup {None}]
         /\ \A p \in Ceremonies : Purged[p] \in {pending[p], None}
BY DEF IInv, CoreInv, TypeOK, Purged, Ceremonies

(* A challenge that is handed out was never seen: it is in no one's hands. *)
LEMMA StoreUserKeeps ==
  ASSUME IInv, NEW p \in Ceremonies, NEW c \in Challenges, StoreUser(p, c)
  PROVE  IInv'
<1>1. /\ c \notin issued /\ c # None
      /\ issued' = issued \cup {c}
      /\ pending' = [Purged EXCEPT ![p] = c]
      /\ discoverable' = discoverable \ expired
      /\ UNCHANGED <<column, expired, req, created, signed, counter, taken,
                     registered, accepted>>
  BY DEF StoreUser, Fresh, client
<1>2. /\ pending' \in [Ceremonies -> issued' \cup {None}]
      /\ pending'[p] = c
      /\ \A q \in Ceremonies : q # p => pending'[q] \in {pending[q], None}
  BY <1>1, PurgedShape
<1>3. CoreInv'
  BY <1>1, <1>2 DEF IInv, CoreInv, TypeOK, SomeStored, CountsInv,
                    OneSignInPerChallenge, At, Ceremonies
<1>4. ChallengesInv'
  BY <1>1, <1>2 DEF IInv, CoreInv, TypeOK, ChallengesInv, Pending,
                    Ceremonies
<1>5. ClientInv'
  BY <1>1 DEF IInv, ClientInv
<1> QED
  BY <1>1, <1>3, <1>4, <1>5, RequestsStay DEF IInv

LEMMA StoreDiscoverableKeeps ==
  ASSUME IInv, NEW c \in Challenges, StoreDiscoverable(c)
  PROVE  IInv'
<1>1. /\ c \notin issued /\ c # None
      /\ issued' = issued \cup {c}
      /\ pending' = Purged
      /\ discoverable' = (discoverable \ expired) \cup {c}
      /\ UNCHANGED <<column, expired, req, created, signed, counter, taken,
                     registered, accepted>>
  BY DEF StoreDiscoverable, Fresh, client
<1>2. /\ pending' \in [Ceremonies -> issued \cup {None}]
      /\ \A q \in Ceremonies : pending'[q] \in {pending[q], None}
  BY <1>1, PurgedShape
<1>3. CoreInv'
  BY <1>1, <1>2 DEF IInv, CoreInv, TypeOK, SomeStored, CountsInv,
                    OneSignInPerChallenge, At, Ceremonies
<1>4. ChallengesInv'
  BY <1>1, <1>2 DEF IInv, CoreInv, TypeOK, ChallengesInv, Pending,
                    Ceremonies
<1>5. ClientInv'
  BY <1>1 DEF IInv, ClientInv
<1> QED
  BY <1>1, <1>3, <1>4, <1>5, RequestsStay DEF IInv

LEMMA ExpireKeeps ==
  ASSUME IInv, NEW c \in Challenges, Expire(c)
  PROVE  IInv'
<1>1. /\ expired' \subseteq issued
      /\ UNCHANGED <<column, pending, discoverable, req, created, signed,
                     counter, issued, taken, registered, accepted>>
  BY DEF Expire, IInv, CoreInv, TypeOK, store, client, history
<1>2. CoreInv'
  BY <1>1 DEF IInv, CoreInv, TypeOK, SomeStored, CountsInv,
              OneSignInPerChallenge, At
<1>3. ChallengesInv' /\ ClientInv'
  BY <1>1 DEF IInv, ChallengesInv, ClientInv, Pending
<1> QED
  BY <1>1, <1>2, <1>3, RequestsStay DEF IInv

LEMMA CreateKeeps ==
  ASSUME IInv, NEW k \in Keys, Create(k)
  PROVE  IInv'
<1>1. /\ created' = created \cup
                      {[key |-> k, challenge |-> pending["registration"]]}
      /\ pending["registration"] \in issued
      /\ UNCHANGED <<column, pending, discoverable, expired, req, signed,
                     counter, issued, taken, registered, accepted>>
  BY DEF Create, IInv, CoreInv, TypeOK, store, history
<1>2. CoreInv'
  BY <1>1 DEF IInv, CoreInv, TypeOK, SomeStored, CountsInv,
              OneSignInPerChallenge, At
<1>3. ChallengesInv' /\ ClientInv'
  BY <1>1 DEF IInv, ChallengesInv, ClientInv, Pending
<1> QED
  BY <1>1, <1>2, <1>3, RequestsStay DEF IInv

LEMMA SignKeeps ==
  ASSUME IInv, NEW k \in Keys, NEW c \in Challenges, Sign(k, c)
  PROVE  IInv'
<1>1. /\ c \in issued /\ k \in registered
      /\ counter[k] + 1 \in Counts
      /\ counter' = [counter EXCEPT ![k] = counter[k] + 1]
      /\ UNCHANGED <<column, pending, discoverable, expired, req, created,
                     issued, taken, registered, accepted>>
  BY DEF Sign, IInv, CoreInv, TypeOK, Counts, store, history
<1>2. counter' \in [Keys -> Counts] /\ counter'[k] \in Counts
  BY <1>1 DEF IInv, CoreInv, TypeOK
<1>3. signed' = signed \cup
                  {[key |-> k, challenge |-> c, count |-> counter'[k]]}
  BY DEF Sign
<1>4. CoreInv'
  BY <1>1, <1>2, <1>3 DEF IInv, CoreInv, TypeOK, SomeStored, CountsInv,
                          OneSignInPerChallenge, At
<1>5. ClientInv'
  BY <1>1, <1>2, <1>3 DEF IInv, ClientInv
<1>6. ChallengesInv'
  BY <1>1 DEF IInv, ChallengesInv, Pending
<1> QED
  BY <1>1, <1>3, <1>4, <1>5, <1>6, RequestsStay DEF IInv

-----------------------------------------------------------------------------
(* Requests *)

(* A request that is served without a challenge, and changes nothing else. *)
LEMMA ServedOnly ==
  ASSUME IInv, NEW t \in Threads, NEW r, Serve(t, r),
         UNCHANGED <<column, store, expired, client, history>>,
         r.pc \notin {"attested", "asserted"}, RequestInv(t)'
  PROVE  IInv'
<1>1. /\ req'[t] = r
      /\ \A u \in Threads : u # t => req'[u] = req[u]
      /\ req' = [u \in Threads |-> req'[u]]
  BY Served
<1>2. UNCHANGED <<column, pending, discoverable, expired, created, signed,
                  counter, issued, taken, registered, accepted>>
  BY DEF store, client, history
<1>3. \A u \in Threads : RequestInv(u)'
  BY <1>1, <1>2, Undisturbed
<1>4. CoreInv'
  BY <1>2, <1>3 DEF IInv, CoreInv, TypeOK, SomeStored, CountsInv,
     OneSignInPerChallenge, RequestInv, At, Registering, SigningIn
<1>5. ChallengesInv' /\ ClientInv'
  BY <1>2 DEF IInv, ChallengesInv, ClientInv, Pending
<1>6. HolderInv'
  BY <1>1, <1>2 DEF IInv, HolderInv, Holds
<1> QED
  BY <1>1, <1>3, <1>4, <1>5, <1>6 DEF IInv

LEMMA LoadKeeps ==
  ASSUME IInv, NEW t \in Threads, NEW a,
         \/ a \in created /\ RegisterLoad(t, a)
         \/ a \in signed /\ SignInLoad(t, a)
  PROVE  IInv'
<1>1. UNCHANGED <<column, store, expired, client, history, created, signed>>
  BY DEF RegisterLoad, SignInLoad, client
<1>2. CASE a \in created /\ RegisterLoad(t, a)
  <2> DEFINE r == [pc |-> "pop", answer |-> a, loaded |-> column]
  <2>1. Serve(t, r)
    BY <1>2 DEF RegisterLoad
  <2>2. RequestInv(t)'
    BY <1>1, <1>2, <2>1, Served DEF RequestInv, Registering, SigningIn, At
  <2> QED
    BY <1>1, <2>1, <2>2, ServedOnly
<1>3. CASE a \in signed /\ SignInLoad(t, a)
  <2> DEFINE r == [pc |-> "email", answer |-> a, loaded |-> column]
  <2>1. Serve(t, r) /\ DOMAIN column # {}
    BY <1>3 DEF SignInLoad, Found
  <2>2. RequestInv(t)'
    BY <1>1, <1>3, <2>1, Served DEF RequestInv, Registering, SigningIn, At
  <2> QED
    BY <1>1, <2>1, <2>2, ServedOnly
<1> QED
  BY <1>2, <1>3

(* A pending challenge that goes to one request was in no one's hands.     *)
LEMMA TakingKeeps ==
  ASSUME IInv, NEW t \in Threads, NEW c \in issued, Pending(c),
         taken' = taken \cup {c}, accepted' = accepted,
         req'[t].challenge = c,
         \A u \in Threads : u # t => req'[u] = req[u]
  PROVE  HolderInv'
<1>1. c \notin taken
  BY DEF IInv, ChallengesInv
<1> QED
  BY <1>1 DEF IInv, HolderInv, Holds

LEMMA ReleasingKeeps ==
  ASSUME IInv, NEW t \in Threads, taken' = taken, accepted' = accepted,
         ~ Holds(t)',
         \A u \in Threads : u # t => req'[u] = req[u]
  PROVE  HolderInv'
BY DEF IInv, HolderInv, Holds

LEMMA PopUserKeeps ==
  ASSUME IInv, NEW t \in Threads, NEW p \in Ceremonies,
         NEW found, NEW missing, PopUser(t, p, found, missing),
         missing.pc \notin {"attested", "asserted"}, RequestInv(t)',
         UNCHANGED <<column, discoverable, expired, client,
                     issued, registered, accepted>>
  PROVE  IInv'
<1> DEFINE c  == pending[p]
           ok == c # None /\ c \notin expired
<1>1. /\ Serve(t, IF ok THEN With(t, found, c) ELSE missing)
      /\ taken' = IF ok THEN taken \cup {c} ELSE taken
      /\ pending' = [pending EXCEPT ![p] = None]
      /\ c \in issued \cup {None}
  BY DEF PopUser, IInv, CoreInv, TypeOK, Ceremonies
<1>2. UNCHANGED <<created, signed, counter>>
  BY DEF client
<1>3. /\ req'[t] = IF ok THEN With(t, found, c) ELSE missing
      /\ \A u \in Threads : u # t => req'[u] = req[u]
      /\ req' = [u \in Threads |-> req'[u]]
  BY <1>1, Served
<1>4. \A u \in Threads : RequestInv(u)'
  BY <1>2, <1>3, Undisturbed
<1>5. /\ pending' \in [Ceremonies -> issued \cup {None}]
      /\ pending'[p] = None
      /\ \A q \in Ceremonies : q # p => pending'[q] = pending[q]
  BY <1>1 DEF IInv, CoreInv, TypeOK, Ceremonies
<1>6. CoreInv'
  <2>1. taken' \subseteq issued'
    BY <1>1 DEF IInv, CoreInv, TypeOK
  <2>2. \A u \in Threads : ~ At(u, "idle")' =>
          req'[u].answer \in created' \cup signed'
    BY <1>4 DEF RequestInv, At, Registering, SigningIn
  <2> QED
    BY <1>2, <1>5, <2>1, <2>2 DEF IInv, CoreInv, TypeOK,
       SomeStored, CountsInv, OneSignInPerChallenge, Ceremonies, At
<1>7. ChallengesInv' /\ ClientInv'
  BY <1>1, <1>2, <1>5 DEF IInv, CoreInv, TypeOK, ChallengesInv,
                          ClientInv, Pending, Ceremonies
<1>8. HolderInv'
  <2>1. CASE ok
    BY <1>1, <1>3, <2>1, TakingKeeps DEF With, Pending
  <2>2. CASE ~ ok
    BY <1>1, <1>3, <2>2, ReleasingKeeps DEF Holds
  <2> QED
    BY <2>1, <2>2
<1> QED
  BY <1>3, <1>4, <1>6, <1>7, <1>8 DEF IInv

(* A request that goes on keeps its answer and what it loaded. *)
LEMMA GoesOn ==
  ASSUME IInv, NEW t \in Threads, NEW label, NEW c,
         req'[t] = With(t, label, c),
         \/ At(t, "pop") /\ label = "attested"
         \/ req[t].pc \in SigningIn /\ label \in SigningIn,
         UNCHANGED <<column, client>>
  PROVE  RequestInv(t)'
<1>1. /\ req'[t].pc = label /\ req'[t].answer = req[t].answer
      /\ req'[t].loaded = req[t].loaded
  BY DEF With
<1>2. UNCHANGED <<column, created, signed>>
  BY DEF client
<1> QED
  BY <1>1, <1>2 DEF IInv, RequestInv, At, Registering, SigningIn

LEMMA RegisterPopKeeps ==
  ASSUME IInv, NEW t \in Threads, RegisterPop(t)
  PROVE  IInv'
<1>1. /\ PopUser(t, "registration", "attested", Idle)
      /\ At(t, "pop")
      /\ UNCHANGED <<column, discoverable, expired, client,
                     issued, registered, accepted>>
  BY DEF RegisterPop
<1>2. req'[t] = Idle \/
      \E c : req'[t] = With(t, "attested", c)
  BY <1>1, Served DEF PopUser
<1>3. RequestInv(t)'
  <2>1. CASE req'[t] = Idle
    BY <2>1 DEF RequestInv, Idle, At, Registering, SigningIn
  <2>2. ASSUME NEW c, req'[t] = With(t, "attested", c)
        PROVE  RequestInv(t)'
    BY <1>1, <2>2, GoesOn
  <2> QED
    BY <1>2, <2>1, <2>2
<1> QED
  BY <1>1, <1>3, PopUserKeeps DEF Ceremonies, Idle

LEMMA SignInPopUserKeeps ==
  ASSUME IInv, NEW t \in Threads, SignInPopUser(t)
  PROVE  IInv'
<1>1. /\ PopUser(t, "authentication", "asserted", With(t, "discoverable", None))
      /\ At(t, "email")
      /\ UNCHANGED <<column, discoverable, expired, client,
                     issued, registered, accepted>>
  BY DEF SignInPopUser
<1>2. \/ req'[t] = With(t, "discoverable", None)
      \/ \E c : req'[t] = With(t, "asserted", c)
  BY <1>1, Served DEF PopUser
<1>3. RequestInv(t)'
  BY <1>1, <1>2, GoesOn DEF SigningIn, At
<1> QED
  BY <1>1, <1>3, PopUserKeeps DEF Ceremonies, With

LEMMA SignInPopDiscoverableKeeps ==
  ASSUME IInv, NEW t \in Threads, SignInPopDiscoverable(t)
  PROVE  IInv'
<1> DEFINE c  == req[t].answer.challenge
           ok == IsUnexpired(c)
<1>1. /\ Serve(t, IF ok THEN With(t, "asserted", c) ELSE Idle)
      /\ taken' = IF ok THEN taken \cup {c} ELSE taken
      /\ discoverable' = discoverable \ {c}
      /\ At(t, "discoverable")
      /\ UNCHANGED <<column, pending, expired, counter, created, signed,
                     issued, registered, accepted>>
  BY DEF SignInPopDiscoverable, client
<1>2. /\ req'[t] = IF ok THEN With(t, "asserted", c) ELSE Idle
      /\ \A u \in Threads : u # t => req'[u] = req[u]
      /\ req' = [u \in Threads |-> req'[u]]
  BY <1>1, Served
<1>3. RequestInv(t)'
  BY <1>1, <1>2 DEF IInv, RequestInv, With, Idle, At, Registering, SigningIn
<1>4. \A u \in Threads : RequestInv(u)'
  BY <1>1, <1>2, <1>3, Undisturbed
<1>5. ok => c \in issued /\ c # None /\ Pending(c)
  BY DEF IsUnexpired, IInv, CoreInv, TypeOK, Pending
<1>6. CoreInv'
  <2>1. taken' \subseteq issued' /\ discoverable' \subseteq issued'
    BY <1>1, <1>5 DEF IInv, CoreInv, TypeOK
  <2>2. \A u \in Threads : ~ At(u, "idle")' =>
          req'[u].answer \in created' \cup signed'
    BY <1>4 DEF RequestInv, At, Registering, SigningIn
  <2> QED
    BY <1>1, <2>1, <2>2 DEF IInv, CoreInv, TypeOK, SomeStored, CountsInv,
                            OneSignInPerChallenge, At
<1>7. ChallengesInv' /\ ClientInv'
  BY <1>1, <1>5 DEF IInv, ChallengesInv, ClientInv, Pending, IsUnexpired
<1>8. HolderInv'
  <2>1. CASE ok
    BY <1>1, <1>2, <1>5, <2>1, TakingKeeps DEF With
  <2>2. CASE ~ ok
    BY <1>1, <1>2, <2>2, ReleasingKeeps DEF Holds, Idle
  <2> QED
    BY <2>1, <2>2
<1> QED
  BY <1>2, <1>4, <1>6, <1>7, <1>8 DEF IInv

-----------------------------------------------------------------------------
(* The end of a ceremony *)

(* The column is written only by a request that loaded none, with the one  *)
(* credential it registers.                                                *)
LEMMA RegisterStoreKeeps ==
  ASSUME IInv, NEW t \in Threads, RegisterStore(t)
  PROVE  IInv'
<1> DEFINE k == req[t].answer.key
<1>1. /\ At(t, "attested")
      /\ Serve(t, Idle)
      /\ registered' = registered \cup {k}
      /\ UNCHANGED <<pending, discoverable, expired, counter, created, signed,
                     issued, taken, accepted>>
  BY DEF RegisterStore, store, client
<1>2. /\ req'[t] = Idle
      /\ \A u \in Threads : u # t => req'[u] = req[u]
      /\ req' = [u \in Threads |-> req'[u]]
  BY <1>1, Served
<1>3. k \in Keys
  BY <1>1 DEF IInv, RequestInv, ClientInv, At, Registering
<1>4. \/ DOMAIN column' = {k} /\ column'[k] = 0
      \/ column' = column /\ DOMAIN column # {}
  <2>1. CASE DOMAIN req[t].loaded = {}
    <3>1. column' = [x \in DOMAIN req[t].loaded \cup {k} |->
                       IF x = k THEN 0 ELSE req[t].loaded[x]]
      BY <2>1 DEF RegisterStore, Save
    <3> QED
      BY <2>1, <3>1
  <2>2. CASE DOMAIN req[t].loaded # {}
    BY <1>1, <2>2 DEF RegisterStore, Save, IInv, RequestInv, At
  <2> QED
    BY <2>1, <2>2
<1>5. \A u \in Threads : RequestInv(u)'
  <2>1. RequestInv(t)'
    BY <1>2 DEF RequestInv, Idle, At, Registering, SigningIn
  <2> QED
    BY <1>1, <1>2, <1>4, <2>1, Undisturbed
<1>6. CoreInv'
  <2>1. /\ DOMAIN column' \subseteq registered'
        /\ \A x \in DOMAIN column' : column'[x] \in Counts
        /\ DOMAIN column' # {}
        /\ CountsInv'
    BY <1>1, <1>4 DEF IInv, CoreInv, TypeOK, Counts, CountsInv
  <2>2. \A u \in Threads : ~ At(u, "idle")' =>
          req'[u].answer \in created' \cup signed'
    BY <1>5 DEF RequestInv, At, Registering, SigningIn
  <2> QED
    BY <1>1, <1>3, <2>1, <2>2 DEF IInv, CoreInv, TypeOK,
       SomeStored, OneSignInPerChallenge, At
<1>7. ChallengesInv' /\ ClientInv'
  BY <1>1 DEF IInv, ChallengesInv, ClientInv, Pending
<1>8. HolderInv'
  BY <1>1, <1>2, ReleasingKeeps DEF Holds, Idle
<1> QED
  BY <1>2, <1>5, <1>6, <1>7, <1>8 DEF IInv

(* The challenge an accepted assertion answers was in this request's       *)
(* hands, and so in no other's, nor answered before.                       *)
LEMMA SignInAcceptKeeps ==
  ASSUME IInv, NEW t \in Threads, SignInAccept(t)
  PROVE  IInv'
<1> DEFINE a == req[t].answer
<1>1. /\ At(t, "asserted") /\ a.challenge = req[t].challenge
      /\ Serve(t, Idle)
      /\ accepted' = accepted \cup {a}
      /\ UNCHANGED <<pending, discoverable, expired, counter, created, signed,
                     issued, taken, registered>>
  BY DEF SignInAccept, Verified, store, client
<1>2. /\ req'[t] = Idle
      /\ \A u \in Threads : u # t => req'[u] = req[u]
      /\ req' = [u \in Threads |-> req'[u]]
  BY <1>1, Served
<1>3. a \in signed /\ DOMAIN req[t].loaded # {} /\ Holds(t)
  BY <1>1 DEF IInv, RequestInv, At, SigningIn, Holds
<1>4. column' = column
  BY <1>3 DEF SignInAccept, Save
<1>5. /\ a.challenge \in taken
      /\ \A b \in accepted : b.challenge # a.challenge
      /\ \A u \in Threads : u # t /\ Holds(u) => req[u].challenge # a.challenge
  BY <1>1, <1>3 DEF IInv, HolderInv
<1>6. \A u \in Threads : RequestInv(u)'
  <2>1. RequestInv(t)'
    BY <1>2 DEF RequestInv, Idle, At, Registering, SigningIn
  <2> QED
    BY <1>1, <1>2, <1>4, <2>1, Undisturbed
<1>7. CoreInv'
  <2>1. \A u \in Threads : ~ At(u, "idle")' =>
          req'[u].answer \in created' \cup signed'
    BY <1>6 DEF RequestInv, At, Registering, SigningIn
  <2>2. OneSignInPerChallenge'
    BY <1>1, <1>5 DEF IInv, CoreInv, OneSignInPerChallenge
  <2> QED
    BY <1>1, <1>3, <1>4, <2>1, <2>2 DEF IInv, CoreInv, TypeOK,
       SomeStored, CountsInv, At
<1>8. ChallengesInv' /\ ClientInv'
  BY <1>1 DEF IInv, ChallengesInv, ClientInv, Pending
<1>9. HolderInv'
  <2>1. ~ Holds(t)' /\ \A u \in Threads : u # t => Holds(u)' = Holds(u)
    BY <1>2 DEF Holds, Idle
  <2> QED
    BY <1>1, <1>2, <1>5, <2>1 DEF IInv, HolderInv
<1> QED
  BY <1>2, <1>6, <1>7, <1>8, <1>9 DEF IInv

LEMMA RefuseKeeps ==
  ASSUME IInv, NEW t \in Threads, RegisterRefuse(t) \/ SignInRefuse(t)
  PROVE  IInv'
<1>1. /\ Serve(t, Idle)
      /\ UNCHANGED <<column, store, expired, client, history>>
  BY DEF RegisterRefuse, SignInRefuse
<1>2. RequestInv(t)'
  BY <1>1, Served DEF RequestInv, Idle, At, Registering, SigningIn
<1> QED
  BY <1>1, <1>2, ServedOnly DEF Idle

LEMMA RestartKeeps ==
  ASSUME IInv, Restart
  PROVE  IInv'
<1>1. /\ pending' = [c \in Ceremonies |-> None] /\ discoverable' = {}
      /\ req' = [t \in Threads |-> Idle]
      /\ UNCHANGED <<column, expired, counter, created, signed, issued, taken,
                     registered, accepted>>
  BY DEF Restart, IInv, CoreInv, TypeOK, client, history, Ceremonies
<1>2. CoreInv'
  BY <1>1 DEF IInv, CoreInv, TypeOK, SomeStored, CountsInv,
              OneSignInPerChallenge, At, Idle, Ceremonies
<1>3. ChallengesInv'
  BY <1>1 DEF IInv, CoreInv, TypeOK, ChallengesInv, Pending, Ceremonies
<1>4. ClientInv' /\ HolderInv' /\ \A t \in Threads : RequestInv(t)'
  BY <1>1 DEF IInv, ClientInv, HolderInv, Holds, RequestInv, At, Idle,
              Registering, SigningIn
<1>5. req' = [t \in Threads |-> req'[t]]
  BY <1>1
<1> QED
  BY <1>2, <1>3, <1>4, <1>5 DEF IInv

-----------------------------------------------------------------------------

LEMMA NextIInv == IInv /\ [Next]_vars => IInv'
<1> SUFFICES ASSUME IInv, [Next]_vars PROVE IInv'
  OBVIOUS
<1>1. ASSUME NEW c \in Challenges,
             RegisterOptions(c) \/ SignInOptions(c) \/ Expire(c)
             \/ \E k \in Keys : Sign(k, c)
      PROVE  IInv'
  BY <1>1, StoreUserKeeps, StoreDiscoverableKeeps, ExpireKeeps, SignKeeps
     DEF RegisterOptions, SignInOptions, Ceremonies
<1>2. ASSUME NEW t \in Threads,
             \/ \E a \in created : RegisterLoad(t, a)
             \/ \E a \in signed : SignInLoad(t, a)
             \/ Step(t)
      PROVE  IInv'
  BY <1>2, LoadKeeps, RegisterPopKeeps, SignInPopUserKeeps,
     SignInPopDiscoverableKeeps, RegisterStoreKeeps, SignInAcceptKeeps,
     RefuseKeeps DEF Step
<1>3. CASE UNCHANGED vars
  <2>1. UNCHANGED <<column, pending, discoverable, expired, req, counter,
                    created, signed, issued, taken, registered, accepted>>
    BY <1>3 DEF vars, store, client, history
  <2> QED
    BY <2>1, RequestsStay DEF IInv, CoreInv, TypeOK, SomeStored, CountsInv,
       OneSignInPerChallenge, At, ChallengesInv, Pending, ClientInv
<1> QED
  BY <1>1, <1>2, <1>3, CreateKeeps, RestartKeeps DEF Next

LEMMA Invariance == Spec => []IInv
BY InitIInv, NextIInv, PTL DEF Spec
-----------------------------------------------------------------------------
(* The refinement of OneTimeCodes *)

Live == (discoverable \cup {pending[p] : p \in DOMAIN pending})
          \ (expired \cup {None})

LEMMA LiveIsPending ==
  ASSUME IInv
  PROVE  /\ \A c : c \in Live <=> Pending(c) /\ c # None /\ c \notin expired
         /\ Live \subseteq issued
BY DEF IInv, CoreInv, TypeOK, Live, Pending, Ceremonies

LEMMA LiveAfter ==
  ASSUME IInv'
  PROVE  \A c : c \in Live' <=> Pending(c)' /\ c # None /\ c \notin expired'
BY DEF IInv, CoreInv, TypeOK, Live, Pending, Ceremonies

(* What the steps of OneTimeCodes are in terms of Live. *)
LEMMA Issues ==
  ASSUME NEW c \in Challenges, NEW S \in SUBSET Live, c \notin issued,
         issued' = issued \cup {c}, Live' = (Live \ S) \cup {c}, taken' = taken
  PROVE  OneTime!Next
BY DEF OneTime!Next, OneTime!Issue, Live

LEMMA Redeems ==
  ASSUME NEW c \in Challenges, c \in Live, issued' = issued,
         Live' = Live \ {c}, taken' = taken \cup {c}
  PROVE  OneTime!Next
BY DEF OneTime!Next, OneTime!Redeem, Live

LEMMA Drops ==
  ASSUME NEW S \in SUBSET Live, Live' = Live \ S, UNCHANGED <<issued, taken>>
  PROVE  OneTime!Next
BY DEF OneTime!Next, OneTime!Drop, Live

StepOrStutter == OneTime!Next \/ UNCHANGED <<issued, Live, taken>>

LEMMA StoreMaps ==
  ASSUME IInv, IInv', NEW c \in Challenges,
         (\E p \in Ceremonies : StoreUser(p, c)) \/ StoreDiscoverable(c)
  PROVE  StepOrStutter
<1>1. /\ c \notin issued /\ issued' = issued \cup {c}
      /\ expired' = expired /\ taken' = taken /\ c \notin expired
  BY DEF StoreUser, StoreDiscoverable, Fresh, IInv, CoreInv, TypeOK
<1>2. Pending(c)' /\ \A d : Pending(d)' => d \in {c, None} \/ Pending(d)
  <2>1. ASSUME NEW p \in Ceremonies, StoreUser(p, c)
        PROVE  Pending(c)' /\ \A d : Pending(d)' => d \in {c, None} \/ Pending(d)
    <3>1. pending' = [Purged EXCEPT ![p] = c] /\ discoverable' \subseteq discoverable
      BY <2>1 DEF StoreUser
    <3> QED
      BY <3>1, PurgedShape DEF Pending
  <2>2. CASE StoreDiscoverable(c)
    <3>1. pending' = Purged /\ discoverable' = (discoverable \ expired) \cup {c}
      BY <2>2 DEF StoreDiscoverable
    <3> QED
      BY <3>1, PurgedShape DEF Pending
  <2> QED
    BY <2>1, <2>2
<1>3. Live' = (Live \ (Live \ Live')) \cup {c}
  BY <1>1, <1>2, LiveIsPending, LiveAfter
<1> QED
  BY <1>1, <1>3, Issues DEF StepOrStutter

(* Taking a pending challenge out redeems it if it is still live. *)
LEMMA PopMaps ==
  ASSUME IInv, IInv', NEW c \in issued \cup {None},
         \A d : Pending(d)' <=> (Pending(d) /\ d # c) \/ (d = None /\ Pending(d)'),
         UNCHANGED <<expired, issued>>,
         taken' = IF c \in Live THEN taken \cup {c} ELSE taken
  PROVE  StepOrStutter
<1>1. Live' = Live \ {c}
  BY LiveIsPending, LiveAfter
<1>2. CASE c \in Live
  <2>1. c \in Challenges
    BY <1>2, LiveIsPending DEF IInv, CoreInv, TypeOK
  <2> QED
    BY <1>1, <1>2, <2>1, Redeems DEF StepOrStutter
<1>3. CASE c \notin Live
  BY <1>1, <1>3 DEF StepOrStutter
<1> QED
  BY <1>2, <1>3

LEMMA PopUserMaps ==
  ASSUME IInv, IInv', NEW t \in Threads, NEW p \in Ceremonies,
         NEW found, NEW missing, PopUser(t, p, found, missing),
         UNCHANGED <<discoverable, expired, issued>>
  PROVE  StepOrStutter
<1> DEFINE c == pending[p]
<1>1. /\ pending' = [pending EXCEPT ![p] = None]
      /\ taken' = IF c # None /\ c \notin expired THEN taken \cup {c} ELSE taken
      /\ c \in issued \cup {None} /\ Pending(c)
  BY DEF PopUser, IInv, CoreInv, TypeOK, Pending, Ceremonies
<1>2. /\ pending'[p] = None
      /\ \A q \in Ceremonies : q # p => pending'[q] = pending[q]
      /\ \A q \in Ceremonies : q # p /\ c # None => pending[q] # c
      /\ c \notin discoverable
  BY <1>1 DEF IInv, CoreInv, TypeOK, ChallengesInv, Ceremonies
<1>3. \A d : Pending(d)' <=> (Pending(d) /\ d # c) \/ (d = None /\ Pending(d)')
  BY <1>2 DEF Pending
<1>4. c # None /\ c \notin expired <=> c \in Live
  BY <1>1, LiveIsPending
<1> HIDE DEF c
<1> QED
  BY <1>1, <1>3, <1>4, PopMaps

LEMMA PopDiscoverableMaps ==
  ASSUME IInv, IInv', NEW t \in Threads, SignInPopDiscoverable(t)
  PROVE  StepOrStutter
<1> DEFINE c == req[t].answer.challenge
<1>1. /\ discoverable' = discoverable \ {c}
      /\ taken' = IF c \in discoverable \ expired THEN taken \cup {c} ELSE taken
      /\ UNCHANGED <<pending, expired, issued>>
  BY DEF SignInPopDiscoverable, IsUnexpired
<1>2. CASE c \in discoverable
  <2>1. c \in issued /\ c # None /\ Pending(c)
        /\ \A p \in Ceremonies : pending[p] # c
    BY <1>2 DEF IInv, CoreInv, TypeOK, ChallengesInv, Pending
  <2>2. \A d : Pending(d)' <=> (Pending(d) /\ d # c) \/ (d = None /\ Pending(d)')
    BY <1>1, <2>1 DEF Pending
  <2>3. c \in discoverable \ expired <=> c \in Live
    BY <1>2, <2>1, LiveIsPending
  <2> HIDE DEF c
  <2> QED
    BY <1>1, <2>1, <2>2, <2>3, PopMaps
<1>3. CASE c \notin discoverable
  <2>1. UNCHANGED <<discoverable, taken>>
    BY <1>1, <1>3
  <2> QED
    BY <1>1, <2>1 DEF StepOrStutter, Live
<1> QED
  BY <1>2, <1>3

LEMMA DropMaps ==
  ASSUME IInv, IInv', Restart \/ \E c \in Challenges : Expire(c)
  PROVE  StepOrStutter
<1>1. UNCHANGED <<issued, taken>>
  BY DEF Restart, Expire, history
<1>2. Live' \subseteq Live
  <2>1. \A d : Pending(d)' => Pending(d) \/ d = None
    BY DEF Restart, Expire, store, Pending, IInv, CoreInv, TypeOK,
           Ceremonies
  <2>2. expired \subseteq expired'
    BY DEF Restart, Expire
  <2> QED
    BY <2>1, <2>2, LiveIsPending, LiveAfter
<1>3. Live' = Live \ (Live \ Live')
  BY <1>2
<1> QED
  BY <1>1, <1>3, Drops DEF StepOrStutter

(* All other steps leave the challenges alone. *)
LEMMA OthersStutter ==
  ASSUME UNCHANGED <<pending, discoverable, expired, issued, taken>>
  PROVE  StepOrStutter
BY DEF StepOrStutter, Live

LEMMA StepMaps == IInv /\ IInv' /\ [Next]_vars => StepOrStutter
<1> SUFFICES ASSUME IInv, IInv', [Next]_vars PROVE StepOrStutter
  OBVIOUS
<1>1. ASSUME NEW c \in Challenges,
             RegisterOptions(c) \/ SignInOptions(c) \/ Expire(c)
      PROVE  StepOrStutter
  BY <1>1, StoreMaps, DropMaps DEF RegisterOptions, SignInOptions, Ceremonies
<1>2. ASSUME NEW t \in Threads, RegisterPop(t) \/ SignInPopUser(t)
      PROVE  StepOrStutter
  BY <1>2, PopUserMaps DEF RegisterPop, SignInPopUser, Ceremonies
<1>3. ASSUME NEW t \in Threads,
             \/ \E a \in created : RegisterLoad(t, a)
             \/ \E a \in signed : SignInLoad(t, a)
             \/ RegisterStore(t) \/ RegisterRefuse(t)
             \/ SignInAccept(t) \/ SignInRefuse(t)
      PROVE  StepOrStutter
  BY <1>3, OthersStutter DEF RegisterLoad, SignInLoad, RegisterStore,
     RegisterRefuse, SignInAccept, SignInRefuse, store, history
<1>4. ASSUME NEW k \in Keys, Create(k) \/ \E c \in Challenges : Sign(k, c)
      PROVE  StepOrStutter
  BY <1>4, OthersStutter DEF Create, Sign, store, history
<1>5. CASE UNCHANGED vars
  BY <1>5, OthersStutter DEF vars, store, history
<1> QED
  BY <1>1, <1>2, <1>3, <1>4, <1>5, PopDiscoverableMaps, DropMaps DEF Next, Step

-----------------------------------------------------------------------------
(* Theorems *)

(* The state is well typed; a user to whom a registration was reported     *)
(* keeps a credential in the column that its authenticator's counter has   *)
(* not fallen behind, whatever the ORM did not see; and of two accepted    *)
(* assertions none is a second answer to the other's challenge.            *)
THEOREM CeremoniesAreSound == Spec => []CeremoniesInv
<1>1. ASSUME IInv PROVE CeremoniesInv
  <2>1. ACredentialIsKept
    <3> SUFFICES ASSUME registered # {}
                 PROVE  \E k \in DOMAIN column : column[k] <= counter[k]
      BY DEF ACredentialIsKept
    <3>1. PICK k \in DOMAIN column : k \in Keys /\ column[k] = 0
      BY <1>1 DEF IInv, CoreInv, TypeOK, SomeStored, CountsInv
    <3>2. counter[k] \in Nat
      BY <1>1, <3>1 DEF IInv, CoreInv, TypeOK, Counts
    <3> QED
      BY <3>1, <3>2
  <2> QED
    BY <1>1, <2>1 DEF IInv, CoreInv, CeremoniesInv
<1> QED
  BY <1>1, Invariance, PTL

(* Over both maps of the store a challenge is issued once, taken out at    *)
(* most once, and never after it expired, was replaced or lost.            *)
THEOREM ChallengesAreTakenOnce == Spec => ChallengesAreOneTime
<1>1. Init => OneTime!Init
  BY DEF Init, OneTime!Init
<1>2. StepOrStutter => [OneTime!Next]_<<issued, Live, taken>>
  BY DEF StepOrStutter
<1> QED
  BY <1>1, <1>2, StepMaps, Invariance, PTL
     DEF Spec, ChallengesAreOneTime, OneTime!Spec, Live

(* A challenge issued without an email leaves the store when it expires,   *)
(* in a restart, or in the request that answers it.                        *)
THEOREM CeremoniesDoNotDropOthers == Spec => DiscoverableIsIndependent
<1>1. ASSUME [Next]_vars
      PROVE  \A c \in discoverable \ (discoverable' \cup expired) :
        \/ \E t \in Threads : At(t, "discoverable") /\ req[t].answer.challenge = c
        \/ Restart
  <2> SUFFICES ASSUME NEW c \in discoverable \ (discoverable' \cup expired)
               PROVE  \/ \E t \in Threads : At(t, "discoverable")
                                              /\ req[t].answer.challenge = c
                      \/ Restart
    OBVIOUS
  <2>1. discoverable' # discoverable
    OBVIOUS
  <2>2. ASSUME NEW d \in Challenges, RegisterOptions(d) \/ SignInOptions(d)
        PROVE  FALSE
    BY <1>1, <2>2 DEF RegisterOptions, SignInOptions, StoreUser, StoreDiscoverable
  <2>3. \/ Restart
        \/ \E t \in Threads : SignInPopDiscoverable(t)
    BY <1>1, <2>1, <2>2 DEF Next, Step, Expire, Sign, Create, RegisterLoad,
       SignInLoad, RegisterPop, RegisterStore, RegisterRefuse, SignInPopUser,
       SignInAccept, SignInRefuse, vars, store
  <2> QED
    BY <1>1, <2>3 DEF SignInPopDiscoverable
<1> QED
  BY <1>1, PTL DEF Spec, DiscoverableIsIndependent
=============================================================================
