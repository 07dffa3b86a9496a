------------------------------ MODULE Passkeys ------------------------------
(***************************************************************************)
(* The passkey ceremonies of one user (camp44/api/v1/passkey.py,           *)
(* core/webauthn.py): the server issues a challenge and keeps it in        *)
(* memory, the authenticator answers it, and the verify request takes the  *)
(* challenge out of the store and writes the user's JSON column of         *)
(* credentials.  Several tabs run ceremonies at the same time, requests    *)
(* are sent again, the process restarts.                                   *)
(*                                                                         *)
(* The endpoints run in worker threads.  An action is one locked call of   *)
(* the challenge store or one database statement.                          *)
(*                                                                         *)
(* The webauthn library is external and modelled as the code uses it: a    *)
(* call may fail for reasons of its own, and then the request is refused.  *)
(***************************************************************************)
EXTENDS Naturals

CONSTANTS
  Challenges,   \* generate_challenge()
  Keys,         \* credential ids, all of the user's authenticators
  Threads,      \* worker threads
  MaxCount,     \* bound on an authenticator's signature counter
  None

ASSUME NoneIsNothing == None \notin Challenges
ASSUME MaxCountIsNat == MaxCount \in Nat

VARIABLES
  column,        \* User.passkey_credentials: credential id -> sign_count
  pending,       \* _per_user: ceremony -> challenge
  discoverable,  \* _discoverable: challenges issued without an email
  expired,       \* challenges older than _CHALLENGE_TTL
  req,           \* req[t]: the verify request thread t serves
  counter,       \* counter[k]: the authenticator's own counter
  created,       \* attestations: what a client sends to register/verify
  signed,        \* assertions: what a client sends to authenticate/verify
  issued,        \* history: challenges handed out
  taken,         \* history: challenges a pop returned
  registered,    \* history: credentials reported as registered
  accepted       \* history: assertions that signed the user in

store == <<pending, discoverable>>
client == <<counter, created, signed>>
history == <<issued, taken, registered, accepted>>
vars == <<column, store, expired, req, client, history>>

Idle == [pc |-> "idle"]
Counts == 0..MaxCount

Init ==
  /\ column = [k \in {} |-> 0]
  /\ pending = [c \in {"registration", "authentication"} |-> None]
  /\ discoverable = {} /\ expired = {}
  /\ req = [t \in Threads |-> Idle]
  /\ counter = [k \in Keys |-> 0]
  /\ created = {} /\ signed = {}
  /\ issued = {} /\ taken = {} /\ registered = {} /\ accepted = {}

(* _purge_expired_locked() *)
Purged == [p \in DOMAIN pending |->
             IF pending[p] \in expired THEN None ELSE pending[p]]

(* generate_passkey_..._options(): a random challenge. *)
Fresh(c) == c \notin issued

StoreUser(ceremony, c) ==
  /\ Fresh(c)
  /\ issued' = issued \cup {c}
  /\ pending' = [Purged EXCEPT ![ceremony] = c]
  /\ discoverable' = discoverable \ expired
  /\ UNCHANGED <<column, expired, req, client, taken, registered, accepted>>

(* Mutant: the shared "public" slot there was before. *)
StorePublic(c) ==
  /\ Fresh(c)
  /\ issued' = issued \cup {c}
  /\ pending' = Purged
  /\ discoverable' = {c}
  /\ UNCHANGED <<column, expired, req, client, taken, registered, accepted>>

StoreDiscoverable(c) ==
  /\ Fresh(c)
  /\ issued' = issued \cup {c}
  /\ pending' = Purged
  /\ discoverable' = (discoverable \ expired) \cup {c}
  /\ UNCHANGED <<column, expired, req, client, taken, registered, accepted>>

(* POST /passkey/register/options *)
RegisterOptions(c) == StoreUser("registration", c)

(* POST /passkey/authenticate/options, with an email the user has or not.  *)
SignInOptions(c) == StoreUser("authentication", c) \/ StoreDiscoverable(c)

(* Five minutes pass. *)
Expire(c) ==
  /\ c \in issued \ expired
  /\ expired' = expired \cup {c}
  /\ UNCHANGED <<column, store, req, client, history>>

-----------------------------------------------------------------------------
(* The browser and its authenticators *)

(* A new credential, for the registration challenge shown last. *)
Create(k) ==
  /\ pending["registration"] # None
  /\ k \notin {a.key : a \in created}
  /\ created' = created \cup {[key |-> k, challenge |-> pending["registration"]]}
  /\ UNCHANGED <<column, store, expired, req, counter, signed, history>>

(* An assertion for a challenge of either kind of sign-in. *)
Sign(k, c) ==
  /\ c \in discoverable \cup {pending["authentication"]} /\ c # None
  /\ k \in registered /\ counter[k] < MaxCount
  /\ counter' = [counter EXCEPT ![k] = @ + 1]
  /\ signed' = signed \cup {[key |-> k, challenge |-> c, count |-> counter'[k]]}
  /\ UNCHANGED <<column, store, expired, req, created, history>>

-----------------------------------------------------------------------------
(* Shared by the two verify endpoints *)

Serve(t, r) == req' = [req EXCEPT ![t] = r]
At(t, label) == req[t].pc = label
With(t, label, c) ==
  [pc |-> label, answer |-> req[t].answer, loaded |-> req[t].loaded,
   challenge |-> c]

(* pop_user(): the request goes on at found or missing. *)
PopUser(t, ceremony, found, missing) ==
  LET c == pending[ceremony]
      ok == c # None /\ c \notin expired
  IN /\ Serve(t, IF ok THEN With(t, found, c) ELSE missing)
     /\ taken' = IF ok THEN taken \cup {c} ELSE taken
     /\ pending' = [pending EXCEPT ![ceremony] = None]

(* Mutant: the loaded list is changed in place also when it is empty. *)
SaveInPlace(loaded, new) == UNCHANGED column

(* update(): the ORM writes the column when the new value differs from the *)
(* loaded object.  A non-empty list was changed in place and is its own    *)
(* new value; for an empty one `or []` made a new list.                    *)
Save(loaded, new) == column' = IF DOMAIN loaded = {} THEN new ELSE column

-----------------------------------------------------------------------------
(* POST /passkey/register/verify *)

RegisterLoad(t, a) ==
  /\ At(t, "idle")
  /\ Serve(t, [pc |-> "pop", answer |-> a, loaded |-> column])
  /\ UNCHANGED <<column, store, expired, client, history>>

RegisterPop(t) ==
  /\ At(t, "pop")
  /\ PopUser(t, "registration", "attested", Idle)
  /\ UNCHANGED <<column, discoverable, expired, client,
                 issued, registered, accepted>>

(* What verify_passkey_registration() checks of the challenge. *)
Attested(t) == req[t].answer.challenge = req[t].challenge

(* The credential is appended to the list, and the column saved. *)
RegisterStore(t) ==
  /\ At(t, "attested") /\ Attested(t)
  /\ LET a == req[t].answer
     IN /\ Save(req[t].loaded,
                [k \in DOMAIN req[t].loaded \cup {a.key} |->
                   IF k = a.key THEN 0 ELSE req[t].loaded[k]])
        /\ registered' = registered \cup {a.key}
  /\ Serve(t, Idle)
  /\ UNCHANGED <<store, expired, client, issued, taken, accepted>>

(* The wrong challenge, or any other failure of the library: 400. *)
RegisterRefuse(t) ==
  /\ At(t, "attested")
  /\ Serve(t, Idle)
  /\ UNCHANGED <<column, store, expired, client, history>>

-----------------------------------------------------------------------------
(* POST /passkey/authenticate/verify *)

(* The credential in the list of the user whose email the request gives.   *)
Found(k) == k \in DOMAIN column

(* The user and the credential; without them 401 and nothing changed.  A   *)
(* request without an email looks its credential id up among all users:    *)
(* with SQLite it goes on as here; with PostgreSQL the query fails, as     *)
(* does its fallback in the aborted transaction, and the answer is 400     *)
(* with nothing changed.                                                   *)
SignInLoad(t, a) ==
  /\ At(t, "idle")
  /\ Found(a.key)
  /\ Serve(t, [pc |-> "email", answer |-> a, loaded |-> column])
  /\ UNCHANGED <<column, store, expired, client, history>>

(* A challenge pending for the user is taken whatever the request signed;  *)
(* the one it claims is looked up only when there is none.                 *)
SignInPopUser(t) ==
  /\ At(t, "email")
  /\ PopUser(t, "authentication", "asserted", With(t, "discoverable", None))
  /\ UNCHANGED <<column, discoverable, expired, client,
                 issued, registered, accepted>>

(* Mutant: an expired challenge that was not purged yet is honoured. *)
IsLive(c) == c \in discoverable

(* pop_discoverable() *)
IsUnexpired(c) == c \in discoverable \ expired

(* The challenge in clientDataJSON: found pending, or 400. *)
SignInPopDiscoverable(t) ==
  /\ At(t, "discoverable")
  /\ LET c == req[t].answer.challenge
         ok == IsUnexpired(c)
     IN /\ Serve(t, IF ok THEN With(t, "asserted", c) ELSE Idle)
        /\ taken' = IF ok THEN taken \cup {c} ELSE taken
        /\ discoverable' = discoverable \ {c}
  /\ UNCHANGED <<column, pending, expired, client, issued, registered, accepted>>

(* What verify_authentication_response() checks of challenge and counter.  *)
Verified(t) ==
  LET a == req[t].answer
      was == req[t].loaded[a.key]
  IN /\ a.challenge = req[t].challenge
     /\ was > 0 \/ a.count > 0 => a.count > was

(* The sign count is set in the loaded list, and a token pair minted. *)
SignInAccept(t) ==
  /\ At(t, "asserted") /\ Verified(t)
  /\ LET a == req[t].answer
     IN /\ Save(req[t].loaded, [req[t].loaded EXCEPT ![a.key] = a.count])
        /\ accepted' = accepted \cup {a}
  /\ Serve(t, Idle)
  /\ UNCHANGED <<store, expired, client, issued, taken, registered>>

(* A check failed, or the library for any other reason: 400 or 401. *)
SignInRefuse(t) ==
  /\ At(t, "asserted")
  /\ Serve(t, Idle)
  /\ UNCHANGED <<column, store, expired, client, history>>

-----------------------------------------------------------------------------

Step(t) ==
  \/ RegisterPop(t) \/ RegisterStore(t) \/ RegisterRefuse(t)
  \/ SignInPopUser(t) \/ SignInPopDiscoverable(t)
  \/ SignInAccept(t) \/ SignInRefuse(t)

(* The process restarts: the challenges are gone, the requests unanswered. *)
Restart ==
  /\ pending' = [c \in DOMAIN pending |-> None]
  /\ discoverable' = {}
  /\ req' = [t \in Threads |-> Idle]
  /\ UNCHANGED <<column, expired, client, history>>

Next ==
  \/ \E c \in Challenges :
       \/ RegisterOptions(c) \/ SignInOptions(c) \/ Expire(c)
       \/ \E k \in Keys : Sign(k, c)
  \/ \E k \in Keys : Create(k)
  \/ \E t \in Threads :
       \/ \E a \in created : RegisterLoad(t, a)
       \/ \E a \in signed : SignInLoad(t, a)
       \/ Step(t)
  \/ Restart

Spec == Init /\ [][Next]_vars

-----------------------------------------------------------------------------
(* Properties *)

(* Type invariant. *)
TypeOK ==
  /\ DOMAIN column \subseteq registered /\ \A k \in DOMAIN column : column[k] \in Counts
  /\ pending \in [{"registration", "authentication"} -> issued \cup {None}]
  /\ discoverable \subseteq issued /\ expired \subseteq issued
  /\ issued \subseteq Challenges /\ taken \subseteq issued
  /\ \A t \in Threads : ~ At(t, "idle") => req[t].answer \in created \cup signed
  /\ counter \in [Keys -> Counts]
  /\ registered \subseteq Keys /\ accepted \subseteq signed

(* passkey.py:42-49, "TTL", "single-use ... verify can never reuse a       *)
(* value": over both maps, whatever is sent again, a challenge is taken    *)
(* out once, and not after it expired or was replaced.                     *)
OneTime == INSTANCE OneTimeCodes
             WITH Codes <- Challenges, redeemed <- taken,
                  live <- (discoverable \cup {pending[p] : p \in DOMAIN pending})
                            \ (expired \cup {None})
ChallengesAreOneTime == OneTime!Spec

(* passkey.py:81-82 "keyed by challenge so concurrent discoverable         *)
(* ceremonies cannot overwrite each other": a pending discoverable         *)
(* challenge leaves the store when it expires, in a restart, or in the     *)
(* request that answers it, and through no other ceremony.                 *)
DiscoverableIsIndependent ==
  [][\A c \in discoverable \ (discoverable' \cup expired) :
       \/ \E t \in Threads : At(t, "discoverable") /\ req[t].answer.challenge = c
       \/ Restart]_vars

(* Every sign-in answered a challenge of its own: of two accepted          *)
(* assertions one is never a second answer to the other's challenge.       *)
OneSignInPerChallenge ==
  \A a, b \in accepted : a.challenge = b.challenge => a = b

(* passkey.py:250 "Store credential in user profile" holds of the first:   *)
(* the ORM does not see a list that is changed in place, so that a second  *)
(* credential is reported as registered and not stored, and a sign-in does *)
(* not advance a count.  Whatever is dropped and whichever registrations   *)
(* overlap, a user to whom a registration was reported keeps a credential, *)
(* and one with a stored count that its authenticator's next assertion     *)
(* exceeds.  Nothing is said of the other checks of a sign-in.             *)
ACredentialIsKept ==
  registered # {} => \E k \in DOMAIN column : column[k] <= counter[k]

(* The invariant of the ceremonies. *)
CeremoniesInv == TypeOK /\ ACredentialIsKept /\ OneSignInPerChallenge

=============================================================================
