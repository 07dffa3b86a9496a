--------------------------- MODULE RefreshTokens ---------------------------
(***************************************************************************)
(* Rotating refresh tokens: POST /auth/login, /auth/refresh, /auth/logout  *)
(* (camp44/api/v1/endpoints/auth.py) over the refresh_token table          *)
(* (camp44/crud/refresh_token.py, camp44/core/auth_tokens.py).             *)
(*                                                                         *)
(* Each request runs in its own worker thread with its own SQLAlchemy      *)
(* session; the database is PostgreSQL at its default isolation level,     *)
(* READ COMMITTED.  One action is one SQL statement (or one commit): a     *)
(* SELECT sees what is committed when it runs, an UPDATE waits for the row *)
(* lock of an open transaction and then looks at the row again.  rt holds  *)
(* the committed rows.  The only thing a transaction of this component     *)
(* changes in an existing row is is_revoked := true, so the uncommitted    *)
(* writes of p are exactly the rows p has locked.                          *)
(***************************************************************************)
EXTENDS Naturals

CONSTANTS
  Procs,      \* worker threads serving requests
  Tokens,     \* raw refresh-token values
  Users,      \* users that have a password
  MaxVersion, \* bound on User.token_version
  NoProc, NoToken, NoUser

ASSUME NullsAreNoValues ==
  NoProc \notin Procs /\ NoToken \notin Tokens /\ NoUser \notin Users
ASSUME MaxVersionIsNat == MaxVersion \in Nat

VARIABLES
  version,    \* version[u]: User.token_version
  active,     \* active[u]: User.is_active
  rt,         \* rt[t]: the committed row of token t
  lock,       \* lock[t]: the transaction holding the row lock of t
  pc,         \* pc[p]: the statement p runs next
  req         \* req[p]: what the request keeps in memory

users == <<version, active>>
vars  == <<users, rt, lock, pc, req>>

Versions == 0..MaxVersion

(* A row of the table; family_id is named by the family's first token.     *)
(* "parent", the token a row was rotated from, is history only.            *)
Row == [status : {"absent", "live", "revoked"},
        family_id : Tokens \cup {NoToken}, user_id : Users \cup {NoUser},
        token_version : Versions, expired : BOOLEAN,
        parent : Tokens \cup {NoToken}]
NoRow == [status |-> "absent", family_id |-> NoToken, user_id |-> NoUser,
          token_version |-> 0, expired |-> FALSE, parent |-> NoToken]

(* A request: the presented token (NoToken if it has no row), the user and *)
(* version it read, the rows it is to revoke, whether it found a replay.   *)
Req == [tok : Tokens \cup {NoToken}, usr : Users \cup {NoUser},
        seen : Versions, sel : SUBSET Tokens, replay : BOOLEAN]
NoReq == [tok |-> NoToken, usr |-> NoUser, seen |-> 0, sel |-> {},
          replay |-> FALSE]

Init ==
  /\ version = [u \in Users |-> 0]
  /\ active = [u \in Users |-> TRUE]
  /\ rt = [t \in Tokens |-> NoRow]
  /\ lock = [t \in Tokens |-> NoProc]
  /\ pc = [p \in Procs |-> "idle"]
  /\ req = [p \in Procs |-> NoReq]

-----------------------------------------------------------------------------
(* The table and its transactions *)

Issued == {t \in Tokens : rt[t].status # "absent"}
Members(f) == {t \in Issued : rt[t].family_id = f}
Live(f) == {t \in Members(f) : rt[t].status = "live"}
Spent(f) == {t \in Members(f) : rt[t].status = "revoked"}
Held(p) == {t \in Tokens : lock[t] = p}

(* The table once p's transaction is committed, and the locks without p's. *)
Committed(p) ==
  [t \in Tokens |-> IF lock[t] = p THEN [rt[t] EXCEPT !.status = "revoked"]
                                   ELSE rt[t]]
Unlocked(p) == [t \in Tokens |-> IF lock[t] = p THEN NoProc ELSE lock[t]]

Goto(p, label) == pc' = [pc EXCEPT ![p] = label]

(* The request is over; the thread keeps nothing of it. *)
Answer(p) ==
  /\ Goto(p, "idle")
  /\ req' = [req EXCEPT ![p] = NoReq]

CommitAndAnswer(p) ==
  /\ rt' = Committed(p)
  /\ lock' = Unlocked(p)
  /\ Answer(p)
  /\ UNCHANGED users

-----------------------------------------------------------------------------
(* POST /auth/login *)

(* authenticate() loads the user row; is_active is checked on that object. *)
(* Others go on while it is held in memory.                                *)
LoginRead(p, u) ==
  /\ pc[p] = "idle"
  /\ active[u]
  /\ Goto(p, "mint")
  /\ req' = [req EXCEPT ![p].usr = u, ![p].seen = version[u]]
  /\ UNCHANGED <<users, rt, lock>>

(* INSERT of the new row and COMMIT: one transaction with table `base`,    *)
(* the rows p consumed.                                                    *)
Insert(p, new, fam, ver, base) ==
  /\ pc[p] = "mint"
  /\ rt[new].status = "absent"
  /\ rt' = [base EXCEPT ![new] =
              [status |-> "live", family_id |-> fam, user_id |-> req[p].usr,
               token_version |-> ver, expired |-> FALSE,
               parent |-> req[p].tok]]
  /\ lock' = Unlocked(p)
  /\ Answer(p)
  /\ UNCHANGED users

(* family_id or uuid4(): a login opens a family, a refresh stays in the    *)
(* family of the token it consumed.                                        *)
FamilyFor(p, new) ==
  IF req[p].tok = NoToken THEN new ELSE rt[req[p].tok].family_id

(* Mutants of Mint: the consume is lost with another session; the row gets *)
(* the version read now, or the next version; rotation forgets family_id.  *)
MintLosesConsume(p, new) == Insert(p, new, FamilyFor(p, new), req[p].seen, rt)
MintRereads(p, new) ==
  Insert(p, new, FamilyFor(p, new), version[req[p].usr], Committed(p))
MintBumps(p, new) ==
  Insert(p, new, FamilyFor(p, new), req[p].seen + 1, Committed(p))
MintNewFamily(p, new) == Insert(p, new, new, req[p].seen, Committed(p))

(* create_token_pair(), for a login and for a refresh. *)
Mint(p, new) ==
  Insert(p, new, FamilyFor(p, new), req[p].seen, Committed(p))

-----------------------------------------------------------------------------
(* POST /auth/refresh *)

Present(p, t, label) ==
  /\ pc[p] = "idle"
  /\ Goto(p, label)
  /\ req' = [req EXCEPT ![p].tok = t]
  /\ UNCHANGED <<users, rt, lock>>

RefreshBegin(p, t) == Present(p, t, "consume")

(* UPDATE ... SET is_revoked = true WHERE token_hash = :h AND NOT          *)
(* is_revoked RETURNING *: it waits for an open transaction on the row.    *)
Consume(p, updatable) ==
  /\ pc[p] = "consume"
  /\ req[p].tok \in updatable
  /\ lock' = [lock EXCEPT ![req[p].tok] = p]
  /\ Goto(p, "check")
  /\ UNCHANGED <<users, rt, req>>

(* Mutants: read, then write, without the row lock; the WHERE clause       *)
(* without is_revoked = false.                                             *)
ConsumeUnlocked(p) == Consume(p, {t \in Tokens : rt[t].status = "live"})
ConsumeAgain(p) == Consume(p, {t \in Issued : lock[t] = NoProc})

ConsumeWins(p) ==
  Consume(p, {t \in Tokens : rt[t].status = "live" /\ lock[t] = NoProc})

NoLiveRow(t) == t # NoToken => rt[t].status = "revoked"

(* The UPDATE matched no row: unknown token, or already revoked. *)
ConsumeLoses(p) ==
  /\ pc[p] = "consume"
  /\ NoLiveRow(req[p].tok)
  /\ Goto(p, "lookup")
  /\ UNCHANGED <<users, rt, lock, req>>

(* get_by_token(): no row is a plain 401, a row is a replay. *)
LookupUnknown(p) ==
  /\ pc[p] = "lookup"
  /\ req[p].tok = NoToken
  /\ Answer(p)
  /\ UNCHANGED <<users, rt, lock>>

LookupReplay(p) ==
  /\ pc[p] = "lookup"
  /\ req[p].tok # NoToken
  /\ Goto(p, "select")
  /\ req' = [req EXCEPT ![p].replay = TRUE]
  /\ UNCHANGED <<users, rt, lock>>

(* Past expires_at, or the owner was deactivated: 401, but the consume is  *)
(* committed.                                                              *)
CheckRefuses(p) ==
  /\ pc[p] = "check"
  /\ rt[req[p].tok].expired \/ ~ active[rt[req[p].tok].user_id]
  /\ CommitAndAnswer(p)

(* crud.user.get() and the version comparison, on the same user object. *)
CurrentVersion(p) ==
  LET r == rt[req[p].tok] IN r.token_version = version[r.user_id]

CheckVersion(p, passes) ==
  LET r == rt[req[p].tok]
  IN /\ pc[p] = "check"
     /\ ~ r.expired
     /\ active[r.user_id]
     /\ passes
     /\ UNCHANGED <<users, rt, lock>>

(* The owner's sessions were ended by a version bump: revoke the family. *)
CheckMismatch(p) ==
  /\ CheckVersion(p, ~ CurrentVersion(p))
  /\ Goto(p, "select")
  /\ UNCHANGED req

Admit(p) ==
  LET r == rt[req[p].tok]
  IN /\ Goto(p, "mint")
     /\ req' = [req EXCEPT ![p].usr = r.user_id, ![p].seen = r.token_version]

(* Mutant: the version is not compared. *)
CheckIgnoresVersion(p) ==
  CheckVersion(p, TRUE) /\ Admit(p)

(* All checks pass: go on to create_token_pair() with the user read here. *)
CheckPasses(p) ==
  CheckVersion(p, CurrentVersion(p)) /\ Admit(p)

Select(p, unrevoked) ==
  /\ pc[p] = "select"
  /\ req' = [req EXCEPT ![p].sel = unrevoked \ Held(p)]
  /\ Goto(p, "flush")
  /\ UNCHANGED <<users, rt, lock>>

(* Mutant: revoke_user_tokens() in place of revoke_family(). *)
SelectUser(p) ==
  Select(p, {t \in Tokens : rt[t].status = "live"
                            /\ rt[t].user_id = rt[req[p].tok].user_id})

(* revoke_family(): SELECT the family's unrevoked rows.  Rows another      *)
(* transaction has revoked but not committed are still among them; the     *)
(* row p itself consumed is not.                                           *)
SelectFamily(p) == Select(p, Live(rt[req[p].tok].family_id))

(* The flush before COMMIT: UPDATE ... SET is_revoked = true WHERE id = t, *)
(* one row at a time, each waiting for the row's lock.                     *)
FlushRow(p, t) ==
  /\ pc[p] = "flush"
  /\ t \in req[p].sel
  /\ lock[t] = NoProc
  /\ lock' = [lock EXCEPT ![t] = p]
  /\ UNCHANGED <<users, rt, pc, req>>

(* Mutant: rows another transaction has locked are skipped. *)
FlushSkipsLocked(p) ==
  /\ pc[p] = "flush"
  /\ \A t \in req[p].sel : lock[t] # NoProc
  /\ CommitAndAnswer(p)

FlushCommit(p) ==
  /\ pc[p] = "flush"
  /\ req[p].sel \subseteq Held(p)
  /\ CommitAndAnswer(p)

-----------------------------------------------------------------------------
(* POST /auth/logout *)

LogoutBegin(p, t) == Present(p, t, "logout")

(* Unknown or already revoked: nothing to write. *)
LogoutNothing(p) ==
  /\ pc[p] = "logout"
  /\ NoLiveRow(req[p].tok)
  /\ Answer(p)
  /\ UNCHANGED <<users, rt, lock>>

LogoutRevokes(p) ==
  /\ pc[p] = "logout"
  /\ ~ NoLiveRow(req[p].tok)
  /\ req' = [req EXCEPT ![p].sel = {req[p].tok}]
  /\ Goto(p, "flush")
  /\ UNCHANGED <<users, rt, lock>>

-----------------------------------------------------------------------------
(* Around the requests *)

(* Mutant: the failed request's connection stays open. *)
CrashLeaksConnection(p) ==
  /\ pc[p] # "idle"
  /\ Answer(p)
  /\ UNCHANGED <<users, rt, lock>>

(* The worker, its connection or a statement fails: the session closes and *)
(* the database rolls the transaction back.                                *)
Crash(p) ==
  /\ pc[p] # "idle"
  /\ lock' = Unlocked(p)
  /\ Answer(p)
  /\ UNCHANGED <<users, rt>>

(* Time passes expires_at.  (Nothing reads that of a revoked row.) *)
Expire(t) ==
  /\ rt[t].status = "live"
  /\ rt' = [rt EXCEPT ![t].expired = TRUE]
  /\ UNCHANGED <<users, lock, pc, req>>

(* External: the host application ends all sessions of u. *)
BumpVersion(u) ==
  /\ version[u] < MaxVersion
  /\ version' = [version EXCEPT ![u] = @ + 1]
  /\ UNCHANGED <<active, rt, lock, pc, req>>

(* POST /admin/users/{id}/activate and .../deactivate *)
SetActive(u, b) ==
  /\ active' = [active EXCEPT ![u] = b]
  /\ UNCHANGED <<version, rt, lock, pc, req>>

-----------------------------------------------------------------------------

Step(p) ==
  \/ \E new \in Tokens : Mint(p, new)
  \/ ConsumeWins(p) \/ ConsumeLoses(p)
  \/ LookupUnknown(p) \/ LookupReplay(p)
  \/ CheckRefuses(p) \/ CheckMismatch(p) \/ CheckPasses(p)
  \/ SelectFamily(p)
  \/ \E t \in Tokens : FlushRow(p, t)
  \/ FlushCommit(p)
  \/ LogoutNothing(p) \/ LogoutRevokes(p)

(* A client presents any token it was ever given, or one with no row. *)
Request(p) ==
  \/ \E u \in Users : LoginRead(p, u)
  \/ \E t \in Issued \cup {NoToken} : RefreshBegin(p, t) \/ LogoutBegin(p, t)

Environment ==
  \/ \E p \in Procs : Crash(p)
  \/ \E t \in Tokens : Expire(t)
  \/ \E u \in Users : BumpVersion(u)
  \/ \E u \in Users, b \in BOOLEAN : SetActive(u, b)

Next == (\E p \in Procs : Request(p) \/ Step(p)) \/ Environment

Spec == Init /\ [][Next]_vars

(* Fairness: the server runs every worker thread, and PostgreSQL queues    *)
(* the transactions waiting for a row lock, so a waiter gets its turn.     *)
Fairness ==
  \A p \in Procs :
    /\ WF_vars(Step(p))
    /\ SF_vars(ConsumeWins(p))
    /\ SF_vars(\E t \in Tokens : FlushRow(p, t))

FairSpec == Spec /\ Fairness

-----------------------------------------------------------------------------
(* Properties *)

(* Type invariant. *)
TypeOK ==
  /\ version \in [Users -> Versions]
  /\ active \in [Users -> BOOLEAN]
  /\ rt \in [Tokens -> Row]
  /\ lock \in [Tokens -> Procs \cup {NoProc}]
  /\ pc \in [Procs -> {"idle", "mint", "consume", "lookup", "check",
                       "select", "flush", "logout"}]
  /\ req \in [Procs -> Req]

(* However requests interleave, a family never has two tokens a client     *)
(* could redeem: rotation leaves no second way into the session.           *)
SingleLive ==
  \A s, t \in Issued :
    rt[s].status = "live" /\ rt[t].status = "live"
    /\ rt[s].family_id = rt[t].family_id => s = t

(* Concurrent refreshes of one token mint one replacement between them     *)
(* ("exactly one concurrent caller wins", crud/refresh_token.py:60).       *)
OneSuccessor ==
  \A s, t \in Issued :
    rt[s].parent = rt[t].parent /\ rt[s].parent # NoToken => s = t

(* All tokens of a family are of one user at one token_version: rotation   *)
(* never moves a session past a version bump it should have died of.       *)
FamilyUniform ==
  \A s, t \in Issued :
    rt[s].family_id = rt[t].family_id =>
      /\ rt[s].user_id = rt[t].user_id
      /\ rt[s].token_version = rt[t].token_version

Blocked(p) ==
  \/ /\ pc[p] = "consume" /\ ~ NoLiveRow(req[p].tok)
     /\ lock[req[p].tok] # NoProc
  \/ /\ pc[p] = "flush"
     /\ \E t \in req[p].sel : lock[t] \notin {p, NoProc}

(* A transaction that waits for a row holds none, so no two requests can   *)
(* wait for each other and the database never has to break a deadlock.     *)
NoHoldAndWait ==
  \A p \in Procs : Blocked(p) => Held(p) = {}

(* A family that was ended (its last token redeemed in vain, logged out or *)
(* revoked) never gets a live token again.                                 *)
EndedStaysEnded ==
  [][\A f \in Tokens : Spent(f) # {} /\ Live(f) = {} => Live(f)' = {}]_vars

Outdated(f) ==
  /\ Members(f) # {}
  /\ \A t \in Members(f) : rt[t].token_version # version[rt[t].user_id]
  /\ \A p \in Procs : pc[p] = "mint" => FamilyFor(p, NoToken) # f

(* A version bump is final: once no refresh is past its version check, a   *)
(* family of the old version never gains a token and never becomes current.*)
BumpIsFinal ==
  [][\A f \in Tokens :
       Outdated(f) => Outdated(f)' /\ Members(f)' = Members(f)]_vars

(* The handler of a replayed token of family f commits and answers 401. *)
ReplayCommit(p, f) ==
  req[p].replay /\ rt[req[p].tok].family_id = f /\ FlushCommit(p)

(* auth.py:700-701 "If a consumed (already-used) token is presented, the   *)
(* entire family is revoked": when the replay handler commits, no token of *)
(* the family is live.                                                     *)
ReplayRevokesFamily ==
  [][\A p \in Procs, f \in Tokens :
       ReplayCommit(p, f) => Live(f)' = {}]_vars

(* What does hold of that handler: a token that outlives the commit was    *)
(* minted after the handler chose what to revoke, by rotating the very     *)
(* token it then revoked a second time.                                    *)
ReplayMissesOnlyRotated ==
  [][\A p \in Procs, f \in Tokens :
       ReplayCommit(p, f) /\ Live(f)' # {}
         => \E t \in req[p].sel : rt[t].status = "revoked"]_vars

(* The sessions as clients see them: TokenFamily. *)
Sessions == INSTANCE TokenFamily WITH
  Families <- Tokens,
  live     <- [f \in Tokens |-> Live(f)],
  spent    <- [f \in Tokens |-> Spent(f)]

SessionSpec == Sessions!Spec

(* Every request is answered: no lock wait and no lost race leaves a       *)
(* worker hanging.  The exception is a limit of the model: a request that  *)
(* should mint when all Tokens are used stays, and keeps its row lock.     *)
OutOfTokens == Issued = Tokens /\ \E q \in Procs : pc[q] = "mint"
EveryRequestEnds ==
  \A p \in Procs : pc[p] # "idle" ~> (pc[p] = "idle" \/ OutOfTokens)

=============================================================================
