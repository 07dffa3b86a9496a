-------------------------- MODULE AccountDeletion --------------------------
(***************************************************************************)
(* DELETE /admin/users/{id} (camp44/api/v1/endpoints/admin.py) while other *)
(* requests add rows that refer to the user, or lock them.  The handler    *)
(* deletes the refresh tokens in one statement, loads the apps and their   *)
(* entities, and deletes what it loaded, and the user, in one commit; a    *)
(* foreign key refuses that if a row it did not see refers to the user.    *)
(*                                                                         *)
(* An action is a SELECT, the locking of one row, or an INSERT or DELETE   *)
(* with its commit (PostgreSQL, READ COMMITTED).  Until then a transaction *)
(* keeps the locks of the rows it wrote.                                   *)
(***************************************************************************)
EXTENDS Naturals, SequencesExt, Relation

CONSTANTS
  Users,
  Tokens,          \* rows of refresh_token, by id: numbers, for ids have an order
  Apps, Entities,  \* rows of these tables, by id
  Procs,                   \* worker threads
  None

Things == Tokens \cup Apps \cup Entities

(* A row is of one table. *)
ASSUME TablesAreDisjoint ==
  /\ Tokens \cap Apps = {} /\ Tokens \cap Entities = {} /\ Apps \cap Entities = {}
  /\ Users \cap Things = {}
ASSUME NoneIsNothing == None \notin Users \cup Things \cup Procs
ASSUME TokensAreFinite == IsFiniteSet(Tokens)

VARIABLES
  users,   \* the users that exist
  parent,  \* parent[x]: the user or app the committed row x refers to, or None
  used,    \* history: ids that were given out
  lock,    \* lock[t]: the transaction that wrote the row t, or None
  req      \* req[p]: the request p serves

vars == <<users, parent, used, lock, req>>

Idle == [pc |-> "idle"]

Init ==
  /\ users = Users
  /\ parent = [x \in Things |-> None]
  /\ used = {}
  /\ lock = [t \in Tokens |-> None]
  /\ req = [p \in Procs |-> Idle]

At(p, label) == req[p].pc = label
Serve(p, r) == req' = [req EXCEPT ![p] = r]
Children(S) == {x \in Things : parent[x] \in S}

Unlocked(p) == [t \in Tokens |-> IF lock[t] = p THEN None ELSE lock[t]]

(* Mutant: the session is not closed after an exception. *)
KeepLocks(p) == lock' = lock /\ Serve(p, Idle)

(* The session is closed: rollback, and the answer is an error. *)
Rollback(p) == lock' = Unlocked(p) /\ Serve(p, Idle)

(* A row is added and committed: a token by a login, an app by create_app, *)
(* an entity by create_entity.  Its parent must exist.  A deletion of the  *)
(* owner that is under way has been disturbed.                             *)
Exists(y) == y \in users \/ (y \in Things /\ parent[y] # None)
Fits(x, y) == IF x \in Entities THEN y \in Apps ELSE y \in Users
Owner(y) == IF y \in Users THEN y ELSE parent[y]
Disturbed(u) == [q \in Procs |-> IF "user" \in DOMAIN req[q] /\ req[q].user = u
                                 THEN [req[q] EXCEPT !.disturbed = TRUE]
                                 ELSE req[q]]

Insert(x, y) ==
  /\ x \notin used
  /\ Fits(x, y) /\ Exists(y)
  /\ parent' = [parent EXCEPT ![x] = y]
  /\ used' = used \cup {x}
  /\ req' = Disturbed(Owner(y))
  /\ UNCHANGED <<users, lock>>

-----------------------------------------------------------------------------
(* POST /auth/refresh: consume the token, add its successor, commit *)

RotateBegin(p, t) ==
  /\ At(p, "idle") /\ parent[t] # None
  /\ Serve(p, [pc |-> "consume", todo |-> <<t>>, owner |-> parent[t]])
  /\ UNCHANGED <<users, parent, used, lock>>

Mint(p, new) ==
  /\ At(p, "mint")
  /\ new \in Tokens \ used
  /\ parent' = [parent EXCEPT ![new] = req[p].owner]
  /\ used' = used \cup {new}
  /\ lock' = Unlocked(p)
  /\ req' = [Disturbed(req[p].owner) EXCEPT ![p] = Idle]
  /\ UNCHANGED users

(* The consumed token has expired or the user is inactive: 401, committed. *)
Answer401(p) ==
  /\ At(p, "mint")
  /\ lock' = Unlocked(p)
  /\ Serve(p, Idle)
  /\ UNCHANGED <<users, parent, used>>

(* revoke_family(): an UPDATE for each row, which the unit of work sorts   *)
(* by id, and a commit.                                                    *)
RevokeBegin(p, u, S) ==
  /\ At(p, "idle") /\ S # {} /\ S \subseteq Children({u}) \cap Tokens
  /\ Serve(p, [pc |-> "revoke", todo |-> SetToSortSeq(S, <), owner |-> u])
  /\ UNCHANGED <<users, parent, used, lock>>

RevokeCommit(p) ==
  /\ At(p, "revoke") /\ req[p].todo = <<>>
  /\ lock' = Unlocked(p)
  /\ Serve(p, Idle)
  /\ UNCHANGED <<users, parent, used>>

-----------------------------------------------------------------------------
(* delete_user() *)

DeleteBegin(p, u) ==
  /\ At(p, "idle") /\ u \in users
  /\ \E s \in SetToSeqs(Children({u}) \cap Tokens) :
       Serve(p, [pc |-> "tokens", todo |-> s, user |-> u, seen |-> {},
                 disturbed |-> FALSE])
  /\ UNCHANGED <<users, parent, used, lock>>

(* The next row of a statement, once nobody else holds its lock.  A DELETE *)
(* passes over a row that is gone, a consume answers 401, and an UPDATE of *)
(* a loaded row raises StaleDataError.                                     *)
LockRow(p) ==
  /\ req[p].pc \in {"consume", "revoke", "tokens"}
  /\ req[p].todo # <<>>
  /\ LET t == Head(req[p].todo)
         next == [req[p] EXCEPT !.todo = Tail(@),
                                !.pc = IF @ = "consume" THEN "mint" ELSE @]
     IN /\ lock[t] \in {None, p}
        /\ IF parent[t] # None
           THEN lock' = [lock EXCEPT ![t] = p] /\ Serve(p, next)
           ELSE IF At(p, "tokens") THEN UNCHANGED lock /\ Serve(p, next)
           ELSE Rollback(p)
  /\ UNCHANGED <<users, parent, used>>

(* Mutant: the relationships have no delete cascade. *)
LoadsNothing(p) == {}

(* db.delete(user): the cascade loads the apps, then their entities. *)
Loads(p) == CASE At(p, "tokens") -> Children({req[p].user}) \cap Apps
              [] At(p, "entities") -> Children(req[p].seen)
              [] OTHER -> {}

Load(p) ==
  /\ \/ At(p, "tokens") /\ req[p].todo = <<>>
     \/ At(p, "entities")
  /\ Serve(p, [req[p] EXCEPT !.pc = IF @ = "tokens" THEN "entities" ELSE "commit",
                             !.seen = @ \cup Loads(p)])
  /\ UNCHANGED <<users, parent, used, lock>>

(* Mutant: the tokens are gone for good when the rest is refused. *)
RefusedCommitsTokens(p) ==
  /\ parent' = [x \in Things |-> IF x \in Tokens /\ lock[x] = p THEN None
                                 ELSE parent[x]]
  /\ Rollback(p)

(* IntegrityError: 500. *)
Refused(p) == Rollback(p) /\ UNCHANGED parent

Gone(p) == req[p].seen \cup {t \in Tokens : lock[t] = p}

(* Mutant: the columns are not declared as foreign keys. *)
NoForeignKeys(p) == TRUE

ForeignKeysHold(p) == Children({req[p].user} \cup req[p].seen) \subseteq Gone(p)

(* Rows another deletion removed first are only warned about. *)
DeleteCommit(p) ==
  /\ At(p, "commit")
  /\ LET gone == Gone(p)
     IN IF ForeignKeysHold(p)
        THEN /\ users' = users \ {req[p].user}
             /\ parent' = [x \in Things |-> IF x \in gone THEN None ELSE parent[x]]
             /\ lock' = Unlocked(p) /\ Serve(p, Idle)
        ELSE Refused(p) /\ UNCHANGED users
  /\ UNCHANGED used

(* PostgreSQL aborts a transaction that waits in a circle. *)
WaitsFor == [e \in Procs \X Procs |->
               /\ req[e[1]].pc \in {"consume", "revoke", "tokens"}
               /\ req[e[1]].todo # <<>>
               /\ lock[Head(req[e[1]].todo)] = e[2]
               /\ e[1] # e[2]]
Deadlock(p) ==
  /\ TransitiveClosure(WaitsFor, Procs)[p, p]
  /\ Rollback(p)
  /\ UNCHANGED <<users, parent, used>>

Step(p) == RevokeCommit(p) \/ Load(p) \/ DeleteCommit(p) \/ Answer401(p)

Next ==
  \/ \E x \in Things, y \in Users \cup Apps : Insert(x, y)
  \/ \E p \in Procs :
       \/ \E t \in Tokens : RotateBegin(p, t) \/ Mint(p, t)
       \/ \E u \in Users : \/ DeleteBegin(p, u)
                           \/ \E S \in SUBSET Tokens : RevokeBegin(p, u, S)
       \/ Step(p) \/ LockRow(p) \/ Deadlock(p)

(* A request that can go on does, the database ends deadlocks, and a lock  *)
(* goes to the transaction that waits longest for it.                      *)
Fairness == \A p \in Procs : WF_vars(Step(p) \/ \E t \in Tokens : Mint(p, t))
                              /\ WF_vars(Deadlock(p)) /\ SF_vars(LockRow(p))

Spec == Init /\ [][Next]_vars /\ Fairness

-----------------------------------------------------------------------------
(* Properties *)

(* Type invariant, and the foreign keys. *)
TypeOK ==
  /\ users \subseteq Users
  /\ \A x \in Things : parent[x] # None => Fits(x, parent[x]) /\ Exists(parent[x])
  /\ lock \in [Tokens -> Procs \cup {None}]

(* A deletion removes the account with everything of it or nothing, while  *)
(* other requests add rows and hold locks in between.                      *)
Rows == INSTANCE OwnedRows
AllOrNothing == Rows!Spec

(* A deletion that no new row disturbed does not fail on a foreign key:    *)
(* the handler knows every kind of row that refers to a user.              *)
UndisturbedSucceeds ==
  [][\A p \in Procs : DeleteCommit(p) /\ ~ req[p].disturbed =>
       req[p].user \notin users']_vars

(* A deletion ends, whatever locks others take in whatever order. *)
DeletionEnds ==
  \A p \in Procs : At(p, "tokens") ~> At(p, "idle")

=============================================================================
