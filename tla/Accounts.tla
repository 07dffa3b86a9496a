------------------------------ MODULE Accounts ------------------------------
(***************************************************************************)
(* Who exists, who is active and who is an administrator: the user table   *)
(* as the admin endpoints (camp44/api/v1/endpoints/admin.py), the sign-ins *)
(* with their automatic promotion (crud/user.py), the OIDC callback        *)
(* (api/v1/oidc.py), the start-up seed (db/initial_data.py), and, in       *)
(* endpoints/auth.py, a cancelled subscription and set-password write it.  *)
(*                                                                         *)
(* A request selects a row, decides, and commits; whatever another request *)
(* commits in between is overwritten column by column.  An action is a     *)
(* SELECT, or an UPDATE, INSERT or DELETE with its commit.  A user stands  *)
(* for an email address; addresses do not change here.                     *)
(***************************************************************************)
CONSTANTS
  Users,        \* email addresses
  AdminDomain,  \* those in ADMIN_EMAIL_DOMAINS
  SuperUser,    \* settings.FIRST_SUPERUSER
  Procs         \* worker threads and event loops

ASSUME KnownUsers == AdminDomain \subseteq Users /\ SuperUser \in Users

VARIABLES
  row,  \* row[u]: the committed row of u
  req   \* req[p]: the request p serves

vars == <<row, req>>

Row == [exists : BOOLEAN, active : BOOLEAN, admin : BOOLEAN,
        removed : BOOLEAN,    \* admin_removed
        verified : BOOLEAN]   \* oidc_email_verified
NoRow == [exists |-> FALSE, active |-> FALSE, admin |-> FALSE,
          removed |-> FALSE, verified |-> FALSE]
Idle == [pc |-> "idle"]

(* create_user(): roles are [] whatever the caller passed. *)
PasswordUser == [NoRow EXCEPT !.exists = TRUE, !.active = TRUE]

(* Some accounts were created by an OIDC sign-in before their domain was   *)
(* put into ADMIN_EMAIL_DOMAINS.                                           *)
Init ==
  /\ row \in [Users -> {NoRow, [PasswordUser EXCEPT !.verified = TRUE]}]
  /\ req = [p \in Procs |-> Idle]

At(p, label) == req[p].pc = label
Serve(p, r) == req' = [req EXCEPT ![p] = r]

(* Mutant: the whole loaded object is written, and inserted if it is gone. *)
Merge(u, loaded, new) == row' = [row EXCEPT ![u] = [new EXCEPT !.exists = TRUE]]

(* UPDATE by id of the columns that differ from the loaded object.  It     *)
(* matches no row that was deleted, nor the new row of the same address:   *)
(* StaleDataError, 500.                                                    *)
Update(u, loaded, new) ==
  row' = [row EXCEPT ![u] =
    IF loaded.exists
    THEN [f \in DOMAIN @ |-> IF new[f] # loaded[f] THEN new[f] ELSE @[f]]
    ELSE @]

-----------------------------------------------------------------------------
(* Creation *)

IsAdminDomain(u) == u \in AdminDomain

(* create_oidc_user() *)
OidcUser(u) ==
  [PasswordUser EXCEPT !.verified = TRUE, !.admin = IsAdminDomain(u)]

(* seed_initial_data() creates one user. *)
Creates(by, u) == by = "seed" => u = SuperUser

(* register (and the checkout webhook, which creates the same row),        *)
(* seed_initial_data and the callback look the email up ...                *)
CreateBegin(p, u, by) ==
  /\ At(p, "idle")
  /\ ~ row[u].exists
  /\ Creates(by, u)
  /\ Serve(p, [pc |-> "create", user |-> u, by |-> by])
  /\ UNCHANGED row

(* ... and insert it unless the unique index refuses. *)
Create(p) ==
  /\ At(p, "create")
  /\ LET u == req[p].user
         by == req[p].by
         ok == ~ row[u].exists
     IN row' = IF ok THEN [row EXCEPT ![u] =
                   IF by = "oidc" THEN OidcUser(u) ELSE PasswordUser]
               ELSE row
  /\ Serve(p, Idle)

-----------------------------------------------------------------------------
(* Sign-in, and _ensure_admin_role() *)

(* Mutant: a demotion is forgotten. *)
EnsuredThoughRemoved(u, was) ==
  [was EXCEPT !.admin = @ \/ (was.verified /\ IsAdminDomain(u))]

Ensured(u, was) ==
  [was EXCEPT !.admin =
     @ \/ (~ was.removed /\ was.verified /\ IsAdminDomain(u))]

(* login (before its is_active check), passkey verify, or a callback that  *)
(* finds the user by subject or links it by email.                         *)
SignInLoad(p, u) ==
  /\ At(p, "idle")
  /\ row[u].exists
  /\ Serve(p, [pc |-> "signin", user |-> u, loaded |-> row[u]])
  /\ UNCHANGED row

SignIn(p) ==
  /\ At(p, "signin")
  /\ LET u == req[p].user
         was == req[p].loaded
     IN Update(u, was, Ensured(u, was))
  /\ Serve(p, Idle)

-----------------------------------------------------------------------------
(* Requests that load a user and then change the row *)

(* The admin endpoints. *)
AdminOps == {"activate", "deactivate", "make-admin", "remove-admin", "delete"}

(* customer.subscription.deleted of the user's Stripe customer, and         *)
(* set-password with a link that was mailed to the user.                   *)
OwnOps == {"cancel", "set-password"}
Ops == AdminOps \cup OwnOps

(* Mutant: no check against oneself in delete. *)
NotOnOneselfButDelete == {"deactivate", "remove-admin"}

NotOnOneself == {"deactivate", "remove-admin", "delete"}

Result(op, was) ==
  CASE op \in {"activate", "set-password"} -> [was EXCEPT !.active = TRUE]
    [] op \in {"deactivate", "cancel"} -> [was EXCEPT !.active = FALSE]
    [] op = "make-admin"   -> [was EXCEPT !.admin = TRUE, !.removed = FALSE]
    [] op = "remove-admin" -> [was EXCEPT !.admin = FALSE, !.removed = TRUE]

(* get_current_active_user() *)
Allowed(a) == row[a].exists /\ row[a].active

(* The target was selected; the request decides what to commit. *)
Loaded(op, u, a) ==
  [pc |-> "commit", op |-> op, user |-> u, admin |-> a, loaded |-> row[u]]

(* require_admin(): the caller's row.  On oneself the session hands the    *)
(* same object out again.                                                  *)
AdminLoad(p, op, a, u) ==
  /\ At(p, "idle") /\ op \in AdminOps
  /\ Allowed(a) /\ row[a].admin
  /\ a = u => op \notin NotOnOneself
  /\ Serve(p, IF a = u
              THEN Loaded(op, u, a)
              ELSE [pc |-> "target", op |-> op, user |-> u, admin |-> a])
  /\ UNCHANGED row

(* The target's row, or 404. *)
TargetLoad(p) ==
  /\ At(p, "target")
  /\ LET u == req[p].user
     IN Serve(p, IF row[u].exists
                 THEN Loaded(req[p].op, u, req[p].admin)
                 ELSE Idle)
  /\ UNCHANGED row

(* The user by customer id or by reset token.  Who is an administrator is   *)
(* not asked: the request is the user's own.                               *)
OwnLoad(p, op, u) ==
  /\ At(p, "idle") /\ op \in OwnOps
  /\ row[u].exists
  /\ Serve(p, Loaded(op, u, u))
  /\ UNCHANGED row

ChangeCommit(p) ==
  /\ At(p, "commit") /\ req[p].op # "delete"
  /\ LET was == req[p].loaded
     IN Update(req[p].user, was, Result(req[p].op, was))
  /\ Serve(p, Idle)

(* delete_user(), with the user's tokens, apps and entities.  The id dies  *)
(* with the row: loaded.exists is whether the loaded id is in the table.   *)
DeleteCommit(p) ==
  /\ At(p, "commit") /\ req[p].op = "delete"
  /\ LET u == req[p].user
         Holds(q) == (At(q, "signin") \/ At(q, "commit")) /\ req[q].user = u
     IN /\ row' = IF req[p].loaded.exists
                  THEN [row EXCEPT ![u] = NoRow] ELSE row
        /\ req' = [q \in Procs |->
             IF q = p THEN Idle
             ELSE IF Holds(q) /\ req[p].loaded.exists
             THEN [req[q] EXCEPT !.loaded.exists = FALSE]
             ELSE req[q]]

-----------------------------------------------------------------------------

Commit(p) == Create(p) \/ SignIn(p) \/ ChangeCommit(p) \/ DeleteCommit(p)

Next ==
  \E p \in Procs :
    \/ \E u \in Users :
         \/ \E by \in {"register", "seed", "oidc"} : CreateBegin(p, u, by)
         \/ SignInLoad(p, u)
         \/ \E op \in AdminOps, a \in Users : AdminLoad(p, op, a, u)
         \/ \E op \in OwnOps : OwnLoad(p, op, u)
    \/ TargetLoad(p)
    \/ Commit(p)

Spec == Init /\ [][Next]_vars

-----------------------------------------------------------------------------
(* Properties *)

(* Type invariant. *)
TypeOK ==
  /\ row \in [Users -> Row]
  /\ \A u \in Users : ~ row[u].exists => row[u] = NoRow
  /\ \A p \in Procs :
       At(p, "signin") \/ At(p, "commit") =>
         req[p].loaded \in Row
         /\ (req[p].loaded.exists => row[req[p].user].exists)

Admins == {u \in Users : row[u].exists /\ row[u].active /\ row[u].admin}

(* CHANGELOG.md:96-97, admins cannot deactivate, demote or delete          *)
(* themselves: the last active administrator is lost only to a request of  *)
(* one who lost the role, or the account, after the request was let in, or *)
(* to the cancellation of the administrator's own subscription, which asks *)
(* nothing.  With requests one at a time and no cancellation there always  *)
(* remains one.                                                            *)
AdminRemains ==
  [][Admins # {} /\ Admins' = {} =>
       \E p \in Procs :
         /\ At(p, "commit")
         /\ req[p].op = "cancel" \/ req[p].admin \notin Admins]_vars

(* Four requests change whether a user is active, each in the direction    *)
(* that it asks for: an administrator's, a cancelled subscription, and     *)
(* set-password (which thus undoes a deactivation).  No promotion,         *)
(* demotion or sign-in that loaded the row before writes the old value     *)
(* back.                                                                   *)
ActiveChangesOnRequest ==
  [][\A u \in Users :
       row[u].exists /\ row'[u].exists /\ row'[u].active # row[u].active =>
         \E p \in Procs :
           /\ At(p, "commit") /\ req[p].user = u
           /\ req[p].op \in IF row'[u].active THEN {"activate", "set-password"}
                             ELSE {"deactivate", "cancel"}]_vars

(* A deleted account is not brought back by a request that had loaded it.  *)
DeletedStaysDeleted ==
  [][\A u \in Users : ~ row[u].exists /\ row'[u].exists =>
       \E p \in Procs : At(p, "create") /\ req[p].user = u]_vars

(* crud/user.py:37 "Skips users whose admin privileges were explicitly     *)
(* removed": only make-admin gives the role back to a demoted user, and a  *)
(* sign-in that had loaded the row before the demotion was committed.      *)
DemotionSticks ==
  [][\A u \in Users : row[u].removed /\ ~ row[u].admin /\ row'[u].admin =>
       \E p \in Procs :
         /\ req[p] # Idle /\ req[p].user = u
         /\ \/ At(p, "commit") /\ req[p].op = "make-admin"
            \/ At(p, "signin") /\ ~ req[p].loaded.removed]_vars

=============================================================================
