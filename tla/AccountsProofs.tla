--------------------------- MODULE AccountsProofs ---------------------------
(***************************************************************************)
(* TLAPS proofs about Accounts, for any set of users, any administrators'  *)
(* domain and any number of processes that serve requests.                 *)
(***************************************************************************)
EXTENDS Accounts, TLAPS

-----------------------------------------------------------------------------
(* The inductive invariant *)

Request ==
  {Idle}
    \cup [pc : {"create"}, user : Users, by : {"register", "seed", "oidc"}]
    \cup [pc : {"signin"}, user : Users, loaded : Row]
    \cup [pc : {"target"}, op : Ops, user : Users, admin : Users]
    \cup [pc : {"commit"}, op : Ops, user : Users, admin : Users, loaded : Row]

RowsOK ==
  /\ row \in [Users -> Row]
  /\ \A u \in Users : ~ row[u].exists => row[u] = NoRow

(* A loaded row is still there unless its deletion was committed since; an *)
(* administrator's request of the kind that may end a role was made        *)
(* against somebody else.                                                  *)
RequestOK(p) ==
  /\ (At(p, "signin") \/ At(p, "commit")) /\ req[p].loaded.exists =>
       row[req[p].user].exists
  /\ (At(p, "target") \/ At(p, "commit")) /\ req[p].op \in NotOnOneself =>
       req[p].admin # req[p].user

IInv ==
  /\ RowsOK
  /\ req \in [Procs -> Request]
  /\ \A p \in Procs : RequestOK(p)

-----------------------------------------------------------------------------
(* Lemmas *)

USE KnownUsers

(* What a request is, by the step it is about to take. *)
LEMMA Shapes ==
  ASSUME NEW r \in Request
  PROVE  /\ r.pc \in {"idle", "create", "signin", "target", "commit"}
         /\ r.pc = "idle" => r = Idle
         /\ r.pc # "idle" => r.user \in Users
         /\ r.pc = "create" => r.by \in {"register", "seed", "oidc"}
         /\ r.pc \in {"signin", "commit"} => r.loaded \in Row
         /\ r.pc \in {"target", "commit"} => r.op \in Ops /\ r.admin \in Users
         /\ r.pc = "target" =>
              r \in [pc : {"target"}, op : Ops, user : Users, admin : Users]
         /\ r.pc = "commit" =>
              r \in [pc : {"commit"}, op : Ops, user : Users, admin : Users,
                     loaded : Row]
         /\ r.pc = "signin" =>
              r \in [pc : {"signin"}, user : Users, loaded : Row]
BY DEF Request, Idle

LEMMA InitIInv == Init => IInv
<1>1. /\ [PasswordUser EXCEPT !.verified = TRUE] \in Row /\ NoRow \in Row
      /\ [PasswordUser EXCEPT !.verified = TRUE].exists
  BY DEF PasswordUser, NoRow, Row
<1>2. Init => RowsOK
  BY <1>1 DEF Init, RowsOK
<1>3. Init => req \in [Procs -> Request] /\ \A p \in Procs : RequestOK(p)
  BY DEF Init, RequestOK, Request, At, Idle
<1> QED
  BY <1>2, <1>3 DEF IInv

(* An UPDATE writes the columns that the request changed, and no other. *)
Written(was, loaded, new, now) ==
  LET Column(w, l, n, r) == r = IF n # l THEN n ELSE w
  IN /\ Column(was.exists, loaded.exists, new.exists, now.exists)
     /\ Column(was.active, loaded.active, new.active, now.active)
     /\ Column(was.admin, loaded.admin, new.admin, now.admin)
     /\ Column(was.removed, loaded.removed, new.removed, now.removed)
     /\ Column(was.verified, loaded.verified, new.verified, now.verified)

LEMMA UpdatedRow ==
  ASSUME row \in [Users -> Row], NEW u \in Users, NEW loaded \in Row,
         NEW new \in Row, Update(u, loaded, new)
  PROVE  /\ row' \in [Users -> Row]
         /\ \A v \in Users : v # u => row'[v] = row[v]
         /\ ~ loaded.exists => row' = row
         /\ loaded.exists => Written(row[u], loaded, new, row'[u])
<1> DEFINE mix == [f \in DOMAIN row[u] |->
                     IF new[f] # loaded[f] THEN new[f] ELSE row[u][f]]
<1>1. CASE ~ loaded.exists
  BY <1>1 DEF Update
<1>2. CASE loaded.exists
  <2>1. DOMAIN row[u] = {"exists", "active", "admin", "removed", "verified"}
    BY DEF Row
  <2>2. mix \in Row
    BY <2>1 DEF Row
  <2>3. row' = [row EXCEPT ![u] = mix]
    BY <1>2 DEF Update
  <2> QED
    BY <1>2, <2>1, <2>2, <2>3 DEF Row, Written
<1> QED
  BY <1>1, <1>2

(* _ensure_admin_role() can only grant the role, and not after a removal   *)
(* that the loaded row shows.                                              *)
LEMMA EnsuredRow ==
  ASSUME NEW u \in Users, NEW was \in Row
  PROVE  LET new == Ensured(u, was)
         IN /\ new \in Row
            /\ new.exists = was.exists /\ new.active = was.active
            /\ new.removed = was.removed /\ new.verified = was.verified
            /\ was.admin => new.admin
            /\ new.admin /\ ~ was.admin => ~ was.removed
BY DEF Ensured, Row

(* What a request that loaded a user changes, and which change whether the *)
(* user is active.                                                         *)
Actives(active) == IF active THEN {"activate", "set-password"}
                   ELSE {"deactivate", "cancel"}

LEMMA ResultRow ==
  ASSUME NEW op \in Ops \ {"delete"}, NEW was \in Row
  PROVE  LET new == Result(op, was)
         IN /\ new \in Row
            /\ new.exists = was.exists /\ new.verified = was.verified
            /\ new.active # was.active =>
                 op \in Actives(new.active)
            /\ new.admin /\ ~ was.admin => op = "make-admin"
            /\ was.admin /\ ~ new.admin => op = "remove-admin"
            /\ new.removed # was.removed => op \in {"make-admin", "remove-admin"}
<1>1. CASE op \in {"activate", "set-password"}
  BY <1>1 DEF Result, Row, Actives
<1>2. CASE op \in {"deactivate", "cancel"}
  BY <1>2 DEF Result, Row, Actives
<1>3. CASE op = "make-admin"
  BY <1>3 DEF Result, Row
<1>4. CASE op = "remove-admin"
  BY <1>4 DEF Result, Row
<1> QED
  BY <1>1, <1>2, <1>3, <1>4 DEF Ops, AdminOps, OwnOps

LEMMA NewRows ==
  ASSUME NEW u \in Users
  PROVE  /\ PasswordUser \in Row /\ PasswordUser.exists
         /\ OidcUser(u) \in Row /\ OidcUser(u).exists
<1>1. PasswordUser \in Row /\ PasswordUser.exists
  BY DEF PasswordUser, NoRow, Row
<1>2. IsAdminDomain(u) \in BOOLEAN
  BY DEF IsAdminDomain
<1>3. OidcUser(u) \in Row /\ OidcUser(u).exists
  BY <1>1, <1>2 DEF OidcUser, Row
<1> QED
  BY <1>1, <1>3

(* The row each commit leaves. *)
LEMMA CreateRow ==
  ASSUME IInv, NEW p \in Procs, Create(p)
  PROVE  /\ req[p].user \in Users /\ row' \in [Users -> Row]
         /\ \A v \in Users : v # req[p].user => row'[v] = row[v]
         /\ \/ row' = row
            \/ ~ row[req[p].user].exists /\ row'[req[p].user].exists
<1>1. req[p] \in Request /\ req[p].pc = "create"
  BY DEF IInv, Create, At
<1>2. req[p].user \in Users
  BY <1>1, Shapes
<1>3. /\ PasswordUser \in Row /\ PasswordUser.exists
      /\ OidcUser(req[p].user) \in Row /\ OidcUser(req[p].user).exists
  BY <1>2, NewRows
<1>4. row \in [Users -> Row]
  BY DEF IInv, RowsOK
<1>5. \/ row' = row
      \/ /\ ~ row[req[p].user].exists
         /\ \/ row' = [row EXCEPT ![req[p].user] = PasswordUser]
            \/ row' = [row EXCEPT ![req[p].user] = OidcUser(req[p].user)]
  BY DEF Create
<1> QED
  BY <1>2, <1>3, <1>4, <1>5

LEMMA SignInRow ==
  ASSUME IInv, NEW p \in Procs, SignIn(p)
  PROVE  LET u == req[p].user
         IN /\ At(p, "signin") /\ u \in Users /\ row' \in [Users -> Row]
            /\ \A v \in Users : v # u => row'[v] = row[v]
            /\ row' # row => row[u].exists
            /\ row'[u].exists = row[u].exists
            /\ row'[u].active = row[u].active
            /\ row[u].admin => row'[u].admin
            /\ row'[u].admin /\ ~ row[u].admin => ~ req[p].loaded.removed
<1> DEFINE u == req[p].user
           was == req[p].loaded
<1>1. req[p] \in Request /\ At(p, "signin") /\ RequestOK(p)
  BY DEF IInv, SignIn
<1>2. u \in Users /\ was \in Row
  BY <1>1, Shapes DEF At
<1>3. Update(u, was, Ensured(u, was)) /\ row \in [Users -> Row]
  BY DEF SignIn, IInv, RowsOK
<1>4. CASE was.exists
  <2>1. row[u].exists
    BY <1>1, <1>4 DEF RequestOK
  <2> QED
    <3> DEFINE new == Ensured(u, was)
    <3>1. /\ new \in Row
          /\ new.exists = was.exists /\ new.active = was.active
          /\ was.admin => new.admin
          /\ new.admin /\ ~ was.admin => ~ was.removed
      BY <1>1, <1>2, EnsuredRow
    <3>2. /\ row' \in [Users -> Row] /\ row \in [Users -> Row]
          /\ \A v \in Users : v # u => row'[v] = row[v]
          /\ Written(row[u], was, new, row'[u])
      BY <1>2, <1>3, <1>4, <3>1, UpdatedRow
    <3>3. row[u] \in Row /\ row'[u] \in Row
      BY <1>2, <3>2
    <3> HIDE DEF new
    <3> QED
      BY <1>1, <1>2, <1>4, <2>1, <3>1, <3>2, <3>3 DEF Written, Row
<1>5. CASE ~ was.exists
  BY <1>1, <1>2, <1>3, <1>5, UpdatedRow, EnsuredRow
<1> QED
  BY <1>4, <1>5

LEMMA ChangeCommitRow ==
  ASSUME IInv, NEW p \in Procs, ChangeCommit(p)
  PROVE  LET u == req[p].user
             op == req[p].op
         IN /\ At(p, "commit") /\ op # "delete" /\ op \in Ops
            /\ u \in Users /\ row' \in [Users -> Row]
            /\ \A v \in Users : v # u => row'[v] = row[v]
            /\ row' # row => row[u].exists
            /\ row'[u].exists = row[u].exists
            /\ row'[u].active # row[u].active =>
                 op \in Actives(row'[u].active)
            /\ row'[u].admin /\ ~ row[u].admin => op = "make-admin"
            /\ row[u].admin /\ ~ row'[u].admin => op = "remove-admin"
<1> DEFINE u == req[p].user
           was == req[p].loaded
           op == req[p].op
<1>1. req[p] \in Request /\ At(p, "commit") /\ RequestOK(p) /\ op # "delete"
  BY DEF IInv, ChangeCommit
<1>2. u \in Users /\ was \in Row /\ op \in Ops
  BY <1>1, Shapes DEF At
<1>3. Update(u, was, Result(op, was)) /\ row \in [Users -> Row]
  BY DEF ChangeCommit, IInv, RowsOK
<1>4. CASE was.exists
  <2>1. row[u].exists
    BY <1>1, <1>4 DEF RequestOK
  <2> QED
    <3> DEFINE new == Result(op, was)
    <3>1. /\ new \in Row
          /\ new.exists = was.exists
          /\ new.active # was.active =>
               op \in Actives(new.active)
          /\ new.admin /\ ~ was.admin => op = "make-admin"
          /\ was.admin /\ ~ new.admin => op = "remove-admin"
      BY <1>1, <1>2, ResultRow
    <3>2. /\ row' \in [Users -> Row] /\ row \in [Users -> Row]
          /\ \A v \in Users : v # u => row'[v] = row[v]
          /\ Written(row[u], was, new, row'[u])
      BY <1>2, <1>3, <1>4, <3>1, UpdatedRow
    <3>3. row[u] \in Row /\ row'[u] \in Row
      BY <1>2, <3>2
    <3> HIDE DEF new
    <3> QED
      BY <1>1, <1>2, <1>4, <2>1, <3>1, <3>2, <3>3 DEF Written, Row
<1>5. CASE ~ was.exists
  BY <1>1, <1>2, <1>3, <1>5, UpdatedRow, ResultRow
<1> QED
  BY <1>4, <1>5

(* A deletion takes the row away only from the id it was requested for. *)
LEMMA DeleteRow ==
  ASSUME IInv, NEW p \in Procs, DeleteCommit(p)
  PROVE  LET u == req[p].user
         IN /\ At(p, "commit") /\ req[p].op = "delete"
            /\ u \in Users /\ row' \in [Users -> Row]
            /\ \A v \in Users : v # u => row'[v] = row[v]
            /\ \/ row' = row /\ ~ req[p].loaded.exists
               \/ row'[u] = NoRow /\ req[p].loaded.exists
<1>1. req[p] \in Request /\ At(p, "commit") /\ req[p].op = "delete"
  BY DEF IInv, DeleteCommit
<1>2. req[p].user \in Users
  BY <1>1, Shapes DEF At
<1>3. row \in [Users -> Row] /\ NoRow \in Row
  BY DEF IInv, RowsOK, NoRow, Row
<1>4. \/ row' = row /\ ~ req[p].loaded.exists
      \/ row' = [row EXCEPT ![req[p].user] = NoRow] /\ req[p].loaded.exists
  BY DEF DeleteCommit
<1> QED
  BY <1>1, <1>2, <1>3, <1>4

-----------------------------------------------------------------------------
(* The steps *)

(* What a step must keep: no row goes away, and where no row is there is   *)
(* nothing. *)
RowsKept ==
  /\ row' \in [Users -> Row]
  /\ \A u \in Users : /\ row[u].exists => row'[u].exists
                      /\ ~ row'[u].exists => row'[u] = row[u]

LEMMA Served ==
  ASSUME IInv, RowsKept, NEW p \in Procs, NEW STATE r, r \in Request,
         Serve(p, r), RequestOK(p)'
  PROVE  IInv'
<1>1. RowsOK'
  BY DEF IInv, RowsOK, RowsKept
<1>2. req' \in [Procs -> Request]
  BY DEF IInv, Serve
<1>3. ASSUME NEW q \in Procs, q # p PROVE RequestOK(q)'
  <2>1. req'[q] = req[q] /\ req[q] \in Request /\ RequestOK(q)
    BY <1>3 DEF IInv, Serve
  <2>2. req[q].pc \in {"signin", "commit"} => req[q].user \in Users
    BY <2>1, Shapes
  <2> QED
    BY <2>1, <2>2 DEF RequestOK, At, RowsKept
<1> QED
  BY <1>1, <1>2, <1>3 DEF IInv

LEMMA SameRows == ASSUME IInv, row' = row PROVE RowsKept
BY DEF RowsKept, IInv, RowsOK

LEMMA Answered ==
  ASSUME IInv, RowsKept, NEW p \in Procs, Serve(p, Idle)
  PROVE  IInv'
<1>1. Idle \in Request
  BY DEF Request
<1>2. RequestOK(p)'
  BY DEF IInv, Serve, RequestOK, At, Idle
<1> QED
  BY <1>1, <1>2, Served

LEMMA CreateBeginKeeps ==
  ASSUME IInv, NEW p \in Procs, NEW u \in Users,
         NEW by \in {"register", "seed", "oidc"}, CreateBegin(p, u, by)
  PROVE  IInv'
<1>1. [pc |-> "create", user |-> u, by |-> by] \in Request
  BY DEF Request
<1>2. RequestOK(p)'
  BY DEF IInv, Serve, RequestOK, At, CreateBegin
<1> QED
  BY <1>1, <1>2, Served, SameRows DEF CreateBegin

LEMMA SignInLoadKeeps ==
  ASSUME IInv, NEW p \in Procs, NEW u \in Users, SignInLoad(p, u)
  PROVE  IInv'
<1>1. [pc |-> "signin", user |-> u, loaded |-> row[u]] \in Request
  BY DEF IInv, RowsOK, Request
<1>2. RequestOK(p)'
  BY DEF IInv, Serve, RequestOK, At, SignInLoad
<1> QED
  BY <1>1, <1>2, Served, SameRows DEF SignInLoad

LEMMA AdminLoadKeeps ==
  ASSUME IInv, NEW p \in Procs, NEW op \in Ops, NEW a \in Users,
         NEW u \in Users, AdminLoad(p, op, a, u)
  PROVE  IInv'
<1>1. CASE a = u
  <2> DEFINE r == [pc |-> "commit", op |-> op, user |-> u, admin |-> a,
                   loaded |-> row[u]]
  <2>1. r \in Request /\ Serve(p, r)
    BY <1>1 DEF IInv, RowsOK, Request, AdminLoad, Loaded
  <2>2. RequestOK(p)'
    BY <1>1, <2>1 DEF IInv, Serve, RequestOK, At, AdminLoad, Allowed
  <2> QED
    BY <2>1, <2>2, Served, SameRows DEF AdminLoad
<1>2. CASE a # u
  <2> DEFINE r == [pc |-> "target", op |-> op, user |-> u, admin |-> a]
  <2>1. r \in Request /\ Serve(p, r)
    BY <1>2 DEF Request, AdminLoad
  <2>2. RequestOK(p)'
    BY <1>2, <2>1 DEF IInv, Serve, RequestOK, At, AdminLoad
  <2> QED
    BY <2>1, <2>2, Served, SameRows DEF AdminLoad
<1> QED
  BY <1>1, <1>2

LEMMA OwnLoadKeeps ==
  ASSUME IInv, NEW p \in Procs, NEW op \in OwnOps, NEW u \in Users,
         OwnLoad(p, op, u)
  PROVE  IInv'
<1> DEFINE r == [pc |-> "commit", op |-> op, user |-> u, admin |-> u,
                 loaded |-> row[u]]
<1>1. r \in Request /\ Serve(p, r) /\ row' = row
  BY DEF IInv, RowsOK, Request, OwnLoad, Loaded, Ops
<1>2. op \notin NotOnOneself
  BY DEF OwnOps, NotOnOneself
<1>3. RequestOK(p)'
  BY <1>1, <1>2 DEF IInv, Serve, RequestOK, At, OwnLoad
<1> QED
  BY <1>1, <1>3, Served, SameRows

LEMMA TargetLoadKeeps ==
  ASSUME IInv, NEW p \in Procs, TargetLoad(p)
  PROVE  IInv'
<1> DEFINE u == req[p].user
           r == Loaded(req[p].op, u, req[p].admin)
<1>1. /\ req[p] \in [pc : {"target"}, op : Ops, user : Users, admin : Users]
      /\ RequestOK(p) /\ row' = row
  BY Shapes DEF IInv, TargetLoad, At
<1>2. CASE row[u].exists
  <2>1. r = [pc |-> "commit", op |-> req[p].op, user |-> u,
             admin |-> req[p].admin, loaded |-> row[u]]
    BY DEF Loaded
  <2>2. r \in Request /\ Serve(p, r)
    BY <1>1, <1>2, <2>1 DEF Request, TargetLoad, IInv, RowsOK
  <2>3. RequestOK(p)'
    BY <1>1, <1>2, <2>1, <2>2 DEF IInv, Serve, RequestOK, At
  <2> QED
    BY <1>1, <2>2, <2>3, Served, SameRows
<1>3. CASE ~ row[u].exists
  BY <1>1, <1>3, Answered, SameRows DEF TargetLoad
<1> QED
  BY <1>2, <1>3

LEMMA CommitKeeps ==
  ASSUME IInv, NEW p \in Procs, Create(p) \/ SignIn(p) \/ ChangeCommit(p)
  PROVE  IInv'
<1>1. RowsKept
  BY CreateRow, SignInRow, ChangeCommitRow DEF RowsKept
<1> QED
  BY <1>1, Answered DEF Create, SignIn, ChangeCommit

(* The requests that had loaded the deleted id find out when they commit.  *)
LEMMA DeleteKeeps ==
  ASSUME IInv, NEW p \in Procs, DeleteCommit(p)
  PROVE  IInv'
<1> DEFINE u == req[p].user
           Holds(q) == (At(q, "signin") \/ At(q, "commit")) /\ req[q].user = u
<1>1. \A q \in Procs : req'[q] =
        IF q = p THEN Idle
        ELSE IF Holds(q) /\ req[p].loaded.exists
        THEN [req[q] EXCEPT !.loaded.exists = FALSE]
        ELSE req[q]
  BY DEF DeleteCommit
<1>2. /\ u \in Users /\ row' \in [Users -> Row]
      /\ \A v \in Users : v # u => row'[v] = row[v]
      /\ \/ row' = row /\ ~ req[p].loaded.exists
         \/ row'[u] = NoRow /\ req[p].loaded.exists
  BY DeleteRow
<1>3. RowsOK'
  BY <1>2 DEF IInv, RowsOK
<1>4. ASSUME NEW q \in Procs PROVE req'[q] \in Request /\ RequestOK(q)'
  <2>1. req[q] \in Request /\ RequestOK(q)
    BY DEF IInv
  <2>2. CASE q = p
    <3>1. req'[q] = Idle
      BY <1>1, <2>2
    <3>2. req'[q] \in Request /\ req'[q].pc = "idle"
      BY <3>1 DEF Request, Idle
    <3> QED
      BY <3>2 DEF RequestOK, At
  <2>3. CASE q # p /\ Holds(q) /\ req[p].loaded.exists
    <3> DEFINE r == [req[q] EXCEPT !.loaded =
                       [req[q].loaded EXCEPT !.exists = FALSE]]
    <3>1. req'[q] = r
      BY <1>1, <2>3
    <3>2. req[q].loaded \in Row
      BY <2>1, <2>3, Shapes DEF At
    <3>3. [req[q].loaded EXCEPT !.exists = FALSE] \in Row
          /\ ~ [req[q].loaded EXCEPT !.exists = FALSE].exists
      BY <3>2 DEF Row
    <3>4. CASE At(q, "signin")
      <4>1. req[q] \in [pc : {"signin"}, user : Users, loaded : Row]
        BY <2>1, <3>4, Shapes DEF At
      <4>2. r \in Request /\ ~ r.loaded.exists /\ r.pc = "signin"
        BY <3>3, <4>1 DEF Request
      <4> QED
        BY <3>1, <4>2 DEF RequestOK, At
    <3>5. CASE At(q, "commit")
      <4>1. req[q] \in [pc : {"commit"}, op : Ops, user : Users,
                        admin : Users, loaded : Row]
        BY <2>1, <3>5, Shapes DEF At
      <4>2. /\ r \in Request /\ ~ r.loaded.exists /\ r.pc = "commit"
            /\ r.op = req[q].op /\ r.user = req[q].user
            /\ r.admin = req[q].admin
        BY <3>3, <4>1 DEF Request
      <4> QED
        BY <2>1, <3>1, <3>5, <4>2 DEF RequestOK, At
    <3> QED
      BY <2>3, <3>4, <3>5
  <2>4. CASE q # p /\ ~ (Holds(q) /\ req[p].loaded.exists)
    <3>1. req'[q] = req[q]
      BY <1>1, <2>4
    <3>2. req[q].pc # "idle" => req[q].user \in Users
      BY <2>1, Shapes
    <3> QED
      BY <1>2, <2>1, <2>4, <3>1, <3>2 DEF RequestOK, At
  <2> QED
    BY <2>2, <2>3, <2>4
<1>5. req' \in [Procs -> Request]
  BY <1>4 DEF DeleteCommit
<1> QED
  BY <1>3, <1>4, <1>5 DEF IInv

LEMMA NextIInv == IInv /\ [Next]_vars => IInv'
<1> SUFFICES ASSUME IInv, [Next]_vars PROVE IInv'
  OBVIOUS
<1>1. CASE Next
  BY <1>1, CreateBeginKeeps, SignInLoadKeeps, AdminLoadKeeps, OwnLoadKeeps,
     TargetLoadKeeps, CommitKeeps, DeleteKeeps DEF Next, Commit, Ops
<1>2. CASE UNCHANGED vars
  BY <1>2 DEF vars, IInv, RowsOK, RequestOK, At
<1> QED
  BY <1>1, <1>2

LEMMA Invariance == Spec => []IInv
BY InitIInv, NextIInv, PTL DEF Spec

(* A step that changes a row is a commit. *)
LEMMA OnlyCommitsWrite ==
  ASSUME [Next]_vars, row' # row
  PROVE  \E p \in Procs : Commit(p)
BY DEF Next, vars, CreateBegin, SignInLoad, AdminLoad, OwnLoad, TargetLoad

-----------------------------------------------------------------------------
(* Theorems *)

(* The rows are well typed, a deleted one is empty, and a request that     *)
(* still holds the id of an existing row knows that it does.               *)
THEOREM TypeCorrect == Spec => []TypeOK
<1>1. IInv => TypeOK
  BY Shapes DEF IInv, RowsOK, RequestOK, TypeOK, At
<1> QED
  BY <1>1, Invariance, PTL

(* Only a request to activate or deactivate a user, a cancelled            *)
(* subscription and set-password change whether the user is active, and no *)
(* stale commit of another request writes the old value back.              *)
THEOREM OnlyRequestsChangeActive == Spec => ActiveChangesOnRequest
<1>1. ASSUME IInv, [Next]_vars
      PROVE  \A u \in Users :
       row[u].exists /\ row'[u].exists /\ row'[u].active # row[u].active =>
         \E p \in Procs :
           /\ At(p, "commit") /\ req[p].user = u
           /\ req[p].op \in Actives(row'[u].active)
  <2> SUFFICES ASSUME NEW u \in Users, row[u].exists, row'[u].exists,
                      row'[u].active # row[u].active
               PROVE  \E p \in Procs :
           /\ At(p, "commit") /\ req[p].user = u
           /\ req[p].op \in Actives(row'[u].active)
    OBVIOUS
  <2>1. PICK p \in Procs : Commit(p)
    BY <1>1, OnlyCommitsWrite
  <2>2. ~ Create(p)
    BY <1>1, CreateRow
  <2>3. ~ SignIn(p)
    BY <1>1, SignInRow
  <2>4. ~ DeleteCommit(p)
    BY <1>1, DeleteRow DEF NoRow
  <2>5. ChangeCommit(p)
    BY <2>1, <2>2, <2>3, <2>4 DEF Commit
  <2> QED
    BY <1>1, <2>5, ChangeCommitRow
<1> QED
  BY <1>1, Invariance, PTL DEF Spec, ActiveChangesOnRequest, Actives

(* An account comes into being only when a request creates it: a request   *)
(* that loaded it before the deletion does not bring it back.              *)
THEOREM DeletedAccountsStayDeleted == Spec => DeletedStaysDeleted
<1>1. ASSUME IInv, [Next]_vars
      PROVE  \A u \in Users : ~ row[u].exists /\ row'[u].exists =>
               \E p \in Procs : At(p, "create") /\ req[p].user = u
  <2> SUFFICES ASSUME NEW u \in Users, ~ row[u].exists, row'[u].exists
               PROVE  \E p \in Procs : At(p, "create") /\ req[p].user = u
    OBVIOUS
  <2>1. PICK p \in Procs : Commit(p)
    BY <1>1, OnlyCommitsWrite
  <2>2. ~ SignIn(p) /\ ~ ChangeCommit(p)
    BY <1>1, SignInRow, ChangeCommitRow
  <2>3. ~ DeleteCommit(p)
    BY <1>1, DeleteRow DEF NoRow
  <2>4. Create(p)
    BY <2>1, <2>2, <2>3 DEF Commit
  <2> QED
    BY <1>1, <2>4, CreateRow DEF Create
<1> QED
  BY <1>1, Invariance, PTL DEF Spec, DeletedStaysDeleted

(* A demoted user gets the role back by make-admin, or by a sign-in that   *)
(* had loaded the row before the demotion was committed.                   *)
THEOREM DemotionsStick == Spec => DemotionSticks
<1>1. ASSUME IInv, [Next]_vars
      PROVE  \A u \in Users : row[u].removed /\ ~ row[u].admin /\ row'[u].admin =>
       \E p \in Procs :
         /\ req[p] # Idle /\ req[p].user = u
         /\ \/ At(p, "commit") /\ req[p].op = "make-admin"
            \/ At(p, "signin") /\ ~ req[p].loaded.removed
  <2> SUFFICES ASSUME NEW u \in Users, row[u].removed, ~ row[u].admin,
                      row'[u].admin
               PROVE  \E p \in Procs :
         /\ req[p] # Idle /\ req[p].user = u
         /\ \/ At(p, "commit") /\ req[p].op = "make-admin"
            \/ At(p, "signin") /\ ~ req[p].loaded.removed
    OBVIOUS
  <2>1. PICK p \in Procs : Commit(p)
    BY <1>1, OnlyCommitsWrite
  <2>2. row[u].exists
    BY <1>1 DEF IInv, RowsOK, NoRow
  <2>3. ~ Create(p)
    BY <1>1, <2>2, CreateRow
  <2>4. ~ DeleteCommit(p)
    BY <1>1, DeleteRow DEF NoRow
  <2>5. CASE SignIn(p)
    BY <1>1, <2>5, SignInRow DEF At, Idle
  <2>6. CASE ChangeCommit(p)
    BY <1>1, <2>6, ChangeCommitRow DEF At, Idle
  <2> QED
    BY <2>1, <2>3, <2>4, <2>5, <2>6 DEF Commit
<1> QED
  BY <1>1, Invariance, PTL DEF Spec, DemotionSticks

(* The last active administrator goes only by a request of somebody who is *)
(* no longer one, or when the administrator's own subscription is          *)
(* cancelled.                                                              *)
THEOREM AnAdminRemains == Spec => AdminRemains
<1>1. ASSUME IInv, [Next]_vars
      PROVE  Admins # {} /\ Admins' = {} =>
               \E p \in Procs :
                 /\ At(p, "commit")
                 /\ req[p].op = "cancel" \/ req[p].admin \notin Admins
  <2> SUFFICES ASSUME Admins # {}, Admins' = {}
               PROVE  \E p \in Procs :
                 /\ At(p, "commit")
                 /\ req[p].op = "cancel" \/ req[p].admin \notin Admins
    OBVIOUS
  <2>1. PICK p \in Procs : Commit(p)
    <3>1. row' # row
      BY DEF Admins
    <3> QED
      BY <1>1, <3>1, OnlyCommitsWrite
  <2>2. \A v \in Admins : v = req[p].user
    BY <1>1, <2>1, CreateRow, SignInRow, ChangeCommitRow, DeleteRow
       DEF Commit, Admins
  <2>3. ~ Create(p)
    BY <1>1, <2>2, CreateRow DEF Admins
  <2>4. ~ SignIn(p)
    BY <1>1, <2>2, SignInRow DEF Admins
  <2>5. At(p, "commit") /\ req[p].op \in NotOnOneself \cup {"cancel"}
    <3>1. CASE ChangeCommit(p)
      BY <1>1, <2>2, <3>1, ChangeCommitRow DEF Admins, NotOnOneself, Actives
    <3>2. CASE DeleteCommit(p)
      BY <1>1, <3>2, DeleteRow DEF NotOnOneself
    <3> QED
      BY <2>1, <2>3, <2>4, <3>1, <3>2 DEF Commit
  <2>6. req[p].op \in NotOnOneself => req[p].admin # req[p].user
    BY <1>1, <2>5 DEF IInv, RequestOK
  <2> QED
    BY <2>2, <2>5, <2>6
<1> QED
  BY <1>1, Invariance, PTL DEF Spec, AdminRemains
=============================================================================
