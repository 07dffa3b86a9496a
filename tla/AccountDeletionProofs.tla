------------------------ MODULE AccountDeletionProofs ------------------------
(***************************************************************************)
(* TLAPS proofs about AccountDeletion, for any sets of users, rows and     *)
(* worker threads: a deletion takes everything of the account or nothing,  *)
(* and one that no new row disturbed is not refused by a foreign key.      *)
(***************************************************************************)
EXTENDS AccountDeletion, FiniteSetTheorems, TLAPS

-----------------------------------------------------------------------------
(* The inductive invariant *)

(* A row refers to what exists, and an id is given out once. *)
RowsOK ==
  /\ users \subseteq Users
  /\ parent \in [Things -> Users \cup Apps \cup {None}]
  /\ \A x \in Things : parent[x] # None =>
       x \in used /\ Fits(x, parent[x]) /\ Exists(parent[x])
  /\ lock \in [Tokens -> Procs \cup {None}]

Deleting == {"tokens", "entities", "commit"}

(* The fields of a request. *)
Shape(r) ==
  \/ r = Idle
  \/ /\ r.pc \in {"consume", "mint", "revoke"}
     /\ r = [pc |-> r.pc, todo |-> r.todo, owner |-> r.owner]
  \/ /\ r.pc \in Deleting
     /\ r = [pc |-> r.pc, todo |-> r.todo, user |-> r.user, seen |-> r.seen,
             disturbed |-> r.disturbed]

(* The row x was u's when it was read: it is still, or gone for good. *)
WasOf(x, u) == x \in used /\ parent[x] \in {u, None}

(* A rotation has locked the token it consumed: the user cannot go before  *)
(* the successor is there.                                                 *)
RotationOK(p) ==
  /\ At(p, "consume") =>
       req[p].todo # <<>> /\ Head(req[p].todo) \in Tokens
       /\ WasOf(Head(req[p].todo), req[p].owner)
  /\ At(p, "mint") =>
       \E t \in Tokens : lock[t] = p /\ parent[t] = req[p].owner
  /\ At(p, "consume") \/ At(p, "mint") => req[p].owner \in Users

(* A deletion locks tokens of its user only, and loads apps of the user    *)
(* and then what is in them.                                               *)
DeletionOK(p) ==
  LET r == req[p] IN r.pc \in Deleting =>
    /\ r.user \in Users
    /\ r.pc = "tokens" => r.todo \in Seq(Tokens) /\ r.seen = {}
    /\ r.pc = "tokens" => \A i \in DOMAIN r.todo : WasOf(r.todo[i], r.user)
    /\ r.pc = "entities" => r.seen \subseteq Apps
    /\ r.seen \subseteq Apps \cup Entities
    /\ \A t \in Tokens : lock[t] = p => WasOf(t, r.user)
    /\ \A x \in r.seen \cap Apps : WasOf(x, r.user)
    /\ \A x \in r.seen \cap Entities :
         x \in used /\ (parent[x] # None => parent[parent[x]] = r.user)

(* What an undisturbed deletion has not seen is not there. *)
SeenOK(p) ==
  LET r == req[p] IN r.pc \in Deleting /\ ~ r.disturbed =>
    /\ \A t \in Tokens : parent[t] = r.user =>
         \/ lock[t] = p
         \/ r.pc = "tokens" /\ \E i \in DOMAIN r.todo : r.todo[i] = t
    /\ r.pc # "tokens" => \A x \in Apps : parent[x] = r.user => x \in r.seen
    /\ r.pc = "commit" =>
         \A x \in Entities : parent[x] \in r.seen => x \in r.seen

RequestOK(p) ==
  /\ Shape(req[p])
  /\ At(p, "idle") => \A t \in Tokens : lock[t] # p
  /\ RotationOK(p) /\ DeletionOK(p) /\ SeenOK(p)

IInv ==
  /\ RowsOK
  /\ req = [p \in Procs |-> req[p]]
  /\ \A p \in Procs : RequestOK(p)

-----------------------------------------------------------------------------

USE TablesAreDisjoint, NoneIsNothing DEF Things

LEMMA InitIInv == Init => IInv
BY DEF Init, IInv, RowsOK, RequestOK, Shape, RotationOK, DeletionOK, SeenOK,
       Idle, At, Deleting

LEMMA AllOf ==
  ASSUME NEW S \in SUBSET Tokens, NEW s \in SetToSeqs(S)
  PROVE  s \in Seq(S) /\ \A t \in S : \E i \in DOMAIN s : s[i] = t
<1> DEFINE n == Cardinality(S)
<1>1. IsFiniteSet(S) /\ n \in Nat
  BY TokensAreFinite, FS_Subset, FS_CardinalityType
<1>2. s \in [1..n -> S] /\ \A i, j \in 1..n : i # j => s[i] # s[j]
  BY DEF SetToSeqs
<1>3. s \in Injection(1..n, S)
  BY <1>2 DEF Injection, IsInjective
<1>4. Cardinality(1..n) = n
  BY <1>1, FS_Interval
<1>5. s \in Surjection(1..n, S)
  BY <1>1, <1>3, <1>4, FS_Injection
<1> QED
  BY <1>1, <1>2, <1>5 DEF Surjection

-----------------------------------------------------------------------------
(* What a step leaves of the requests it does not serve *)

(* Being disturbed changes nothing else of a request. *)
LEMMA DisturbedIs ==
  ASSUME NEW q \in Procs, NEW u, Shape(req[q])
  PROVE  LET r == req[q]
             d == Disturbed(u)[q]
         IN /\ Shape(d) /\ d.pc = r.pc
            /\ r.pc \notin Deleting => d = r
            /\ r.pc \in Deleting =>
                 /\ d.todo = r.todo /\ d.user = r.user /\ d.seen = r.seen
                 /\ ~ d.disturbed => ~ r.disturbed /\ r.user # u
<1> DEFINE r == req[q]
           d == Disturbed(u)[q]
<1>1. d = IF "user" \in DOMAIN r /\ r.user = u
          THEN [r EXCEPT !.disturbed = TRUE] ELSE r
  BY DEF Disturbed
<1>2. CASE r.pc \notin Deleting
  <2>1. "user" \notin DOMAIN r
    BY <1>2 DEF Shape, Idle
  <2> QED
    BY <1>1, <1>2, <2>1
<1>3. CASE r.pc \in Deleting
  <2>1. r = [pc |-> r.pc, todo |-> r.todo, user |-> r.user, seen |-> r.seen,
             disturbed |-> r.disturbed]
    BY <1>3 DEF Shape, Idle, Deleting
  <2>2. "user" \in DOMAIN r
    BY <2>1
  <2>3. CASE r.user = u
    <3>1. d = [pc |-> r.pc, todo |-> r.todo, user |-> r.user, seen |-> r.seen,
               disturbed |-> TRUE]
      BY <1>1, <2>1, <2>2, <2>3
    <3> QED
      BY <1>3, <3>1 DEF Shape
  <2>4. CASE r.user # u
    BY <1>1, <1>3, <2>4
  <2> QED
    BY <2>3, <2>4
<1> QED
  BY <1>2, <1>3

LEMMA WhenLocksMove ==
  ASSUME IInv, NEW q \in Procs, req'[q] = req[q],
         UNCHANGED <<parent, used>>,
         \A t \in Tokens : lock'[t] = q <=> lock[t] = q
  PROVE  RequestOK(q)'
<1>1. Shape(req[q])' /\ (At(q, "idle") => \A t \in Tokens : lock[t] # q)'
  BY DEF IInv, RequestOK, Shape, At
<1>2. RotationOK(q)'
  BY DEF IInv, RequestOK, RotationOK, At, WasOf
<1>3. DeletionOK(q)'
  BY DEF IInv, RequestOK, DeletionOK, WasOf
<1>4. SeenOK(q)'
  BY DEF IInv, RequestOK, SeenOK
<1> QED
  BY <1>1, <1>2, <1>3, <1>4 DEF RequestOK

(* A new row disturbs the deletions of its owner. *)
LEMMA WhenRowsCome ==
  ASSUME IInv, NEW q \in Procs, NEW x \in Things, NEW y,
         x \notin used, Fits(x, y), Exists(y),
         parent' = [parent EXCEPT ![x] = y], used' = used \cup {x},
         req'[q] = Disturbed(Owner(y))[q],
         \A t \in Tokens : lock'[t] = q <=> lock[t] = q
  PROVE  RequestOK(q)'
<1> DEFINE r == req[q]
           d == Disturbed(Owner(y))[q]
<1>1. /\ Shape(d) /\ d.pc = r.pc
      /\ r.pc \notin Deleting => d = r
      /\ r.pc \in Deleting =>
           /\ d.todo = r.todo /\ d.user = r.user /\ d.seen = r.seen
           /\ ~ d.disturbed => ~ r.disturbed /\ r.user # Owner(y)
  BY DisturbedIs DEF IInv, RequestOK
<1>2. /\ y \in Users \cup Apps
      /\ \A z \in Things : z # x => parent'[z] = parent[z]
      /\ parent[x] = None /\ parent'[x] = y
  BY DEF IInv, RowsOK, Fits
<1>3. \A z, u : WasOf(z, u) => z # x /\ (z \in Things => WasOf(z, u)')
  BY <1>2 DEF WasOf
<1> HIDE DEF d
<1>4. Shape(req[q])' /\ (At(q, "idle") => \A t \in Tokens : lock[t] # q)'
  BY <1>1 DEF IInv, RequestOK, Shape, At, d
<1>5. RotationOK(q)'
  BY <1>1, <1>2, <1>3 DEF IInv, RequestOK, RotationOK, At, d, Deleting
<1>6. DeletionOK(q)'
  <2> SUFFICES ASSUME r.pc \in Deleting PROVE DeletionOK(q)'
    BY <1>1 DEF DeletionOK, d
  <2>1. \A z \in r.seen \cap Entities :
          z \in used' /\ (parent'[z] # None => parent'[parent'[z]] = r.user)
    <3> SUFFICES ASSUME NEW z \in r.seen \cap Entities
                 PROVE  z \in used' /\ (parent'[z] # None => parent'[parent'[z]] = r.user)
      OBVIOUS
    <3>1. z \in used /\ z # x /\ (parent[z] # None => parent[parent[z]] = r.user)
      BY DEF IInv, RequestOK, DeletionOK
    <3>2. parent[z] # None => parent[z] \in Apps /\ parent[z] # x
      BY <1>2, <3>1 DEF IInv, RowsOK, Fits, Exists
    <3> QED
      BY <1>2, <3>1, <3>2
  <2> QED
    BY <1>1, <1>3, <2>1 DEF IInv, RequestOK, DeletionOK, d
<1>7. SeenOK(q)'
  <2> SUFFICES ASSUME r.pc \in Deleting, ~ d.disturbed PROVE SeenOK(q)'
    BY <1>1 DEF SeenOK, d
  <2>1. /\ ~ r.disturbed /\ r.user # Owner(y) /\ r.user \in Users
        /\ r.seen \subseteq Apps \cup Entities
        /\ \A z \in r.seen \cap Apps : WasOf(z, r.user)
    BY <1>1 DEF IInv, RequestOK, DeletionOK
  <2>2. y # r.user /\ y \notin r.seen
    BY <1>2, <2>1 DEF Owner, Exists, IInv, RowsOK, WasOf, Fits
  <2> QED
    BY <1>1, <1>2, <2>1, <2>2 DEF IInv, RequestOK, SeenOK, d
<1> QED
  BY <1>4, <1>5, <1>6, <1>7 DEF RequestOK

(* Rows that go take nothing away that the request locked. *)
LEMMA WhenRowsGo ==
  ASSUME IInv, RowsOK', NEW q \in Procs, req'[q] = req[q], used' = used,
         \A x \in Things : parent'[x] \in {parent[x], None},
         \A t \in Tokens : lock[t] = q => parent'[t] = parent[t],
         \A t \in Tokens : lock'[t] = q <=> lock[t] = q
  PROVE  RequestOK(q)'
<1>1. Shape(req[q])' /\ (At(q, "idle") => \A t \in Tokens : lock[t] # q)'
  BY DEF IInv, RequestOK, Shape, At
<1>2. \A z \in Things : \A u : WasOf(z, u) => WasOf(z, u)'
  BY DEF WasOf
<1>3. RotationOK(q)'
  BY <1>2 DEF IInv, RequestOK, RotationOK, At
<1>4. DeletionOK(q)'
  <2> DEFINE r == req[q]
  <2> SUFFICES ASSUME r.pc \in Deleting PROVE DeletionOK(q)'
    BY DEF DeletionOK
  <2>1. ASSUME NEW z \in r.seen \cap Entities, parent'[z] # None
        PROVE  parent'[parent'[z]] = r.user
    <3>1. parent'[z] = parent[z] /\ parent[parent[z]] = r.user
      BY <2>1 DEF IInv, RequestOK, DeletionOK
    <3>2. parent'[z] \in Apps /\ parent'[parent'[z]] # None
      BY <2>1 DEF RowsOK, Fits, Exists
    <3> QED
      BY <3>1, <3>2
  <2> QED
    BY <1>2, <2>1 DEF IInv, RequestOK, DeletionOK
<1>5. SeenOK(q)'
  <2> DEFINE r == req[q]
  <2> SUFFICES ASSUME r.pc \in Deleting, ~ r.disturbed PROVE SeenOK(q)'
    BY DEF SeenOK
  <2>1. r.user \in Users /\ r.seen \subseteq Apps \cup Entities
    BY DEF IInv, RequestOK, DeletionOK
  <2>2. \A z \in Things : parent'[z] # None => parent'[z] = parent[z]
    OBVIOUS
  <2> QED
    BY <2>1, <2>2 DEF IInv, RequestOK, SeenOK
<1> QED
  BY <1>1, <1>3, <1>4, <1>5 DEF RequestOK

LEMMA WhenIdle ==
  ASSUME NEW p \in Procs, req'[p] = Idle, \A t \in Tokens : lock'[t] # p
  PROVE  RequestOK(p)'
BY DEF RequestOK, Shape, Idle, At, RotationOK, DeletionOK, SeenOK, Deleting

LEMMA UnlockedIs ==
  ASSUME IInv, NEW p \in Procs
  PROVE  /\ Unlocked(p) \in [Tokens -> Procs \cup {None}]
         /\ \A t \in Tokens : Unlocked(p)[t] # p
         /\ \A q \in Procs : q # p =>
              \A t \in Tokens : Unlocked(p)[t] = q <=> lock[t] = q
BY DEF IInv, RowsOK, Unlocked

LEMMA ServedIs ==
  ASSUME IInv, NEW p \in Procs, NEW r, Serve(p, r)
  PROVE  /\ req'[p] = r /\ \A q \in Procs : q # p => req'[q] = req[q]
         /\ req' = [q \in Procs |-> req'[q]]
BY DEF IInv, Serve

(* A step that changes no row: its lock and its request are what counts.   *)
LEMMA WhenRowsStay ==
  ASSUME IInv, NEW p \in Procs, NEW r, Serve(p, r),
         UNCHANGED <<users, parent, used>>,
         lock' \in [Tokens -> Procs \cup {None}],
         \A q \in Procs : q # p => \A t \in Tokens : lock'[t] = q <=> lock[t] = q,
         RequestOK(p)'
  PROVE  IInv'
<1>1. RowsOK'
  BY DEF IInv, RowsOK, Fits, Exists
<1>2. \A q \in Procs : RequestOK(q)'
  BY ServedIs, WhenLocksMove
<1> QED
  BY <1>1, <1>2, ServedIs DEF IInv

(* The transaction ends and leaves the rows as they are. *)
LEMMA LeaveKeeps ==
  ASSUME IInv, NEW p \in Procs, Serve(p, Idle), lock' = Unlocked(p),
         UNCHANGED <<users, parent, used>>
  PROVE  IInv'
BY WhenRowsStay, WhenIdle, UnlockedIs, ServedIs

(* A new row refers to something that exists. *)
LEMMA RowsCome ==
  ASSUME IInv, NEW x \in Things, NEW y, x \notin used, Fits(x, y), Exists(y),
         parent' = [parent EXCEPT ![x] = y], used' = used \cup {x},
         users' = users, lock' \in [Tokens -> Procs \cup {None}]
  PROVE  RowsOK'
<1>1. y \in Users \cup Apps /\ parent[x] = None
  BY DEF IInv, RowsOK, Fits
<1>2. /\ parent' \in [Things -> Users \cup Apps \cup {None}]
      /\ parent'[x] = y /\ \A z \in Things : z # x => parent'[z] = parent[z]
  BY <1>1 DEF IInv, RowsOK
<1>3. \A z : Exists(z) => Exists(z)'
  BY <1>1, <1>2 DEF Exists
<1> QED
  BY <1>2, <1>3 DEF IInv, RowsOK, Fits

LEMMA InsertKeeps ==
  ASSUME IInv, NEW x \in Things, NEW y \in Users \cup Apps, Insert(x, y)
  PROVE  IInv'
<1>1. RowsOK'
  BY RowsCome DEF Insert, IInv, RowsOK
<1>2. \A q \in Procs : req'[q] = Disturbed(Owner(y))[q]
  BY DEF Insert
<1>3. \A q \in Procs : RequestOK(q)'
  BY <1>2, WhenRowsCome DEF Insert
<1>4. req' = [q \in Procs |-> req'[q]]
  BY DEF Insert, Disturbed
<1> QED
  BY <1>1, <1>3, <1>4 DEF IInv

-----------------------------------------------------------------------------
(* Rotations and revocations *)

LEMMA RotateBeginKeeps ==
  ASSUME IInv, NEW p \in Procs, NEW t \in Tokens, RotateBegin(p, t)
  PROVE  IInv'
<1> DEFINE r == [pc |-> "consume", todo |-> <<t>>, owner |-> parent[t]]
<1>1. Serve(p, r) /\ UNCHANGED <<users, parent, used, lock>>
  BY DEF RotateBegin
<1>2. t \in used /\ parent[t] \in Users
  BY DEF RotateBegin, IInv, RowsOK, Fits
<1>3. RequestOK(p)'
  BY <1>1, <1>2, ServedIs DEF RequestOK, Shape, At, RotationOK, WasOf,
                              DeletionOK, SeenOK, Deleting
<1> QED
  BY <1>1, <1>3, WhenRowsStay DEF IInv, RowsOK

(* The consumed token is still there, so its owner is. *)
LEMMA OwnerExists ==
  ASSUME IInv, NEW p \in Procs, At(p, "mint")
  PROVE  req[p].owner \in users
BY DEF IInv, RequestOK, RotationOK, RowsOK, Exists

LEMMA MintKeeps ==
  ASSUME IInv, NEW p \in Procs, NEW new \in Tokens, Mint(p, new)
  PROVE  IInv'
<1> DEFINE u == req[p].owner
<1>1. /\ new \notin used /\ u \in users /\ u \in Users
      /\ parent' = [parent EXCEPT ![new] = u] /\ used' = used \cup {new}
      /\ lock' = Unlocked(p) /\ users' = users
      /\ req' = [Disturbed(u) EXCEPT ![p] = Idle]
  BY OwnerExists DEF Mint, IInv, RowsOK
<1>2. Fits(new, u) /\ Exists(u) /\ Owner(u) = u
  BY <1>1 DEF Fits, Exists, Owner
<1>3. req'[p] = Idle /\ \A q \in Procs : q # p => req'[q] = Disturbed(u)[q]
  BY <1>1 DEF Disturbed
<1>4. ASSUME NEW q \in Procs, q # p PROVE RequestOK(q)'
  <2>1. req'[q] = Disturbed(Owner(u))[q]
    BY <1>2, <1>3, <1>4
  <2>2. \A t \in Tokens : lock'[t] = q <=> lock[t] = q
    BY <1>1, <1>4, UnlockedIs
  <2> HIDE DEF u
  <2> QED
    BY <1>1, <1>2, <2>1, <2>2, WhenRowsCome
<1>5. RequestOK(p)'
  BY <1>1, <1>3, UnlockedIs, WhenIdle
<1>6. RowsOK'
  BY <1>1, <1>2, UnlockedIs, RowsCome
<1>7. req' = [q \in Procs |-> req'[q]]
  BY <1>1 DEF Disturbed
<1> QED
  BY <1>4, <1>5, <1>6, <1>7 DEF IInv

LEMMA RevokeBeginKeeps ==
  ASSUME IInv, NEW p \in Procs, NEW u \in Users, NEW S \in SUBSET Tokens,
         RevokeBegin(p, u, S)
  PROVE  IInv'
<1>1. PICK s : Serve(p, [pc |-> "revoke", todo |-> s, owner |-> u])
  BY DEF RevokeBegin
<1>2. UNCHANGED <<users, parent, used, lock>>
  BY DEF RevokeBegin
<1>3. RequestOK(p)'
  BY <1>1, ServedIs DEF RequestOK, Shape, At, RotationOK, DeletionOK, SeenOK,
                        Deleting
<1> QED
  BY <1>1, <1>2, <1>3, WhenRowsStay DEF IInv, RowsOK

LEMMA LeavingKeeps ==
  ASSUME IInv, NEW p \in Procs, Answer401(p) \/ RevokeCommit(p) \/ Deadlock(p)
  PROVE  IInv'
BY LeaveKeeps DEF Answer401, RevokeCommit, Deadlock, Rollback

-----------------------------------------------------------------------------
(* Deletions *)

LEMMA DeleteBeginKeeps ==
  ASSUME IInv, NEW p \in Procs, NEW u \in Users, DeleteBegin(p, u)
  PROVE  IInv'
<1> DEFINE S == Children({u}) \cap Tokens
<1>1. PICK s \in SetToSeqs(S) :
        Serve(p, [pc |-> "tokens", todo |-> s, user |-> u, seen |-> {},
                  disturbed |-> FALSE])
  BY DEF DeleteBegin
<1>2. UNCHANGED <<users, parent, used, lock>> /\ At(p, "idle")
  BY DEF DeleteBegin
<1>3. s \in Seq(S) /\ \A t \in S : \E i \in DOMAIN s : s[i] = t
  <2>1. S \in SUBSET Tokens /\ s \in SetToSeqs(S)
    BY <1>1
  <2> HIDE DEF S
  <2> QED
    BY <2>1, AllOf
<1>4. /\ s \in Seq(Tokens) /\ \A i \in DOMAIN s : WasOf(s[i], u)
      /\ \A t \in Tokens : parent[t] = u => \E i \in DOMAIN s : s[i] = t
  BY <1>3 DEF Children, IInv, RowsOK, WasOf
<1>5. \A t \in Tokens : lock[t] # p
  BY <1>2 DEF IInv, RequestOK
<1> DEFINE r == [pc |-> "tokens", todo |-> s, user |-> u, seen |-> {},
                 disturbed |-> FALSE]
<1>6. req'[p] = r
  BY <1>1, ServedIs
<1>7. Shape(req[p])' /\ (At(p, "idle") => \A t \in Tokens : lock[t] # p)'
      /\ RotationOK(p)'
  BY <1>6 DEF Shape, At, RotationOK, Deleting
<1>8. DeletionOK(p)'
  BY <1>2, <1>4, <1>5, <1>6 DEF DeletionOK, WasOf, Deleting
<1>9. SeenOK(p)'
  BY <1>2, <1>4, <1>6 DEF SeenOK, Deleting
<1> QED
  BY <1>1, <1>2, <1>7, <1>8, <1>9, WhenRowsStay DEF IInv, RowsOK, RequestOK

(* Changing two fields of a request. *)
LEMMA RotationWith ==
  ASSUME NEW r, NEW x, NEW y,
         r = [pc |-> r.pc, todo |-> r.todo, owner |-> r.owner]
  PROVE  [r EXCEPT !.todo = x, !.pc = y] =
           [pc |-> y, todo |-> x, owner |-> r.owner]
<1> DEFINE s == [r EXCEPT !.todo = x]
           a == r.pc
           b == r.todo
           c == r.owner
<1>1. r = [pc |-> a, todo |-> b, owner |-> c]
  OBVIOUS
<1>2. s = [pc |-> a, todo |-> x, owner |-> c]
  <2> HIDE DEF a, b, c
  <2> QED
    BY <1>1
<1>3. [s EXCEPT !.pc = y] = [pc |-> y, todo |-> x, owner |-> c]
  <2> HIDE DEF s, a, b, c
  <2> QED
    BY <1>2
<1> QED
  BY <1>3, Zenon

LEMMA DeletionWith ==
  ASSUME NEW r, NEW x, NEW y,
         r = [pc |-> r.pc, todo |-> r.todo, user |-> r.user,
              seen |-> r.seen, disturbed |-> r.disturbed]
  PROVE  [r EXCEPT !.todo = x, !.pc = y] =
           [pc |-> y, todo |-> x, user |-> r.user,
            seen |-> r.seen, disturbed |-> r.disturbed]
<1> DEFINE s == [r EXCEPT !.todo = x]
           a == r.pc
           b == r.todo
           c == r.user
           d == r.seen
           e == r.disturbed
<1>1. r = [pc |-> a, todo |-> b, user |-> c, seen |-> d, disturbed |-> e]
  OBVIOUS
<1>2. s = [pc |-> a, todo |-> x, user |-> c, seen |-> d, disturbed |-> e]
  <2> HIDE DEF a, b, c, d, e
  <2> QED
    BY <1>1
<1>3. [s EXCEPT !.pc = y] = [pc |-> y, todo |-> x, user |-> c,
                             seen |-> d, disturbed |-> e]
  <2> HIDE DEF s, a, b, c, d, e
  <2> QED
    BY <1>2
<1> QED
  BY <1>3, Zenon

LEMMA DeletionSees ==
  ASSUME NEW r, NEW x, NEW y,
         r = [pc |-> r.pc, todo |-> r.todo, user |-> r.user,
              seen |-> r.seen, disturbed |-> r.disturbed]
  PROVE  [r EXCEPT !.pc = x, !.seen = y] =
           [pc |-> x, todo |-> r.todo, user |-> r.user,
            seen |-> y, disturbed |-> r.disturbed]
<1> DEFINE s == [r EXCEPT !.pc = x]
           a == r.pc
           b == r.todo
           c == r.user
           d == r.seen
           e == r.disturbed
<1>1. r = [pc |-> a, todo |-> b, user |-> c, seen |-> d, disturbed |-> e]
  OBVIOUS
<1>2. s = [pc |-> x, todo |-> b, user |-> c, seen |-> d, disturbed |-> e]
  <2> HIDE DEF a, b, c, d, e
  <2> QED
    BY <1>1
<1>3. [s EXCEPT !.seen = y] = [pc |-> x, todo |-> b, user |-> c,
                             seen |-> y, disturbed |-> e]
  <2> HIDE DEF s, a, b, c, d, e
  <2> QED
    BY <1>2
<1> QED
  BY <1>3, Zenon

(* The request with the row it is at taken off its list. *)
Advanced(r) ==
  IF r.pc = "tokens"
  THEN [pc |-> "tokens", todo |-> Tail(r.todo), user |-> r.user, seen |-> r.seen,
        disturbed |-> r.disturbed]
  ELSE [pc |-> IF r.pc = "consume" THEN "mint" ELSE r.pc, todo |-> Tail(r.todo),
        owner |-> r.owner]

LEMMA AdvancedIs ==
  ASSUME NEW r, Shape(r), r.pc \in {"consume", "revoke", "tokens"}
  PROVE  [r EXCEPT !.todo = Tail(@), !.pc = IF @ = "consume" THEN "mint" ELSE @]
           = Advanced(r)
<1> DEFINE label == IF r.pc = "consume" THEN "mint" ELSE r.pc
<1>1. CASE r.pc = "tokens"
  <2>1. r = [pc |-> r.pc, todo |-> r.todo, user |-> r.user, seen |-> r.seen,
             disturbed |-> r.disturbed]
    BY <1>1 DEF Shape, Idle
  <2>2. [r EXCEPT !.todo = Tail(r.todo), !.pc = label] =
          [pc |-> label, todo |-> Tail(r.todo), user |-> r.user,
           seen |-> r.seen, disturbed |-> r.disturbed]
    BY <2>1, DeletionWith, Zenon
  <2>3. Advanced(r) = [pc |-> label, todo |-> Tail(r.todo), user |-> r.user,
                       seen |-> r.seen, disturbed |-> r.disturbed]
    BY <1>1 DEF Advanced
  <2> QED
    BY <2>2, <2>3, Zenon
<1>2. CASE r.pc # "tokens"
  <2>1. r = [pc |-> r.pc, todo |-> r.todo, owner |-> r.owner]
    BY <1>2 DEF Shape, Idle, Deleting
  <2>2. [r EXCEPT !.todo = Tail(r.todo), !.pc = label] =
          [pc |-> label, todo |-> Tail(r.todo), owner |-> r.owner]
    BY <2>1, RotationWith, Zenon
  <2>3. Advanced(r) = [pc |-> label, todo |-> Tail(r.todo), owner |-> r.owner]
    BY <1>2 DEF Advanced
  <2> QED
    BY <2>2, <2>3, Zenon
<1> QED
  BY <1>1, <1>2

(* The row is locked unless it is gone; then a request other than the      *)
(* deletion gives up.                                                      *)
LEMMA LockRowIs ==
  ASSUME IInv, NEW p \in Procs, LockRow(p)
  PROVE  LET r == req[p]
             t == Head(r.todo)
         IN /\ r.todo # <<>> /\ UNCHANGED <<users, parent, used>>
            /\ IF parent[t] # None \/ r.pc = "tokens"
               THEN /\ Serve(p, Advanced(r))
                    /\ lock' \in [Tokens -> Procs \cup {None}]
                    /\ \A q \in Procs : q # p =>
                         \A x \in Tokens : lock'[x] = q <=> lock[x] = q
                    /\ \A x \in Tokens : lock'[x] = p <=>
                         lock[x] = p \/ (x = t /\ parent[t] # None)
               ELSE lock' = Unlocked(p) /\ Serve(p, Idle)
<1> DEFINE r == req[p]
           t == Head(r.todo)
           next == [r EXCEPT !.todo = Tail(@),
                             !.pc = IF @ = "consume" THEN "mint" ELSE @]
<1>1. /\ r.pc \in {"consume", "revoke", "tokens"}
      /\ r.todo # <<>> /\ lock[t] \in {None, p}
      /\ UNCHANGED <<users, parent, used>>
      /\ IF parent[t] # None
         THEN lock' = [lock EXCEPT ![t] = p] /\ Serve(p, next)
         ELSE IF At(p, "tokens") THEN UNCHANGED lock /\ Serve(p, next)
         ELSE Rollback(p)
  BY Zenon DEF LockRow
<1>2. next = Advanced(r)
  <2>1. Shape(r)
    BY DEF IInv, RequestOK
  <2> QED
    BY <1>1, <2>1, AdvancedIs, Zenon
<1> HIDE DEF next, t
<1>3. CASE parent[t] # None
  <2>1. lock' = [lock EXCEPT ![t] = p] /\ lock[t] \in {None, p}
    BY <1>1, <1>3
  <2>2. /\ lock' \in [Tokens -> Procs \cup {None}]
        /\ \A q \in Procs : q # p =>
             \A x \in Tokens : lock'[x] = q <=> lock[x] = q
        /\ \A x \in Tokens : lock'[x] = p <=> lock[x] = p \/ x = t
    BY <2>1 DEF IInv, RowsOK
  <2> QED
    BY <1>1, <1>2, <1>3, <2>2 DEF t
<1>4. CASE parent[t] = None /\ r.pc = "tokens"
  BY <1>1, <1>2, <1>4 DEF IInv, RowsOK, At, t
<1>5. CASE parent[t] = None /\ r.pc # "tokens"
  BY <1>1, <1>5 DEF Rollback, At, t
<1> QED
  BY <1>3, <1>4, <1>5

LEMMA ConsumeKeeps ==
  ASSUME IInv, NEW p \in Procs, LockRow(p), At(p, "consume")
  PROVE  IInv'
<1> DEFINE t == Head(req[p].todo)
           r == [pc |-> "mint", todo |-> Tail(req[p].todo), owner |-> req[p].owner]
<1>1. /\ t \in Tokens /\ WasOf(t, req[p].owner) /\ req[p].owner \in Users
      /\ req[p] = [pc |-> "consume", todo |-> req[p].todo, owner |-> req[p].owner]
  BY DEF IInv, RequestOK, RotationOK, Shape, At, Idle, Deleting
<1>2. UNCHANGED <<users, parent, used>>
  BY LockRowIs
<1>3. CASE parent[t] # None
  <2>1. /\ Serve(p, r) /\ lock' \in [Tokens -> Procs \cup {None}]
        /\ \A q \in Procs : q # p =>
             \A x \in Tokens : lock'[x] = q <=> lock[x] = q
        /\ \A x \in Tokens : lock'[x] = p <=> lock[x] = p \/ x = t
    BY <1>1, <1>3, LockRowIs DEF Advanced, At
  <2>2. req'[p] = r
    BY <2>1, ServedIs
  <2>3. RotationOK(p)'
    BY <1>1, <1>2, <1>3, <2>1, <2>2 DEF RotationOK, At, WasOf
  <2>4. RequestOK(p)'
    BY <2>2, <2>3 DEF RequestOK, Shape, At, DeletionOK, SeenOK, Deleting
  <2> QED
    BY <1>2, <2>1, <2>4, WhenRowsStay
<1>4. CASE parent[t] = None
  BY <1>1, <1>2, <1>4, LockRowIs, LeaveKeeps
<1> QED
  BY <1>3, <1>4

LEMMA RevokeRowKeeps ==
  ASSUME IInv, NEW p \in Procs, LockRow(p), At(p, "revoke")
  PROVE  IInv'
<1> DEFINE t == Head(req[p].todo)
           r == [pc |-> "revoke", todo |-> Tail(req[p].todo), owner |-> req[p].owner]
<1>1. req[p] = [pc |-> "revoke", todo |-> req[p].todo, owner |-> req[p].owner]
  BY DEF IInv, RequestOK, Shape, At, Idle, Deleting
<1>2. UNCHANGED <<users, parent, used>>
  BY LockRowIs
<1>3. CASE parent[t] # None
  <2>1. /\ Serve(p, r) /\ lock' \in [Tokens -> Procs \cup {None}]
        /\ \A q \in Procs : q # p =>
             \A x \in Tokens : lock'[x] = q <=> lock[x] = q
        /\ \A x \in Tokens : lock'[x] = p <=> lock[x] = p \/ x = t
    BY <1>1, <1>3, LockRowIs DEF Advanced, At
  <2>2. RequestOK(p)'
    BY <2>1, ServedIs DEF RequestOK, Shape, At, RotationOK, DeletionOK, SeenOK,
                          Deleting
  <2> QED
    BY <1>2, <2>1, <2>2, WhenRowsStay
<1>4. CASE parent[t] = None
  BY <1>1, <1>2, <1>4, LockRowIs, LeaveKeeps
<1> QED
  BY <1>3, <1>4

(* The row that leaves the list is locked, or was gone already. *)
LEMMA DeleteRowKeeps ==
  ASSUME IInv, NEW p \in Procs, LockRow(p), At(p, "tokens")
  PROVE  IInv'
<1> DEFINE todo == req[p].todo
           t == Head(todo)
           u == req[p].user
           r == [pc |-> "tokens", todo |-> Tail(todo), user |-> u,
                 seen |-> req[p].seen, disturbed |-> req[p].disturbed]
<1>1. /\ req[p] = [pc |-> "tokens", todo |-> todo, user |-> u,
                   seen |-> req[p].seen, disturbed |-> req[p].disturbed]
      /\ todo # <<>> /\ UNCHANGED <<users, parent, used>>
  BY LockRowIs DEF IInv, RequestOK, Shape, At, Idle, Deleting
<1>2. /\ todo \in Seq(Tokens) /\ req[p].seen = {} /\ u \in Users
      /\ \A i \in DOMAIN todo : WasOf(todo[i], u)
      /\ \A x \in Tokens : lock[x] = p => WasOf(x, u)
  BY DEF IInv, RequestOK, DeletionOK, At, Deleting
<1>3. t \in Tokens /\ WasOf(t, u) /\ Tail(todo) \in Seq(Tokens)
      /\ \A i \in DOMAIN Tail(todo) : WasOf(Tail(todo)[i], u)
  BY <1>1, <1>2
<1>4. \A i \in DOMAIN todo :
        todo[i] = t \/ \E j \in DOMAIN Tail(todo) : Tail(todo)[j] = todo[i]
  <2> SUFFICES ASSUME NEW i \in DOMAIN todo, i # 1
               PROVE  \E j \in DOMAIN Tail(todo) : Tail(todo)[j] = todo[i]
    BY <1>1, <1>2
  <2>1. i - 1 \in DOMAIN Tail(todo) /\ Tail(todo)[i - 1] = todo[i]
    BY <1>1, <1>2
  <2> QED
    BY <2>1
<1>5. Serve(p, r)
  BY <1>1, LockRowIs DEF Advanced, At
<1>6. /\ lock' \in [Tokens -> Procs \cup {None}]
      /\ \A q \in Procs : q # p => \A x \in Tokens : lock'[x] = q <=> lock[x] = q
      /\ \A x \in Tokens : lock'[x] = p <=>
                             lock[x] = p \/ (x = t /\ parent[t] # None)
  BY LockRowIs DEF At
<1>7. req'[p] = r
  BY <1>5, ServedIs
<1>8. Shape(req[p])' /\ (At(p, "idle") => \A x \in Tokens : lock[x] # p)'
      /\ RotationOK(p)'
  BY <1>7 DEF Shape, At, RotationOK, Deleting
<1>9. DeletionOK(p)'
  BY <1>1, <1>2, <1>3, <1>6, <1>7 DEF DeletionOK, WasOf
<1>10. SeenOK(p)'
  <2> SUFFICES ASSUME ~ req[p].disturbed PROVE SeenOK(p)'
    BY <1>7 DEF SeenOK
  <2>1. ASSUME NEW x \in Tokens, parent[x] = u
        PROVE  lock'[x] = p \/ \E j \in DOMAIN Tail(todo) : Tail(todo)[j] = x
    <3>1. lock[x] = p \/ \E i \in DOMAIN todo : todo[i] = x
      BY <2>1 DEF IInv, RequestOK, SeenOK, At, Deleting
    <3> QED
      BY <1>2, <1>4, <1>6, <2>1, <3>1
  <2> QED
    BY <1>1, <1>7, <2>1 DEF SeenOK
<1> QED
  BY <1>1, <1>5, <1>6, <1>8, <1>9, <1>10, WhenRowsStay DEF RequestOK

(* The request after it loaded the next table. *)
Loaded(r, rows) ==
  [pc |-> IF r.pc = "tokens" THEN "entities" ELSE "commit", todo |-> r.todo,
   user |-> r.user, seen |-> r.seen \cup rows, disturbed |-> r.disturbed]

LEMMA LoadIs ==
  ASSUME IInv, NEW p \in Procs, Load(p)
  PROVE  Serve(p, Loaded(req[p], Loads(p)))
<1> DEFINE r == req[p]
           label == IF r.pc = "tokens" THEN "entities" ELSE "commit"
           next == [r EXCEPT !.pc = IF @ = "tokens" THEN "entities" ELSE "commit",
                             !.seen = @ \cup Loads(p)]
<1>1. Serve(p, next)
  BY Zenon DEF Load
<1>2. r = [pc |-> r.pc, todo |-> r.todo, user |-> r.user, seen |-> r.seen,
           disturbed |-> r.disturbed]
  <2>1. r.pc \in {"tokens", "entities"} /\ Shape(r)
    BY DEF Load, At, IInv, RequestOK
  <2> QED
    BY <2>1 DEF Shape, Idle
<1>3. [r EXCEPT !.pc = label, !.seen = r.seen \cup Loads(p)] =
        [pc |-> label, todo |-> r.todo, user |-> r.user,
         seen |-> r.seen \cup Loads(p), disturbed |-> r.disturbed]
  BY <1>2, DeletionSees, Zenon
<1> QED
  BY <1>1, <1>3, Zenon DEF Loaded

LEMMA LoadKeeps ==
  ASSUME IInv, NEW p \in Procs, Load(p)
  PROVE  IInv'
<1> DEFINE r == req[p]
           u == r.user
           seen == r.seen \cup Loads(p)
<1>1. Serve(p, Loaded(r, Loads(p))) /\ UNCHANGED <<users, parent, used, lock>>
  BY LoadIs DEF Load
<1>2. /\ req'[p].pc = IF r.pc = "tokens" THEN "entities" ELSE "commit"
      /\ req'[p].user = u /\ req'[p].seen = seen
      /\ req'[p].disturbed = r.disturbed
      /\ Shape(req'[p])
  BY <1>1, ServedIs DEF Loaded, Shape, Deleting
<1>3. /\ (r.pc = "tokens" /\ r.todo = <<>>) \/ r.pc = "entities"
      /\ u \in Users /\ \A t \in Tokens : lock[t] = p => WasOf(t, u)
      /\ r.seen \subseteq Apps /\ \A x \in r.seen : WasOf(x, u)
  BY DEF Load, At, IInv, RequestOK, DeletionOK, Deleting
<1>4. CASE r.pc = "tokens" /\ r.todo = <<>>
  <2>1. seen = Children({u}) \cap Apps
    BY <1>4 DEF Loads, At, IInv, RequestOK, DeletionOK, Deleting
  <2>2. seen \subseteq Apps /\ \A x \in Apps : x \in seen <=> parent[x] = u
    BY <2>1 DEF Children
  <2>3. \A x \in seen : WasOf(x, u)
    BY <1>3, <2>2 DEF WasOf, IInv, RowsOK
  <2>4. DeletionOK(p)'
    BY <1>1, <1>2, <1>3, <1>4, <2>2, <2>3 DEF DeletionOK, WasOf
  <2>5. SeenOK(p)'
    BY <1>1, <1>2, <1>4, <2>2 DEF SeenOK, IInv, RequestOK, Deleting
  <2> QED
    BY <1>1, <1>2, <1>4, <2>4, <2>5, WhenRowsStay
       DEF IInv, RowsOK, RequestOK, RotationOK, At
<1>5. CASE r.pc = "entities"
  <2>1. seen = r.seen \cup Children(r.seen)
    BY <1>5 DEF Loads, At
  <2>2. Children(r.seen) \subseteq Entities
    BY <1>3 DEF Children, IInv, RowsOK, Fits
  <2>3. \A x \in Children(r.seen) : x \in used /\ parent[parent[x]] = u
    BY <1>3, <2>2 DEF Children, IInv, RowsOK, Fits, Exists, WasOf
  <2>4. seen \cap Apps = r.seen /\ seen \cap Entities = Children(r.seen)
    BY <1>3, <2>1, <2>2
  <2>5. DeletionOK(p)'
    <3>1. /\ req'[p].pc = "commit" /\ req'[p].user = u /\ req'[p].seen = seen
          /\ seen \subseteq Apps \cup Entities
      BY <1>2, <1>3, <1>5, <2>1, <2>2
    <3>2. /\ \A x \in seen \cap Apps : WasOf(x, u)
          /\ \A x \in seen \cap Entities :
               x \in used /\ (parent[x] # None => parent[parent[x]] = u)
      BY <1>3, <2>3, <2>4
    <3> HIDE DEF seen, u
    <3> QED
      BY <1>1, <1>3, <3>1, <3>2 DEF DeletionOK, WasOf
  <2>6. SeenOK(p)'
    <3> SUFFICES ASSUME ~ r.disturbed PROVE SeenOK(p)'
      BY <1>2 DEF SeenOK
    <3>1. /\ \A t \in Tokens : parent[t] = u => lock[t] = p
          /\ \A x \in Apps : parent[x] = u => x \in r.seen
      BY <1>5 DEF IInv, RequestOK, SeenOK, Deleting
    <3>2. \A x \in Entities : parent[x] \in seen => x \in seen
      <4> SUFFICES ASSUME NEW x \in Entities, parent[x] \in seen PROVE x \in seen
        OBVIOUS
      <4>1. parent[x] # None /\ parent[x] \in Apps
        BY <1>3, <2>1, <2>2 DEF IInv, RowsOK, Fits
      <4> QED
        BY <2>1, <2>4, <4>1 DEF Children
    <3> QED
      BY <1>1, <1>2, <1>5, <3>1, <3>2 DEF SeenOK
  <2> QED
    BY <1>1, <1>2, <1>5, <2>5, <2>6, WhenRowsStay
       DEF IInv, RowsOK, RequestOK, RotationOK, At
<1> QED
  BY <1>3, <1>4, <1>5

(* What the commit removes is of the user, or was removed before. *)
LEMMA GoneIs ==
  ASSUME IInv, NEW p \in Procs, At(p, "commit")
  PROVE  /\ req[p].user \in Users
         /\ Gone(p) \subseteq Things
         /\ \A x \in Gone(p) : parent[x] # None =>
              \/ parent[x] = req[p].user
              \/ parent[x] \in Things /\ parent[parent[x]] = req[p].user
         /\ \A q \in Procs : q # p =>
              \A t \in Tokens : lock[t] = q => t \notin Gone(p)
         /\ \A x \in Gone(p) \cap Apps : x \in req[p].seen
<1> DEFINE r == req[p]
<1>1. /\ r.user \in Users /\ r.seen \subseteq Apps \cup Entities
      /\ \A t \in Tokens : lock[t] = p => WasOf(t, r.user)
      /\ \A x \in r.seen \cap Apps : WasOf(x, r.user)
      /\ \A x \in r.seen \cap Entities : parent[x] # None => parent[parent[x]] = r.user
  BY DEF IInv, RequestOK, DeletionOK, At, Deleting
<1>2. \A x \in r.seen \cap Entities : parent[x] # None => parent[x] \in Apps
  BY DEF IInv, RowsOK, Fits
<1> QED
  BY <1>1, <1>2 DEF Gone, WasOf

LEMMA DeleteCommitKeeps ==
  ASSUME IInv, NEW p \in Procs, DeleteCommit(p)
  PROVE  IInv'
<1> DEFINE u == req[p].user
           gone == Gone(p)
<1>1. CASE ~ ForeignKeysHold(p)
  BY <1>1, LeaveKeeps DEF DeleteCommit, Refused, Rollback
<1>2. CASE ForeignKeysHold(p)
  <2>1. /\ users' = users \ {u} /\ used' = used
        /\ parent' = [x \in Things |-> IF x \in gone THEN None ELSE parent[x]]
        /\ lock' = Unlocked(p) /\ Serve(p, Idle)
    BY <1>2 DEF DeleteCommit
  <2>2. /\ u \in Users /\ \A x \in gone \cap Apps : x \in req[p].seen
        /\ \A q \in Procs : q # p => \A t \in Tokens : lock[t] = q => t \notin gone
    BY GoneIs DEF DeleteCommit
  <2>3. \A x \in Things : parent[x] \in {u} \cup req[p].seen => x \in gone
    BY <1>2 DEF ForeignKeysHold, Children
  <2>4. RowsOK'
    <3>1. /\ users' \subseteq Users
          /\ parent' \in [Things -> Users \cup Apps \cup {None}]
          /\ lock' \in [Tokens -> Procs \cup {None}]
      BY <2>1, UnlockedIs DEF IInv, RowsOK
    <3>2. ASSUME NEW x \in Things, parent'[x] # None
          PROVE  x \in used /\ (Fits(x, parent[x]) /\ Exists(parent[x]))'
      <4>1. /\ parent'[x] = parent[x] /\ x \notin gone /\ x \in used
            /\ Fits(x, parent[x]) /\ Exists(parent[x])
        BY <2>1, <3>2 DEF IInv, RowsOK
      <4>2. parent[x] # u /\ parent[x] \notin req[p].seen
        BY <2>3, <4>1
      <4> DEFINE y == parent[x]
      <4>3. y \in users \/ (y \in Apps /\ y \notin gone /\ parent[y] # None)
        <5>1. y \in Users \cup Apps
          BY <4>1 DEF Fits
        <5> QED
          BY <2>2, <4>1, <4>2, <5>1 DEF Exists
      <4>4. y \in users' \/ (y \in Things /\ parent'[y] # None)
        <5> HIDE DEF y
        <5> QED
          BY <2>1, <4>2, <4>3 DEF y
      <4> QED
        BY <2>1, <4>1, <4>4 DEF Exists
    <3> QED
      BY <2>1, <3>1, <3>2 DEF RowsOK, Fits
  <2>5. ASSUME NEW q \in Procs, q # p PROVE RequestOK(q)'
    BY <2>1, <2>2, <2>4, <2>5, ServedIs, UnlockedIs, WhenRowsGo
  <2>6. RequestOK(p)'
    BY <2>1, ServedIs, UnlockedIs, WhenIdle
  <2> QED
    BY <2>1, <2>4, <2>5, <2>6, ServedIs DEF IInv
<1> QED
  BY <1>1, <1>2

-----------------------------------------------------------------------------

LEMMA NextIInv == IInv /\ [Next]_vars => IInv'
<1> SUFFICES ASSUME IInv, [Next]_vars PROVE IInv'
  OBVIOUS
<1>1. ASSUME NEW p \in Procs, LockRow(p) PROVE IInv'
  BY <1>1, ConsumeKeeps, RevokeRowKeeps, DeleteRowKeeps DEF LockRow, At
<1>2. ASSUME NEW p \in Procs,
             \/ \E t \in Tokens : RotateBegin(p, t) \/ Mint(p, t)
             \/ \E u \in Users : \/ DeleteBegin(p, u)
                                 \/ \E S \in SUBSET Tokens : RevokeBegin(p, u, S)
             \/ Step(p) \/ Deadlock(p)
      PROVE  IInv'
  BY <1>2, RotateBeginKeeps, MintKeeps, DeleteBeginKeeps, RevokeBeginKeeps,
     LeavingKeeps, LoadKeeps, DeleteCommitKeeps DEF Step
<1>3. CASE UNCHANGED vars
  <2>1. UNCHANGED <<users, parent, used, lock, req>>
    BY <1>3 DEF vars
  <2> QED
    BY <2>1, WhenLocksMove DEF IInv, RowsOK, Fits, Exists
<1> QED
  BY <1>1, <1>2, <1>3, InsertKeeps DEF Next

LEMMA Invariance == Spec => []IInv
BY InitIInv, NextIInv, PTL DEF Spec

-----------------------------------------------------------------------------
(* Theorems *)

(* Every row refers to something that exists: no order of insertions,      *)
(* rotations and deletions leaves an orphan, although a rotation adds its  *)
(* token long after it read whose it is.                                   *)
THEOREM NoOrphans == Spec => []TypeOK
<1>1. IInv => TypeOK
  BY DEF IInv, RowsOK, TypeOK
<1> QED
  BY <1>1, Invariance, PTL

LEMMA InsertMaps ==
  ASSUME IInv, NEW x \in Things, NEW y \in Users \cup Things, x \notin used,
         Exists(y), parent' = [parent EXCEPT ![x] = y], users' = users
  PROVE  Rows!Next
<1>1. parent[x] = None
  BY DEF IInv, RowsOK
<1>2. Rows!Insert(x, y)
  BY <1>1 DEF Rows!Insert, Exists
<1> QED
  BY <1>2 DEF Rows!Next

(* The foreign keys and the loaded rows together are exactly the account. *)
LEMMA DeleteMaps ==
  ASSUME IInv, NEW p \in Procs, DeleteCommit(p), ForeignKeysHold(p)
  PROVE  Rows!Next \/ UNCHANGED <<users, parent>>
<1> DEFINE u == req[p].user
           gone == Gone(p)
<1>1. /\ users' = users \ {u}
      /\ parent' = [x \in Things |-> IF x \in gone THEN None ELSE parent[x]]
      /\ u \in Users
      /\ \A x \in gone : parent[x] # None =>
           parent[x] = u \/ (parent[x] \in Things /\ parent[parent[x]] = u)
  BY GoneIs DEF DeleteCommit
<1>2. \A x \in Things : parent[x] \in {u} \cup req[p].seen => x \in gone
  BY DEF ForeignKeysHold, Children
<1>3. ASSUME NEW x \in Things, x \in Rows!OwnedBy(u) PROVE x \in gone
  <2>1. CASE parent[x] = u
    BY <1>2, <2>1
  <2>2. CASE parent[x] \in Things /\ parent[parent[x]] = u
    <3>1. parent[x] \in gone /\ parent[x] \in Apps
      BY <1>2, <2>2 DEF IInv, RowsOK, Fits
    <3>2. parent[x] \in req[p].seen
      BY <3>1, GoneIs DEF DeleteCommit
    <3> QED
      BY <1>2, <3>2
  <2> QED
    BY <1>3, <2>1, <2>2 DEF Rows!OwnedBy
<1>4. \A x \in gone : parent[x] # None => x \in Rows!OwnedBy(u)
  BY <1>1, GoneIs DEF Rows!OwnedBy, DeleteCommit
<1>5. parent' = [x \in Things |-> IF x \in Rows!OwnedBy(u) THEN None ELSE parent[x]]
  BY <1>1, <1>3, <1>4
<1>6. CASE u \in users
  <2>1. Rows!Delete(u)
    BY <1>1, <1>5, <1>6 DEF Rows!Delete
  <2> QED
    BY <1>1, <2>1 DEF Rows!Next
<1>7. CASE u \notin users
  <2>1. \A x \in Things : parent[x] # u
    BY <1>1, <1>7 DEF IInv, RowsOK, Exists
  <2>2. Rows!OwnedBy(u) = {}
    BY <2>1 DEF Rows!OwnedBy
  <2>3. parent = [x \in Things |-> parent[x]]
    BY DEF IInv, RowsOK
  <2> QED
    BY <1>1, <1>5, <1>7, <2>2, <2>3
<1> QED
  BY <1>6, <1>7

LEMMA StepMaps == IInv /\ [Next]_vars => [Rows!Next]_<<users, parent>>
<1> SUFFICES ASSUME IInv, [Next]_vars
             PROVE  Rows!Next \/ UNCHANGED <<users, parent>>
  OBVIOUS
<1>1. ASSUME NEW x \in Things, NEW y \in Users \cup Apps, Insert(x, y)
      PROVE  Rows!Next
  BY <1>1, InsertMaps DEF Insert
<1>2. ASSUME NEW p \in Procs, NEW t \in Tokens, Mint(p, t)
      PROVE  Rows!Next
  <2>1. req[p].owner \in users /\ req[p].owner \in Users
    BY <1>2, OwnerExists DEF Mint, IInv, RowsOK
  <2> QED
    BY <1>2, <2>1, InsertMaps DEF Mint, Exists
<1>3. ASSUME NEW p \in Procs, DeleteCommit(p)
      PROVE  Rows!Next \/ UNCHANGED <<users, parent>>
  BY <1>3, DeleteMaps DEF DeleteCommit, Refused
<1> QED
  BY <1>1, <1>2, <1>3 DEF Next, Step, RotateBegin, RevokeBegin, RevokeCommit,
     Answer401, DeleteBegin, LockRow, Load, Deadlock, vars

(* A deletion removes the account with all tokens, apps and entities, or   *)
(* nothing: the detailed handler implements OwnedRows.                     *)
THEOREM DeletionsAreAtomic == Spec => AllOrNothing
<1>1. Init => Rows!Init
  BY DEF Init, Rows!Init
<1> QED
  BY <1>1, StepMaps, Invariance, PTL DEF Spec, AllOrNothing, Rows!Spec

(* A deletion during which no row was added to the account is not refused: *)
(* what its statements locked and loaded is everything that refers to it.  *)
THEOREM UndisturbedDeletionsSucceed == Spec => UndisturbedSucceeds
<1>1. ASSUME IInv
      PROVE  \A p \in Procs : DeleteCommit(p) /\ ~ req[p].disturbed =>
               req[p].user \notin users'
  <2> SUFFICES ASSUME NEW p \in Procs, DeleteCommit(p), ~ req[p].disturbed
               PROVE  req[p].user \notin users'
    OBVIOUS
  <2> DEFINE u == req[p].user
             seen == req[p].seen
  <2>1. /\ u \in Users /\ seen \subseteq Apps \cup Entities
        /\ \A t \in Tokens : parent[t] = u => lock[t] = p
        /\ \A x \in Apps : parent[x] = u => x \in seen
        /\ \A x \in Entities : parent[x] \in seen => x \in seen
    BY <1>1 DEF DeleteCommit, At, IInv, RequestOK, DeletionOK, SeenOK, Deleting
  <2>2. \A x \in Things : parent[x] # None =>
          IF x \in Entities THEN parent[x] \in Apps ELSE parent[x] \in Users
    BY <1>1 DEF IInv, RowsOK, Fits
  <2>3. ForeignKeysHold(p)
    <3> SUFFICES ASSUME NEW x \in Things, parent[x] \in {u} \cup seen
                 PROVE  x \in Gone(p)
      BY DEF ForeignKeysHold, Children
    <3> QED
      BY <2>1, <2>2 DEF Gone
  <2> QED
    BY <2>3 DEF DeleteCommit
<1> QED
  BY <1>1, Invariance, PTL DEF Spec, UndisturbedSucceeds
=============================================================================
