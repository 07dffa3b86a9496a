-------------------------- MODULE EntityStoreProofs --------------------------
(***************************************************************************)
(* TLAPS proofs about EntityStore, for any apps, entities, names and data, *)
(* any number of worker threads and any bound on the operations of a       *)
(* request.                                                                *)
(***************************************************************************)
EXTENDS EntityStore, TLAPS

-----------------------------------------------------------------------------
(* The inductive invariant *)

(* The committed rows: the foreign key holds, and an id is never unused. *)
RowsOK ==
  /\ apps \subseteq Apps /\ used \subseteq Entities
  /\ store \in [Entities -> Row \cup {NoRow}]
  /\ \A e \in Entities :
       store[e] # NoRow => store[e].app \in apps /\ e \in used

Seen == [id : Entities \cup {None}, row : Row \cup {NoRow}]

Request ==
  [pc : {"next", "create", "refresh", "update", "delete"}, app : Apps,
   left : 0..MaxOps, single : BOOLEAN, changed : BOOLEAN, expired : BOOLEAN,
   op : Op \cup PatchOp \cup {None}, seen : Seen]

Active(t) == req[t].pc \notin {"idle", "failed"}

(* What a request is about to commit was looked up in its own app; and     *)
(* however old the loaded row is, the id still has its app and name, or is *)
(* gone for good.                                                          *)
RequestOK(t) ==
  Active(t) =>
    LET r == req[t]
    IN /\ r \in Request
       /\ r.pc = "refresh" => r.seen.id \in Entities
       /\ r.pc \in {"create", "update", "delete"} =>
            r.left > 0 /\ r.op \in Op \cup PatchOp /\ r.op.op = r.pc
       /\ r.pc \in {"update", "delete"} =>
            /\ r.seen.id = r.op.id /\ r.seen.row # NoRow
            /\ r.seen.row.app = r.app /\ r.seen.row.name = r.op.name
       /\ r.seen.row # NoRow =>
            /\ r.seen.id \in used
            /\ store[r.seen.id] # NoRow =>
                 /\ store[r.seen.id].app = r.seen.row.app
                 /\ store[r.seen.id].name = r.seen.row.name

IInv ==
  /\ RowsOK
  /\ req = [t \in Threads |-> req[t]]
  /\ \A t \in Threads : RequestOK(t)

(* No step brings a deleted row back, or moves or renames one. *)
RowsPersist ==
  \A e \in Entities :
    /\ store[e] = NoRow /\ store'[e] # NoRow => e \notin used
    /\ store[e] # NoRow /\ store'[e] # NoRow =>
         store'[e].app = store[e].app /\ store'[e].name = store[e].name

-----------------------------------------------------------------------------
(* Lemmas *)

USE MaxOpsIsNat, NoneIsNoKey

LEMMA InitIInv == Init => IInv
BY DEF Init, IInv, RowsOK, RequestOK, Active, Idle

(* The operations a client can send. *)
LEMMA Ops ==
  \A op \in Op \cup PatchOp :
    /\ op.op \in {"create", "update", "delete"}
    /\ op.op # "create" => op.id \in Entities
    /\ op.op # "delete" => op.data \in Data \cup {Null}
    /\ op.name \in Names
BY DEF Op, PatchOp

LEMMA RowParts ==
  /\ \A row \in Row : /\ row.app \in Apps /\ row.name \in Names
                      /\ row.data \in Data \cup {Null}
  /\ NoRow \notin Row /\ NoRow.app \notin Apps
BY DEF Row, NoRow

(* A step of others, or of another thread, leaves a request in order. *)
LEMMA Undisturbed ==
  ASSUME IInv, RowsPersist, used \subseteq used', NEW t \in Threads,
         req'[t] = req[t]
  PROVE  RequestOK(t)'
<1> SUFFICES ASSUME Active(t) PROVE RequestOK(t)'
  BY DEF RequestOK, Active
<1> DEFINE r == req[t]
<1>1. RequestOK(t) /\ r \in Request
  BY DEF IInv, RequestOK
<1>2. r.seen.id \in Entities \cup {None}
  BY <1>1 DEF Request, Seen
<1>3. ASSUME r.seen.row # NoRow
      PROVE  /\ r.seen.id \in used' /\ r.seen.id \in Entities
             /\ store'[r.seen.id] # NoRow =>
                  /\ store'[r.seen.id].app = r.seen.row.app
                  /\ store'[r.seen.id].name = r.seen.row.name
  BY <1>1, <1>2, <1>3 DEF RequestOK, IInv, RowsOK, RowsPersist
<1> QED
  BY <1>1, <1>3 DEF RequestOK

(* A step of thread t only has to show its rows and its own request. *)
LEMMA ThreadStep ==
  ASSUME IInv, RowsPersist, used \subseteq used', RowsOK',
         NEW t \in Threads, NEW STATE r, Serve(t, r), RequestOK(t)'
  PROVE  IInv'
<1>1. req' = [q \in Threads |-> req'[q]]
  BY DEF IInv, Serve
<1>2. ASSUME NEW q \in Threads, q # t PROVE RequestOK(q)'
  <2>1. req'[q] = req[q]
    BY <1>2 DEF IInv, Serve
  <2> QED
    BY <2>1, Undisturbed
<1> QED
  BY <1>1, <1>2 DEF IInv

LEMMA SameRows ==
  ASSUME IInv, UNCHANGED <<apps, store, used>>
  PROVE  RowsPersist /\ used \subseteq used' /\ RowsOK'
BY DEF RowsPersist, IInv, RowsOK

(* The thread's new request. *)
LEMMA Served ==
  ASSUME IInv, NEW t \in Threads, NEW STATE r, Serve(t, r)
  PROVE  req'[t] = r
BY DEF IInv, Serve

LEMMA Failed ==
  ASSUME IInv, NEW t \in Threads, Fail(t)
  PROVE  RequestOK(t)' /\ req'[t].pc = "failed"
BY DEF IInv, Fail, Serve, RequestOK, Active

LEMMA FailKeeps ==
  ASSUME IInv, NEW t \in Threads, Fail(t), UNCHANGED <<apps, store, used>>
  PROVE  IInv'
BY SameRows, Failed, ThreadStep DEF Fail

-----------------------------------------------------------------------------
(* The actions *)

LEMMA BeginKeeps ==
  ASSUME IInv, NEW t \in Threads, NEW a \in Apps, NEW ops \in 1..MaxOps,
         Begin(t, a, ops)
  PROVE  IInv'
<1> DEFINE r == [pc |-> "next", app |-> a, left |-> ops, single |-> ops = 1,
                 changed |-> FALSE, expired |-> FALSE, op |-> None,
                 seen |-> NothingLoaded]
<1>1. Serve(t, r) /\ UNCHANGED <<apps, store, used>>
  BY DEF Begin
<1>2. r \in Request
  BY DEF Request, Seen, NothingLoaded
<1>3. RequestOK(t)'
  BY <1>1, <1>2, Served DEF RequestOK, NothingLoaded
<1> QED
  BY <1>1, <1>3, SameRows, ThreadStep

(* An operation that was found to be in order is run. *)
LEMMA RunKeeps ==
  ASSUME IInv, NEW t \in Threads, At(t, "next"), req[t].left > 0,
         NEW op \in Op \cup PatchOp, NEW STATE seen, seen \in Seen,
         Run(t, op, seen), UNCHANGED <<apps, store, used>>,
         op.op # "create" => /\ seen.id = op.id /\ seen.row # NoRow
                             /\ Matches(t, op, seen.row),
         seen.row # NoRow =>
           /\ seen.id \in used
           /\ store[seen.id] # NoRow =>
                /\ store[seen.id].app = seen.row.app
                /\ store[seen.id].name = seen.row.name
  PROVE  IInv'
<1> DEFINE r == [req[t] EXCEPT !.pc = op.op, !.op = op, !.seen = seen,
                               !.expired = FALSE]
<1>1. req[t] \in Request /\ Serve(t, r)
  BY DEF IInv, RequestOK, Active, At, Run
<1>2. op.op \in {"create", "update", "delete"}
  BY Ops
<1>3. /\ r \in Request
      /\ r.pc = op.op /\ r.op = op /\ r.seen = seen
      /\ r.app = req[t].app /\ r.left = req[t].left
  BY <1>1, <1>2 DEF Request
<1>4. RequestOK(t)'
  <2>1. req'[t] = r
    BY <1>1, Served
  <2> QED
    BY <1>2, <1>3, <2>1 DEF RequestOK, Matches
<1> QED
  BY <1>1, <1>4, SameRows, ThreadStep

LEMMA CreateBeginKeeps ==
  ASSUME IInv, NEW t \in Threads, NEW op \in Op, CreateBegin(t, op)
  PROVE  IInv'
<1>1. CASE Run(t, op, req[t].seen)
  <2>1. RequestOK(t) /\ Active(t) /\ req[t].seen \in Seen
    BY DEF IInv, RequestOK, Active, At, CreateBegin, Request
  <2> QED
    BY <1>1, <2>1, RunKeeps DEF CreateBegin, RequestOK
<1>2. CASE Fail(t)
  BY <1>2, FailKeeps DEF CreateBegin
<1> QED
  BY <1>1, <1>2 DEF CreateBegin

(* The request after a commit. *)
LEMMA Committed ==
  ASSUME IInv, NEW t \in Threads, At(t, "create") \/ At(t, "update")
                                                  \/ At(t, "delete"),
         NEW label \in {"next", "refresh"},
         NEW id \in Entities \cup {None}, label = "refresh" => id # None,
         Commit(t, label, id)
  PROVE  RequestOK(t)' /\ req'[t].pc = label
<1> DEFINE r == [req[t] EXCEPT !.pc = label, !.op = None, !.left = @ - 1,
                               !.changed = TRUE, !.expired = TRUE,
                               !.seen = [id |-> id, row |-> NoRow]]
<1>1. RequestOK(t) /\ req[t] \in Request /\ req[t].left > 0
  BY DEF IInv, RequestOK, Active, At
<1>2. req[t].left - 1 \in 0..MaxOps
  BY <1>1 DEF Request
<1>3. r \in Request /\ r.pc = label /\ r.seen = [id |-> id, row |-> NoRow]
  BY <1>1, <1>2 DEF Request, Seen
<1>4. req'[t] = r
  BY Served DEF Commit
<1> QED
  BY <1>3, <1>4 DEF RequestOK

LEMMA InsertKeeps ==
  ASSUME IInv, NEW t \in Threads, NEW e \in Entities, Insert(t, e)
  PROVE  IInv' /\ RowsPersist
<1>1. CASE req[t].app \in apps
  <2>1. /\ store' = [store EXCEPT ![e] =
                       [app |-> req[t].app, name |-> req[t].op.name,
                        data |-> req[t].op.data]]
        /\ used' = used \cup {e} /\ apps' = apps /\ e \notin used
        /\ Commit(t, "refresh", e)
    BY <1>1 DEF Insert
  <2>2. /\ req[t].op \in Op \cup PatchOp /\ req[t].op.op # "delete"
        /\ req[t].app \in Apps
    BY DEF IInv, RequestOK, Active, At, Insert, Request
  <2>3. [app |-> req[t].app, name |-> req[t].op.name,
         data |-> req[t].op.data] \in Row
    BY <2>2, Ops DEF Row
  <2>4. RowsOK' /\ RowsPersist
    BY <1>1, <2>1, <2>3 DEF IInv, RowsOK, RowsPersist
  <2>5. RequestOK(t)'
    BY <2>1, Committed DEF Insert
  <2> QED
    BY <2>1, <2>4, <2>5, ThreadStep DEF Commit
<1>2. CASE req[t].app \notin apps
  BY <1>2, FailKeeps, SameRows DEF Insert
<1> QED
  BY <1>1, <1>2

(* The loop goes on with a row that is in the table now. *)
LEMMA RefreshKeeps ==
  ASSUME IInv, NEW t \in Threads, Refresh(t)
  PROVE  IInv'
<1> DEFINE e == req[t].seen.id
<1>1. RequestOK(t) /\ req[t] \in Request /\ e \in Entities
  BY DEF IInv, RequestOK, Active, At, Refresh
<1>2. CASE store[e] # NoRow
  <2> DEFINE r == [req[t] EXCEPT !.pc = "next", !.seen = Loaded(e)]
  <2>1. Serve(t, r) /\ UNCHANGED <<apps, store, used>>
    BY <1>2 DEF Refresh, Continue
  <2>2. Loaded(e) \in Seen
    BY <1>1 DEF Loaded, Seen, IInv, RowsOK
  <2>3. r \in Request /\ r.pc = "next" /\ r.seen = Loaded(e)
    BY <1>1, <2>2 DEF Request
  <2>4. RequestOK(t)'
    <3>1. req'[t] = r
      BY <2>1, Served
    <3>2. e \in used
      BY <1>1, <1>2 DEF IInv, RowsOK
    <3>3. r.seen.id = e /\ r.seen.row = store[e]
      BY <2>3 DEF Loaded
    <3> HIDE DEF r
    <3> QED
      BY <1>1, <2>1, <2>3, <3>1, <3>2, <3>3 DEF RequestOK
  <2> QED
    BY <2>1, <2>4, SameRows, ThreadStep
<1>3. CASE store[e] = NoRow
  BY <1>3, FailKeeps DEF Refresh
<1> QED
  BY <1>2, <1>3

(* What get_entity() hands out is a row as it was loaded or is now. *)
LEMMA GetKeeps ==
  ASSUME IInv, NEW t \in Threads, NEW op \in Op \cup PatchOp, Get(t, op)
  PROVE  IInv'
<1> DEFINE e == op.id
           row == IF req[t].seen.id = e THEN req[t].seen.row ELSE store[e]
           seen == IF row = NoRow THEN NothingLoaded
                   ELSE [id |-> e, row |-> row]
<1>1. /\ RequestOK(t) /\ Active(t) /\ req[t] \in Request
      /\ e \in Entities /\ UNCHANGED <<apps, store, used>>
      /\ At(t, "next") /\ req[t].left > 0
  BY Ops DEF IInv, RequestOK, Active, At, Get
<1>2. row \in Row \cup {NoRow} /\ seen \in Seen
  BY <1>1 DEF Request, Seen, NothingLoaded, IInv, RowsOK
<1>3. seen.row # NoRow =>
        /\ seen.id \in used
        /\ store[seen.id] # NoRow =>
             /\ store[seen.id].app = seen.row.app
             /\ store[seen.id].name = seen.row.name
  BY <1>1, <1>2 DEF NothingLoaded, RequestOK, IInv, RowsOK
<1>4. CASE Fail(t)
  BY <1>1, <1>4, FailKeeps
<1>5. CASE Matches(t, op, row) /\ Run(t, op, seen)
  <2>1. row # NoRow
    BY <1>1, <1>5, RowParts DEF Matches, Request
  <2> QED
    BY <1>1, <1>2, <1>3, <1>5, <2>1, RunKeeps
<1>6. CASE Serve(t, [req[t] EXCEPT !.seen = seen, !.left = @ - 1,
                                   !.expired = @ /\ row = NoRow])
  <2> DEFINE r == [req[t] EXCEPT !.seen = seen, !.left = @ - 1,
                                 !.expired = @ /\ row = NoRow]
  <2>1. req[t].left - 1 \in 0..MaxOps
    BY <1>1 DEF Request
  <2>2. r \in Request /\ r.pc = "next" /\ r.seen = seen
    BY <1>1, <1>2, <2>1 DEF Request, At
  <2>3. RequestOK(t)'
    <3>1. req'[t] = r
      BY <1>6, Served
    <3> HIDE DEF r, seen
    <3> QED
      BY <1>1, <1>3, <2>2, <3>1 DEF RequestOK
  <2> QED
    BY <1>1, <1>6, <2>3, SameRows, ThreadStep
<1> QED
  BY <1>4, <1>5, <1>6 DEF Get

(* An update changes the data of a row that is still in the table. *)
LEMMA UpdateKeeps ==
  ASSUME IInv, NEW t \in Threads, Update(t)
  PROVE  IInv' /\ RowsPersist
<1> DEFINE op == req[t].op
<1>1. /\ RequestOK(t) /\ At(t, "update") /\ op \in Op \cup PatchOp
      /\ op.op = "update" /\ op.id \in Entities /\ UNCHANGED <<apps, used>>
  BY Ops DEF IInv, RequestOK, Active, At, Update
<1>2. CASE store[op.id] # NoRow
  <2>1. op.data \in Data \cup {Null} /\ store[op.id] \in Row
    BY <1>1, <1>2, Ops DEF IInv, RowsOK
  <2>2. [store[op.id] EXCEPT !.data = op.data] \in Row
    BY <2>1 DEF Row
  <2>3. /\ [store[op.id] EXCEPT !.data = op.data].app = store[op.id].app
        /\ [store[op.id] EXCEPT !.data = op.data].name = store[op.id].name
    BY <2>1 DEF Row
  <2>4. \/ store' = store
        \/ store' = [store EXCEPT ![op.id] =
                       [store[op.id] EXCEPT !.data = op.data]]
    BY <1>2 DEF Update
  <2>5. RowsOK' /\ RowsPersist
    BY <1>1, <1>2, <2>2, <2>3, <2>4 DEF IInv, RowsOK, RowsPersist
  <2>6. RequestOK(t)' /\ Commit(t, "refresh", op.id)
    BY <1>1, <1>2, Committed DEF Update
  <2> QED
    BY <1>1, <2>5, <2>6, ThreadStep DEF Commit
<1>3. CASE store[op.id] = NoRow
  BY <1>1, <1>3, FailKeeps, SameRows DEF Update
<1> QED
  BY <1>2, <1>3

LEMMA DeleteKeeps ==
  ASSUME IInv, NEW t \in Threads, Delete(t)
  PROVE  IInv' /\ RowsPersist
<1>1. RowsOK' /\ RowsPersist
  BY DEF IInv, RowsOK, RowsPersist, Delete
<1>2. RequestOK(t)' /\ Commit(t, "next", None)
  BY Committed DEF Delete
<1> QED
  BY <1>1, <1>2, ThreadStep DEF Commit, Delete

LEMMA FinishKeeps ==
  ASSUME IInv, NEW t \in Threads, Finish(t)
  PROVE  IInv'
<1>1. req'[t] = Idle /\ Serve(t, Idle)
  BY Served DEF Finish
<1>2. RequestOK(t)'
  BY <1>1 DEF RequestOK, Active, Idle
<1> QED
  BY <1>1, <1>2, SameRows, ThreadStep DEF Finish

(* Rows are deleted by others, a whole app's at once perhaps. *)
LEMMA OthersKeep ==
  ASSUME IInv, \/ \E e \in Entities : AdminDelete(e)
               \/ \E a \in Apps : DropApp(a)
  PROVE  IInv' /\ RowsPersist
<1>1. RowsOK' /\ RowsPersist /\ used' = used /\ req' = req
  <2>1. ASSUME NEW e \in Entities, AdminDelete(e)
        PROVE  RowsOK' /\ RowsPersist /\ used' = used /\ req' = req
    BY <2>1 DEF AdminDelete, IInv, RowsOK, RowsPersist
  <2>2. ASSUME NEW a \in Apps, DropApp(a)
        PROVE  RowsOK' /\ RowsPersist /\ used' = used /\ req' = req
    BY <2>2, RowParts DEF DropApp, IInv, RowsOK, RowsPersist
  <2> QED
    BY <2>1, <2>2
<1>2. \A t \in Threads : RequestOK(t)'
  BY <1>1, Undisturbed
<1> QED
  BY <1>1, <1>2 DEF IInv

LEMMA NextIInv == IInv /\ [Next]_vars => IInv' /\ RowsPersist
<1> SUFFICES ASSUME IInv, [Next]_vars PROVE IInv' /\ RowsPersist
  OBVIOUS
<1>1. ASSUME UNCHANGED <<apps, store, used>> PROVE RowsPersist
  BY <1>1 DEF RowsPersist
<1>2. ASSUME NEW t \in Threads, NEW op \in Op \cup PatchOp, Get(t, op)
      PROVE  IInv' /\ RowsPersist
  BY <1>1, <1>2, GetKeeps DEF Get
<1>3. ASSUME NEW t \in Threads,
             \/ \E a \in Apps, ops \in 1..MaxOps : Begin(t, a, ops)
             \/ \E op \in Op : CreateBegin(t, op)
             \/ Refresh(t) \/ Finish(t)
      PROVE  IInv' /\ RowsPersist
  BY <1>1, <1>3, BeginKeeps, CreateBeginKeeps, RefreshKeeps, FinishKeeps
     DEF Begin, CreateBegin, Refresh, Finish
<1>4. CASE UNCHANGED vars
  <2>1. UNCHANGED <<apps, store, used>> /\ req' = req
    BY <1>4 DEF vars
  <2> QED
    BY <1>1, <2>1, Undisturbed, SameRows DEF IInv
<1> QED
  BY <1>2, <1>3, <1>4, InsertKeeps, UpdateKeeps, DeleteKeeps, OthersKeep
     DEF Next

LEMMA Invariance == Spec => []IInv
BY InitIInv, NextIInv, PTL DEF Spec

-----------------------------------------------------------------------------
(* Theorems *)

(* Rows are well typed and belong to an app that exists; a request never   *)
(* runs more operations than it brought.                                   *)
THEOREM TypeCorrect == Spec => []TypeOK
<1>1. ASSUME IInv PROVE TypeOK
  <2>1. ASSUME NEW t \in Threads, Active(t)
        PROVE  /\ req[t].left \in 0..MaxOps
               /\ req[t].seen.row \in Row \cup {NoRow}
    BY <1>1, <2>1 DEF IInv, RequestOK, Request, Seen
  <2> QED
    BY <1>1, <2>1 DEF IInv, RowsOK, TypeOK, Active, At
<1> QED
  BY <1>1, Invariance, PTL

(* A request writes only to entities of the app in its path, however its   *)
(* look-ups interleave with the changes and deletions of others.           *)
THEOREM RequestsStayInTheirApp == Spec => AppIsolation
<1>1. ASSUME IInv
      PROVE  \A t \in Threads, e \in Entities :
               (Update(t) \/ Delete(t)) /\ store'[e] # store[e] =>
                 store[e].app = req[t].app
  <2> SUFFICES ASSUME NEW t \in Threads, NEW e \in Entities,
                      Update(t) \/ Delete(t), store'[e] # store[e]
               PROVE  store[e].app = req[t].app
    OBVIOUS
  <2>1. /\ RequestOK(t) /\ Active(t) /\ req[t].pc \in {"update", "delete"}
        /\ req[t].op \in Op \cup PatchOp /\ req[t].op.op = req[t].pc
    BY <1>1 DEF IInv, RequestOK, Active, At, Update, Delete
  <2>2. req[t].op.id \in Entities
    BY <2>1, Ops
  <2>3. e = req[t].op.id /\ store[e] # NoRow
    BY <1>1, <2>2 DEF Update, Delete, IInv, RowsOK
  <2> QED
    BY <2>1, <2>3 DEF RequestOK
<1> QED
  BY <1>1, Invariance, PTL DEF Spec, AppIsolation

(* No request, administrator or account deletion brings a deleted entity   *)
(* back, moves one to another app or renames it.                           *)
THEOREM DeletedEntitiesStayDeleted == Spec => DeletedStaysDeleted
<1>1. RowsPersist => \A e \in Entities :
        /\ store[e] = NoRow /\ store'[e] # NoRow => e \notin used
        /\ store[e] # NoRow /\ store'[e] # NoRow =>
             store'[e].app = store[e].app /\ store'[e].name = store[e].name
  BY DEF RowsPersist
<1> QED
  BY <1>1, NextIInv, Invariance, PTL DEF Spec, DeletedStaysDeleted

(* The steps that can fail a request, and what each of them met. *)
Cause(t) ==
  \/ req[t].app \notin apps
  \/ req[t].seen.id \in Entities /\ store[req[t].seen.id] = NoRow

LEMMA RunDoesNotFail ==
  ASSUME IInv, NEW t \in Threads, Active(t), NEW op \in Op \cup PatchOp,
         NEW STATE seen, Run(t, op, seen)
  PROVE  req'[t].pc # "failed"
<1>1. req[t] \in Request
  BY DEF IInv, RequestOK
<1>2. req'[t].pc = op.op
  BY <1>1, Served DEF Run, Request
<1> QED
  BY <1>2, Ops

LEMMA LookUpFails ==
  ASSUME IInv, NEW t \in Threads, NEW op \in Op \cup PatchOp,
         CreateBegin(t, op) \/ Get(t, op), req'[t].pc = "failed"
  PROVE  req[t].app \notin apps
<1>1. Active(t) /\ At(t, "next") /\ req[t] \in Request
  BY DEF IInv, RequestOK, Active, At, CreateBegin, Get
<1>2. CASE CreateBegin(t, op)
  BY <1>1, <1>2, RunDoesNotFail DEF CreateBegin, AppReadable
<1>3. ASSUME Get(t, op), NEW STATE seen, NEW STATE left, NEW STATE expired,
             Serve(t, [req[t] EXCEPT !.seen = seen, !.left = left,
                                     !.expired = expired])
      PROVE  FALSE
  BY <1>1, <1>3, Served DEF At, Request
<1> QED
  BY <1>1, <1>2, <1>3, RunDoesNotFail DEF Get, AppReadable

LEMMA LaterStepFails ==
  ASSUME IInv, NEW t \in Threads,
         (\E e \in Entities : Insert(t, e)) \/ Refresh(t) \/ Update(t)
           \/ Delete(t) \/ Finish(t),
         req'[t].pc = "failed"
  PROVE  Cause(t)
<1>1. CASE \E e \in Entities : Insert(t, e)
  BY <1>1, Committed DEF Insert, Cause
<1>2. CASE Refresh(t)
  <2>1. req[t] \in Request /\ req[t].seen.id \in Entities
    BY <1>2 DEF IInv, RequestOK, Active, At, Refresh
  <2>2. ASSUME NEW STATE seen, Continue(t, seen) PROVE req'[t].pc = "next"
    BY <2>1, <2>2, Served DEF Continue, Request
  <2> QED
    BY <1>2, <2>1, <2>2 DEF Refresh, Cause
<1>3. CASE Update(t)
  <2>1. /\ req[t].seen.id = req[t].op.id /\ req[t].op \in Op \cup PatchOp
        /\ req[t].op.op = "update"
    BY <1>3 DEF IInv, RequestOK, Active, At, Update
  <2>2. req[t].op.id \in Entities
    BY <2>1, Ops
  <2> QED
    BY <1>3, <2>1, <2>2, Committed DEF Update, Cause
<1>4. CASE Delete(t)
  BY <1>4, Committed DEF Delete
<1>5. CASE Finish(t)
  BY <1>5, Served DEF Finish, Idle
<1> QED
  BY <1>1, <1>2, <1>3, <1>4, <1>5

Step(t) ==
  \/ \E a \in Apps, ops \in 1..MaxOps : Begin(t, a, ops)
  \/ \E op \in Op \cup PatchOp : CreateBegin(t, op) \/ Get(t, op)
  \/ \E e \in Entities : Insert(t, e)
  \/ Refresh(t) \/ Update(t) \/ Delete(t) \/ Finish(t)

(* A step of one thread is no step of another. *)
LEMMA StepIsLocal ==
  ASSUME IInv, [Next]_vars, NEW t \in Threads, req'[t] # req[t]
  PROVE  Step(t)
<1>1. ASSUME NEW q \in Threads, NEW STATE r, Serve(q, r) PROVE q = t
  BY <1>1 DEF IInv, Serve
<1>2. ASSUME NEW q \in Threads,
             \/ \E a \in Apps, ops \in 1..MaxOps : Begin(q, a, ops)
             \/ Refresh(q) \/ Update(q) \/ Delete(q) \/ Finish(q)
      PROVE  q = t
  BY <1>1, <1>2 DEF Begin, Refresh, Update, Delete, Finish, Fail, Commit,
                    Continue
<1>3. ASSUME NEW q \in Threads, NEW op \in Op \cup PatchOp,
             CreateBegin(q, op) \/ Get(q, op)
      PROVE  q = t
  BY <1>1, <1>3 DEF CreateBegin, Get, Run, Fail
<1>4. ASSUME NEW q \in Threads, NEW e \in Entities, Insert(q, e)
      PROVE  q = t
  BY <1>1, <1>4 DEF Insert, Fail, Commit
<1>5. ~ UNCHANGED vars /\ ~ (\E e \in Entities : AdminDelete(e))
      /\ ~ (\E a \in Apps : DropApp(a))
  BY DEF vars, AdminDelete, DropApp
<1>6. PICK q \in Threads : Step(q)
  BY <1>5 DEF Next, Step
<1> QED
  BY <1>2, <1>3, <1>4, <1>6 DEF Step

(* A request that has committed something fails only because its app, or   *)
(* the entity it works on, was deleted since.                              *)
THEOREM OnlyDeletionsTear == Spec => TornOnlyByDeletion
<1>1. ASSUME IInv, [Next]_vars
      PROVE  \A t \in Threads :
               /\ ~ (At(t, "idle") \/ At(t, "failed"))
               /\ At(t, "failed")' /\ req[t].changed
               => \/ req[t].app \notin apps
                  \/ req[t].seen.id \in Entities /\ store[req[t].seen.id] = NoRow
  <2> SUFFICES ASSUME NEW t \in Threads, Active(t), req'[t].pc = "failed"
               PROVE  Cause(t)
    BY DEF Active, At, Cause
  <2>1. req'[t] # req[t]
    BY DEF Active
  <2> QED
    BY <1>1, <2>1, StepIsLocal, LookUpFails, LaterStepFails
       DEF Step, Begin, Active, Cause
<1> QED
  BY <1>1, Invariance, PTL DEF Spec, TornOnlyByDeletion
=============================================================================
