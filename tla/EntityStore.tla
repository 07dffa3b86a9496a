---------------------------- MODULE EntityStore ----------------------------
(***************************************************************************)
(* Entities and bulk requests (camp44/api/v1/endpoints/entities.py,        *)
(* bulk.py, crud/entity.py).  A bulk request runs its operations one after *)
(* the other on one ORM session and commits after each; a request to       *)
(* entities.py is one operation.  Other requests, an administrator and the *)
(* deletion of an account change the tables in between.                    *)
(*                                                                         *)
(* An action is a SELECT, or an INSERT/UPDATE/DELETE with its commit.      *)
(***************************************************************************)
EXTENDS Naturals

CONSTANTS
  Apps,
  Entities,  \* uuids
  Names,     \* entity names
  Data,      \* JSON objects
  Null,      \* JSON null
  Threads,   \* worker threads
  MaxOps,    \* bound on the operations of a request (100 in models/bulk.py)
  None

ASSUME MaxOpsIsNat == MaxOps \in Nat \ {0}
ASSUME NoneIsNoKey == None \notin Apps \cup Entities

VARIABLES
  apps,   \* the app table
  store,  \* store[e]: the committed row of entity e, or NoRow
  used,   \* history: ids that were given out
  req     \* req[t]: the request thread t serves

vars == <<apps, store, used, req>>

NoRow == [app |-> None, name |-> None, data |-> None]
Row == [app : Apps, name : Names, data : Data \cup {Null}]

(* Only EntityUpdate, the body of a PATCH, takes null for the data. *)
Op == [op : {"create"}, name : Names, data : Data]
        \cup [op : {"update"}, id : Entities, name : Names, data : Data]
        \cup [op : {"delete"}, id : Entities, name : Names]
PatchOp == [op : {"update"}, id : Entities, name : Names, data : {Null}]

(* The identity map keeps the entity that was loaded last, until a commit. *)
NothingLoaded == [id |-> None, row |-> NoRow]
Loaded(e) == [id |-> e, row |-> store[e]]

Idle == [pc |-> "idle"]

Init ==
  /\ apps = Apps
  /\ store = [e \in Entities |-> NoRow]
  /\ used = {}
  /\ req = [t \in Threads |-> Idle]

At(t, label) == req[t].pc = label
Serve(t, r) == req' = [req EXCEPT ![t] = r]

(* An exception ends the request with 500; what was committed stays. *)
Fail(t) == Serve(t, [pc |-> "failed", single |-> req[t].single,
                     changed |-> req[t].changed])

(* get_app_by_id_from_path(): a bulk request has up to MaxOps operations,  *)
(* the others have one.                                                    *)
Begin(t, a, ops) ==
  /\ req[t].pc \in {"idle", "failed"}
  /\ a \in apps
  /\ Serve(t, [pc |-> "next", app |-> a, left |-> ops, single |-> ops = 1,
               changed |-> FALSE, expired |-> FALSE, op |-> None,
               seen |-> NothingLoaded])
  /\ UNCHANGED <<apps, store, used>>

(* Mutant: the expired app object is not loaded again. *)
AppUnexpired(t) == ~ req[t].expired

(* A commit expired the session's app object: reading app.id selects it    *)
(* again, and raises if the row is gone.                                   *)
AppReadable(t) == ~ req[t].expired \/ req[t].app \in apps

(* The steps of a request: an operation was looked up; it committed and    *)
(* its entity is to be refreshed; the loop goes on.                        *)
Run(t, op, seen) ==
  Serve(t, [req[t] EXCEPT !.pc = op.op, !.op = op, !.seen = seen,
                          !.expired = FALSE])
Commit(t, label, id) ==
  Serve(t, [req[t] EXCEPT !.pc = label, !.op = None, !.left = @ - 1,
                          !.changed = TRUE, !.expired = TRUE,
                          !.seen = [id |-> id, row |-> NoRow]])
Continue(t, seen) == Serve(t, [req[t] EXCEPT !.pc = "next", !.seen = seen])

-----------------------------------------------------------------------------
(* create *)

CreateBegin(t, op) ==
  /\ At(t, "next") /\ req[t].left > 0 /\ op.op = "create"
  /\ IF AppReadable(t) THEN Run(t, op, req[t].seen) ELSE Fail(t)
  /\ UNCHANGED <<apps, store, used>>

(* The foreign key refuses an app that was deleted. *)
Insert(t, e) ==
  /\ At(t, "create")
  /\ e \notin used
  /\ IF req[t].app \in apps
     THEN /\ store' = [store EXCEPT ![e] =
               [app |-> req[t].app, name |-> req[t].op.name,
                data |-> req[t].op.data]]
          /\ used' = used \cup {e}
          /\ Commit(t, "refresh", e)
     ELSE Fail(t) /\ UNCHANGED <<store, used>>
  /\ UNCHANGED apps

(* session.refresh() raises when the row is already gone again. *)
Refresh(t) ==
  /\ At(t, "refresh")
  /\ LET e == req[t].seen.id
     IN IF store[e] # NoRow THEN Continue(t, Loaded(e)) ELSE Fail(t)
  /\ UNCHANGED <<apps, store, used>>

-----------------------------------------------------------------------------
(* update and delete *)

(* Mutant: the owner of the entity is not compared. *)
MatchesName(t, op, row) == row.name = op.name

(* The entity exists, in this app and under this name. *)
Matches(t, op, row) == row.app = req[t].app /\ row.name = op.name

(* get_entity(): from the identity map, else from the table.  A row that   *)
(* does not match is "not_found" (an error in entities.py).                *)
Get(t, op) ==
  /\ At(t, "next") /\ req[t].left > 0 /\ op.op \in {"update", "delete"}
  /\ LET e == op.id
         row == IF req[t].seen.id = e THEN req[t].seen.row ELSE store[e]
         seen == IF row = NoRow THEN NothingLoaded ELSE [id |-> e, row |-> row]
     IN IF row # NoRow /\ ~ AppReadable(t) THEN Fail(t)
        ELSE IF Matches(t, op, row) THEN Run(t, op, seen)
        ELSE Serve(t, [req[t] EXCEPT !.seen = seen, !.left = @ - 1,
                                     !.expired = @ /\ row = NoRow])
  /\ UNCHANGED <<apps, store, used>>

(* Mutant: the row is inserted again if it is gone. *)
Upsert(t) ==
  /\ At(t, "update")
  /\ LET op == req[t].op
     IN /\ store' = [store EXCEPT ![op.id] = [app |-> req[t].app,
                       name |-> op.name, data |-> op.data]]
        /\ Commit(t, "refresh", op.id)
  /\ UNCHANGED <<apps, used>>

(* update_entity(): an UPDATE that matches no row raises StaleDataError;   *)
(* data equal to the loaded data is not written.                           *)
Update(t) ==
  /\ At(t, "update")
  /\ LET op == req[t].op
     IN IF store[op.id] # NoRow
        THEN /\ store' = IF op.data = req[t].seen.row.data THEN store
                         ELSE [store EXCEPT ![op.id].data = op.data]
             /\ Commit(t, "refresh", op.id)
        ELSE Fail(t) /\ UNCHANGED store
  /\ UNCHANGED <<apps, used>>

(* delete_entity(): a DELETE that matches no row is only logged. *)
Delete(t) ==
  /\ At(t, "delete")
  /\ store' = [store EXCEPT ![req[t].op.id] = NoRow]
  /\ Commit(t, "next", None)
  /\ UNCHANGED <<apps, used>>

(* The loop is over: 200. *)
Finish(t) ==
  /\ At(t, "next")
  /\ Serve(t, Idle)
  /\ UNCHANGED <<apps, store, used>>

-----------------------------------------------------------------------------
(* Others *)

(* DELETE /admin/entities/{id} *)
AdminDelete(e) ==
  /\ store[e] # NoRow
  /\ store' = [store EXCEPT ![e] = NoRow]
  /\ UNCHANGED <<apps, used, req>>

(* Mutant: the app goes, its entities stay. *)
DropAppOnly(a) ==
  /\ a \in apps
  /\ apps' = apps \ {a}
  /\ UNCHANGED <<store, used, req>>

(* The owner's account is deleted, with the app and its entities. *)
DropApp(a) ==
  /\ a \in apps
  /\ apps' = apps \ {a}
  /\ store' = [e \in Entities |-> IF store[e].app = a THEN NoRow ELSE store[e]]
  /\ UNCHANGED <<used, req>>

Next ==
  \/ \E t \in Threads :
       \/ \E a \in Apps, ops \in 1..MaxOps : Begin(t, a, ops)
       \/ \E op \in Op : CreateBegin(t, op) \/ Get(t, op)
       \/ \E op \in PatchOp : At(t, "next") /\ req[t].single /\ Get(t, op)
       \/ \E e \in Entities : Insert(t, e)
       \/ Refresh(t) \/ Update(t) \/ Delete(t) \/ Finish(t)
  \/ \E e \in Entities : AdminDelete(e)
  \/ \E a \in Apps : DropApp(a)

Spec == Init /\ [][Next]_vars

-----------------------------------------------------------------------------
(* Properties *)

(* Type invariant, and the foreign key entity.app_id. *)
TypeOK ==
  /\ apps \subseteq Apps /\ used \subseteq Entities
  /\ \A e \in Entities :
       \/ store[e] = NoRow
       \/ store[e] \in Row /\ store[e].app \in apps /\ e \in used
  /\ \A t \in Threads :
       ~ (At(t, "idle") \/ At(t, "failed")) =>
         req[t].left \in 0..MaxOps /\ req[t].seen.row \in Row \cup {NoRow}

(* A request changes only entities of the app in its path, although the    *)
(* ids in its body are the client's choice and rows come and go between    *)
(* the look-up and the commit.                                             *)
AppIsolation ==
  [][\A t \in Threads, e \in Entities :
       (Update(t) \/ Delete(t)) /\ store'[e] # store[e] =>
         store[e].app = req[t].app]_vars

(* A deleted entity does not come back, and an entity keeps its app and    *)
(* name: an update that loaded it before the deletion fails.               *)
DeletedStaysDeleted ==
  [][\A e \in Entities :
       /\ store[e] = NoRow /\ store'[e] # NoRow => e \notin used
       /\ store[e] # NoRow /\ store'[e] # NoRow =>
            store'[e].app = store[e].app /\ store'[e].name = store[e].name]_vars

(* README.md:16 calls a bulk request "single atomic"; it commits after     *)
(* each operation.  What is true: its own operations never tear it.  It    *)
(* fails half-way only when its app, or the entity it works on, has been   *)
(* deleted by others since.                                                *)
TornOnlyByDeletion ==
  [][\A t \in Threads :
       /\ ~ (At(t, "idle") \/ At(t, "failed"))
       /\ At(t, "failed")' /\ req[t].changed
       => \/ req[t].app \notin apps
          \/ req[t].seen.id \in Entities /\ store[req[t].seen.id] = NoRow]_vars

=============================================================================
