----------------------------- MODULE OwnedRows -----------------------------
(***************************************************************************)
(* What a deletion of an account promises: the user goes together with all *)
(* refresh tokens, apps and entities of the apps, or everything stays.     *)
(***************************************************************************)
CONSTANTS Users, Things, None

VARIABLES
  users,   \* the users that exist
  parent   \* parent[x]: the user or app the row x refers to, or None

OwnedBy(u) ==
  {x \in Things : \/ parent[x] = u
                  \/ (parent[x] \in Things /\ parent[parent[x]] = u)}

Init == users = Users /\ parent = [x \in Things |-> None]

Insert(x, p) ==
  /\ parent[x] = None
  /\ p \in users \/ (p \in Things /\ parent[p] # None)
  /\ parent' = [parent EXCEPT ![x] = p]
  /\ UNCHANGED users

Delete(u) ==
  /\ u \in users
  /\ users' = users \ {u}
  /\ parent' = [x \in Things |-> IF x \in OwnedBy(u) THEN None ELSE parent[x]]

Next ==
  \/ \E x \in Things, p \in Users \cup Things : Insert(x, p)
  \/ \E u \in Users : Delete(u)

Spec == Init /\ [][Next]_<<users, parent>>
=============================================================================
