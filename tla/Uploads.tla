------------------------------ MODULE Uploads ------------------------------
(***************************************************************************)
(* POST /integrations/Core.UploadFile                                      *)
(* (camp44/api/v1/endpoints/integrations.py): an upload looks for the      *)
(* bucket of its app, makes it, checks the size and stores the object.     *)
(* Every call to MinIO is an action; the handler holds nothing in between, *)
(* and endpoints run in a pool of threads.                                 *)
(***************************************************************************)
EXTENDS FiniteSets, Naturals

CONSTANTS
  Uploads,    \* requests, each with a file of its own name
  Apps,
  MaxFaults   \* bound on the failures of MinIO

VARIABLES
  buckets,    \* the apps that have a bucket
  objects,    \* the uploads whose file is stored
  up,         \* up[u]: where the request u is
  fault,      \* history: the uploads one of whose calls failed
  prior       \* history: the uploads whose app had a bucket when they began

vars == <<buckets, objects, up, fault, prior>>

Init ==
  /\ buckets = {}
  /\ objects = {}
  /\ up = [u \in Uploads |-> [pc |-> "new"]]
  /\ fault = {}
  /\ prior = {}

At(u, label) == up[u].pc = label
Go(u, label) == up' = [up EXCEPT ![u].pc = label]

(* The app was found; size is that of the file. *)
Begin(u, a, size) ==
  /\ At(u, "new")
  /\ up' = [up EXCEPT ![u] = [pc |-> "find", app |-> a, size |-> size]]
  /\ prior' = IF a \in buckets THEN prior \cup {u} ELSE prior
  /\ UNCHANGED <<buckets, objects, fault>>

(* Mutant: the bucket is made without a look. *)
AlwaysMissing(u) == TRUE

(* bucket_exists() answers no. *)
Missing(u) == up[u].app \notin buckets

Find(u) ==
  /\ At(u, "find")
  /\ Go(u, IF Missing(u) THEN "make" ELSE "read")
  /\ UNCHANGED <<buckets, objects, fault, prior>>

(* make_bucket() raises S3Error when the bucket is there by now: 500. *)
Make(u) ==
  /\ At(u, "make")
  /\ Go(u, IF up[u].app \in buckets THEN "error" ELSE "read")
  /\ buckets' = buckets \cup {up[u].app}
  /\ UNCHANGED <<objects, fault, prior>>

(* The file is read and measured, after the bucket was made: 413. *)
Read(u) ==
  /\ At(u, "read")
  /\ Go(u, IF up[u].size = "large" THEN "refused" ELSE "put")
  /\ UNCHANGED <<buckets, objects, fault, prior>>

(* put_object(): nothing removes a bucket, so it is there. *)
Put(u) ==
  /\ At(u, "put") /\ up[u].app \in buckets
  /\ objects' = objects \cup {u}
  /\ Go(u, "stored")
  /\ UNCHANGED <<buckets, fault, prior>>

(* A call of u fails, before or after MinIO did what it asked. *)
Faulty(u, done) ==
  /\ up[u].pc \in {"find", "make", "put"} /\ Cardinality(fault) < MaxFaults
  /\ fault' = fault \cup {u}
  /\ buckets' = IF done /\ At(u, "make") THEN buckets \cup {up[u].app} ELSE buckets
  /\ objects' = IF done /\ At(u, "put") THEN objects \cup {u} ELSE objects
  /\ UNCHANGED prior

(* Nothing catches it: 500. *)
Fault(u, done) == Faulty(u, done) /\ Go(u, "error")

Next ==
  \E u \in Uploads :
    \/ \E a \in Apps, size \in {"small", "large"} : Begin(u, a, size)
    \/ Find(u) \/ Make(u) \/ Read(u) \/ Put(u)
    \/ \E done \in BOOLEAN : Fault(u, done)

Spec == Init /\ [][Next]_vars

-----------------------------------------------------------------------------
(* Properties *)

(* Type invariant. *)
TypeOK ==
  /\ buckets \subseteq Apps /\ objects \subseteq Uploads
  /\ fault \subseteq Uploads /\ prior \subseteq Uploads
  /\ \A u \in Uploads :
       up[u].pc \in {"new", "find", "make", "read", "put", "stored", "refused", "error"}

(* What the client is told is what happened: a stored file is in its app's *)
(* bucket, a file that was too large is not, and a file whose upload       *)
(* failed is only there if an answer of MinIO was lost.                    *)
AnsweredAsStored ==
  \A u \in Uploads :
    /\ At(u, "stored") => u \in objects /\ up[u].app \in buckets
    /\ u \in objects => up[u].size = "small" /\ (At(u, "stored") \/ u \in fault)

(* Of uploads that race for the first bucket of an app all but one may     *)
(* fail.  That ends with the race: one that began when the bucket existed  *)
(* fails only with MinIO, and a failure leaves a bucket behind.            *)
OnlyFirstUploadsRace ==
  \A u \in Uploads : At(u, "error") /\ u \notin fault =>
    /\ u \notin prior
    /\ up[u].app \in buckets
    /\ \E v \in Uploads \ {u} : ~ At(v, "new") /\ up[v].app = up[u].app
                                /\ v \notin prior

=============================================================================
