----------------------------- MODULE MCServices -----------------------------
(***************************************************************************)
(* Four services that share no state: the tenant middleware, uploads, the  *)
(* demo availability and the metering pipeline.  A behaviour is one of one *)
(* of them (part), the others stay in their initial states; so the state   *)
(* spaces add up instead of multiplying.                                   *)
(***************************************************************************)
EXTENDS Naturals, FiniteSets, Sequences, TLC

CONSTANTS
  None,
  Keys, Tenants, Requests, MaxRestarts,             \* TenantContext
  Files, Apps, MaxFaults,                           \* Uploads
  Dates, Processes, Threads, MaxFails, MaxBlocked,  \* DemoAvailability
  Events, Bad, Workers,                             \* Metering
  MaxSends, MaxLosses, MaxPresses, MaxCrashes

Schedules == {"default", "weekdays"}

ASSUME NoneIsNothing ==
  /\ None \notin Keys \cup Tenants \cup {"error"}
  /\ None \notin [schedule : Schedules, blocked : Seq(Dates)]
  /\ None \notin [op : {"block", "unblock"}, date : Dates]
ASSUME ErrorIsNoKey == "error" \notin Keys
ASSUME FailuresAreCounted == MaxFails \in Nat
ASSUME NoneIsNoMessage == None \notin Nat
ASSUME WorkersAreFinite == IsFiniteSet(Workers)

VARIABLES
  part,
  idp, jwks, known, current, chain, restarts,
  buckets, objects, up, fault, prior,
  row, default, asked, fails, alone, answered, twice,
  log, answer, queue, synced, unacked, conn, worker, job, attempts, faults

tenantVars == <<idp, jwks, known, current, chain, restarts>>
uploadVars == <<buckets, objects, up, fault, prior>>
demoVars == <<row, default, asked, fails, alone, answered, twice>>
pipelineVars == <<log, answer, queue, synced, unacked, conn, worker, job, attempts, faults>>
vars == <<part, tenantVars, uploadVars, demoVars, pipelineVars>>

(* A PUT may name a date twice. *)
Bodies == [schedule : {"weekdays"}, blocked : {<<d, d>> : d \in Dates}]

Middleware == INSTANCE TenantContext WITH req <- chain
Storage == INSTANCE Uploads WITH Uploads <- Files
Demo == INSTANCE DemoAvailability WITH req <- asked, Configs <- Bodies
Pipeline == INSTANCE Metering

Init ==
  /\ part \in {"middleware", "storage", "demo", "pipeline"}
  /\ Middleware!Init /\ Storage!Init /\ Demo!Init /\ Pipeline!Init

Next ==
  \/ /\ part = "middleware"
     /\ Middleware!Next
     /\ UNCHANGED <<part, uploadVars, demoVars, pipelineVars>>
  \/ /\ part = "storage"
     /\ Storage!Next
     /\ UNCHANGED <<part, tenantVars, demoVars, pipelineVars>>
  \/ /\ part = "demo"
     /\ Demo!Next
     /\ UNCHANGED <<part, tenantVars, uploadVars, pipelineVars>>
  \/ /\ part = "pipeline"
     /\ Pipeline!Next
     /\ UNCHANGED <<part, tenantVars, uploadVars, demoVars>>

Spec == Init /\ [][Next]_vars

(* Requests, threads and workers may share their names. *)
Symmetry ==
  Permutations(Keys) \cup Permutations(Tenants) \cup Permutations(Dates)
    \cup Permutations(Requests \cup Threads \cup Workers)

-----------------------------------------------------------------------------
(* Properties *)

(* tenant_oidc.py, tenant.py, oauth.py:34-41: a request runs with its own  *)
(* token's tenant or none, with a tenant only if Camp44 signed it or the   *)
(* provider, with a key of this process's time; and once an answer of the  *)
(* provider is cached, none of its troubles fails a request.               *)
MiddlewareInv ==
  /\ Middleware!TypeOK
  /\ Middleware!RetiredKeysAreRefused
  /\ Middleware!OutagesSpareCached

(* integrations.py:59-95: what the client is told is what is stored, and   *)
(* only uploads that race for the first bucket of an app fail without      *)
(* MinIO failing.                                                          *)
StorageInv ==
  Storage!TypeOK /\ Storage!AnsweredAsStored /\ Storage!OnlyFirstUploadsRace

(* demo_booking.py:103-146: for a request that no other overlaps, a date   *)
(* answered as blocked is stored, unless a failed save left it in the      *)
(* defaults and no row is stored; a date answered as unblocked is gone,    *)
(* unless it was stored twice.                                             *)
AvailabilityInv ==
  Demo!TypeOK /\ Demo!BlockedIsStored /\ Demo!UnblockedIsGone

(* demo_booking.py:103-146: a request that no other overlaps changes one   *)
(* configuration as a whole, whatever requests came before it.             *)
AloneIsAtomic == Demo!AloneIsAtomic

(* metering.py:30-65, metering_processor.py:20-72: what the broker stored  *)
(* is not lost, nor what was answered 202 before a crash of the broker; a  *)
(* message is repeated and a worker ends only for a fault that explains    *)
(* it.                                                                     *)
PipelineInv == Pipeline!PipelineInv

=============================================================================
