--------------------------- MODULE AuthCodesProofs ---------------------------
(***************************************************************************)
(* TLAPS proofs about AuthCodes, for any set of codes and threads, any TTL *)
(* and any bound on the clock: the map stays sound, a code is exchanged at *)
(* most once, and never after its 60 seconds.                              *)
(***************************************************************************)
EXTENDS AuthCodes, TLAPS

-----------------------------------------------------------------------------
(* The inductive invariant *)

(* Exactly the holder of the lock is inside the `with` block, and only a   *)
(* sweep that is under way still has codes to delete.                      *)
LockInv ==
  \A p \in Procs :
    /\ pc[p] \in {"sweep", "delete"} <=> lock = p
    /\ expired[p] # {} => pc[p] = "delete"

(* A creator works on a code that no client has and no other creator drew; *)
(* a client presents a code that it got.                                   *)
RequestInv ==
  \A p \in Procs :
    /\ pc[p] = "idle" => op[p] = "none" /\ arg[p] = Nobody
    /\ pc[p] # "idle" => op[p] # "none"
    /\ op[p] = "exchange" => p \in Threads /\ arg[p] \in issued
    /\ op[p] = "create" =>
         /\ arg[p] \in Codes \ issued
         /\ \A q \in Procs : q # p => arg[q] # arg[p]

(* After the sweep a code is in the map only if it was young enough when   *)
(* the sweep read the clock, or is listed to be deleted.                   *)
SweepInv ==
  \A p \in Procs : pc[p] = "delete" =>
    \A c \in store : c \notin expired[p] => swept[p] <= born[c] + TTL

IInv == CodesInv /\ LockInv /\ RequestInv /\ SweepInv

-----------------------------------------------------------------------------

USE LoopIsNoThread, NobodyIsNoCode, TimesAreNat

LEMMA InitIInv == Init => IInv
BY DEF Init, IInv, CodesInv, TypeOK, SweepFindsItsCodes, LockInv, RequestInv,
       SweepInv, Procs

LEMMA CreateKeeps ==
  ASSUME IInv, NEW p \in Procs, NEW c \in Codes, Create(p, c)
  PROVE  IInv'
<1>1. CodesInv' /\ LockInv' /\ SweepInv'
  BY DEF IInv, CodesInv, TypeOK, SweepFindsItsCodes, LockInv, SweepInv, Create,
         Begin, Goto, map
<1>2. RequestInv'
  BY DEF IInv, CodesInv, TypeOK, RequestInv, Create, Begin, Goto, map
<1> QED
  BY <1>1, <1>2 DEF IInv

LEMMA ExchangeKeeps ==
  ASSUME IInv, NEW t \in Threads, NEW c \in Codes, Exchange(t, c)
  PROVE  IInv'
<1>1. CodesInv' /\ LockInv' /\ SweepInv'
  BY DEF IInv, CodesInv, TypeOK, SweepFindsItsCodes, LockInv, SweepInv,
         Exchange, Begin, Goto, map, Procs
<1>2. RequestInv'
  BY DEF IInv, CodesInv, TypeOK, RequestInv, Exchange, Begin, Goto, map, Procs
<1> QED
  BY <1>1, <1>2 DEF IInv

LEMMA AcquireKeeps ==
  ASSUME IInv, NEW p \in Procs, Acquire(p)
  PROVE  IInv'
BY DEF IInv, CodesInv, TypeOK, SweepFindsItsCodes, LockInv, RequestInv,
       SweepInv, Acquire, Goto, map, Procs

LEMMA SweepKeeps ==
  ASSUME IInv, NEW p \in Procs, Sweep(p)
  PROVE  IInv'
<1>1. CodesInv'
  BY DEF IInv, CodesInv, TypeOK, SweepFindsItsCodes, Sweep, Goto, map
<1>2. LockInv' /\ RequestInv'
  BY DEF IInv, CodesInv, TypeOK, LockInv, RequestInv, Sweep, Goto, map
<1>3. SweepInv'
  BY DEF IInv, CodesInv, TypeOK, SweepInv, Sweep, Goto, map
<1> QED
  BY <1>1, <1>2, <1>3 DEF IInv

(* The holder deletes only what it listed, and nobody else has a list. *)
LEMMA DeleteKeeps ==
  ASSUME IInv, NEW p \in Procs, Delete(p)
  PROVE  IInv'
<1>1. PICK c \in expired[p] \cap store :
        /\ store' = store \ {c}
        /\ expired' = [expired EXCEPT ![p] = @ \ {c}]
  BY DEF Delete
<1>2. /\ pc[p] = "delete" /\ lock = p
      /\ UNCHANGED <<now, lock, born, issued, redeemed, pc, op, arg, swept>>
  BY DEF IInv, LockInv, Delete
<1>3. \A q \in Procs : q # p => expired[q] = {} /\ expired'[q] = {}
  BY <1>1, <1>2 DEF IInv, CodesInv, TypeOK, LockInv
<1>4. TypeOK' /\ SweepFindsItsCodes'
  BY <1>1, <1>2, <1>3 DEF IInv, CodesInv, TypeOK, SweepFindsItsCodes
<1>5. LockInv' /\ RequestInv'
  BY <1>1, <1>2, <1>3 DEF IInv, CodesInv, TypeOK, LockInv, RequestInv
<1>6. SweepInv'
  BY <1>1, <1>2, <1>3 DEF IInv, CodesInv, TypeOK, LockInv, SweepInv
<1> QED
  BY <1>4, <1>5, <1>6 DEF IInv, CodesInv

(* Nobody else is sweeping while p adds or removes a code. *)
LEMMA HolderAlone ==
  ASSUME IInv, NEW p \in Procs, pc[p] = "delete", expired[p] = {}
  PROVE  /\ lock = p
         /\ \A q \in Procs : expired[q] = {}
         /\ \A q \in Procs : q # p => pc[q] \in {"idle", "lock"}
BY DEF IInv, CodesInv, TypeOK, LockInv

LEMMA PutKeeps ==
  ASSUME IInv, NEW p \in Procs, Put(p)
  PROVE  IInv'
<1>1. arg[p] \in Codes \ issued /\ \A q \in Procs : q # p => arg[q] # arg[p]
  BY DEF IInv, RequestInv, Put, Swept
<1>2. /\ lock = p
      /\ \A q \in Procs : expired[q] = {}
      /\ \A q \in Procs : q # p => pc[q] \in {"idle", "lock"}
  BY HolderAlone DEF Put, Swept
<1>3. CodesInv'
  BY <1>1, <1>2 DEF IInv, CodesInv, TypeOK, SweepFindsItsCodes, Put, Release,
                    Goto
<1>4. LockInv' /\ SweepInv'
  BY <1>2 DEF IInv, CodesInv, TypeOK, LockInv, SweepInv, Put, Release, Goto,
              Procs
<1>5. RequestInv'
  BY <1>1 DEF IInv, CodesInv, TypeOK, RequestInv, Put, Release, Goto
<1> QED
  BY <1>3, <1>4, <1>5 DEF IInv

LEMMA PopKeeps ==
  ASSUME IInv, NEW t \in Procs, Pop(t)
  PROVE  IInv'
<1>1. /\ lock = t
      /\ \A q \in Procs : expired[q] = {}
      /\ \A q \in Procs : q # t => pc[q] \in {"idle", "lock"}
  BY HolderAlone DEF Pop, Swept
<1>2. CodesInv'
  BY <1>1 DEF IInv, CodesInv, TypeOK, SweepFindsItsCodes, Pop, Release, Goto
<1>3. LockInv' /\ SweepInv'
  BY <1>1 DEF IInv, CodesInv, TypeOK, LockInv, SweepInv, Pop, Release, Goto,
              Procs
<1>4. RequestInv'
  BY DEF IInv, CodesInv, TypeOK, RequestInv, Pop, Release, Goto
<1> QED
  BY <1>2, <1>3, <1>4 DEF IInv

LEMMA RestartKeeps == ASSUME IInv, Restart PROVE IInv'
BY DEF IInv, CodesInv, TypeOK, SweepFindsItsCodes, LockInv, RequestInv,
       SweepInv, Restart, Procs

LEMMA TickKeeps == ASSUME IInv, Tick PROVE IInv'
BY DEF IInv, CodesInv, TypeOK, SweepFindsItsCodes, LockInv, RequestInv,
       SweepInv, Tick, map, local

LEMMA NextIInv == IInv /\ [Next]_vars => IInv'
<1> SUFFICES ASSUME IInv, [Next]_vars PROVE IInv'
  OBVIOUS
<1>1. CASE Next
  BY <1>1, CreateKeeps, ExchangeKeeps, AcquireKeeps, SweepKeeps, DeleteKeeps, PutKeeps,
     PopKeeps, RestartKeeps, TickKeeps DEF Next, Hold
<1>2. CASE UNCHANGED vars
  BY <1>2 DEF vars, map, local, IInv, CodesInv, TypeOK, SweepFindsItsCodes,
              LockInv, RequestInv, SweepInv
<1> QED
  BY <1>1, <1>2

LEMMA Invariance == Spec => []IInv
BY InitIInv, NextIInv, PTL DEF Spec

-----------------------------------------------------------------------------
(* Theorems *)

(* The map of codes and its lock stay well formed, what was exchanged has  *)
(* left the map, and a sweep never meets a code that somebody else has     *)
(* removed since it made its list.                                         *)
THEOREM CodesAreSound == Spec => []CodesInv
<1>1. IInv => CodesInv
  BY DEF IInv
<1> QED
  BY <1>1, Invariance, PTL

LEMMA StepMaps ==
  IInv /\ [Next]_vars => [OneTime!Next]_<<issued, store, redeemed>>
<1> SUFFICES ASSUME IInv, Next
             PROVE  OneTime!Next \/ UNCHANGED <<issued, store, redeemed>>
  BY DEF vars, map
<1>1. ASSUME NEW p \in Procs, Delete(p) PROVE OneTime!Next
  <2>1. PICK c \in expired[p] \cap store : store' = store \ {c}
    BY <1>1 DEF Delete
  <2>2. {c} \in SUBSET store /\ OneTime!Drop({c})
    BY <1>1, <2>1 DEF Delete, OneTime!Drop
  <2> QED
    BY <2>2 DEF OneTime!Next
<1>2. ASSUME NEW p \in Procs, Put(p) PROVE OneTime!Next
  <2>1. arg[p] \in Codes \ issued
    BY <1>2 DEF IInv, RequestInv, Put, Swept
  <2>2. {} \in SUBSET store /\ OneTime!Issue(arg[p], {})
    BY <1>2, <2>1 DEF Put, OneTime!Issue
  <2> QED
    BY <2>1, <2>2 DEF OneTime!Next
<1>3. ASSUME NEW t \in Procs, Pop(t)
      PROVE  OneTime!Next \/ UNCHANGED <<issued, store, redeemed>>
  <2>1. CASE arg[t] \in store
    <3>1. arg[t] \in Codes /\ OneTime!Redeem(arg[t])
      BY <1>3, <2>1 DEF Pop, OneTime!Redeem, IInv, CodesInv, TypeOK
    <3> QED
      BY <3>1 DEF OneTime!Next
  <2>2. CASE arg[t] \notin store
    BY <1>3, <2>2 DEF Pop
  <2> QED
    BY <2>1, <2>2
<1>4. ASSUME Restart PROVE OneTime!Next
  <2>1. store \in SUBSET store /\ OneTime!Drop(store)
    BY <1>4 DEF Restart, OneTime!Drop
  <2> QED
    BY <2>1 DEF OneTime!Next
<1> QED
  BY <1>1, <1>2, <1>3, <1>4
     DEF Next, Hold, Create, Exchange, Begin, Acquire, Sweep, Tick, map

(* A code is handed out once and exchanged at most once: whatever logins,  *)
(* callbacks and exchanges interleave, and through expiry and restarts, the map      *)
(* behaves as OneTimeCodes, which has no lock and no clock.                *)
THEOREM CodesAreSingleUse == Spec => SingleUse
<1>1. Init => OneTime!Init
  BY DEF Init, OneTime!Init
<1> QED
  BY <1>1, StepMaps, Invariance, PTL DEF Spec, SingleUse, OneTime!Spec

(* An exchange gets tokens only for a code that was at most TTL old when   *)
(* the exchange's own sweep read the clock.                                *)
THEOREM ExpiredCodesAreRefused == Spec => ExpiredIsRefused
<1>1. ASSUME IInv, [Next]_vars
      PROVE  \A c \in redeemed' \ redeemed :
               \E t \in Threads :
                 Swept(t, "exchange") /\ arg[t] = c /\ swept[t] <= born[c] + TTL
  <2> SUFFICES ASSUME NEW c \in redeemed' \ redeemed
               PROVE  \E t \in Threads : Swept(t, "exchange") /\ arg[t] = c
                                         /\ swept[t] <= born[c] + TTL
    OBVIOUS
  <2>1. PICK t \in Procs : Pop(t)
    BY <1>1 DEF Next, Hold, Create, Exchange, Begin, Acquire, Sweep, Delete,
                Put, Restart, Tick, vars, map
  <2>2. c \in store /\ arg[t] = c /\ Swept(t, "exchange")
    BY <2>1 DEF Pop
  <2>3. t \in Threads
    BY <1>1, <2>2 DEF IInv, RequestInv, Swept, Procs
  <2> QED
    BY <1>1, <2>2, <2>3 DEF IInv, SweepInv, Swept
<1> QED
  BY <1>1, Invariance, PTL DEF Spec, ExpiredIsRefused
=============================================================================
