----------------------------- MODULE AuthCodes -----------------------------
(***************************************************************************)
(* The in-memory authorization codes of one server process                 *)
(* (camp44/api/v1/endpoints/auth.py:29-110): POST /auth/login with a       *)
(* redirect (:283-286) and the OIDC callback (oidc.py:113) store a token   *)
(* pair under a new code, POST /auth/exchange-code pops it.  All three     *)
(* first sweep expired codes, and all of it happens under one lock.        *)
(*                                                                         *)
(* login and exchange_code are `def` endpoints, so any worker thread       *)
(* creates or exchanges, several at once.  The callback is a coroutine:    *)
(* it creates on the event loop's thread (Loop), which it blocks while it  *)
(* waits for the lock.                                                     *)
(***************************************************************************)
EXTENDS Naturals

CONSTANTS
  Codes,     \* random codes: secrets.token_urlsafe(32)
  Threads,   \* worker threads
  Loop,      \* the event loop's thread
  TTL,       \* 60 seconds
  MaxTime,   \* bound on the clock
  Nobody     \* no thread; also no code

ASSUME LoopIsNoThread == Loop \notin Threads /\ Nobody \notin Threads \cup {Loop}
ASSUME NobodyIsNoCode == Nobody \notin Codes
ASSUME TimesAreNat == TTL \in Nat /\ MaxTime \in Nat

VARIABLES
  now,       \* time.monotonic()
  store,     \* codes in _auth_codes
  born,      \* born[c]: created_at of code c (0 before it is stored)
  lock,      \* holder of _auth_codes_lock
  pc,        \* pc[p]: what p does next
  op,        \* op[p]: "create", "exchange" or "none"
  arg,       \* arg[p]: the code p creates or exchanges
  swept,     \* swept[p]: the clock as p's sweep read it
  expired,   \* expired[p]: codes p's sweep has still to delete
  issued,    \* history: codes ever stored
  redeemed   \* history: codes exchanged for their tokens

map == <<store, born, issued, redeemed>>
local == <<pc, op, arg, swept, expired>>
vars == <<now, lock, map, local>>

Procs == Threads \cup {Loop}

Init ==
  /\ now = 0 /\ store = {} /\ issued = {} /\ redeemed = {}
  /\ born = [c \in Codes |-> 0]
  /\ lock = Nobody
  /\ pc = [p \in Procs |-> "idle"]
  /\ op = [p \in Procs |-> "none"]
  /\ arg = [p \in Procs |-> Nobody]
  /\ swept = [p \in Procs |-> 0]
  /\ expired = [p \in Procs |-> {}]

Goto(p, label) == pc' = [pc EXCEPT ![p] = label]

(* A request starts, up to its wait for the lock. *)
Begin(p, what, c) ==
  /\ pc[p] = "idle"
  /\ op' = [op EXCEPT ![p] = what]
  /\ arg' = [arg EXCEPT ![p] = c]
  /\ Goto(p, "lock")
  /\ UNCHANGED <<now, lock, map, swept, expired>>

(* login() or the callback draws a random code, so one that no client has  *)
(* and no other request has drawn.                                         *)
Create(p, c) ==
  /\ c \notin issued /\ \A q \in Procs : arg[q] # c
  /\ Begin(p, "create", c)

(* A client sends a code that it got, perhaps twice, early or late. *)
Exchange(t, c) == c \in issued /\ Begin(t, "exchange", c)

(* Mutant: no lock. *)
AcquireNothing(p) ==
  /\ pc[p] = "lock"
  /\ Goto(p, "sweep")
  /\ UNCHANGED <<now, lock, map, op, arg, swept, expired>>

Acquire(p) ==
  /\ pc[p] = "lock"
  /\ lock = Nobody
  /\ lock' = p
  /\ Goto(p, "sweep")
  /\ UNCHANGED <<now, map, op, arg, swept, expired>>

(* Mutant: only the creation of a code sweeps. *)
SweepAtCreateOnly(p) ==
  /\ pc[p] = "sweep"
  /\ swept' = [swept EXCEPT ![p] = now]
  /\ expired' = [expired EXCEPT ![p] =
                   {c \in store : op[p] = "create" /\ now > born[c] + TTL}]
  /\ Goto(p, "delete")
  /\ UNCHANGED <<now, lock, map, op, arg>>

(* _cleanup_expired_codes() reads the clock and lists what is too old ... *)
Sweep(p) ==
  /\ pc[p] = "sweep"
  /\ swept' = [swept EXCEPT ![p] = now]
  /\ expired' = [expired EXCEPT ![p] = {c \in store : now > born[c] + TTL}]
  /\ Goto(p, "delete")
  /\ UNCHANGED <<now, lock, map, op, arg>>

(* ... and deletes it, key by key. *)
Delete(p) ==
  /\ pc[p] = "delete"
  /\ \E c \in expired[p] \cap store :
       /\ store' = store \ {c}
       /\ expired' = [expired EXCEPT ![p] = @ \ {c}]
  /\ UNCHANGED <<now, lock, born, issued, redeemed, pc, op, arg, swept>>

(* The `with` block ends; the local variables die with the request.        *)
Release(p) ==
  /\ lock' = Nobody
  /\ Goto(p, "idle")
  /\ op' = [op EXCEPT ![p] = "none"]
  /\ arg' = [arg EXCEPT ![p] = Nobody]
  /\ swept' = [swept EXCEPT ![p] = 0]
  /\ UNCHANGED expired

(* The sweep is over: every listed code has been deleted. *)
Swept(p, what) == pc[p] = "delete" /\ expired[p] = {} /\ op[p] = what

(* _create_auth_code(): the clock is read again. *)
Put(p) ==
  /\ Swept(p, "create")
  /\ store' = store \cup {arg[p]}
  /\ born' = [born EXCEPT ![arg[p]] = now]
  /\ issued' = issued \cup {arg[p]}
  /\ Release(p)
  /\ UNCHANGED <<now, redeemed>>

(* Mutant: the code is read and stays in the map. *)
PopKeepsCode(t) ==
  /\ Swept(t, "exchange")
  /\ redeemed' = redeemed \cup (store \cap {arg[t]})
  /\ Release(t)
  /\ UNCHANGED <<now, store, born, issued>>

(* Mutant: an unknown code is refused without releasing the lock. *)
PopKeepsLock(t) ==
  /\ Swept(t, "exchange") /\ arg[t] \in store
  /\ store' = store \ {arg[t]}
  /\ redeemed' = redeemed \cup {arg[t]}
  /\ Release(t)
  /\ UNCHANGED <<now, born, issued>>

(* exchange_code(): pop, then 200 with the tokens, or 400. *)
Pop(t) ==
  /\ Swept(t, "exchange")
  /\ store' = store \ {arg[t]}
  /\ redeemed' = redeemed \cup (store \cap {arg[t]})
  /\ Release(t)
  /\ UNCHANGED <<now, born, issued>>

(* The process dies and starts again with an empty map. *)
Restart ==
  /\ store' = {} /\ lock' = Nobody
  /\ pc' = [p \in Procs |-> "idle"]
  /\ op' = [p \in Procs |-> "none"]
  /\ arg' = [p \in Procs |-> Nobody]
  /\ swept' = [p \in Procs |-> 0]
  /\ expired' = [p \in Procs |-> {}]
  /\ UNCHANGED <<now, born, issued, redeemed>>

Tick ==
  /\ now < MaxTime
  /\ now' = now + 1
  /\ UNCHANGED <<lock, map, local>>

Hold(p) == Sweep(p) \/ Delete(p) \/ Put(p) \/ Pop(p)

Next ==
  \/ \E c \in Codes :
       (\E p \in Procs : Create(p, c)) \/ (\E t \in Threads : Exchange(t, c))
  \/ \E p \in Procs : Acquire(p) \/ Hold(p)
  \/ Restart \/ Tick

Spec == Init /\ [][Next]_vars

(* The holder's thread runs.  Nothing is assumed of who gets the lock.     *)
FairSpec == Spec /\ \A p \in Procs : WF_vars(Hold(p))

-----------------------------------------------------------------------------
(* Properties *)

(* Type invariant. *)
TypeOK ==
  /\ now \in 0..MaxTime
  /\ store \subseteq issued /\ redeemed \subseteq issued \ store
  /\ issued \subseteq Codes
  /\ born \in [Codes -> 0..now]
  /\ lock \in Procs \cup {Nobody}
  /\ pc \in [Procs -> {"idle", "lock", "sweep", "delete"}]
  /\ op \in [Procs -> {"create", "exchange", "none"}]
  /\ arg \in [Procs -> Codes \cup {Nobody}]
  /\ swept \in [Procs -> 0..now]
  /\ expired \in [Procs -> SUBSET Codes]

(* A sweep never raises KeyError: a code it lists is still in the map when *)
(* it comes to delete it, whatever other requests sweep or exchange        *)
(* meanwhile.                                                              *)
SweepFindsItsCodes == \A p \in Procs : expired[p] \subseteq store

(* auth.py:97 "Codes are single-use", through expiry and restarts.         *)
OneTime == INSTANCE OneTimeCodes WITH live <- store
SingleUse == OneTime!Spec

(* auth.py:97 "expire after 60 seconds": an exchange that entered its      *)
(* critical section more than TTL after the code was stored gets no        *)
(* tokens, although nothing but another request's sweep removes old codes. *)
ExpiredIsRefused ==
  [][\A c \in redeemed' \ redeemed :
       \E t \in Threads :
         Swept(t, "exchange") /\ arg[t] = c /\ swept[t] <= born[c] + TTL]_vars

(* No request keeps the lock: a login, callback or exchange that waits for *)
(* it finds it free again, whatever the holder met.                        *)
LockIsFreed == \A p \in Procs : lock = p ~> lock # p

(* The invariant of the map and the lock. *)
CodesInv == TypeOK /\ SweepFindsItsCodes

=============================================================================
