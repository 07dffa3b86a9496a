---------------------------- MODULE OneTimeCodes ----------------------------
(***************************************************************************)
(* What the in-memory stores of authorization codes and of passkey         *)
(* challenges promise, without clocks, locks, keys or threads: a code is   *)
(* issued once, is redeemed at most once, and once redeemed or dropped     *)
(* (expired, replaced, or lost in a restart) never comes back.             *)
(***************************************************************************)
CONSTANT Codes

VARIABLES
  issued,    \* codes ever handed to a client
  live,      \* codes that can still be exchanged
  redeemed   \* codes a request took out to use

Init == issued = {} /\ live = {} /\ redeemed = {}

(* A new code may replace older ones. *)
Issue(c, replaced) ==
  /\ c \notin issued
  /\ issued' = issued \cup {c}
  /\ live' = (live \ replaced) \cup {c}
  /\ UNCHANGED redeemed

Redeem(c) ==
  /\ c \in live
  /\ live' = live \ {c}
  /\ redeemed' = redeemed \cup {c}
  /\ UNCHANGED issued

Drop(S) ==
  /\ live' = live \ S
  /\ UNCHANGED <<issued, redeemed>>

Next ==
  \/ \E c \in Codes : Redeem(c)
  \/ \E S \in SUBSET live : Drop(S) \/ \E c \in Codes : Issue(c, S)

Spec == Init /\ [][Next]_<<issued, live, redeemed>>
=============================================================================
