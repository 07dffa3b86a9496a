---------------------------- MODULE BillingProofs ----------------------------
(***************************************************************************)
(* TLAPS proofs about Billing, for any number of server instances, worker  *)
(* threads, customers, subscriptions, passwords and reset tokens.          *)
(***************************************************************************)
EXTENDS Billing, TLAPS

-----------------------------------------------------------------------------
(* The inductive invariant *)

HookState ==
  {Idle}
    \cup [pc : {"checkout", "retrieve", "deleted", "answer"}, event : Event]
    \cup [pc : {"link", "create", "deactivate"}, event : Event, loaded : Row]
    \cup [pc : {"refresh", "mail"}, event : Event, token : Tokens]
    \cup [pc : {"complete"}, event : Event, token : Tokens, loaded : Row]

ThreadState ==
  {Idle}
    \cup [pc : {"signup"}, password : {"none"} \cup Passwords]
    \cup [pc : {"forgot"}, loaded : Row, token : Tokens]
    \cup [pc : {"mail"}, token : Tokens]
    \cup [pc : {"set"}, loaded : Row, password : Passwords]
    \cup [pc : {"patch"}, password : Passwords]

Shape ==
  /\ period \in [Customers -> 0..MaxPeriods]
  /\ cancelled \in [Customers -> BOOLEAN]
  /\ hook \in [Loops -> HookState]
  /\ thread \in [Threads -> ThreadState]
  /\ issued \in 0..MaxTokens
  /\ used \subseteq mailed
  /\ expired \subseteq 1..issued

RowInv ==
  /\ row \in Row
  /\ ~ row.exists => row = NoRow
  /\ row.token \in 0..issued
  /\ UsedTokenIsDead

(* Tokens a request has generated and not mailed yet. *)
HookTokens(l) ==
  IF hook[l].pc \in {"refresh", "complete", "mail"} THEN {hook[l].token} ELSE {}
ThreadTokens(t) ==
  IF thread[t].pc \in {"forgot", "mail"} THEN {thread[t].token} ELSE {}

(* Such a token is in nobody else's hands: neither in the mailbox nor in   *)
(* another request.                                                        *)
TokenInv ==
  /\ mailed \subseteq 1..issued
  /\ \A l \in Loops :
       /\ HookTokens(l) \subseteq 1..issued
       /\ HookTokens(l) \cap mailed = {}
       /\ \A m \in Loops : m # l => HookTokens(l) \cap HookTokens(m) = {}
       /\ \A t \in Threads : HookTokens(l) \cap ThreadTokens(t) = {}
  /\ \A t \in Threads :
       /\ ThreadTokens(t) \subseteq 1..issued
       /\ ThreadTokens(t) \cap mailed = {}
       /\ \A s \in Threads : s # t => ThreadTokens(t) \cap ThreadTokens(s) = {}

(* A row that was loaded is out of date in one direction only: the account *)
(* stays, linked if it was.                                                *)
Linkage == row.exists /\ row.customer # NoCustomer
Precedes(loaded) ==
  /\ row.exists
  /\ loaded.customer # NoCustomer => row.customer # NoCustomer

HookInv(l) ==
  LET h == hook[l]
  IN /\ h.pc # "idle" => h.event \in Sent
     /\ h.pc \in {"checkout", "retrieve", "link", "create", "refresh",
                  "complete", "mail"} => h.event.type = "checkout"
     /\ h.pc \in {"deleted", "deactivate"} => h.event.type = "deleted"
     /\ h.pc \in {"link", "deactivate", "complete"} => Precedes(h.loaded)
     /\ h.pc = "refresh" => row.exists
     /\ h.pc = "answer" /\ h.event.type = "checkout" => Linkage
     /\ h.pc = "mail" => Linkage

ThreadInv(t) ==
  LET h == thread[t]
  IN /\ h.pc \in {"forgot", "set"} => Precedes(h.loaded)
     /\ h.pc = "set" => h.loaded.token \in mailed
     /\ h.pc = "patch" => row.exists

AckedInv == acked \subseteq Event /\ AckedHasAccount

IInv ==
  /\ Shape /\ RowInv /\ TokenInv /\ AckedInv
  /\ \A l \in Loops : HookInv(l)
  /\ \A t \in Threads : ThreadInv(t)

USE NoCustomerIsNone, NoEmailIsSome, PasswordsAreChosen, BoundsAreNat

-----------------------------------------------------------------------------
(* Lemmas *)

LEMMA Rows ==
  /\ NoRow \in Row /\ ~ NoRow.exists /\ NoRow.customer = NoCustomer
  /\ NoRow.token = 0 /\ NoRow.password = "none"
  /\ \A password \in {"none", "random"} \cup Passwords :
       LET r == NewRow(password)
       IN /\ r \in Row /\ r.exists /\ r.token = 0
          /\ r.password = password /\ r.customer = NoCustomer
BY DEF Row, NoRow, NewRow, Tokens

LEMMA HookShapes ==
  ASSUME NEW h \in HookState
  PROVE  /\ h.pc = "idle" => h = Idle
         /\ h.pc # "idle" => h.event \in Event
         /\ h.pc \in {"link", "create", "deactivate", "complete"} =>
              h.loaded \in Row
         /\ h.pc \in {"refresh", "mail", "complete"} => h.token \in Tokens
BY DEF HookState, Idle

LEMMA ThreadShapes ==
  ASSUME NEW h \in ThreadState
  PROVE  /\ h.pc = "idle" => h = Idle
         /\ h.pc = "signup" => h.password \in {"none"} \cup Passwords
         /\ h.pc \in {"set", "patch"} => h.password \in Passwords
         /\ h.pc \in {"forgot", "set"} => h.loaded \in Row
         /\ h.pc \in {"forgot", "mail"} => h.token \in Tokens
BY DEF ThreadState, Idle

LEMMA InitIInv == Init => IInv
<1> SUFFICES ASSUME Init PROVE IInv
  OBVIOUS
<1>1. Shape
  BY DEF Init, Shape, HookState, ThreadState
<1>2. /\ row \in {NoRow} \cup {NewRow(p) : p \in {"none"} \cup Passwords}
      /\ used = {}
  BY DEF Init
<1>3. RowInv
  BY <1>1, <1>2, Rows DEF RowInv, UsedTokenIsDead, Shape
<1>4. TokenInv
  BY DEF Init, TokenInv, HookTokens, ThreadTokens, Idle
<1>5. AckedInv /\ (\A l \in Loops : HookInv(l)) /\ (\A t \in Threads : ThreadInv(t))
  BY DEF Init, AckedInv, AckedHasAccount, HookInv, ThreadInv, Idle
<1> QED
  BY <1>1, <1>3, <1>4, <1>5 DEF IInv

(* What every step leaves of the account. *)
RowKept ==
  /\ row' \in Row
  /\ ~ row'.exists => row' = NoRow
  /\ row.exists => row'.exists
  /\ row.customer # NoCustomer => row'.customer # NoCustomer

(* An UPDATE writes the columns that differ from the loaded row. *)
LEMMA UpdatedRow ==
  ASSUME row \in Row, NEW loaded \in Row, NEW new \in Row, Update(loaded, new)
  PROVE  /\ row' \in Row
         /\ row'.exists = IF new.exists # loaded.exists THEN new.exists
                          ELSE row.exists
         /\ row'.customer = IF new.customer # loaded.customer
                            THEN new.customer ELSE row.customer
         /\ row'.password = IF new.password # loaded.password
                            THEN new.password ELSE row.password
         /\ row'.token = IF new.token # loaded.token THEN new.token
                         ELSE row.token
         /\ row'.active = IF new.active # loaded.active THEN new.active
                          ELSE row.active
<1>1. DOMAIN row = {"exists", "customer", "password", "token", "active"}
  BY DEF Row
<1>2. row' = [f \in DOMAIN row |-> IF new[f] # loaded[f] THEN new[f]
                                   ELSE row[f]]
  BY DEF Update
<1> QED
  BY <1>1, <1>2 DEF Row

(* However late, it keeps the account. *)
LEMMA LateWrite ==
  ASSUME RowInv, NEW loaded \in Row, Precedes(loaded), NEW new \in Row,
         Update(loaded, new), new.exists = loaded.exists,
         new.customer \in Customers \cup {loaded.customer}
  PROVE  /\ RowKept /\ row'.exists
         /\ row'.token \in {row.token, new.token}
         /\ new.customer \in Customers => row'.customer # NoCustomer
<1>1. row \in Row /\ row.exists
  BY DEF RowInv, Precedes
<1>2. /\ row' \in Row /\ row'.exists = row.exists
      /\ row'.customer = IF new.customer # loaded.customer
                         THEN new.customer ELSE row.customer
      /\ row'.token \in {row.token, new.token}
  BY <1>1, UpdatedRow
<1>3. new.customer \in Customers => row'.customer # NoCustomer
  BY <1>1, <1>2 DEF Precedes
<1>4. row.customer # NoCustomer => row'.customer # NoCustomer
  BY <1>2, <1>3
<1> QED
  BY <1>1, <1>2, <1>3, <1>4 DEF RowKept

LEMMA SameRow ==
  ASSUME RowInv, row' = row
  PROVE  RowKept
BY DEF RowInv, RowKept

LEMMA Undisturbed ==
  ASSUME IInv, RowKept, Sent \subseteq Sent', mailed \subseteq mailed'
  PROVE  /\ \A l \in Loops : hook'[l] = hook[l] => HookInv(l)'
         /\ \A t \in Threads : thread'[t] = thread[t] => ThreadInv(t)'
<1>1. ASSUME NEW l \in Loops, hook'[l] = hook[l] PROVE HookInv(l)'
  <2>1. HookInv(l)
    BY DEF IInv
  <2> QED
    BY <1>1, <2>1 DEF HookInv, Precedes, Linkage, RowKept
<1>2. ASSUME NEW t \in Threads, thread'[t] = thread[t] PROVE ThreadInv(t)'
  <2>1. ThreadInv(t)
    BY DEF IInv
  <2> QED
    BY <1>2, <2>1 DEF ThreadInv, Precedes, RowKept
<1> QED
  BY <1>1, <1>2

(* A request may only generate fresh tokens, and mails only its own.       *)
LEMMA HookTokensKept ==
  ASSUME TokenInv, NEW l \in Loops, thread' = thread,
         \A m \in Loops : m # l => hook'[m] = hook[m],
         issued \in Nat, issued' \in Nat, issued <= issued',
         HookTokens(l)' \subseteq HookTokens(l) \cup (issued + 1)..issued',
         mailed \subseteq mailed',
         mailed' \subseteq mailed \cup (HookTokens(l) \ HookTokens(l)')
  PROVE  TokenInv'
<1>1. \A m \in Loops : m # l => HookTokens(m)' = HookTokens(m)
  BY DEF HookTokens
<1>2. \A t \in Threads : ThreadTokens(t)' = ThreadTokens(t)
  BY DEF ThreadTokens
<1>3. /\ HookTokens(l)' \subseteq 1..issued' /\ mailed' \subseteq 1..issued'
      /\ HookTokens(l)' \cap mailed' = {}
  BY DEF TokenInv
<1>4. ASSUME NEW m \in Loops, m # l
      PROVE  /\ HookTokens(m)' \subseteq 1..issued'
             /\ HookTokens(m)' \cap mailed' = {}
             /\ HookTokens(m)' \cap HookTokens(l)' = {}
  <2>1. /\ HookTokens(m) \subseteq 1..issued /\ HookTokens(m) \cap mailed = {}
        /\ HookTokens(m) \cap HookTokens(l) = {}
    BY <1>4 DEF TokenInv
  <2> QED
    BY <1>1, <1>4, <2>1
<1>5. ASSUME NEW t \in Threads
      PROVE  /\ ThreadTokens(t)' \subseteq 1..issued'
             /\ ThreadTokens(t)' \cap mailed' = {}
             /\ ThreadTokens(t)' \cap HookTokens(l)' = {}
  <2>1. /\ ThreadTokens(t) \subseteq 1..issued
        /\ ThreadTokens(t) \cap mailed = {}
        /\ ThreadTokens(t) \cap HookTokens(l) = {}
    BY DEF TokenInv
  <2> QED
    BY <1>2, <2>1
<1>6. ASSUME NEW m \in Loops, NEW n \in Loops, m # n
      PROVE  HookTokens(m)' \cap HookTokens(n)' = {}
  BY <1>1, <1>4, <1>6 DEF TokenInv
<1>7. ASSUME NEW m \in Loops, NEW t \in Threads
      PROVE  HookTokens(m)' \cap ThreadTokens(t)' = {}
  BY <1>1, <1>2, <1>5 DEF TokenInv
<1>8. ASSUME NEW s \in Threads, NEW t \in Threads, s # t
      PROVE  ThreadTokens(s)' \cap ThreadTokens(t)' = {}
  BY <1>2, <1>8 DEF TokenInv
<1> QED
  BY <1>3, <1>4, <1>5, <1>6, <1>7, <1>8 DEF TokenInv

LEMMA ThreadTokensKept ==
  ASSUME TokenInv, NEW t \in Threads, hook' = hook,
         \A s \in Threads : s # t => thread'[s] = thread[s],
         issued \in Nat, issued' \in Nat, issued <= issued',
         ThreadTokens(t)' \subseteq ThreadTokens(t) \cup (issued + 1)..issued',
         mailed \subseteq mailed',
         mailed' \subseteq mailed \cup (ThreadTokens(t) \ ThreadTokens(t)')
  PROVE  TokenInv'
<1>1. \A s \in Threads : s # t => ThreadTokens(s)' = ThreadTokens(s)
  BY DEF ThreadTokens
<1>2. \A l \in Loops : HookTokens(l)' = HookTokens(l)
  BY DEF HookTokens
<1>3. /\ ThreadTokens(t)' \subseteq 1..issued' /\ mailed' \subseteq 1..issued'
      /\ ThreadTokens(t)' \cap mailed' = {}
  BY DEF TokenInv
<1>4. ASSUME NEW s \in Threads, s # t
      PROVE  /\ ThreadTokens(s)' \subseteq 1..issued'
             /\ ThreadTokens(s)' \cap mailed' = {}
             /\ ThreadTokens(s)' \cap ThreadTokens(t)' = {}
  <2>1. /\ ThreadTokens(s) \subseteq 1..issued
        /\ ThreadTokens(s) \cap mailed = {}
        /\ ThreadTokens(s) \cap ThreadTokens(t) = {}
    BY <1>4 DEF TokenInv
  <2> QED
    BY <1>1, <1>4, <2>1
<1>5. ASSUME NEW l \in Loops
      PROVE  /\ HookTokens(l)' \subseteq 1..issued'
             /\ HookTokens(l)' \cap mailed' = {}
             /\ HookTokens(l)' \cap ThreadTokens(t)' = {}
  <2>1. /\ HookTokens(l) \subseteq 1..issued /\ HookTokens(l) \cap mailed = {}
        /\ HookTokens(l) \cap ThreadTokens(t) = {}
    BY DEF TokenInv
  <2> QED
    BY <1>2, <2>1
<1>6. ASSUME NEW r \in Threads, NEW s \in Threads, r # s
      PROVE  ThreadTokens(r)' \cap ThreadTokens(s)' = {}
  BY <1>1, <1>4, <1>6 DEF TokenInv
<1>7. ASSUME NEW l \in Loops, NEW s \in Threads
      PROVE  HookTokens(l)' \cap ThreadTokens(s)' = {}
  BY <1>1, <1>2, <1>5 DEF TokenInv
<1>8. ASSUME NEW l \in Loops, NEW m \in Loops, l # m
      PROVE  HookTokens(l)' \cap HookTokens(m)' = {}
  BY <1>2, <1>8 DEF TokenInv
<1> QED
  BY <1>3, <1>4, <1>5, <1>6, <1>7, <1>8 DEF TokenInv

(* A step of one webhook, or of one thread, keeps the invariant if it      *)
(* keeps the row and the token discipline, and its own part.               *)
LEMMA HookFrame ==
  ASSUME IInv, NEW l \in Loops, NEW STATE r, r \in HookState,
         hook' = [hook EXCEPT ![l] = r],
         UNCHANGED <<stripe, thread, expired, used>>,
         RowKept, row'.token \in 0..issued', row'.token \notin used,
         issued' \in 0..MaxTokens, issued <= issued',
         HookTokens(l)' \subseteq HookTokens(l) \cup (issued + 1)..issued',
         mailed \subseteq mailed',
         mailed' \subseteq mailed \cup (HookTokens(l) \ HookTokens(l)'),
         HookInv(l)', AckedInv'
  PROVE  IInv'
<1>1. Shape'
  BY DEF IInv, Shape, stripe
<1>2. RowInv'
  BY DEF RowInv, RowKept, UsedTokenIsDead
<1>3. /\ \A m \in Loops : m # l => hook'[m] = hook[m]
      /\ issued \in Nat /\ issued' \in Nat
  BY DEF IInv, Shape
<1>4. TokenInv'
  <2>1. TokenInv /\ thread' = thread
    BY DEF IInv
  <2> QED
    BY <1>3, <2>1, HookTokensKept
<1>5. Sent' = Sent
  BY DEF Sent, stripe
<1>6. (\A m \in Loops : HookInv(m)') /\ (\A t \in Threads : ThreadInv(t)')
  BY <1>3, <1>5, Undisturbed
<1> QED
  BY <1>1, <1>2, <1>4, <1>6 DEF IInv

LEMMA ThreadFrame ==
  ASSUME IInv, NEW t \in Threads, NEW STATE r, r \in ThreadState,
         thread' = [thread EXCEPT ![t] = r],
         UNCHANGED <<stripe, hook, acked, expired>>,
         RowKept, row'.token \in 0..issued', row'.token \notin used',
         issued' \in 0..MaxTokens, issued <= issued', used' \subseteq mailed,
         ThreadTokens(t)' \subseteq ThreadTokens(t) \cup (issued + 1)..issued',
         mailed \subseteq mailed',
         mailed' \subseteq mailed \cup (ThreadTokens(t) \ ThreadTokens(t)'),
         ThreadInv(t)'
  PROVE  IInv'
<1>1. Shape'
  BY DEF IInv, Shape, stripe
<1>2. RowInv'
  BY DEF RowInv, RowKept, UsedTokenIsDead
<1>3. /\ \A s \in Threads : s # t => thread'[s] = thread[s]
      /\ issued \in Nat /\ issued' \in Nat
  BY DEF IInv, Shape
<1>4. TokenInv'
  <2>1. TokenInv /\ hook' = hook
    BY DEF IInv
  <2> QED
    BY <1>3, <2>1, ThreadTokensKept
<1>5. Sent' = Sent
  BY DEF Sent, stripe
<1>6. (\A l \in Loops : HookInv(l)') /\ (\A s \in Threads : ThreadInv(s)')
  BY <1>3, <1>5, Undisturbed
<1>7. AckedInv'
  BY DEF IInv, AckedInv, AckedHasAccount, RowKept
<1> QED
  BY <1>1, <1>2, <1>4, <1>6, <1>7 DEF IInv

(* Steps that touch neither the row nor the tokens. *)
LEMMA HookLocal ==
  ASSUME IInv, NEW l \in Loops, NEW STATE r, r \in HookState,
         hook' = [hook EXCEPT ![l] = r],
         UNCHANGED <<row, stripe, thread, tokens>>,
         HookTokens(l)' \subseteq HookTokens(l), HookInv(l)', AckedInv'
  PROVE  IInv'
<1>1. RowKept
  BY SameRow DEF IInv
<1>2. /\ row'.token \in 0..issued' /\ row'.token \notin used
      /\ issued' \in 0..MaxTokens /\ issued <= issued'
  BY DEF IInv, Shape, RowInv, UsedTokenIsDead, tokens
<1>3. /\ HookTokens(l)' \subseteq HookTokens(l) \cup (issued + 1)..issued'
      /\ mailed \subseteq mailed'
      /\ mailed' \subseteq mailed \cup (HookTokens(l) \ HookTokens(l)')
      /\ UNCHANGED <<stripe, thread, expired, used>>
  BY DEF tokens
<1> QED
  BY <1>1, <1>2, <1>3, HookFrame

LEMMA ThreadLocal ==
  ASSUME IInv, NEW t \in Threads, NEW STATE r, r \in ThreadState,
         thread' = [thread EXCEPT ![t] = r],
         UNCHANGED <<row, stripe, acked, hook, tokens>>,
         ThreadTokens(t)' \subseteq ThreadTokens(t), ThreadInv(t)'
  PROVE  IInv'
<1>1. RowKept
  BY SameRow DEF IInv
<1>2. /\ row'.token \in 0..issued' /\ row'.token \notin used'
      /\ issued' \in 0..MaxTokens /\ issued <= issued' /\ used' \subseteq mailed
  BY DEF IInv, Shape, RowInv, UsedTokenIsDead, tokens
<1>3. /\ ThreadTokens(t)' \subseteq ThreadTokens(t) \cup (issued + 1)..issued'
      /\ mailed \subseteq mailed'
      /\ mailed' \subseteq mailed \cup (ThreadTokens(t) \ ThreadTokens(t)')
      /\ UNCHANGED <<stripe, hook, acked, expired>>
  BY DEF tokens
<1> QED
  BY <1>1, <1>2, <1>3, ThreadFrame

(* The handler is over. *)
LEMMA IdleHook ==
  ASSUME IInv, NEW l \in Loops, hook' = [hook EXCEPT ![l] = Idle]
  PROVE  Idle \in HookState /\ HookTokens(l)' = {} /\ HookInv(l)'
<1>1. Idle \in HookState /\ hook'[l] = Idle
  BY DEF HookState, IInv, Shape
<1> QED
  BY <1>1 DEF HookTokens, HookInv, Idle

LEMMA FailKeeps ==
  ASSUME IInv, NEW l \in Loops, Fail(l), UNCHANGED <<row, stripe, thread, tokens>>
  PROVE  IInv'
<1>1. AckedInv'
  BY DEF IInv, AckedInv, AckedHasAccount, Fail
<1> QED
  BY <1>1, IdleHook, HookLocal DEF Fail

(* The handler answers 2xx, a checkout only once there is an account. *)
LEMMA AckedKept ==
  ASSUME IInv, NEW l \in Loops, ~ At(l, "idle"), Ack(l), row' = row,
         hook[l].event.type = "checkout" => Linkage
  PROVE  AckedInv'
<1>1. hook[l].event \in Event
  BY HookShapes DEF IInv, Shape, At
<1> QED
  BY <1>1 DEF IInv, AckedInv, AckedHasAccount, Ack, Linkage

LEMMA AckKeeps ==
  ASSUME IInv, NEW l \in Loops, ~ At(l, "idle"), Ack(l),
         UNCHANGED <<row, stripe, thread, tokens>>,
         hook[l].event.type = "checkout" => Linkage
  PROVE  IInv'
BY AckedKept, IdleHook, HookLocal DEF Ack

-----------------------------------------------------------------------------
(* The webhook *)

LEMMA Moved ==
  ASSUME IInv, NEW l \in Loops, NEW STATE r, hook' = [hook EXCEPT ![l] = r]
  PROVE  hook'[l] = r
BY DEF IInv, Shape

LEMMA DeliverKeeps ==
  ASSUME IInv, NEW l \in Loops, NEW e \in Sent, Deliver(l, e)
  PROVE  IInv'
<1> DEFINE r == [pc |-> e.type, event |-> e]
<1>1. e \in Event /\ e.type \in {"checkout", "deleted"} /\ Sent' = Sent
  BY DEF Sent, Event, Deliver, stripe
<1>2. r \in HookState /\ hook'[l] = r
  BY <1>1, Moved DEF HookState, Deliver
<1>3. HookTokens(l)' = {} /\ HookInv(l)'
  BY <1>1, <1>2 DEF HookTokens, HookInv
<1>4. AckedInv'
  BY DEF IInv, AckedInv, AckedHasAccount, Deliver
<1> QED
  BY <1>2, <1>3, <1>4, HookLocal DEF Deliver

(* What the handler of an event knows before its next step. *)
LEMMA Working ==
  ASSUME IInv, NEW l \in Loops, ~ At(l, "idle")
  PROVE  /\ hook[l] \in HookState /\ HookInv(l)
         /\ hook[l].event \in Event /\ hook[l].event \in Sent
BY HookShapes DEF IInv, Shape, At, HookInv

LEMMA CheckoutKeeps ==
  ASSUME IInv, NEW l \in Loops, CheckoutKnown(l) \/ CheckoutNew(l)
  PROVE  IInv'
<1>1. ~ At(l, "idle") /\ At(l, "checkout")
  BY DEF At, CheckoutKnown, CheckoutNew
<1>2. CASE CheckoutKnown(l)
  <2>1. Linkage
    BY <1>1, <1>2, Working DEF CheckoutKnown, Linked, Linkage, Event
  <2> QED
    BY <1>1, <1>2, <2>1, AckKeeps DEF CheckoutKnown
<1>3. CASE CheckoutNew(l)
  <2> DEFINE r == [pc |-> "retrieve", event |-> hook[l].event]
  <2>1. hook' = [hook EXCEPT ![l] = r]
    BY <1>3 DEF CheckoutNew, Goto
  <2>2. r \in HookState /\ hook'[l] = r
    BY <1>1, <2>1, Working, Moved DEF HookState
  <2>3. HookTokens(l)' = {} /\ HookInv(l)'
    BY <1>1, <1>3, <2>2, Working
       DEF HookTokens, HookInv, At, CheckoutNew, Sent, stripe
  <2>4. AckedInv'
    BY <1>3 DEF IInv, AckedInv, AckedHasAccount, CheckoutNew
  <2> QED
    BY <1>3, <2>1, <2>2, <2>3, <2>4, HookLocal DEF CheckoutNew
<1> QED
  BY <1>2, <1>3

LEMMA RetrieveKeeps ==
  ASSUME IInv, NEW l \in Loops, RetrieveAndLookup(l)
  PROVE  IInv'
<1> DEFINE r == [pc |-> IF row.exists THEN "link" ELSE "create",
                 event |-> hook[l].event, loaded |-> row]
<1>1. At(l, "retrieve") /\ ~ At(l, "idle") /\ hook' = [hook EXCEPT ![l] = r]
  BY DEF At, RetrieveAndLookup
<1>2. r \in HookState /\ hook'[l] = r
  BY <1>1, Working, Moved DEF HookState, IInv, RowInv
<1>3. Sent' = Sent /\ row' = row
  BY DEF RetrieveAndLookup, Sent, stripe
<1>4. HookTokens(l)' = {} /\ HookInv(l)'
  BY <1>1, <1>2, <1>3, Working DEF HookTokens, HookInv, At, Precedes
<1>5. AckedInv'
  BY DEF IInv, AckedInv, AckedHasAccount, RetrieveAndLookup
<1> QED
  BY <1>1, <1>2, <1>4, <1>5, HookLocal DEF RetrieveAndLookup

(* The commits of the webhook that update an existing row. *)
LEMMA LinkKeeps ==
  ASSUME IInv, NEW l \in Loops, LinkExisting(l)
  PROVE  IInv' /\ RowKept
<1> DEFINE was == hook[l].loaded
           c == hook[l].event.customer
           new == [was EXCEPT !.customer = c]
           r == [pc |-> "answer", event |-> hook[l].event]
<1>1. At(l, "link") /\ ~ At(l, "idle") /\ hook' = [hook EXCEPT ![l] = r]
  BY DEF At, LinkExisting, Goto
<1>2. was \in Row /\ c \in Customers /\ Precedes(was)
  BY <1>1, HookShapes, Working DEF At, HookInv, Event
<1>3. /\ new \in Row /\ new.customer = c /\ new.token = was.token
      /\ new.exists = was.exists /\ new.password = was.password
  BY <1>2 DEF Row
<1>4. Update(was, new) /\ RowInv
  BY DEF LinkExisting, IInv
<1> HIDE DEF new
<1>5. /\ RowKept /\ row'.exists /\ row'.customer # NoCustomer
  BY <1>2, <1>3, <1>4, LateWrite
<1>6. row'.token = row.token
  BY <1>2, <1>3, <1>4, UpdatedRow DEF RowInv
<1>7. r \in HookState /\ hook'[l] = r
  BY <1>1, Working, Moved DEF HookState
<1>8. HookTokens(l)' = {} /\ HookInv(l)'
  BY <1>1, <1>5, <1>7, Working
     DEF HookTokens, HookInv, Linkage, LinkExisting, Sent, stripe
<1>9. AckedInv'
  BY <1>5 DEF IInv, AckedInv, AckedHasAccount, LinkExisting
<1>10. /\ row'.token \in 0..issued' /\ row'.token \notin used
       /\ issued' \in 0..MaxTokens /\ issued <= issued'
       /\ mailed' = mailed /\ UNCHANGED <<stripe, thread, expired, used>>
  BY <1>6 DEF IInv, Shape, RowInv, UsedTokenIsDead, LinkExisting, tokens
<1> QED
  BY <1>1, <1>5, <1>7, <1>8, <1>9, <1>10, HookFrame

LEMMA CreateUserKeeps ==
  ASSUME IInv, NEW l \in Loops, CreateUser(l)
  PROVE  IInv' /\ RowKept
<1> DEFINE k == issued + 1
           r == [pc |-> "refresh", event |-> hook[l].event, token |-> k]
<1>1. /\ At(l, "create") /\ ~ At(l, "idle") /\ hook' = [hook EXCEPT ![l] = r]
      /\ ~ row.exists /\ row' = NewRow("random") /\ row = NoRow
  BY DEF At, CreateUser, IInv, RowInv
<1>2. issued \in Nat /\ issued' = k /\ k \in Tokens /\ k \in 1..MaxTokens
  BY DEF IInv, Shape, CreateUser, Tokens
<1>3. RowKept /\ row'.exists /\ row'.token = 0
  BY <1>1, Rows DEF RowKept
<1>4. r \in HookState /\ hook'[l] = r
  BY <1>1, <1>2, Working, Moved DEF HookState
<1>5. /\ HookTokens(l)' \subseteq (issued + 1)..issued'
      /\ HookTokens(l) = {}
  BY <1>1, <1>2, <1>4 DEF HookTokens, At
<1>6. HookInv(l)'
  BY <1>1, <1>3, <1>4, Working DEF HookInv, At, CreateUser, Sent, stripe
<1>7. AckedInv'
  BY <1>1 DEF IInv, AckedInv, AckedHasAccount, CreateUser
<1>8. 0 \notin used
  BY DEF IInv, Shape, TokenInv
<1>9. UNCHANGED <<stripe, thread, expired, used>> /\ mailed' = mailed
  BY DEF CreateUser
<1>10. /\ row'.token \in 0..issued' /\ row'.token \notin used
       /\ issued' \in 0..MaxTokens /\ issued <= issued'
  BY <1>2, <1>3, <1>8
<1> QED
  BY <1>1, <1>3, <1>4, <1>5, <1>6, <1>7, <1>9, <1>10, HookFrame

LEMMA RefreshUserKeeps ==
  ASSUME IInv, NEW l \in Loops, RefreshUser(l)
  PROVE  IInv'
<1> DEFINE r == [pc |-> "complete", event |-> hook[l].event,
                 token |-> hook[l].token, loaded |-> row]
<1>1. At(l, "refresh") /\ ~ At(l, "idle") /\ hook' = [hook EXCEPT ![l] = r]
  BY DEF At, RefreshUser
<1>2. hook[l].token \in Tokens /\ row \in Row /\ row' = row /\ row.exists
  BY <1>1, HookShapes, Working DEF At, RefreshUser, IInv, RowInv, HookInv
<1>3. r \in HookState /\ hook'[l] = r
  BY <1>1, <1>2, Working, Moved DEF HookState
<1>4. HookTokens(l)' = HookTokens(l)
  BY <1>1, <1>3 DEF HookTokens, At
<1>5. HookInv(l)'
  BY <1>1, <1>2, <1>3, Working
     DEF HookInv, At, Precedes, RefreshUser, Sent, stripe
<1>6. AckedInv'
  BY DEF IInv, AckedInv, AckedHasAccount, RefreshUser
<1> QED
  BY <1>1, <1>3, <1>4, <1>5, <1>6, HookLocal DEF RefreshUser

LEMMA CompleteKeeps ==
  ASSUME IInv, NEW l \in Loops, CompleteUser(l)
  PROVE  IInv' /\ RowKept
<1> DEFINE was == hook[l].loaded
           c == hook[l].event.customer
           k == hook[l].token
           new == [was EXCEPT !.customer = c, !.token = k]
           r == [pc |-> "mail", event |-> hook[l].event, token |-> k]
<1>1. At(l, "complete") /\ ~ At(l, "idle") /\ hook' = [hook EXCEPT ![l] = r]
  BY DEF At, CompleteUser
<1>2. was \in Row /\ c \in Customers /\ Precedes(was) /\ k \in Tokens
  BY <1>1, HookShapes, Working DEF At, HookInv, Event
<1>3. /\ new \in Row /\ new.customer = c /\ new.token = k
      /\ new.exists = was.exists /\ new.password = was.password
  BY <1>2 DEF Row
<1>4. Update(was, new) /\ RowInv
  BY DEF CompleteUser, IInv
<1> HIDE DEF new
<1>5. /\ RowKept /\ row'.exists /\ row'.customer # NoCustomer
      /\ row'.token \in {row.token, k}
  BY <1>2, <1>3, <1>4, LateWrite
<1>6. r \in HookState /\ hook'[l] = r
  BY <1>1, <1>2, Working, Moved DEF HookState
<1>7. HookTokens(l)' = HookTokens(l) /\ HookTokens(l) = {k}
  BY <1>1, <1>6 DEF HookTokens, At
<1>8. HookInv(l)'
  BY <1>1, <1>5, <1>6, Working
     DEF HookInv, At, Linkage, CompleteUser, Sent, stripe
<1>9. AckedInv'
  BY <1>5 DEF IInv, AckedInv, AckedHasAccount, CompleteUser
<1>10. k \in 1..issued /\ k \notin used
  BY <1>7 DEF IInv, TokenInv, Shape
<1>11. /\ row'.token \in 0..issued' /\ row'.token \notin used
       /\ issued' \in 0..MaxTokens /\ issued <= issued'
       /\ mailed' = mailed /\ UNCHANGED <<stripe, thread, expired, used>>
  BY <1>5, <1>10 DEF IInv, Shape, RowInv, UsedTokenIsDead, CompleteUser, tokens
<1> QED
  BY <1>1, <1>5, <1>6, <1>7, <1>8, <1>9, <1>11, HookFrame

(* The token leaves the handler for the mailbox, or is lost. *)
LEMMA WelcomeKeeps ==
  ASSUME IInv, NEW l \in Loops, Welcome(l)
  PROVE  IInv'
<1>1. /\ At(l, "mail") /\ ~ At(l, "idle") /\ Ack(l) /\ row' = row
      /\ UNCHANGED <<stripe, thread, expired, used>> /\ issued' = issued
  BY DEF At, Welcome
<1>2. Linkage
  BY <1>1, Working DEF HookInv, At
<1>3. AckedInv'
  BY <1>1, <1>2, AckedKept
<1>4. /\ hook' = [hook EXCEPT ![l] = Idle] /\ Idle \in HookState
      /\ HookTokens(l)' = {} /\ HookInv(l)'
  BY <1>1, IdleHook DEF Ack
<1>5. HookTokens(l) = {hook[l].token}
  BY <1>1 DEF HookTokens, At
<1>6. /\ mailed \subseteq mailed'
      /\ mailed' \subseteq mailed \cup (HookTokens(l) \ HookTokens(l)')
  BY <1>4, <1>5 DEF Welcome
<1>7. /\ RowKept /\ row'.token \in 0..issued' /\ row'.token \notin used
      /\ issued' \in 0..MaxTokens /\ issued <= issued'
  BY <1>1, SameRow DEF IInv, Shape, RowInv, UsedTokenIsDead
<1> QED
  BY <1>1, <1>3, <1>4, <1>6, <1>7, HookFrame

LEMMA DeletedKeeps ==
  ASSUME IInv, NEW l \in Loops, DeletedUnknown(l) \/ DeletedFound(l)
  PROVE  IInv'
<1>1. ~ At(l, "idle") /\ At(l, "deleted")
  BY DEF At, DeletedUnknown, DeletedFound
<1>2. hook[l].event.type = "deleted"
  BY <1>1, Working DEF HookInv, At
<1>3. CASE DeletedUnknown(l)
  BY <1>1, <1>2, <1>3, AckKeeps DEF DeletedUnknown
<1>4. CASE DeletedFound(l)
  <2> DEFINE r == [pc |-> "deactivate", event |-> hook[l].event, loaded |-> row]
  <2>1. hook' = [hook EXCEPT ![l] = r] /\ row' = row /\ row.exists
    BY <1>4 DEF DeletedFound, Linked
  <2>2. r \in HookState /\ hook'[l] = r
    BY <1>1, <2>1, Working, Moved DEF HookState, IInv, RowInv
  <2>3. HookTokens(l)' = {} /\ HookInv(l)'
    BY <1>1, <1>2, <1>4, <2>1, <2>2, Working
       DEF HookTokens, HookInv, Precedes, DeletedFound, Sent, stripe
  <2>4. AckedInv'
    BY <1>4 DEF IInv, AckedInv, AckedHasAccount, DeletedFound
  <2> QED
    BY <1>4, <2>1, <2>2, <2>3, <2>4, HookLocal DEF DeletedFound
<1> QED
  BY <1>3, <1>4

LEMMA DeactivateKeeps ==
  ASSUME IInv, NEW l \in Loops, Deactivate(l)
  PROVE  IInv' /\ RowKept
<1> DEFINE was == hook[l].loaded
           new == [was EXCEPT !.active = FALSE]
           r == [pc |-> "answer", event |-> hook[l].event]
<1>1. /\ At(l, "deactivate") /\ ~ At(l, "idle")
      /\ hook' = [hook EXCEPT ![l] = r]
  BY DEF At, Deactivate, Goto
<1>2. was \in Row /\ Precedes(was) /\ hook[l].event.type = "deleted"
  BY <1>1, HookShapes, Working DEF At, HookInv
<1>3. /\ new \in Row /\ new.customer = was.customer /\ new.token = was.token
      /\ new.exists = was.exists /\ new.password = was.password
  BY <1>2 DEF Row
<1>4. Update(was, new) /\ RowInv
  BY DEF Deactivate, IInv
<1> HIDE DEF new
<1>5. RowKept
  BY <1>2, <1>3, <1>4, LateWrite
<1>6. row'.token = row.token
  BY <1>2, <1>3, <1>4, UpdatedRow DEF RowInv
<1>7. r \in HookState /\ hook'[l] = r
  BY <1>1, Working, Moved DEF HookState
<1>8. HookTokens(l)' = {} /\ HookInv(l)'
  BY <1>1, <1>2, <1>7, Working DEF HookTokens, HookInv, Deactivate, Sent, stripe
<1>9. AckedInv'
  BY <1>5 DEF IInv, AckedInv, AckedHasAccount, RowKept, Deactivate
<1>10. /\ row'.token \in 0..issued' /\ row'.token \notin used
       /\ issued' \in 0..MaxTokens /\ issued <= issued'
       /\ mailed' = mailed /\ UNCHANGED <<stripe, thread, expired, used>>
  BY <1>6 DEF IInv, Shape, RowInv, UsedTokenIsDead, Deactivate, tokens
<1> QED
  BY <1>1, <1>5, <1>7, <1>8, <1>9, <1>10, HookFrame

LEMMA AnswerKeeps ==
  ASSUME IInv, NEW l \in Loops, Answer(l)
  PROVE  IInv'
<1>1. At(l, "answer") /\ ~ At(l, "idle")
  BY DEF At, Answer
<1>2. hook[l].event.type = "checkout" => Linkage
  BY <1>1, Working DEF HookInv, At
<1> QED
  BY <1>1, <1>2, AckKeeps DEF Answer

LEMMA HookStepKeeps ==
  ASSUME IInv, NEW l \in Loops,
         HookStep(l) \/ RetrieveFails(l) \/ HookCrash(l)
  PROVE  IInv' /\ RowKept
<1>1. CASE LinkExisting(l) \/ CreateUser(l) \/ CompleteUser(l) \/ Deactivate(l)
  BY <1>1, LinkKeeps, CreateUserKeeps, CompleteKeeps, DeactivateKeeps
<1>2. CASE CreateConflicts(l) \/ RetrieveFails(l) \/ NoEmailRefused(l)
             \/ HookCrash(l)
  BY <1>2, FailKeeps, SameRow
     DEF CreateConflicts, RetrieveFails, NoEmailRefused, HookCrash, IInv
<1>3. ASSUME row' = row PROVE RowKept
  BY <1>3, SameRow DEF IInv
<1>4. CASE CheckoutKnown(l) \/ CheckoutNew(l) \/ RetrieveAndLookup(l)
             \/ RefreshUser(l) \/ Welcome(l) \/ DeletedUnknown(l)
             \/ DeletedFound(l) \/ Answer(l)
  BY <1>3, <1>4, CheckoutKeeps, RetrieveKeeps, RefreshUserKeeps, WelcomeKeeps,
     DeletedKeeps, AnswerKeeps
     DEF CheckoutKnown, CheckoutNew, RetrieveAndLookup, RefreshUser, Welcome,
         DeletedUnknown, DeletedFound, Answer
<1> QED
  BY <1>1, <1>2, <1>4 DEF HookStep

-----------------------------------------------------------------------------
(* The other endpoints *)

LEMMA Served ==
  ASSUME IInv, NEW t \in Threads, NEW STATE r, Serve(t, r)
  PROVE  thread'[t] = r
BY DEF IInv, Shape, Serve

LEMMA IdleThread ==
  ASSUME IInv, NEW t \in Threads, Done(t)
  PROVE  Idle \in ThreadState /\ ThreadTokens(t)' = {} /\ ThreadInv(t)'
<1>1. Idle \in ThreadState /\ thread'[t] = Idle
  BY Served DEF ThreadState, Done
<1> QED
  BY <1>1 DEF ThreadTokens, ThreadInv, Idle

LEMMA SignUpKeeps ==
  ASSUME IInv, NEW t \in Threads,
         \/ \E password \in {"none"} \cup Passwords : SignUpBegin(t, password)
         \/ SignUpInsert(t)
  PROVE  IInv' /\ RowKept
<1>1. ASSUME NEW password \in {"none"} \cup Passwords,
             SignUpBegin(t, password)
      PROVE  IInv' /\ RowKept
  <2> DEFINE r == [pc |-> "signup", password |-> password]
  <2>1. r \in ThreadState /\ thread'[t] = r
    BY <1>1, Served DEF ThreadState, SignUpBegin
  <2>2. ThreadTokens(t)' = {} /\ ThreadInv(t)'
    BY <2>1 DEF ThreadTokens, ThreadInv
  <2> QED
    BY <1>1, <2>1, <2>2, ThreadLocal, SameRow DEF SignUpBegin, Serve, IInv
<1>2. CASE SignUpInsert(t)
  <2>1. thread[t].password \in {"none"} \cup Passwords
    BY <1>2, ThreadShapes DEF IInv, Shape, SignUpInsert
  <2>2. row' = row \/ (~ row.exists /\ row' = NewRow(thread[t].password))
    BY <1>2 DEF SignUpInsert
  <2>3. RowKept /\ (row'.token = row.token \/ row'.token = 0)
    <3>1. CASE row' = row
      BY <3>1, SameRow DEF IInv
    <3>2. CASE ~ row.exists /\ row' = NewRow(thread[t].password)
      <4>1. row = NoRow
        BY <3>2 DEF IInv, RowInv
      <4> QED
        BY <2>1, <3>2, <4>1, Rows DEF RowKept
    <3> QED
      BY <2>2, <3>1, <3>2
  <2>4. 0 \notin used /\ row.token \notin used /\ row.token \in 0..issued
    BY DEF IInv, Shape, TokenInv, RowInv, UsedTokenIsDead
  <2>5. /\ row'.token \in 0..issued' /\ row'.token \notin used'
        /\ issued' \in 0..MaxTokens /\ issued <= issued'
        /\ used' \subseteq mailed /\ mailed' = mailed
        /\ UNCHANGED <<stripe, hook, acked, expired>>
    BY <1>2, <2>3, <2>4 DEF SignUpInsert, tokens, IInv, Shape
  <2> QED
    BY <1>2, <2>3, <2>5, IdleThread, ThreadFrame DEF SignUpInsert, Done, Serve
<1> QED
  BY <1>1, <1>2

LEMMA ForgotBeginKeeps ==
  ASSUME IInv, NEW t \in Threads, ForgotBegin(t)
  PROVE  IInv' /\ RowKept
<1> DEFINE k == issued + 1
           r == [pc |-> "forgot", loaded |-> row, token |-> k]
<1>1. issued \in Nat /\ issued' = k /\ k \in Tokens /\ k \in 1..MaxTokens
  BY DEF IInv, Shape, ForgotBegin, Tokens
<1>2. RowKept /\ row' = row /\ row.exists
  BY SameRow DEF IInv, ForgotBegin
<1>3. r \in ThreadState /\ thread'[t] = r /\ thread' = [thread EXCEPT ![t] = r]
  BY <1>1, Served DEF ThreadState, ForgotBegin, IInv, RowInv, Serve
<1>4. ThreadTokens(t)' \subseteq (issued + 1)..issued'
  BY <1>1, <1>3 DEF ThreadTokens
<1>5. ThreadInv(t)'
  BY <1>2, <1>3 DEF ThreadInv, Precedes
<1>6. /\ row'.token \in 0..issued' /\ row'.token \notin used'
      /\ issued' \in 0..MaxTokens /\ issued <= issued'
      /\ used' \subseteq mailed /\ mailed' = mailed
      /\ UNCHANGED <<stripe, hook, acked, expired>>
  BY <1>1, <1>2 DEF ForgotBegin, IInv, Shape, RowInv, UsedTokenIsDead
<1> QED
  BY <1>2, <1>3, <1>4, <1>5, <1>6, ThreadFrame

LEMMA ForgotWriteKeeps ==
  ASSUME IInv, NEW t \in Threads, ForgotWrite(t)
  PROVE  IInv' /\ RowKept
<1> DEFINE was == thread[t].loaded
           k == thread[t].token
           new == [was EXCEPT !.token = k]
           r == [pc |-> "mail", token |-> k]
<1>1. /\ thread[t] \in ThreadState /\ thread[t].pc = "forgot"
      /\ thread' = [thread EXCEPT ![t] = r]
  BY DEF IInv, Shape, ForgotWrite, Serve
<1>2. was \in Row /\ k \in Tokens /\ Precedes(was)
  BY <1>1, ThreadShapes DEF IInv, ThreadInv
<1>3. /\ new \in Row /\ new.customer = was.customer /\ new.token = k
      /\ new.exists = was.exists /\ new.password = was.password
  BY <1>2 DEF Row
<1>4. Update(was, new) /\ RowInv
  BY DEF ForgotWrite, IInv
<1> HIDE DEF new
<1>5. RowKept /\ row'.token \in {row.token, k}
  BY <1>2, <1>3, <1>4, LateWrite
<1>6. r \in ThreadState /\ thread'[t] = r
  BY <1>1, <1>2 DEF ThreadState, IInv, Shape
<1>7. ThreadTokens(t) = {k} /\ ThreadTokens(t)' = {k} /\ ThreadInv(t)'
  BY <1>1, <1>6 DEF ThreadTokens, ThreadInv
<1>8. k \in 1..issued /\ k \notin used
  BY <1>7 DEF IInv, TokenInv, Shape
<1>9. /\ row'.token \in 0..issued' /\ row'.token \notin used'
      /\ issued' \in 0..MaxTokens /\ issued <= issued'
      /\ used' \subseteq mailed /\ mailed' = mailed
      /\ UNCHANGED <<stripe, hook, acked, expired>>
  BY <1>5, <1>8 DEF ForgotWrite, IInv, Shape, RowInv, UsedTokenIsDead, tokens
<1> QED
  BY <1>1, <1>5, <1>6, <1>7, <1>9, ThreadFrame

LEMMA ForgotMailKeeps ==
  ASSUME IInv, NEW t \in Threads, ForgotMail(t)
  PROVE  IInv' /\ RowKept
<1>1. /\ thread[t].pc = "mail" /\ Done(t) /\ row' = row /\ RowKept
      /\ UNCHANGED <<stripe, hook, acked, expired, used>> /\ issued' = issued
  BY SameRow DEF ForgotMail, IInv
<1>2. /\ ThreadTokens(t) = {thread[t].token} /\ ThreadTokens(t)' = {}
      /\ Idle \in ThreadState /\ ThreadInv(t)'
  BY <1>1, IdleThread DEF ThreadTokens
<1>3. /\ mailed \subseteq mailed'
      /\ mailed' \subseteq mailed \cup (ThreadTokens(t) \ ThreadTokens(t)')
  BY <1>2 DEF ForgotMail
<1>4. /\ row'.token \in 0..issued' /\ row'.token \notin used'
      /\ issued' \in 0..MaxTokens /\ issued <= issued'
      /\ used' \subseteq mailed
  BY <1>1 DEF IInv, Shape, RowInv, UsedTokenIsDead
<1> QED
  BY <1>1, <1>2, <1>3, <1>4, ThreadFrame DEF Done, Serve

LEMMA SetPasswordBeginKeeps ==
  ASSUME IInv, NEW t \in Threads, NEW k \in Tokens, NEW password \in Passwords,
         SetPasswordBegin(t, k, password)
  PROVE  IInv' /\ RowKept
<1> DEFINE r == [pc |-> "set", loaded |-> row, password |-> password]
<1>1. k \in mailed /\ row.token = k /\ row' = row /\ RowKept /\ row \in Row
  BY SameRow DEF SetPasswordBegin, IInv, RowInv
<1>2. row.exists
  BY <1>1, Rows DEF IInv, RowInv, TokenInv
<1>3. r \in ThreadState /\ thread'[t] = r /\ thread' = [thread EXCEPT ![t] = r]
  BY <1>1, Served DEF ThreadState, SetPasswordBegin, Serve
<1>4. ThreadTokens(t)' = {} /\ ThreadInv(t)'
  BY <1>1, <1>2, <1>3
     DEF ThreadTokens, ThreadInv, Precedes, SetPasswordBegin, tokens
<1> QED
  BY <1>1, <1>3, <1>4, ThreadLocal DEF SetPasswordBegin

(* The token that was used leaves the row, whatever the row holds by now.  *)
LEMMA SetPasswordWriteKeeps ==
  ASSUME IInv, NEW t \in Threads, SetPasswordWrite(t)
  PROVE  IInv' /\ RowKept
<1> DEFINE was == thread[t].loaded
           p == thread[t].password
           new == [was EXCEPT !.password = p, !.token = 0, !.active = TRUE]
<1>1. /\ thread[t] \in ThreadState /\ thread[t].pc = "set" /\ Done(t)
      /\ used' = used \cup {was.token}
  BY DEF IInv, Shape, SetPasswordWrite
<1>2. was \in Row /\ Precedes(was) /\ was.token \in mailed /\ p \in Passwords
  BY <1>1, ThreadShapes DEF IInv, ThreadInv
<1>3. /\ new \in Row /\ new.customer = was.customer /\ new.token = 0
      /\ new.exists = was.exists /\ new.password = p
  BY <1>2 DEF Row
<1>4. Update(was, new) /\ RowInv
  BY DEF SetPasswordWrite, IInv
<1> HIDE DEF new
<1>5. RowKept
  BY <1>2, <1>3, <1>4, LateWrite
<1>6. 0 \notin mailed /\ was.token # 0
  BY <1>2 DEF IInv, TokenInv
<1>7. row'.token = 0
  BY <1>2, <1>3, <1>4, <1>6, UpdatedRow DEF RowInv
<1>8. /\ row'.token \in 0..issued' /\ row'.token \notin used'
      /\ issued' \in 0..MaxTokens /\ issued <= issued'
      /\ used' \subseteq mailed /\ mailed' = mailed
      /\ UNCHANGED <<stripe, hook, acked, expired>>
  BY <1>1, <1>2, <1>6, <1>7 DEF SetPasswordWrite, IInv, Shape
<1> QED
  BY <1>1, <1>5, <1>8, IdleThread, ThreadFrame DEF Done, Serve

(* An administrator's password. *)
LEMMA PatchKeeps ==
  ASSUME IInv, NEW t \in Threads,
         \/ \E password \in Passwords : PatchBegin(t, password)
         \/ PatchWrite(t)
  PROVE  IInv' /\ RowKept
<1>1. ASSUME NEW password \in Passwords, PatchBegin(t, password)
      PROVE  IInv' /\ RowKept
  <2> DEFINE r == [pc |-> "patch", password |-> password]
  <2>1. r \in ThreadState /\ thread'[t] = r /\ row.exists /\ row' = row
    BY <1>1, Served DEF ThreadState, PatchBegin
  <2>2. ThreadTokens(t)' = {} /\ ThreadInv(t)'
    BY <2>1 DEF ThreadTokens, ThreadInv
  <2> QED
    BY <1>1, <2>1, <2>2, ThreadLocal, SameRow DEF PatchBegin, Serve, IInv
<1>2. CASE PatchWrite(t)
  <2> DEFINE p == thread[t].password
  <2>1. thread[t].pc = "patch" /\ p \in Passwords /\ row.exists /\ row \in Row
    BY <1>2, ThreadShapes DEF IInv, Shape, RowInv, ThreadInv, PatchWrite
  <2>2. row' = [row EXCEPT !.password = p]
    BY <1>2 DEF PatchWrite
  <2>3. /\ row' \in Row /\ row'.exists /\ row'.customer = row.customer
        /\ row'.token = row.token
    BY <2>1, <2>2 DEF Row
  <2>4. RowKept
    BY <2>3 DEF RowKept
  <2>5. /\ row'.token \in 0..issued' /\ row'.token \notin used'
        /\ issued' \in 0..MaxTokens /\ issued <= issued'
        /\ used' \subseteq mailed /\ mailed' = mailed
        /\ UNCHANGED <<stripe, hook, acked, expired>>
    BY <1>2, <2>3 DEF PatchWrite, tokens, IInv, Shape, RowInv, UsedTokenIsDead
  <2> QED
    BY <1>2, <2>4, <2>5, IdleThread, ThreadFrame DEF PatchWrite, Done, Serve
<1> QED
  BY <1>1, <1>2

LEMMA ThreadCrashKeeps ==
  ASSUME IInv, NEW t \in Threads, ThreadCrash(t)
  PROVE  IInv' /\ RowKept
BY IdleThread, ThreadLocal, SameRow DEF ThreadCrash, Done, Serve, IInv

-----------------------------------------------------------------------------
(* Stripe and time *)

LEMMA OthersKeep ==
  ASSUME IInv, UNCHANGED <<row, acked, hook, thread, issued, mailed, used>>,
         period' \in [Customers -> 0..MaxPeriods],
         cancelled' \in [Customers -> BOOLEAN],
         Sent \subseteq Sent', expired' \subseteq 1..issued
  PROVE  IInv' /\ RowKept
<1>1. RowKept
  BY SameRow DEF IInv
<1>2. Shape' /\ RowInv' /\ AckedInv'
  BY DEF IInv, Shape, RowInv, UsedTokenIsDead, AckedInv, AckedHasAccount
<1>3. TokenInv'
  BY DEF IInv, TokenInv, HookTokens, ThreadTokens
<1>4. (\A l \in Loops : HookInv(l)') /\ (\A t \in Threads : ThreadInv(t)')
  BY <1>1, Undisturbed
<1> QED
  BY <1>1, <1>2, <1>3, <1>4 DEF IInv

(* An event that was sent remains sent, through later subscriptions. *)
LEMMA StripeKeeps ==
  ASSUME IInv, NEW c \in Customers, Subscribe(c) \/ Cancel(c)
  PROVE  IInv' /\ RowKept
<1>1. /\ period \in [Customers -> 0..MaxPeriods]
      /\ cancelled \in [Customers -> BOOLEAN]
      /\ expired \subseteq 1..issued
  BY DEF IInv, Shape
<1>2. /\ period' \in [Customers -> 0..MaxPeriods]
      /\ cancelled' \in [Customers -> BOOLEAN]
  <2>1. CASE Subscribe(c)
    <3>1. period[c] + 1 \in 0..MaxPeriods
      BY <1>1, <2>1, BoundsAreNat DEF Subscribe
    <3> QED
      BY <1>1, <2>1, <3>1 DEF Subscribe
  <2>2. CASE Cancel(c)
    BY <1>1, <2>2 DEF Cancel
  <2> QED
    BY <2>1, <2>2
<1>3. ASSUME NEW e \in Sent PROVE e \in Sent'
  <2>1. e \in Event /\ e.customer \in Customers /\ e.period \in Nat
        /\ e.period <= period[e.customer]
    BY DEF Sent, Event, Periods
  <2>2. CASE Subscribe(c)
    BY <1>1, <2>1, <2>2 DEF Subscribe, Sent
  <2>3. CASE Cancel(c)
    BY <1>1, <2>1, <2>3 DEF Cancel, Sent
  <2> QED
    BY <2>2, <2>3
<1>4. /\ UNCHANGED <<row, acked, hook, thread, issued, mailed, used>>
      /\ expired' = expired
  BY DEF Subscribe, Cancel, tokens
<1> QED
  BY <1>1, <1>2, <1>3, <1>4, OthersKeep

LEMMA ExpireKeeps ==
  ASSUME IInv, NEW k \in Tokens, Expire(k)
  PROVE  IInv' /\ RowKept
<1>1. expired' \subseteq 1..issued
  BY DEF IInv, Shape, RowInv, Expire, Tokens
<1>2. /\ Sent' = Sent
      /\ UNCHANGED <<row, acked, hook, thread, issued, mailed, used>>
      /\ period' \in [Customers -> 0..MaxPeriods]
      /\ cancelled' \in [Customers -> BOOLEAN]
  BY DEF Expire, Sent, stripe, IInv, Shape
<1> QED
  BY <1>1, <1>2, OthersKeep

LEMMA NextIInv == IInv /\ [Next]_vars => IInv' /\ RowKept
<1> SUFFICES ASSUME IInv, [Next]_vars PROVE IInv' /\ RowKept
  OBVIOUS
<1>1. ASSUME NEW l \in Loops, NEW e \in Sent, Deliver(l, e)
      PROVE  IInv' /\ RowKept
  BY <1>1, DeliverKeeps, SameRow DEF Deliver, IInv
<1>2. ASSUME NEW t \in Threads,
             ClientRequest(t) \/ ThreadStep(t) \/ ThreadCrash(t)
      PROVE  IInv' /\ RowKept
  BY <1>2, SignUpKeeps, ForgotBeginKeeps, ForgotWriteKeeps, ForgotMailKeeps,
     SetPasswordBeginKeeps, SetPasswordWriteKeeps, PatchKeeps, ThreadCrashKeeps
     DEF ClientRequest, ThreadStep
<1>3. CASE UNCHANGED vars
  <2>1. /\ UNCHANGED <<row, acked, hook, thread, issued, mailed, used>>
        /\ UNCHANGED <<period, cancelled, expired>>
    BY <1>3 DEF vars, stripe, tokens
  <2>2. Sent' = Sent
    BY <2>1 DEF Sent
  <2> QED
    BY <2>1, <2>2, OthersKeep DEF IInv, Shape
<1> QED
  BY <1>1, <1>2, <1>3, HookStepKeeps, StripeKeeps, ExpireKeeps DEF Next

LEMMA Invariance == Spec => []IInv
BY InitIInv, NextIInv, PTL DEF Spec

-----------------------------------------------------------------------------
(* What the UPDATEs write beside the customer and the token *)

LEMMA LinkWrites ==
  ASSUME IInv, NEW l \in Loops, LinkExisting(l)
  PROVE  /\ row'.customer \in {row.customer, hook[l].event.customer}
         /\ row'.password = row.password /\ row'.active = row.active
<1> DEFINE was == hook[l].loaded
           new == [was EXCEPT !.customer = hook[l].event.customer]
<1>1. At(l, "link") /\ ~ At(l, "idle") /\ Update(was, new)
  BY DEF At, LinkExisting
<1>2. was \in Row /\ row \in Row /\ hook[l].event.customer \in Customers
  BY <1>1, HookShapes, Working DEF At, IInv, RowInv, Event
<1>3. /\ new \in Row /\ new.customer = hook[l].event.customer
      /\ new.password = was.password /\ new.active = was.active
  BY <1>2 DEF Row
<1> HIDE DEF new
<1> QED
  BY <1>1, <1>2, <1>3, UpdatedRow

LEMMA CompleteWrites ==
  ASSUME IInv, NEW l \in Loops, CompleteUser(l)
  PROVE  /\ row'.customer \in {row.customer, hook[l].event.customer}
         /\ row'.password = row.password /\ row'.active = row.active
<1> DEFINE was == hook[l].loaded
           new == [was EXCEPT !.customer = hook[l].event.customer,
                              !.token = hook[l].token]
<1>1. At(l, "complete") /\ ~ At(l, "idle") /\ Update(was, new)
  BY DEF At, CompleteUser
<1>2. /\ was \in Row /\ row \in Row /\ hook[l].token \in Tokens
      /\ hook[l].event.customer \in Customers
  BY <1>1, HookShapes, Working DEF At, IInv, RowInv, Event
<1>3. /\ new \in Row /\ new.customer = hook[l].event.customer
      /\ new.password = was.password /\ new.active = was.active
  BY <1>2 DEF Row
<1> HIDE DEF new
<1> QED
  BY <1>1, <1>2, <1>3, UpdatedRow

LEMMA DeactivateKeepsPassword ==
  ASSUME IInv, NEW l \in Loops, Deactivate(l)
  PROVE  row'.password = row.password
<1> DEFINE was == hook[l].loaded
           new == [was EXCEPT !.active = FALSE]
<1>1. At(l, "deactivate") /\ ~ At(l, "idle") /\ Update(was, new)
  BY DEF At, Deactivate
<1>2. was \in Row /\ row \in Row
  BY <1>1, HookShapes, Working DEF At, IInv, RowInv
<1>3. new \in Row /\ new.password = was.password
  BY <1>2 DEF Row
<1> HIDE DEF new
<1> QED
  BY <1>1, <1>2, <1>3, UpdatedRow

(* The webhook leaves the password of an account alone. *)
LEMMA HookKeepsPassword ==
  ASSUME IInv, row.exists, NEW l \in Loops, HookStep(l)
  PROVE  row'.password = row.password
BY LinkWrites, CompleteWrites, DeactivateKeepsPassword
   DEF HookStep, CheckoutKnown, CheckoutNew, NoEmailRefused, RetrieveAndLookup,
       CreateUser, CreateConflicts, RefreshUser, Welcome, DeletedUnknown,
       DeletedFound, Answer

LEMMA ForgotKeepsPassword ==
  ASSUME IInv, NEW t \in Threads, ForgotWrite(t)
  PROVE  row'.password = row.password
<1> DEFINE was == thread[t].loaded
           new == [was EXCEPT !.token = thread[t].token]
<1>1. thread[t] \in ThreadState /\ thread[t].pc = "forgot" /\ Update(was, new)
  BY DEF IInv, Shape, ForgotWrite
<1>2. was \in Row /\ thread[t].token \in Tokens /\ row \in Row
  BY <1>1, ThreadShapes DEF IInv, RowInv
<1>3. new \in Row /\ new.password = was.password
  BY <1>2 DEF Row
<1> HIDE DEF new
<1> QED
  BY <1>1, <1>2, <1>3, UpdatedRow

LEMMA SetPasswordSets ==
  ASSUME IInv, NEW t \in Threads, SetPasswordWrite(t)
  PROVE  row'.password \in {row.password, thread[t].password}
<1> DEFINE was == thread[t].loaded
           p == thread[t].password
           new == [was EXCEPT !.password = p, !.token = 0, !.active = TRUE]
<1>1. thread[t] \in ThreadState /\ thread[t].pc = "set" /\ Update(was, new)
  BY DEF IInv, Shape, SetPasswordWrite
<1>2. was \in Row /\ p \in Passwords /\ row \in Row
  BY <1>1, ThreadShapes DEF IInv, RowInv
<1>3. new \in Row /\ new.password = p
  BY <1>2 DEF Row
<1> HIDE DEF new
<1> QED
  BY <1>1, <1>2, <1>3, UpdatedRow

-----------------------------------------------------------------------------
(* Theorems *)

(* The user row and the reset tokens are well typed, and a token with      *)
(* which a password was set is never again the one in the row: no stale    *)
(* write of a webhook or another request brings it back.                   *)
THEOREM AccountIsSound == Spec => []AccountInv
<1>1. ASSUME IInv PROVE AccountInv
  <2>1. \A l \in Loops : ~ At(l, "idle") => hook[l].event \in Sent
    BY <1>1 DEF IInv, HookInv, At
  <2> QED
    BY <1>1, <2>1
       DEF IInv, Shape, RowInv, TokenInv, AckedInv, AccountInv, TypeOK
<1> QED
  BY <1>1, Invariance, PTL

(* A checkout that was answered 2xx has left an account that is linked to  *)
(* a customer, whatever handlers crashed and requests overlapped.          *)
THEOREM AnsweredCheckoutsHaveAccounts == Spec => []AckedHasAccount
<1>1. IInv => AckedHasAccount
  BY DEF IInv, AckedInv
<1> QED
  BY <1>1, Invariance, PTL

(* A chosen password gives way only to one that an administrator's PATCH   *)
(* sets, or a set-password whose token came from the mailbox: the stale    *)
(* writes of webhooks, registrations and reset requests leave it alone.    *)
THEOREM ChosenPasswordsStay == Spec => ChosenPasswordStays
<1>1. ASSUME IInv, [Next]_vars
      PROVE  row.password \in Passwords /\ row'.password # row.password =>
               \E t \in Threads :
                 /\ \/ thread[t].pc = "patch"
                    \/ thread[t].pc = "set" /\ thread[t].loaded.token \in mailed
                 /\ row'.password = thread[t].password
  <2> SUFFICES ASSUME row.password \in Passwords,
                      row'.password # row.password
               PROVE  \E t \in Threads :
                        /\ \/ thread[t].pc = "patch"
                           \/ /\ thread[t].pc = "set"
                              /\ thread[t].loaded.token \in mailed
                        /\ row'.password = thread[t].password
    OBVIOUS
  <2>1. row.exists /\ row \in Row
    BY <1>1, Rows DEF IInv, RowInv
  <2>2. PICK t \in Threads :
          ForgotWrite(t) \/ SetPasswordWrite(t) \/ PatchWrite(t)
    BY <1>1, <2>1, HookKeepsPassword
       DEF Next, ClientRequest, ThreadStep, vars, Subscribe, Cancel, Deliver,
           RetrieveFails, HookCrash, SignUpBegin, ForgotBegin, SignUpInsert,
           SetPasswordBegin, PatchBegin, ForgotMail, ThreadCrash, Expire
  <2>3. thread[t] \in ThreadState /\ ThreadInv(t)
    BY <1>1 DEF IInv, Shape
  <2>4. ~ ForgotWrite(t)
    BY <1>1, <2>1, <2>3, ForgotKeepsPassword
  <2>5. CASE SetPasswordWrite(t)
    BY <1>1, <2>3, <2>5, SetPasswordSets DEF SetPasswordWrite, ThreadInv
  <2>6. CASE PatchWrite(t)
    BY <2>1, <2>6 DEF PatchWrite, Row
  <2> QED
    BY <2>2, <2>4, <2>5, <2>6
<1> QED
  BY <1>1, Invariance, PTL DEF Spec, ChosenPasswordStays

(* Redelivering an answered checkout changes neither the password nor      *)
(* whether the account is active, wherever the handler of the redelivery   *)
(* is interrupted and whatever other customers have the same email; the    *)
(* account keeps its customer or goes back to the one of the event.        *)
THEOREM RedeliveriesAreHarmless == Spec => RedeliveryHarmless
<1>1. ASSUME IInv, NEW l \in Loops, ~ At(l, "idle"), HookStep(l),
             hook[l].event \in acked, hook[l].event.type = "checkout"
      PROVE  /\ row'.customer \in {row.customer, hook[l].event.customer}
             /\ row'.password = row.password
             /\ row'.active = row.active
  <2>1. row.exists
    BY <1>1 DEF IInv, AckedInv, AckedHasAccount
  <2>2. row'.password = row.password
    BY <1>1, <2>1, HookKeepsPassword
  <2>3. CASE LinkExisting(l) \/ CompleteUser(l)
    BY <1>1, <2>3, LinkWrites, CompleteWrites
  <2>4. ~ Deactivate(l) /\ ~ CreateUser(l)
    BY <1>1, <2>1, Working DEF Deactivate, CreateUser, At, HookInv
  <2> QED
    BY <1>1, <2>2, <2>3, <2>4
       DEF HookStep, CheckoutKnown, CheckoutNew, NoEmailRefused,
           RetrieveAndLookup, CreateConflicts, RefreshUser, Welcome,
           DeletedUnknown, DeletedFound, Answer
<1>2. ASSUME IInv
      PROVE  \A l \in Loops :
       /\ ~ At(l, "idle") /\ HookStep(l)
       /\ hook[l].event \in acked /\ hook[l].event.type = "checkout"
       => /\ row'.customer \in {row.customer, hook[l].event.customer}
          /\ row'.password = row.password
          /\ row'.active = row.active
  BY <1>1, <1>2
<1> QED
  BY <1>2, Invariance, PTL DEF Spec, RedeliveryHarmless
=============================================================================
