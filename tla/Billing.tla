------------------------------ MODULE Billing ------------------------------
(***************************************************************************)
(* From a Stripe payment to an account someone can sign in to: POST        *)
(* /auth/webhook, /auth/register, /auth/forgot-password and                *)
(* /auth/set-password (camp44/api/v1/endpoints/auth.py), and an            *)
(* administrator's PATCH of the password (endpoints/admin.py), over the    *)
(* row of one email address in the user table.                             *)
(*                                                                         *)
(* Stripe delivers an event until it is answered 2xx, in any order and     *)
(* possibly again afterwards.  The webhook is a coroutine without an await *)
(* before its last commit: one runs at a time in each server instance      *)
(* (Loops); the other endpoints run in worker threads (Threads).  An       *)
(* action is a SELECT, or an UPDATE/INSERT with its commit, which writes   *)
(* one row.                                                                *)
(***************************************************************************)
EXTENDS Naturals

CONSTANTS
  Loops,      \* server instances
  Threads,    \* worker threads
  Customers,  \* Stripe customers, with this email address or none
  NoEmail,    \* those of them without an email
  Passwords,  \* hashes of the passwords that people choose
  MaxPeriods, \* bound on the subscriptions a customer takes out in turn
  MaxTokens,  \* bound on the reset tokens generated
  NoCustomer

ASSUME NoCustomerIsNone == NoCustomer \notin Customers
ASSUME NoEmailIsSome == NoEmail \subseteq Customers
ASSUME PasswordsAreChosen == {"none", "random"} \cap Passwords = {}
ASSUME BoundsAreNat == MaxPeriods \in Nat /\ MaxTokens \in Nat

VARIABLES
  row,        \* the committed user row
  period,     \* period[c]: how many subscriptions c has had (Stripe)
  cancelled,  \* cancelled[c]: the last of them was cancelled (Stripe)
  acked,      \* events answered 2xx
  hook,       \* hook[l]: the webhook handler running in instance l
  thread,     \* thread[t]: the request served by thread t
  issued,     \* reset tokens generated so far: 1..issued
  expired,    \* reset tokens past password_reset_expires
  mailed,     \* reset tokens that reached the owner of the address
  used        \* reset tokens a password was set with

stripe == <<period, cancelled>>
tokens == <<issued, expired, mailed, used>>
vars == <<row, stripe, acked, hook, thread, tokens>>

Periods == 1..MaxPeriods
Tokens == 1..MaxTokens  \* 0 stands for no token

(* hashed_password: none (OIDC account), random (chosen by nobody), or one *)
(* that somebody chose.                                                    *)
Row == [exists : BOOLEAN, customer : Customers \cup {NoCustomer},
        password : {"none", "random"} \cup Passwords,
        token : Tokens \cup {0}, active : BOOLEAN]
NewRow(password) ==
  [exists |-> TRUE, customer |-> NoCustomer, password |-> password,
   token |-> 0, active |-> TRUE]
NoRow == [NewRow("none") EXCEPT !.exists = FALSE]

Event == [type : {"checkout", "deleted"}, customer : Customers, period : Periods]
Idle == [pc |-> "idle"]

(* The events Stripe has sent so far. *)
Sent ==
  {e \in Event : /\ e.period <= period[e.customer]
                 /\ e.type = "deleted" /\ e.period = period[e.customer]
                      => cancelled[e.customer]}

Init ==
  /\ row \in {NoRow} \cup {NewRow(p) : p \in {"none"} \cup Passwords}
  /\ period = [c \in Customers |-> 0]
  /\ cancelled = [c \in Customers |-> TRUE]
  /\ acked = {}
  /\ hook = [l \in Loops |-> Idle]
  /\ thread = [t \in Threads |-> Idle]
  /\ issued = 0 /\ expired = {} /\ mailed = {} /\ used = {}

(* Mutant: the whole loaded row is written back. *)
UpdateAll(loaded, new) == row' = new

(* UPDATE by id at an ORM commit: the columns whose new value differs from *)
(* the one the session loaded, and no other.                               *)
Update(loaded, new) ==
  row' = [f \in DOMAIN row |-> IF new[f] # loaded[f] THEN new[f] ELSE row[f]]

-----------------------------------------------------------------------------
(* Stripe *)

Subscribe(c) ==
  /\ cancelled[c] /\ period[c] < MaxPeriods
  /\ period' = [period EXCEPT ![c] = @ + 1]
  /\ cancelled' = [cancelled EXCEPT ![c] = FALSE]
  /\ UNCHANGED <<row, acked, hook, thread, tokens>>

Cancel(c) ==
  /\ ~ cancelled[c]
  /\ cancelled' = [cancelled EXCEPT ![c] = TRUE]
  /\ UNCHANGED <<row, period, acked, hook, thread, tokens>>

-----------------------------------------------------------------------------
(* POST /auth/webhook *)

At(l, label) == hook[l].pc = label
Goto(l, label) ==
  hook' = [hook EXCEPT ![l] = [pc |-> label, event |-> @.event]]
Ack(l) == /\ acked' = acked \cup {hook[l].event}
          /\ hook' = [hook EXCEPT ![l] = Idle]
Fail(l) == hook' = [hook EXCEPT ![l] = Idle] /\ UNCHANGED acked

(* A signed event arrives, for the first time or again. *)
Deliver(l, e) ==
  /\ At(l, "idle")
  /\ hook' = [hook EXCEPT ![l] = [pc |-> e.type, event |-> e]]
  /\ UNCHANGED <<row, stripe, acked, thread, tokens>>

Linked(c) == row.exists /\ row.customer = c

(* Mutant: a customer that has a user is refused. *)
CheckoutKnownFails(l) ==
  /\ At(l, "checkout")
  /\ Linked(hook[l].event.customer)
  /\ Fail(l)
  /\ UNCHANGED <<row, stripe, thread, tokens>>

(* checkout.session.completed: a customer that has a user is skipped. *)
CheckoutKnown(l) ==
  /\ At(l, "checkout")
  /\ Linked(hook[l].event.customer)
  /\ Ack(l)
  /\ UNCHANGED <<row, stripe, thread, tokens>>

CheckoutNew(l) ==
  /\ At(l, "checkout")
  /\ ~ Linked(hook[l].event.customer)
  /\ Goto(l, "retrieve")
  /\ UNCHANGED <<row, stripe, acked, thread, tokens>>

(* Customer.retrieve() fails: 500. *)
RetrieveFails(l) ==
  /\ At(l, "retrieve")
  /\ Fail(l)
  /\ UNCHANGED <<row, stripe, thread, tokens>>

(* It succeeds, but the customer has no email: 400, this time and always. *)
NoEmailRefused(l) ==
  /\ At(l, "retrieve")
  /\ hook[l].event.customer \in NoEmail
  /\ Fail(l)
  /\ UNCHANGED <<row, stripe, thread, tokens>>

(* It succeeds; then look for a user with the customer's email. *)
RetrieveAndLookup(l) ==
  /\ At(l, "retrieve")
  /\ hook[l].event.customer \notin NoEmail
  /\ hook' = [hook EXCEPT ![l] =
       [pc |-> IF row.exists THEN "link" ELSE "create",
        event |-> hook[l].event, loaded |-> row]]
  /\ UNCHANGED <<row, stripe, acked, thread, tokens>>

(* Mutant: a payment reactivates the account, even a redelivered one. *)
LinkActivates(l) ==
  /\ At(l, "link")
  /\ row' = [row EXCEPT !.customer = hook[l].event.customer, !.active = TRUE]
  /\ Goto(l, "answer")
  /\ UNCHANGED <<stripe, acked, thread, tokens>>

(* A user with the email exists: it gets the customer. *)
LinkExisting(l) ==
  /\ At(l, "link")
  /\ LET was == hook[l].loaded
     IN Update(was, [was EXCEPT !.customer = hook[l].event.customer])
  /\ Goto(l, "answer")
  /\ UNCHANGED <<stripe, acked, thread, tokens>>

(* create_user() commits the bare account: no customer, no reset token. *)
CreateUser(l) ==
  /\ At(l, "create")
  /\ ~ row.exists
  /\ issued < MaxTokens
  /\ row' = NewRow("random")
  /\ issued' = issued + 1
  /\ hook' = [hook EXCEPT ![l] =
       [pc |-> "refresh", event |-> hook[l].event, token |-> issued + 1]]
  /\ UNCHANGED <<stripe, acked, thread, expired, mailed, used>>

(* session.refresh() reads the new row back, in a transaction of its own.  *)
RefreshUser(l) ==
  /\ At(l, "refresh")
  /\ hook' = [hook EXCEPT ![l] =
       [pc |-> "complete", event |-> hook[l].event, token |-> hook[l].token,
        loaded |-> row]]
  /\ UNCHANGED <<row, stripe, acked, thread, tokens>>

(* Mutant: the except branch answers 200. *)
ConflictAcked(l) ==
  /\ At(l, "create")
  /\ row.exists
  /\ Ack(l)
  /\ UNCHANGED <<row, stripe, thread, tokens>>

(* The email's unique index refuses the INSERT: rollback and 500. *)
CreateConflicts(l) ==
  /\ At(l, "create")
  /\ row.exists
  /\ Fail(l)
  /\ UNCHANGED <<row, stripe, thread, tokens>>

(* The second commit: the customer and the reset token. *)
CompleteUser(l) ==
  /\ At(l, "complete")
  /\ LET was == hook[l].loaded
     IN Update(was, [was EXCEPT !.customer = hook[l].event.customer,
                                !.token = hook[l].token])
  /\ hook' = [hook EXCEPT ![l] =
       [pc |-> "mail", event |-> @.event, token |-> @.token]]
  /\ UNCHANGED <<stripe, acked, thread, tokens>>

(* send_welcome_email() may fail; the webhook answers 200 either way. *)
Welcome(l) ==
  /\ At(l, "mail")
  /\ mailed' \in {mailed, mailed \cup {hook[l].token}}
  /\ Ack(l)
  /\ UNCHANGED <<row, stripe, thread, issued, expired, used>>

(* customer.subscription.deleted for a customer no user is linked to. *)
DeletedUnknown(l) ==
  /\ At(l, "deleted")
  /\ ~ Linked(hook[l].event.customer)
  /\ Ack(l)
  /\ UNCHANGED <<row, stripe, thread, tokens>>

DeletedFound(l) ==
  /\ At(l, "deleted")
  /\ Linked(hook[l].event.customer)
  /\ hook' = [hook EXCEPT ![l] =
       [pc |-> "deactivate", event |-> hook[l].event, loaded |-> row]]
  /\ UNCHANGED <<row, stripe, acked, thread, tokens>>

Deactivate(l) ==
  /\ At(l, "deactivate")
  /\ Update(hook[l].loaded, [hook[l].loaded EXCEPT !.active = FALSE])
  /\ Goto(l, "answer")
  /\ UNCHANGED <<stripe, acked, thread, tokens>>

(* 200 after a commit. *)
Answer(l) ==
  /\ At(l, "answer")
  /\ Ack(l)
  /\ UNCHANGED <<row, stripe, thread, tokens>>

(* The instance dies, or a statement raises: rollback, no 2xx. *)
HookCrash(l) ==
  /\ ~ At(l, "idle")
  /\ Fail(l)
  /\ UNCHANGED <<row, stripe, thread, tokens>>

-----------------------------------------------------------------------------
(* The endpoints served by worker threads *)

Serve(t, request) == thread' = [thread EXCEPT ![t] = request]
Done(t) == Serve(t, Idle)
Free(t) == thread[t].pc = "idle"

(* POST /auth/register, or the account an OIDC sign-in creates: both look  *)
(* the email up first and INSERT later.                                    *)
SignUpBegin(t, password) ==
  /\ Free(t)
  /\ ~ row.exists
  /\ Serve(t, [pc |-> "signup", password |-> password])
  /\ UNCHANGED <<row, stripe, acked, hook, tokens>>

SignUpInsert(t) ==
  /\ thread[t].pc = "signup"
  /\ row' = IF row.exists THEN row ELSE NewRow(thread[t].password)
  /\ Done(t)
  /\ UNCHANGED <<stripe, acked, hook, tokens>>

(* POST /auth/forgot-password: active users only. *)
ForgotBegin(t) ==
  /\ Free(t)
  /\ row.exists /\ row.active
  /\ issued < MaxTokens
  /\ issued' = issued + 1
  /\ Serve(t, [pc |-> "forgot", loaded |-> row, token |-> issued + 1])
  /\ UNCHANGED <<row, stripe, acked, hook, expired, mailed, used>>

ForgotWrite(t) ==
  /\ thread[t].pc = "forgot"
  /\ LET was == thread[t].loaded
     IN Update(was, [was EXCEPT !.token = thread[t].token])
  /\ Serve(t, [pc |-> "mail", token |-> thread[t].token])
  /\ UNCHANGED <<stripe, acked, hook, tokens>>

ForgotMail(t) ==
  /\ thread[t].pc = "mail"
  /\ mailed' \in {mailed, mailed \cup {thread[t].token}}
  /\ Done(t)
  /\ UNCHANGED <<row, stripe, acked, hook, issued, expired, used>>

(* A password that is chosen anew gets a new salt: its hash is not the one  *)
(* in the row.                                                             *)
Choices == Passwords \ {row.password}

(* POST /auth/set-password, with a token from the mailbox. *)
SetPasswordBegin(t, k, password) ==
  /\ Free(t)
  /\ k \in mailed
  /\ row.token = k
  /\ k \notin expired
  /\ password \in Choices
  /\ Serve(t, [pc |-> "set", loaded |-> row, password |-> password])
  /\ UNCHANGED <<row, stripe, acked, hook, tokens>>

(* Mutant: the reset token is not cleared. *)
SetPasswordKeepsToken(t) ==
  /\ thread[t].pc = "set"
  /\ LET was == thread[t].loaded
     IN Update(was, [was EXCEPT !.password = thread[t].password,
                                !.active = TRUE])
  /\ used' = used \cup {thread[t].loaded.token}
  /\ Done(t)
  /\ UNCHANGED <<stripe, acked, hook, issued, expired, mailed>>

SetPasswordWrite(t) ==
  /\ thread[t].pc = "set"
  /\ LET was == thread[t].loaded
     IN Update(was, [was EXCEPT !.password = thread[t].password, !.token = 0,
                                !.active = TRUE])
  /\ used' = used \cup {thread[t].loaded.token}
  /\ Done(t)
  /\ UNCHANGED <<stripe, acked, hook, issued, expired, mailed>>

(* PATCH /admin/users/{id} with a password, which is not the loaded one:   *)
(* the UPDATE sets that column and no other.                               *)
PatchBegin(t, password) ==
  /\ Free(t)
  /\ row.exists
  /\ password \in Choices
  /\ Serve(t, [pc |-> "patch", password |-> password])
  /\ UNCHANGED <<row, stripe, acked, hook, tokens>>

PatchWrite(t) ==
  /\ thread[t].pc = "patch"
  /\ row' = [row EXCEPT !.password = thread[t].password]
  /\ Done(t)
  /\ UNCHANGED <<stripe, acked, hook, tokens>>

ThreadCrash(t) ==
  /\ ~ Free(t)
  /\ Done(t)
  /\ UNCHANGED <<row, stripe, acked, hook, tokens>>

(* Time passes password_reset_expires. *)
Expire(k) ==
  /\ row.token = k
  /\ expired' = expired \cup {k}
  /\ UNCHANGED <<row, stripe, acked, hook, thread, issued, mailed, used>>

-----------------------------------------------------------------------------

HookStep(l) ==
  \/ CheckoutKnown(l) \/ CheckoutNew(l)
  \/ NoEmailRefused(l) \/ RetrieveAndLookup(l)
  \/ LinkExisting(l)
  \/ CreateUser(l) \/ CreateConflicts(l)
  \/ RefreshUser(l) \/ CompleteUser(l) \/ Welcome(l)
  \/ DeletedUnknown(l) \/ DeletedFound(l) \/ Deactivate(l)
  \/ Answer(l)

ThreadStep(t) ==
  \/ SignUpInsert(t) \/ ForgotWrite(t) \/ ForgotMail(t)
  \/ SetPasswordWrite(t) \/ PatchWrite(t)

ClientRequest(t) ==
  \/ \E password \in {"none"} \cup Passwords : SignUpBegin(t, password)
  \/ ForgotBegin(t)
  \/ \E k \in Tokens, password \in Passwords : SetPasswordBegin(t, k, password)
  \/ \E password \in Passwords : PatchBegin(t, password)

Next ==
  \/ \E c \in Customers : Subscribe(c) \/ Cancel(c)
  \/ \E l \in Loops :
       \/ \E e \in Sent : Deliver(l, e)
       \/ HookStep(l) \/ RetrieveFails(l) \/ HookCrash(l)
  \/ \E t \in Threads : ClientRequest(t) \/ ThreadStep(t) \/ ThreadCrash(t)
  \/ \E k \in Tokens : Expire(k)

Spec == Init /\ [][Next]_vars

(* All but the checkout of a customer without an email, which is refused   *)
(* for ever.                                                               *)
Answerable == {e \in Event : e.type = "deleted" \/ e.customer \notin NoEmail}

(* Instance l handles an event that is still to be answered. *)
Owed(l) == ~ At(l, "idle") /\ hook[l].event \in Answerable \ acked

(* Fairness: instances and threads run; Stripe keeps delivering what was   *)
(* not answered 2xx; and a step that gets its chance for such events again *)
(* and again, at each redelivery, does not fail every time.                *)
Fairness ==
  /\ \A t \in Threads : WF_vars(ThreadStep(t))
  /\ \A l \in Loops :
       /\ WF_vars(HookStep(l))
       /\ SF_vars(Owed(l) /\ \/ CheckoutKnown(l) \/ CheckoutNew(l)
                             \/ DeletedUnknown(l) \/ DeletedFound(l))
       /\ SF_vars(Owed(l) /\ RetrieveAndLookup(l))
       /\ SF_vars(Owed(l) /\ (LinkExisting(l) \/ CreateUser(l)))
       /\ SF_vars(Owed(l) /\ Deactivate(l))
       /\ SF_vars(Owed(l) /\ Answer(l))
  /\ \A e \in Answerable :
       SF_vars(e \notin acked /\ \E l \in Loops : Deliver(l, e))

FairSpec == Spec /\ Fairness

-----------------------------------------------------------------------------
(* Properties *)

(* Type invariant. *)
TypeOK ==
  /\ row \in Row
  /\ period \in [Customers -> 0..MaxPeriods]
  /\ cancelled \in [Customers -> BOOLEAN]
  /\ acked \subseteq Event
  /\ \A l \in Loops : ~ At(l, "idle") => hook[l].event \in Sent
  /\ issued \in 0..MaxTokens
  /\ mailed \subseteq 1..issued /\ used \subseteq mailed
  /\ expired \subseteq 1..issued

(* A checkout answered 2xx is never lost: there is an account, and it is   *)
(* linked to a customer, whatever requests ran and failed meanwhile.       *)
AckedHasAccount ==
  \A e \in acked : e.type = "checkout" =>
    row.exists /\ row.customer # NoCustomer

(* A password somebody chose is not lost to a concurrent webhook,          *)
(* registration or reset request that read the row (or its absence)        *)
(* before.  It is replaced only by another that is chosen: in an           *)
(* administrator's PATCH, or in a set-password whose token came from the   *)
(* mailbox.  (Two set-passwords with one token that overlap both succeed,  *)
(* and the later commit is the one that stays.)                            *)
ChosenPasswordStays ==
  [][row.password \in Passwords /\ row'.password # row.password =>
       \E t \in Threads :
         /\ \/ thread[t].pc = "patch"
            \/ thread[t].pc = "set" /\ thread[t].loaded.token \in mailed
         /\ row'.password = thread[t].password]_vars

(* A reset token that a password was set with is never in the row again,   *)
(* so that no request that comes later is accepted with it: no stale write *)
(* brings it back.                                                         *)
UsedTokenIsDead == row.token \notin used

(* Redelivering a checkout that was already answered 2xx does not change   *)
(* the password or whether the account is active; it leaves the account    *)
(* with its customer or, if another customer with this email has taken it  *)
(* over since, moves it back to the customer of the event.                 *)
RedeliveryHarmless ==
  [][\A l \in Loops :
       /\ ~ At(l, "idle") /\ HookStep(l)
       /\ hook[l].event \in acked /\ hook[l].event.type = "checkout"
       => /\ row'.customer \in {row.customer, hook[l].event.customer}
          /\ row'.password = row.password
          /\ row'.active = row.active]_vars

(* Every event Stripe sends is answered 2xx in the end, although handlers  *)
(* die, Stripe's API fails and a sign-up may take the email first; only    *)
(* the checkout of a customer without an email is refused for ever, and it *)
(* keeps no other event from its answer.                                   *)
EveryEventAcked == \A e \in Answerable : e \in Sent ~> e \in acked

(* The invariant of the user row and its reset token. *)
AccountInv == TypeOK /\ UsedTokenIsDead

=============================================================================
