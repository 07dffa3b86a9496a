------------------------ MODULE RefreshTokensProofs ------------------------
(***************************************************************************)
(* TLAPS proofs about RefreshTokens, for any sets of workers, tokens and   *)
(* users and any MaxVersion: first the inductive invariant and what        *)
(* follows from it, then what clients see - it implements TokenFamily, an  *)
(* ended family stays ended, a version bump is final, and a token a replay *)
(* handler misses was rotated under it.                                    *)
(***************************************************************************)
EXTENDS RefreshTokens, TLAPS

-----------------------------------------------------------------------------
(* The inductive invariant *)

(* Rows that exist belong to a user and to a family that exists; what was  *)
(* rotated is revoked; only rows that exist are locked.                    *)
RowsOK ==
  \A t \in Tokens :
    /\ rt[t].status # "absent" =>
         /\ rt[t].user_id \in Users
         /\ rt[t].family_id \in Issued
         /\ rt[t].parent # NoToken => rt[rt[t].parent].status = "revoked"
    /\ lock[t] # NoProc => t \in Issued

(* What a request remembers still agrees with the table. *)
RequestOK(p) ==
  /\ req[p].tok # NoToken => req[p].tok \in Issued
  /\ req[p].sel \subseteq Issued
  /\ pc[p] # "flush" => req[p].sel = {}
  /\ pc[p] = "idle" => req[p].tok = NoToken
  /\ pc[p] = "mint" => req[p].usr \in Users
  /\ pc[p] = "check" \/ (pc[p] = "mint" /\ req[p].tok # NoToken) =>
       /\ req[p].tok # NoToken
       /\ lock[req[p].tok] = p
  /\ pc[p] = "mint" /\ req[p].tok # NoToken =>
       /\ req[p].usr = rt[req[p].tok].user_id
       /\ req[p].seen = rt[req[p].tok].token_version
  /\ pc[p] \in {"select", "flush"} => req[p].tok # NoToken

(* A request locks the token it consumed, or the one row it revokes. *)
HoldingOK(p) ==
  \A t \in Tokens :
    /\ lock[t] = p => pc[p] \in {"check", "mint", "select", "flush"}
    /\ lock[t] = p /\ pc[p] # "flush" =>
         t = req[p].tok /\ rt[t].status = "live"
    /\ t \in req[p].sel =>
         /\ rt[t].family_id = rt[req[p].tok].family_id
         /\ \A s \in Tokens : s \in req[p].sel \/ lock[s] = p => s = t
    /\ lock[t] = p => rt[t].family_id = rt[req[p].tok].family_id
    /\ lock[t] = p /\ pc[p] = "flush" => t = req[p].tok \/ t \in req[p].sel

IInv ==
  /\ TypeOK
  /\ RowsOK
  /\ SingleLive
  /\ OneSuccessor
  /\ FamilyUniform
  /\ \A p \in Procs : RequestOK(p) /\ HoldingOK(p)

-----------------------------------------------------------------------------
(* Type correctness *)

USE NullsAreNoValues, MaxVersionIsNat

(* TypeOK is not inductive by itself: CheckPasses reads the row of the     *)
(* presented token, which must exist when a request has consumed it.       *)
TypeInv ==
  /\ TypeOK
  /\ \A p \in Procs : pc[p] = "check" => req[p].tok # NoToken

LEMMA InitTypeInv == Init => TypeInv
BY DEF Init, TypeInv, TypeOK, Versions, Row, NoRow, Req, NoReq

(* The table and the locks after a commit are well typed. *)
LEMMA CommitType ==
  ASSUME TypeOK, NEW p \in Procs
  PROVE  /\ Committed(p) \in [Tokens -> Row]
         /\ Unlocked(p) \in [Tokens -> Procs \cup {NoProc}]
BY DEF TypeOK, Committed, Unlocked, Row

(* A request that is over leaves well-typed local state. *)
LEMMA AnswerType ==
  ASSUME TypeOK, NEW p \in Procs, Answer(p)
  PROVE  /\ pc' \in [Procs -> {"idle", "mint", "consume", "lookup", "check",
                               "select", "flush", "logout"}]
         /\ req' \in [Procs -> Req]
BY DEF TypeOK, Answer, Goto, Req, NoReq, Versions

LEMMA StepTypeOK ==
  ASSUME TypeInv, NEW p \in Procs, Request(p) \/ Step(p)
  PROVE  TypeOK'
<1> USE DEF TypeInv
<1>1. ASSUME NEW u \in Users, LoginRead(p, u) PROVE TypeOK'
  <2>1. req[p] \in Req /\ version[u] \in Versions
    BY DEF TypeOK
  <2>2. [req[p] EXCEPT !.usr = u, !.seen = version[u]] \in Req
    BY <2>1 DEF Req
  <2>3. req' \in [Procs -> Req]
    BY <1>1, <2>2 DEF TypeOK, LoginRead
  <2> QED
    BY <1>1, <2>3 DEF TypeOK, LoginRead, Goto, users
<1>2. ASSUME NEW new \in Tokens, Mint(p, new) PROVE TypeOK'
  <2>1. FamilyFor(p, new) \in Tokens \cup {NoToken}
    BY DEF TypeOK, FamilyFor, Row, Req
  <2>2. rt' \in [Tokens -> Row]
    BY <1>2, <2>1, CommitType DEF TypeOK, Mint, Insert, Row, Req
  <2> QED
    BY <1>2, <2>2, CommitType, AnswerType DEF TypeOK, Mint, Insert, users
<1>3. ASSUME NEW t \in Issued \cup {NoToken},
             RefreshBegin(p, t) \/ LogoutBegin(p, t)
      PROVE  TypeOK'
  <2>1. t \in Tokens \cup {NoToken}
    BY DEF Issued
  <2>2. PICK label \in {"consume", "logout"} : Present(p, t, label)
    BY <1>3 DEF RefreshBegin, LogoutBegin
  <2>3. req' \in [Procs -> Req]
    BY <2>1, <2>2 DEF TypeOK, Present, Req
  <2> QED
    BY <2>2, <2>3 DEF TypeOK, Present, Goto, users
<1>4. CASE ConsumeWins(p)
  BY <1>4 DEF TypeOK, ConsumeWins, Consume, Goto, users
<1>5. CASE ConsumeLoses(p)
  BY <1>5 DEF TypeOK, ConsumeLoses, Goto, users
<1>6. CASE LookupUnknown(p) \/ LogoutNothing(p)
  BY <1>6, AnswerType DEF TypeOK, LookupUnknown, LogoutNothing, users
<1>7. CASE LookupReplay(p)
  BY <1>7 DEF TypeOK, LookupReplay, Goto, users, Req
<1>8. CASE CheckRefuses(p) \/ FlushCommit(p)
  BY <1>8, CommitType, AnswerType
     DEF TypeOK, CheckRefuses, FlushCommit, CommitAndAnswer, users
<1>9. CASE CheckMismatch(p)
  BY <1>9 DEF TypeOK, CheckMismatch, CheckVersion, Goto, users
<1>10. CASE CheckPasses(p)
  <2> DEFINE r == rt[req[p].tok]
  <2>1. req[p] \in Req /\ r \in Row
    BY <1>10 DEF CheckPasses, CheckVersion, TypeOK, Req
  <2>2. [req[p] EXCEPT !.usr = r.user_id, !.seen = r.token_version] \in Req
    BY <2>1 DEF Req, Row
  <2>3. req' \in [Procs -> Req]
    BY <1>10, <2>2 DEF TypeOK, CheckPasses, Admit
  <2> QED
    BY <1>10, <2>3 DEF TypeOK, CheckPasses, CheckVersion, Admit, Goto, users
<1>11. CASE SelectFamily(p)
  BY <1>11 DEF TypeOK, SelectFamily, Select, Live, Members, Issued, Goto,
               users, Req
<1>12. ASSUME NEW t \in Tokens, FlushRow(p, t) PROVE TypeOK'
  BY <1>12 DEF TypeOK, FlushRow, users
<1>13. CASE LogoutRevokes(p)
  BY <1>13 DEF TypeOK, LogoutRevokes, NoLiveRow, Goto, users, Req
<1> QED
  BY <1>1, <1>2, <1>3, <1>4, <1>5, <1>6, <1>7, <1>8, <1>9, <1>10, <1>11,
     <1>12, <1>13 DEF Request, Step

LEMMA EnvironmentTypeOK ==
  ASSUME TypeOK, Environment
  PROVE  TypeOK'
<1>1. ASSUME NEW p \in Procs, Crash(p) PROVE TypeOK'
  BY <1>1, CommitType, AnswerType DEF TypeOK, Crash, users
<1>2. ASSUME NEW t \in Tokens, Expire(t) PROVE TypeOK'
  BY <1>2 DEF TypeOK, Expire, users, Row
<1>3. ASSUME NEW u \in Users, BumpVersion(u) PROVE TypeOK'
  BY <1>3 DEF TypeOK, BumpVersion, Versions
<1>4. ASSUME NEW u \in Users, NEW b \in BOOLEAN, SetActive(u, b) PROVE TypeOK'
  BY <1>4 DEF TypeOK, SetActive
<1> QED
  BY <1>1, <1>2, <1>3, <1>4 DEF Environment

(* A request writes only its own local state. *)
LEMMA StepIsLocal ==
  ASSUME TypeOK, NEW p \in Procs, NEW q \in Procs, p # q,
         Request(p) \/ Step(p) \/ Crash(p)
  PROVE  pc'[q] = pc[q] /\ req'[q] = req[q]
BY DEF TypeOK, Request, Step, Crash, Answer, Goto, LoginRead, Mint, Insert,
       RefreshBegin, LogoutBegin, Present, ConsumeWins, Consume,
       ConsumeLoses, LookupUnknown, LookupReplay, CheckRefuses,
       CommitAndAnswer, CheckMismatch, CheckVersion, CheckPasses, Admit,
       SelectFamily, Select, FlushRow, FlushCommit, LogoutNothing,
       LogoutRevokes

(* Only the winner of the conditional UPDATE gets to the checks. *)
LEMMA OnlyWinnersCheck ==
  ASSUME TypeOK, NEW p \in Procs, Request(p) \/ Step(p) \/ Crash(p),
         pc'[p] = "check"
  PROVE  ConsumeWins(p)
BY DEF TypeOK, Request, Step, Crash, Answer, Goto, LoginRead, Mint, Insert,
       RefreshBegin, LogoutBegin, Present,
       ConsumeLoses, LookupUnknown, LookupReplay, CheckRefuses,
       CommitAndAnswer, CheckMismatch, CheckVersion, CheckPasses, Admit,
       SelectFamily, Select, FlushRow, FlushCommit, LogoutNothing,
       LogoutRevokes

LEMMA NextTypeInv == TypeInv /\ [Next]_vars => TypeInv'
<1> SUFFICES ASSUME TypeInv, [Next]_vars PROVE TypeInv'
  OBVIOUS
<1>1. TypeOK'
  <2>1. CASE UNCHANGED vars
    BY <2>1 DEF vars, users, TypeOK, TypeInv
  <2> QED
    BY <2>1, StepTypeOK, EnvironmentTypeOK DEF Next, TypeInv
<1>2. ASSUME NEW q \in Procs, pc'[q] = "check" PROVE req'[q].tok # NoToken
  <2>1. CASE pc'[q] = pc[q] /\ req'[q] = req[q]
    BY <1>2, <2>1 DEF TypeInv
  <2>2. ASSUME NEW p \in Procs, Request(p) \/ Step(p) \/ Crash(p)
        PROVE  req'[q].tok # NoToken
    <3>1. CASE p = q
      <4>1. ConsumeWins(q)
        BY <1>2, <2>2, <3>1, OnlyWinnersCheck DEF TypeInv
      <4> QED
        BY <4>1 DEF ConsumeWins, Consume
    <3> QED
      BY <2>1, <2>2, <3>1, StepIsLocal DEF TypeInv
  <2> QED
    BY <2>1, <2>2
       DEF Next, Environment, Expire, BumpVersion, SetActive, vars
<1> QED
  BY <1>1, <1>2 DEF TypeInv

(* Every reachable state is well typed, whatever the constants. *)
THEOREM TypeCorrect == Spec => []TypeOK
<1>1. TypeInv => TypeOK
  BY DEF TypeInv
<1> QED
  BY <1>1, InitTypeInv, NextTypeInv, PTL DEF Spec

-----------------------------------------------------------------------------
(* The table: rows, rotation, families *)

TableInv == RowsOK /\ SingleLive /\ OneSuccessor /\ FamilyUniform

LEMMA InitIInv == Init => IInv
<1> SUFFICES ASSUME Init PROVE IInv
  OBVIOUS
<1>1. TypeOK
  BY InitTypeInv DEF TypeInv
<1>2. Issued = {}
  BY DEF Init, NoRow, Issued
<1> QED
  BY <1>1, <1>2 DEF Init, NoRow, NoReq, IInv, RowsOK, SingleLive,
     OneSuccessor, FamilyUniform, RequestOK, HoldingOK

(* Revoking locked rows at a commit keeps the table's invariant. *)
LEMMA CommitTable ==
  ASSUME IInv, NEW p \in Procs, CommitAndAnswer(p)
  PROVE  TableInv'
<1>1. \A t \in Tokens :
        /\ rt'[t].family_id = rt[t].family_id
        /\ rt'[t].user_id = rt[t].user_id
        /\ rt'[t].token_version = rt[t].token_version
        /\ rt'[t].parent = rt[t].parent
        /\ rt'[t].status = IF lock[t] = p THEN "revoked" ELSE rt[t].status
  BY DEF IInv, TypeOK, CommitAndAnswer, Committed, Row
<1>2. \A t \in Tokens : lock'[t] = IF lock[t] = p THEN NoProc ELSE lock[t]
  BY DEF CommitAndAnswer, Unlocked
<1>3. Issued' = Issued
  BY <1>1 DEF IInv, RowsOK, Issued
<1>4. RowsOK'
  BY <1>1, <1>2, <1>3 DEF IInv, TypeOK, Row, RowsOK, Issued
<1>5. SingleLive'
  BY <1>1, <1>3 DEF IInv, SingleLive, Issued
<1> QED
  BY <1>1, <1>3, <1>4, <1>5
     DEF IInv, TableInv, OneSuccessor, FamilyUniform, Issued

(* The token a refresh consumed is the live token of its family until the  *)
(* new one replaces it in the same commit.                                 *)
LEMMA MintTable ==
  ASSUME IInv, NEW p \in Procs, NEW new \in Tokens, Mint(p, new)
  PROVE  TableInv'
<1> DEFINE old == req[p].tok
           fam == FamilyFor(p, new)
<1>1. /\ pc[p] = "mint"
      /\ rt[new].status = "absent"
      /\ req[p].usr \in Users
  BY DEF Mint, Insert, IInv, RequestOK
<1>2. old # NoToken =>
        /\ old \in Issued /\ lock[old] = p /\ rt[old].status = "live"
        /\ req[p].usr = rt[old].user_id
        /\ req[p].seen = rt[old].token_version
        /\ fam = rt[old].family_id
  BY <1>1 DEF IInv, RequestOK, HoldingOK, FamilyFor, Issued
<1>3. /\ rt'[new].status = "live" /\ rt'[new].family_id = fam
      /\ rt'[new].user_id = req[p].usr
      /\ rt'[new].token_version = req[p].seen
      /\ rt'[new].parent = old
  BY DEF IInv, TypeOK, Mint, Insert, Committed
<1>4. \A t \in Tokens \ {new} :
        /\ rt'[t].family_id = rt[t].family_id
        /\ rt'[t].user_id = rt[t].user_id
        /\ rt'[t].token_version = rt[t].token_version
        /\ rt'[t].parent = rt[t].parent
        /\ rt'[t].status = IF t = old THEN "revoked" ELSE rt[t].status
  <2>1. \A t \in Tokens : lock[t] = p <=> t = old
    BY <1>1, <1>2 DEF IInv, HoldingOK, Issued
  <2> QED
    BY <2>1 DEF IInv, TypeOK, Mint, Insert, Committed, Row
<1>5. Issued' = Issued \cup {new}
  BY <1>2, <1>3, <1>4 DEF Issued
<1>6. \A t \in Issued : rt[t].family_id # new /\ rt[t].parent # new /\ t # new
  BY <1>1 DEF IInv, RowsOK, Issued, TypeOK, Row
<1>7. RowsOK'
  <2>1. \A t \in Tokens : lock'[t] # NoProc => t \in Issued'
    BY <1>5 DEF Mint, Insert, Unlocked, IInv, RowsOK
  <2>2. \A t \in Issued : rt[t].parent # NoToken => rt[t].parent \in Issued
    BY DEF IInv, RowsOK, TypeOK, Row, Issued
  <2>3. fam \in Issued'
    BY <1>2, <1>5 DEF FamilyFor, IInv, RowsOK, Issued
  <2> QED
    BY <1>1, <1>2, <1>3, <1>4, <1>5, <1>6, <2>1, <2>2, <2>3
       DEF IInv, RowsOK, Issued
<1>8. SingleLive'
  <2>1. ASSUME NEW t \in Issued, rt'[t].status = "live"
        PROVE  rt'[t].family_id # fam
    <3>1. CASE old = NoToken
      BY <1>4, <1>6, <3>1 DEF FamilyFor, Issued
    <3>2. CASE old # NoToken
      BY <1>2, <1>4, <1>6, <2>1, <3>2 DEF IInv, SingleLive, Issued
    <3> QED
      BY <3>1, <3>2
  <2>2. ASSUME NEW s \in Issued, NEW t \in Issued,
               rt'[s].status = "live", rt'[t].status = "live",
               rt'[s].family_id = rt'[t].family_id
        PROVE  s = t
    BY <1>4, <1>6, <2>2 DEF IInv, SingleLive, Issued
  <2> QED
    BY <1>3, <1>5, <2>1, <2>2 DEF SingleLive
<1>9. OneSuccessor'
  BY <1>2, <1>3, <1>4, <1>5, <1>6 DEF IInv, OneSuccessor, RowsOK, Issued
<1>10. FamilyUniform'
  <2>1. ASSUME NEW t \in Issued, rt'[t].family_id = fam
        PROVE  rt'[t].user_id = req[p].usr /\ rt'[t].token_version = req[p].seen
    <3>1. CASE old = NoToken
      BY <1>4, <1>6, <2>1, <3>1 DEF FamilyFor, Issued
    <3>2. CASE old # NoToken
      BY <1>2, <1>4, <1>6, <2>1, <3>2 DEF IInv, FamilyUniform, Issued
    <3> QED
      BY <3>1, <3>2
  <2>2. ASSUME NEW s \in Issued, NEW t \in Issued,
               rt'[s].family_id = rt'[t].family_id
        PROVE  /\ rt'[s].user_id = rt'[t].user_id
               /\ rt'[s].token_version = rt'[t].token_version
    BY <1>4, <1>6, <2>2 DEF IInv, FamilyUniform, Issued
  <2> QED
    BY <1>3, <1>5, <2>1, <2>2 DEF FamilyUniform
<1> QED
  BY <1>7, <1>8, <1>9, <1>10 DEF TableInv

(* Every other step leaves the columns the invariant reads as they are. *)
LEMMA NextTable == IInv /\ [Next]_vars => TableInv'
<1> SUFFICES ASSUME IInv, [Next]_vars PROVE TableInv'
  OBVIOUS
<1>1. ASSUME UNCHANGED rt, \A t \in Tokens : lock'[t] # NoProc => t \in Issued
      PROVE  TableInv'
  BY <1>1 DEF IInv, TableInv, RowsOK, SingleLive, OneSuccessor, FamilyUniform,
              Issued
<1>2. ASSUME NEW p \in Procs, Request(p) PROVE TableInv'
  BY <1>1, <1>2 DEF Request, LoginRead, RefreshBegin, LogoutBegin, Present,
                    IInv, RowsOK
<1>3. ASSUME NEW p \in Procs, Step(p) PROVE TableInv'
  <2>1. ASSUME NEW new \in Tokens, Mint(p, new) PROVE TableInv'
    BY <2>1, MintTable
  <2>2. CASE CheckRefuses(p) \/ FlushCommit(p)
    BY <2>2, CommitTable DEF CheckRefuses, FlushCommit
  <2>3. CASE ConsumeWins(p)
    BY <2>3, <1>1 DEF ConsumeWins, Consume, IInv, TypeOK, RowsOK, Issued
  <2>4. ASSUME NEW t \in Tokens, FlushRow(p, t) PROVE TableInv'
    BY <2>4, <1>1 DEF FlushRow, IInv, TypeOK, RowsOK, RequestOK
  <2>5. CASE UNCHANGED <<rt, lock>>
    BY <2>5, <1>1 DEF IInv, RowsOK
  <2> QED
    BY <1>3, <2>1, <2>2, <2>3, <2>4, <2>5
       DEF Step, ConsumeLoses, LookupUnknown, LookupReplay, CheckMismatch,
           CheckVersion, CheckPasses, SelectFamily, Select, LogoutNothing,
           LogoutRevokes
<1>4. ASSUME NEW p \in Procs, Crash(p) PROVE TableInv'
  BY <1>4, <1>1 DEF Crash, Unlocked, IInv, RowsOK
<1>5. ASSUME NEW u \in Tokens, Expire(u) PROVE TableInv'
  <2>1. \A t \in Tokens :
          /\ rt'[t].family_id = rt[t].family_id
          /\ rt'[t].user_id = rt[t].user_id
          /\ rt'[t].token_version = rt[t].token_version
          /\ rt'[t].parent = rt[t].parent
          /\ rt'[t].status = rt[t].status
    BY <1>5 DEF Expire, IInv, TypeOK, Row
  <2>2. Issued' = Issued /\ lock' = lock
    BY <1>5, <2>1 DEF Issued, Expire
  <2>3. RowsOK'
    BY <2>1, <2>2 DEF IInv, RowsOK, Issued, TypeOK, Row
  <2> QED
    BY <2>1, <2>2, <2>3
       DEF IInv, TableInv, SingleLive, OneSuccessor, FamilyUniform, Issued
<1>6. CASE UNCHANGED <<rt, lock>>
  BY <1>6, <1>1 DEF IInv, RowsOK
<1> QED
  BY <1>2, <1>3, <1>4, <1>5, <1>6
     DEF Next, Environment, BumpVersion, SetActive, vars

-----------------------------------------------------------------------------
(* The requests: what they remember and what they have locked *)

(* The table of the next state agrees with that of this one in all that    *)
(* request q relies on.                                                    *)
Agrees(q) ==
  \A t \in Tokens :
    /\ lock'[t] = q <=> lock[t] = q
    /\ t \in Issued =>
         /\ t \in Issued'
         /\ rt'[t].family_id = rt[t].family_id
         /\ rt'[t].user_id = rt[t].user_id
         /\ rt'[t].token_version = rt[t].token_version
    /\ lock[t] = q => rt'[t].status = rt[t].status

LEMMA OthersKeep ==
  ASSUME IInv, NEW q \in Procs, Agrees(q),
         pc'[q] = pc[q], req'[q] = req[q]
  PROVE  RequestOK(q)' /\ HoldingOK(q)'
<1>1. req[q] \in Req /\ RequestOK(q) /\ HoldingOK(q)
  BY DEF IInv, TypeOK
<1>2. RequestOK(q)'
  BY <1>1 DEF RequestOK, Agrees, Issued, Req
<1>3. ASSUME NEW t \in Tokens, t \in req[q].sel \/ lock[t] = q
      PROVE  t \in Issued /\ req[q].tok \in Issued
  BY <1>1, <1>3 DEF RequestOK, HoldingOK, IInv, RowsOK
<1>4. \A t \in Tokens : lock'[t] = q <=> lock[t] = q
  BY DEF Agrees
<1>5. ASSUME NEW t \in Tokens, t \in req[q].sel \/ lock[t] = q
      PROVE  rt'[t].family_id = rt'[req[q].tok].family_id
  <2>1. rt[t].family_id = rt[req[q].tok].family_id
    BY <1>1, <1>5 DEF HoldingOK
  <2> QED
    BY <1>3, <1>5, <2>1 DEF Agrees, Issued
<1>6. \A t \in Tokens : lock[t] = q => rt'[t].status = rt[t].status
  BY DEF Agrees
<1>7. HoldingOK(q)'
  BY <1>1, <1>4, <1>5, <1>6 DEF HoldingOK
<1> QED
  BY <1>2, <1>7

(* No step of p disturbs what another request relies on. *)
LEMMA StepAgrees ==
  ASSUME IInv, NEW p \in Procs, NEW q \in Procs, p # q,
         Request(p) \/ Step(p) \/ Crash(p)
  PROVE  Agrees(q)
<1>1. \A t \in Tokens : (lock'[t] = lock[t] \/ lock[t] = p \/ lock'[t] = p)
                        /\ (lock[t] = q => lock'[t] = q)
                        /\ (lock'[t] = q => lock[t] = q)
  BY DEF IInv, TypeOK, Request, Step, Crash, Mint, Insert, Unlocked,
         LoginRead, RefreshBegin, LogoutBegin, Present, ConsumeWins, Consume,
         ConsumeLoses, LookupUnknown, LookupReplay, CheckRefuses,
         CommitAndAnswer, CheckMismatch, CheckVersion, CheckPasses,
         SelectFamily, Select, FlushRow, FlushCommit, LogoutNothing,
         LogoutRevokes
<1>2. CASE UNCHANGED rt
  BY <1>1, <1>2 DEF Agrees, Issued
<1>3. ASSUME NEW new \in Tokens, Mint(p, new) PROVE Agrees(q)
  <2>1. rt[new].status = "absent"
    BY <1>3 DEF Mint, Insert
  <2>2. \A t \in Tokens \ {new} : rt'[t] = Committed(p)[t]
    BY <1>3 DEF Mint, Insert, Committed
  <2>3. \A t \in Issued : rt'[t] = Committed(p)[t] /\ t # new
    BY <2>1, <2>2 DEF Issued
  <2>4. \A t \in Issued :
          /\ rt'[t].status = IF lock[t] = p THEN "revoked" ELSE rt[t].status
          /\ rt'[t].family_id = rt[t].family_id
          /\ rt'[t].user_id = rt[t].user_id
          /\ rt'[t].token_version = rt[t].token_version
    <3>1. \A t \in Tokens :
            /\ Committed(p)[t].status = IF lock[t] = p THEN "revoked"
                                                      ELSE rt[t].status
            /\ Committed(p)[t].family_id = rt[t].family_id
            /\ Committed(p)[t].user_id = rt[t].user_id
            /\ Committed(p)[t].token_version = rt[t].token_version
      BY DEF Committed, IInv, TypeOK, Row
    <3> QED
      BY <2>3, <3>1 DEF Issued
  <2>5. \A t \in Tokens : lock[t] = q => t \in Issued /\ lock[t] # p
    BY DEF IInv, RowsOK
  <2> QED
    BY <1>1, <2>4, <2>5 DEF Agrees, Issued
<1>4. CASE CommitAndAnswer(p)
  BY <1>1, <1>4
     DEF Agrees, Issued, CommitAndAnswer, Committed, IInv, TypeOK, Row
<1> QED
  BY <1>2, <1>3, <1>4
     DEF Request, Step, Crash, LoginRead, RefreshBegin, LogoutBegin, Present,
         ConsumeWins, Consume, ConsumeLoses, LookupUnknown, LookupReplay,
         CheckRefuses, CheckMismatch, CheckVersion, CheckPasses,
         SelectFamily, Select, FlushRow, FlushCommit, LogoutNothing,
         LogoutRevokes

(* A request that is over remembers and holds nothing. *)
LEMMA AnswerKeeps ==
  ASSUME IInv, NEW p \in Procs, Answer(p),
         \A t \in Tokens : lock'[t] # p
  PROVE  RequestOK(p)' /\ HoldingOK(p)'
<1>1. pc'[p] = "idle" /\ req'[p] = NoReq
  BY DEF Answer, Goto, IInv, TypeOK
<1> QED
  BY <1>1 DEF RequestOK, HoldingOK, NoReq

(* Each step of p keeps p's own part of the invariant. *)
LEMMA StepKeeps ==
  ASSUME IInv, NEW p \in Procs, Request(p) \/ Step(p) \/ Crash(p)
  PROVE  RequestOK(p)' /\ HoldingOK(p)'
<1>0. /\ TypeOK /\ RequestOK(p) /\ HoldingOK(p)
      /\ req[p] \in Req /\ p # NoProc
      /\ \A q \in Procs : q # NoProc
  BY DEF IInv, TypeOK
<1>1. ASSUME NEW u \in Users, LoginRead(p, u)
      PROVE  RequestOK(p)' /\ HoldingOK(p)'
  <2>1. /\ pc[p] = "idle" /\ pc'[p] = "mint"
        /\ rt' = rt /\ lock' = lock
    BY <1>0, <1>1 DEF LoginRead, Goto, TypeOK
  <2>2. /\ req'[p].usr = u
        /\ req'[p].tok = req[p].tok
        /\ req'[p].sel = req[p].sel
    BY <1>0, <1>1 DEF LoginRead, TypeOK, Req
  <2>3. req[p].sel = {} /\ req[p].tok = NoToken
    BY <1>0, <2>1 DEF RequestOK
  <2> QED
    BY <1>0, <2>1, <2>2, <2>3 DEF RequestOK, HoldingOK, Issued
<1>2. ASSUME NEW new \in Tokens, Mint(p, new)
      PROVE  RequestOK(p)' /\ HoldingOK(p)'
  BY <1>0, <1>2, AnswerKeeps DEF Mint, Insert, Unlocked
<1>3. CASE CheckRefuses(p) \/ FlushCommit(p)
  BY <1>0, <1>3, AnswerKeeps
     DEF CheckRefuses, FlushCommit, CommitAndAnswer, Unlocked
<1>4. CASE Crash(p)
  BY <1>0, <1>4, AnswerKeeps DEF Crash, Unlocked
<1>5. CASE LookupUnknown(p) \/ LogoutNothing(p)
  BY <1>0, <1>5, AnswerKeeps DEF LookupUnknown, LogoutNothing, HoldingOK
<1>6. ASSUME NEW t \in Issued \cup {NoToken},
             RefreshBegin(p, t) \/ LogoutBegin(p, t)
      PROVE  RequestOK(p)' /\ HoldingOK(p)'
  BY <1>0, <1>6 DEF RefreshBegin, LogoutBegin, Present, Goto, TypeOK,
                    RequestOK, HoldingOK, Issued, Req
<1>7. CASE ConsumeWins(p)
  BY <1>0, <1>7 DEF ConsumeWins, Consume, Goto, TypeOK, RequestOK, HoldingOK,
                    Issued
<1>8. CASE ConsumeLoses(p)
  BY <1>0, <1>8 DEF ConsumeLoses, Goto, TypeOK, RequestOK, HoldingOK, Issued
<1>9. CASE LookupReplay(p)
  BY <1>0, <1>9 DEF LookupReplay, Goto, TypeOK, RequestOK, HoldingOK, Issued,
                    Req
<1>10. CASE CheckMismatch(p)
  BY <1>0, <1>10 DEF CheckMismatch, CheckVersion, Goto, TypeOK, RequestOK,
                     HoldingOK, Issued
<1>11. CASE CheckPasses(p)
  BY <1>0, <1>11 DEF CheckPasses, CheckVersion, Admit, Goto, TypeOK, IInv,
                     RowsOK, RequestOK, HoldingOK, Issued, Req
<1>12. CASE SelectFamily(p)
  BY <1>0, <1>12 DEF SelectFamily, Select, Goto, TypeOK, IInv, SingleLive,
                     RequestOK, HoldingOK, Live, Members, Issued, Held, Req
<1>13. ASSUME NEW t \in Tokens, FlushRow(p, t)
       PROVE  RequestOK(p)' /\ HoldingOK(p)'
  BY <1>0, <1>13 DEF FlushRow, TypeOK, RequestOK, HoldingOK, Issued
<1>14. CASE LogoutRevokes(p)
  BY <1>0, <1>14 DEF LogoutRevokes, NoLiveRow, Goto, TypeOK, RequestOK,
                     HoldingOK, Issued, Req
<1> QED
  BY <1>1, <1>2, <1>3, <1>4, <1>5, <1>6, <1>7, <1>8, <1>9, <1>10, <1>11,
     <1>12, <1>13, <1>14 DEF Request, Step

-----------------------------------------------------------------------------
(* The invariant *)

LEMMA NextIInv == IInv /\ [Next]_vars => IInv'
<1> SUFFICES ASSUME IInv, [Next]_vars PROVE IInv'
  OBVIOUS
<1>1. TypeOK'
  <2>1. TypeInv
    BY DEF IInv, TypeInv, RequestOK
  <2> QED
    BY <2>1, NextTypeInv DEF TypeInv
<1>2. TableInv'
  BY NextTable
<1>3. ASSUME NEW q \in Procs PROVE RequestOK(q)' /\ HoldingOK(q)'
  <2>1. ASSUME NEW p \in Procs, Request(p) \/ Step(p) \/ Crash(p)
        PROVE  RequestOK(q)' /\ HoldingOK(q)'
    <3>1. CASE p = q
      BY <2>1, <3>1, StepKeeps
    <3>2. CASE p # q
      BY <2>1, <3>2, StepAgrees, StepIsLocal, OthersKeep DEF IInv
    <3> QED
      BY <3>1, <3>2
  <2>2. ASSUME NEW t \in Tokens, Expire(t)
        PROVE  RequestOK(q)' /\ HoldingOK(q)'
    <3>1. Agrees(q) /\ pc'[q] = pc[q] /\ req'[q] = req[q]
      BY <2>2 DEF Expire, Agrees, Issued, IInv, TypeOK, Row
    <3> QED
      BY <3>1, OthersKeep
  <2>3. CASE UNCHANGED <<rt, lock, pc, req>>
    <3>1. Agrees(q) /\ pc'[q] = pc[q] /\ req'[q] = req[q]
      BY <2>3 DEF Agrees, Issued
    <3> QED
      BY <3>1, OthersKeep
  <2> QED
    BY <2>1, <2>2, <2>3
       DEF Next, Environment, BumpVersion, SetActive, vars
<1> QED
  BY <1>1, <1>2, <1>3 DEF IInv, TableInv

(* The inductive invariant holds in every reachable state. *)
THEOREM Invariance == Spec => []IInv
BY InitIInv, NextIInv, PTL DEF Spec

(* However many requests interleave, a family has one redeemable token. *)
THEOREM OneLiveToken == Spec => []SingleLive
<1>1. IInv => SingleLive
  BY DEF IInv
<1> QED
  BY <1>1, Invariance, PTL

(* A token is rotated into one new token, however often it is presented. *)
THEOREM OneRotation == Spec => []OneSuccessor
<1>1. IInv => OneSuccessor
  BY DEF IInv
<1> QED
  BY <1>1, Invariance, PTL

(* A family belongs to one user at one token_version. *)
THEOREM UniformFamilies == Spec => []FamilyUniform
<1>1. IInv => FamilyUniform
  BY DEF IInv
<1> QED
  BY <1>1, Invariance, PTL

(* A request that waits for a row lock holds none: no lock cycle. *)
THEOREM NoDeadlock == Spec => []NoHoldAndWait
<1>1. IInv => NoHoldAndWait
  <2> SUFFICES ASSUME IInv, NEW p \in Procs, Blocked(p) PROVE Held(p) = {}
    BY DEF NoHoldAndWait
  <2>1. HoldingOK(p) /\ RequestOK(p)
    BY DEF IInv
  <2>2. CASE pc[p] = "consume"
    BY <2>1, <2>2 DEF HoldingOK, Held
  <2>3. CASE pc[p] # "consume"
    <3>1. PICK t \in req[p].sel : lock[t] \notin {p, NoProc}
      BY <2>3 DEF Blocked
    <3>2. t \in Tokens
      BY <2>1, <3>1 DEF RequestOK, Issued
    <3> QED
      BY <2>1, <3>1, <3>2 DEF HoldingOK, Held
  <2> QED
    BY <2>2, <2>3
<1> QED
  BY <1>1, Invariance, PTL

-----------------------------------------------------------------------------
(* What clients see *)

(* A step that leaves every row's status and family alone is invisible. *)
LEMMA Invisible ==
  ASSUME IInv,
         \A t \in Tokens : /\ rt'[t].status = rt[t].status
                           /\ rt'[t].family_id = rt[t].family_id
  PROVE  UNCHANGED Sessions!fvars
BY DEF Sessions!fvars, Live, Spent, Members, Issued

(* A commit revokes at most one live token: it ends a family, or nothing. *)
LEMMA CommitIsEnd ==
  ASSUME IInv, NEW p \in Procs, CommitAndAnswer(p)
  PROVE  [Sessions!Next]_Sessions!fvars
<1>1. \A t \in Tokens :
        /\ rt'[t].family_id = rt[t].family_id
        /\ rt'[t].status = IF lock[t] = p THEN "revoked" ELSE rt[t].status
  BY DEF IInv, TypeOK, CommitAndAnswer, Committed, Row
<1>2. CASE \A t \in Tokens : lock[t] = p => rt[t].status = "revoked"
  <2>1. \A t \in Tokens : rt'[t].status = rt[t].status
    BY <1>1, <1>2
  <2> QED
    BY <1>1, <2>1, Invisible
<1>3. CASE \E t \in Tokens : lock[t] = p /\ rt[t].status # "revoked"
  <2>1. PICK t \in Tokens : lock[t] = p /\ rt[t].status # "revoked"
    BY <1>3
  <2>2. t \in Issued /\ rt[t].status = "live" /\ p # NoProc
    BY <2>1 DEF IInv, RowsOK, Issued, TypeOK, Row
  <2>3. PICK f \in Tokens : f = rt[t].family_id
    BY <2>2 DEF IInv, RowsOK, Issued
  <2>4. \A s \in Tokens \ {t} : lock[s] = p => rt[s].status = "revoked"
    <3>1. ASSUME NEW s \in Tokens, lock[s] = p
          PROVE  s \in Issued /\ rt[s].family_id = f
      BY <2>1, <2>2, <2>3, <3>1 DEF IInv, HoldingOK, RowsOK, Issued
    <3>2. ASSUME NEW s \in Tokens, lock[s] = p, rt[s].status = "live"
          PROVE  s = t
      BY <2>2, <2>3, <3>1, <3>2 DEF IInv, SingleLive
    <3> QED
      BY <3>1, <3>2 DEF Issued, IInv, TypeOK, Row
  <2>5. Live(f) = {t}
    BY <2>2, <2>3 DEF Live, Members, IInv, SingleLive, Issued
  <2>6. \A s \in Tokens \ {t} : rt'[s].status = rt[s].status
    BY <1>1, <2>4
  <2>7. rt'[t].status = "revoked"
    BY <1>1, <2>1
  <2>8. Live(f)' = {} /\ Spent(f)' = Spent(f) \cup {t}
    <3>1. Live(f)' = {}
      BY <1>1, <2>2, <2>3, <2>5, <2>6, <2>7 DEF Live, Members, Issued
    <3>2. Spent(f)' = Spent(f) \cup {t}
      BY <1>1, <2>2, <2>3, <2>6, <2>7 DEF Spent, Members, Issued
    <3> QED
      BY <3>1, <3>2
  <2>9. \A g \in Tokens \ {f} : Live(g)' = Live(g) /\ Spent(g)' = Spent(g)
    BY <1>1, <2>2, <2>3, <2>6, <2>7 DEF Live, Spent, Members, Issued
  <2>10. Sessions!End(f, t)
    <3>1. [g \in Tokens |-> Live(g)]'
            = [[g \in Tokens |-> Live(g)] EXCEPT ![f] = {}]
      BY <2>3, <2>8, <2>9
    <3>2. [g \in Tokens |-> Spent(g)]'
            = [[g \in Tokens |-> Spent(g)] EXCEPT ![f] = @ \cup {t}]
      BY <2>3, <2>8, <2>9
    <3> QED
      BY <2>3, <2>5, <3>1, <3>2 DEF Sessions!End
  <2> QED
    BY <2>3, <2>10 DEF Sessions!Next
<1> QED
  BY <1>2, <1>3

(* A mint opens a family or rotates the one live token of a family. *)
LEMMA MintIsOpenOrRotate ==
  ASSUME IInv, NEW p \in Procs, NEW new \in Tokens, Mint(p, new)
  PROVE  Sessions!Next
<1>0. PICK old, f :
        old = req[p].tok /\ f = IF old = NoToken THEN new ELSE rt[old].family_id
  OBVIOUS
<1>1. /\ pc[p] = "mint" /\ new \notin Issued
      /\ old # NoToken =>
           old \in Issued /\ lock[old] = p /\ rt[old].status = "live"
  BY <1>0 DEF Mint, Insert, IInv, RequestOK, HoldingOK, Issued
<1>2. rt'[new].status = "live" /\ rt'[new].family_id = f
  BY <1>0 DEF IInv, TypeOK, Mint, Insert, Committed, FamilyFor
<1>3. \A t \in Tokens \ {new} :
        /\ rt'[t].family_id = rt[t].family_id
        /\ rt'[t].status = IF t = old THEN "revoked" ELSE rt[t].status
  <2>1. \A t \in Tokens : lock[t] = p <=> t = old
    BY <1>0, <1>1 DEF IInv, HoldingOK, Issued
  <2> QED
    BY <2>1 DEF IInv, TypeOK, Mint, Insert, Committed, Row
<1>4. ~ Sessions!Known(new)
  BY <1>1 DEF Sessions!Known, Live, Spent, Members
<1>5. \A g \in Tokens \ {f} : Live(g)' = Live(g) /\ Spent(g)' = Spent(g)
  BY <1>0, <1>1, <1>2, <1>3 DEF Live, Spent, Members, Issued
<1>6. CASE old = NoToken
  <2>1. f = new
    BY <1>0, <1>6
  <2>2. \A t \in Issued : rt[t].family_id # new
    BY <1>1 DEF IInv, RowsOK, Issued
  <2>3. Live(new) = {} /\ Spent(new) = {}
    BY <2>2 DEF Live, Spent, Members
  <2>4. Live(new)' = {new} /\ Spent(new)' = {}
    BY <1>1, <1>2, <1>3, <1>6, <2>1, <2>2 DEF Live, Spent, Members, Issued
  <2>5. Sessions!Open(new, new)
    BY <1>4, <1>5, <2>1, <2>3, <2>4 DEF Sessions!Open
  <2> QED
    BY <2>5 DEF Sessions!Next
<1>7. CASE old # NoToken
  <2>1. f \in Tokens /\ old \in Tokens
    BY <1>0, <1>1, <1>7 DEF IInv, RowsOK, Issued
  <2>2. Live(f) = {old}
    BY <1>0, <1>1, <1>7 DEF Live, Members, IInv, SingleLive, Issued
  <2>3. Live(f)' = {new}
    <3>1. \A s \in Tokens \ {new, old} : s \notin Live(f)'
      BY <1>3, <2>2 DEF Live, Members, Issued
    <3>2. new \in Live(f)' /\ old \notin Live(f)'
      BY <1>0, <1>1, <1>2, <1>3, <1>7, <2>1 DEF Live, Members, Issued
    <3>3. Live(f)' \subseteq Tokens
      BY DEF Live, Members, Issued
    <3> QED
      BY <3>1, <3>2, <3>3
  <2>4. Spent(f)' = Spent(f) \cup {old}
    <3>1. \A s \in Tokens \ {new, old} : s \in Spent(f)' <=> s \in Spent(f)
      BY <1>3 DEF Spent, Members, Issued
    <3>2. new \notin Spent(f)' /\ new \notin Spent(f) /\ old \in Spent(f)'
      BY <1>0, <1>1, <1>2, <1>3, <1>7, <2>1 DEF Spent, Members, Issued
    <3>3. Spent(f)' \subseteq Tokens /\ Spent(f) \subseteq Tokens
      BY DEF Spent, Members, Issued
    <3> QED
      BY <2>1, <3>1, <3>2, <3>3
  <2>5. Sessions!Rotate(f, old, new)
    <3>1. [g \in Tokens |-> Live(g)]'
            = [[g \in Tokens |-> Live(g)] EXCEPT ![f] = {new}]
      BY <1>5, <2>1, <2>3
    <3>2. [g \in Tokens |-> Spent(g)]'
            = [[g \in Tokens |-> Spent(g)] EXCEPT ![f] = @ \cup {old}]
      BY <1>5, <2>1, <2>4
    <3> QED
      BY <1>4, <2>1, <2>2, <3>1, <3>2 DEF Sessions!Rotate
  <2> QED
    BY <2>1, <2>5 DEF Sessions!Next
<1> QED
  BY <1>6, <1>7

(* Every step of the row-level protocol is a step of the sessions. *)
LEMMA StepMaps == IInv /\ [Next]_vars => [Sessions!Next]_Sessions!fvars
<1> SUFFICES ASSUME IInv, [Next]_vars PROVE [Sessions!Next]_Sessions!fvars
  OBVIOUS
<1>1. CASE UNCHANGED rt
  BY <1>1, Invisible
<1>2. ASSUME NEW t \in Tokens, Expire(t)
      PROVE  [Sessions!Next]_Sessions!fvars
  <2>1. \A s \in Tokens : /\ rt'[s].status = rt[s].status
                          /\ rt'[s].family_id = rt[s].family_id
    BY <1>2 DEF Expire, IInv, TypeOK, Row
  <2> QED
    BY <2>1, Invisible
<1>3. ASSUME NEW p \in Procs, CommitAndAnswer(p)
      PROVE  [Sessions!Next]_Sessions!fvars
  BY <1>3, CommitIsEnd
<1>4. ASSUME NEW p \in Procs, NEW new \in Tokens, Mint(p, new)
      PROVE  [Sessions!Next]_Sessions!fvars
  BY <1>4, MintIsOpenOrRotate
<1> QED
  BY <1>1, <1>2, <1>3, <1>4
     DEF Next, Request, Step, Environment, LoginRead, RefreshBegin,
         LogoutBegin, Present, ConsumeWins, Consume, ConsumeLoses,
         LookupUnknown, LookupReplay, CheckRefuses, CheckMismatch,
         CheckVersion, CheckPasses, SelectFamily, Select, FlushRow,
         FlushCommit, LogoutNothing, LogoutRevokes, Crash, BumpVersion,
         SetActive, vars

(* The endpoints implement TokenFamily, whatever the interleaving. *)
THEOREM Implementation == Spec => SessionSpec
<1>1. Init => Sessions!Init
  BY DEF Init, NoRow, Sessions!Init, Live, Spent, Members, Issued
<1> QED
  BY <1>1, StepMaps, Invariance, PTL DEF Spec, SessionSpec, Sessions!Spec

(* An ended family never gets a live token again. *)
THEOREM EndedForGood == Spec => EndedStaysEnded
<1>1. ASSUME IInv, [Next]_vars
      PROVE  \A f \in Tokens :
               Spent(f) # {} /\ Live(f) = {} => Live(f)' = {}
  <2>1. SUFFICES ASSUME NEW f \in Tokens, Spent(f) # {}, Live(f) = {}
                 PROVE  Live(f)' = {}
    OBVIOUS
  <2>2. [Sessions!Next]_Sessions!fvars
    BY <1>1, StepMaps
  <2>3. CASE UNCHANGED Sessions!fvars
    BY <2>1, <2>3 DEF Sessions!fvars
  <2>4. ASSUME NEW g \in Tokens, NEW t \in Tokens, Sessions!Open(g, t)
        PROVE  Live(f)' = {}
    BY <2>1, <2>4 DEF Sessions!Open
  <2>5. ASSUME NEW g \in Tokens, NEW t \in Tokens, NEW new \in Tokens,
               Sessions!Rotate(g, t, new)
        PROVE  Live(f)' = {}
    BY <2>1, <2>5 DEF Sessions!Rotate
  <2>6. ASSUME NEW g \in Tokens, NEW t \in Tokens, Sessions!End(g, t)
        PROVE  Live(f)' = {}
    BY <2>1, <2>6 DEF Sessions!End
  <2> QED
    BY <2>2, <2>3, <2>4, <2>5, <2>6 DEF Sessions!Next
<1> QED
  BY <1>1, Invariance, PTL DEF Spec, EndedStaysEnded

-----------------------------------------------------------------------------
(* Version bumps *)

(* No row, and no mint under way, is ahead of its user's version. *)
VersionInv ==
  /\ \A t \in Issued : rt[t].token_version <= version[rt[t].user_id]
  /\ \A p \in Procs : pc[p] = "mint" => req[p].seen <= version[req[p].usr]

LEMMA InitVersionInv == Init => VersionInv
BY DEF Init, VersionInv, Issued, NoRow

(* The columns a row is born with stay as they are. *)
LEMMA RowsKeep ==
  ASSUME IInv, [Next]_vars, NEW t \in Issued
  PROVE  /\ t \in Issued'
         /\ rt'[t].family_id = rt[t].family_id
         /\ rt'[t].user_id = rt[t].user_id
         /\ rt'[t].token_version = rt[t].token_version
<1>1. CASE UNCHANGED rt
  BY <1>1 DEF Issued
<1>2. ASSUME NEW u \in Tokens, Expire(u)
      PROVE  /\ rt'[t].status = rt[t].status
             /\ rt'[t].family_id = rt[t].family_id
             /\ rt'[t].user_id = rt[t].user_id
             /\ rt'[t].token_version = rt[t].token_version
  BY <1>2 DEF Expire, IInv, TypeOK, Row, Issued
<1>3. ASSUME NEW p \in Procs
      PROVE  /\ Committed(p)[t].status \in {rt[t].status, "revoked"}
             /\ Committed(p)[t].family_id = rt[t].family_id
             /\ Committed(p)[t].user_id = rt[t].user_id
             /\ Committed(p)[t].token_version = rt[t].token_version
  BY DEF Committed, IInv, TypeOK, Row, Issued
<1>4. ASSUME NEW p \in Procs, CommitAndAnswer(p)
      PROVE  rt'[t] = Committed(p)[t]
  BY <1>4 DEF CommitAndAnswer
<1>5. ASSUME NEW p \in Procs, NEW new \in Tokens, Mint(p, new)
      PROVE  rt'[t] = Committed(p)[t]
  BY <1>5 DEF Mint, Insert, Committed, Issued
<1> QED
  BY <1>1, <1>2, <1>3, <1>4, <1>5
     DEF Issued, Next, Request, Step, Environment, LoginRead, RefreshBegin,
         LogoutBegin, Present, ConsumeWins, Consume, ConsumeLoses,
         LookupUnknown, LookupReplay, CheckRefuses, CheckMismatch,
         CheckVersion, CheckPasses, SelectFamily, Select, FlushRow,
         FlushCommit, LogoutNothing, LogoutRevokes, Crash, BumpVersion,
         SetActive, vars

(* Rows are born by a mint only. *)
LEMMA BirthIsMint ==
  ASSUME IInv, [Next]_vars, NEW t \in Issued', t \notin Issued
  PROVE  \E p \in Procs : Mint(p, t)
<1>1. t \in Tokens /\ rt[t].status = "absent" /\ rt'[t].status # "absent"
  BY DEF Issued, IInv, TypeOK
<1>2. ASSUME NEW u \in Tokens, Expire(u) PROVE FALSE
  BY <1>1, <1>2 DEF Expire, IInv, TypeOK, Row
<1>3. ASSUME NEW p \in Procs, CommitAndAnswer(p) PROVE FALSE
  <2>1. lock[t] = NoProc /\ p # NoProc
    BY <1>1 DEF IInv, TypeOK, RowsOK, Issued
  <2> QED
    BY <1>1, <1>3, <2>1 DEF CommitAndAnswer, Committed
<1>4. ASSUME NEW p \in Procs, NEW new \in Tokens, Mint(p, new)
      PROVE  t = new
  <2>1. lock[t] = NoProc /\ p # NoProc
    BY <1>1 DEF IInv, TypeOK, RowsOK, Issued
  <2> QED
    BY <1>1, <1>4, <2>1 DEF Mint, Insert, Committed, IInv, TypeOK
<1> QED
  BY <1>1, <1>2, <1>3, <1>4
     DEF Next, Request, Step, Environment, LoginRead, RefreshBegin,
         LogoutBegin, Present, ConsumeWins, Consume, ConsumeLoses,
         LookupUnknown, LookupReplay, CheckRefuses, CheckMismatch,
         CheckVersion, CheckPasses, SelectFamily, Select, FlushRow,
         FlushCommit, LogoutNothing, LogoutRevokes, Crash, BumpVersion,
         SetActive, vars

(* A mint begins after a login read its user, or after the version check. *)
LEMMA MintBegins ==
  ASSUME IInv, [Next]_vars, NEW p \in Procs, pc'[p] = "mint"
  PROVE  \/ pc[p] = "mint" /\ req'[p] = req[p]
         \/ \E u \in Users : LoginRead(p, u)
         \/ CheckPasses(p)
<1>1. ASSUME NEW q \in Procs, q # p, Request(q) \/ Step(q) \/ Crash(q)
      PROVE  pc[p] = "mint" /\ req'[p] = req[p]
  BY <1>1, StepIsLocal DEF IInv
<1>2. CASE UNCHANGED <<pc, req>>
  BY <1>2
<1>3. CASE Request(p) \/ Step(p) \/ Crash(p)
  BY <1>3
     DEF IInv, TypeOK, Request, Step, Crash, Answer, Goto, Mint, Insert,
         RefreshBegin, LogoutBegin, Present, ConsumeWins, Consume,
         ConsumeLoses, LookupUnknown, LookupReplay, CheckRefuses,
         CommitAndAnswer, CheckMismatch, CheckVersion, SelectFamily, Select,
         FlushRow, FlushCommit, LogoutNothing, LogoutRevokes
<1> QED
  BY <1>1, <1>2, <1>3
     DEF Next, Environment, Expire, BumpVersion, SetActive, vars

(* Versions only grow. *)
LEMMA VersionsGrow ==
  ASSUME IInv, [Next]_vars, NEW u \in Users
  PROVE  version[u] \in Nat /\ version'[u] \in Nat /\ version[u] <= version'[u]
<1>1. version[u] \in Nat
  BY DEF IInv, TypeOK, Versions
<1>2. ASSUME NEW w \in Users, BumpVersion(w)
      PROVE  version'[u] \in Nat /\ version[u] <= version'[u]
  BY <1>1, <1>2 DEF BumpVersion, IInv, TypeOK
<1>3. CASE UNCHANGED version
  BY <1>1, <1>3
<1>4. ASSUME NEW p \in Procs, Request(p) \/ Step(p) \/ Crash(p)
      PROVE  version' = version
  BY <1>4
     DEF Request, Step, LoginRead, Mint, Insert, RefreshBegin, LogoutBegin,
         Present, ConsumeWins, Consume, ConsumeLoses, LookupUnknown,
         LookupReplay, CheckRefuses, CommitAndAnswer, CheckMismatch,
         CheckVersion, CheckPasses, SelectFamily, Select, FlushRow,
         FlushCommit, LogoutNothing, LogoutRevokes, Crash, users
<1> QED
  BY <1>1, <1>2, <1>3, <1>4
     DEF Next, Environment, Expire, SetActive, users, vars

(* What the row of a mint is made of. *)
LEMMA MintedRow ==
  ASSUME IInv, NEW p \in Procs, NEW new \in Tokens, Mint(p, new)
  PROVE  /\ pc[p] = "mint" /\ new \notin Issued
         /\ rt'[new].family_id = FamilyFor(p, new)
         /\ rt'[new].user_id = req[p].usr
         /\ rt'[new].token_version = req[p].seen
BY DEF IInv, TypeOK, Mint, Insert, Committed, Issued

LEMMA NextVersionInv == IInv /\ VersionInv /\ [Next]_vars => VersionInv'
<1> SUFFICES ASSUME IInv, VersionInv, [Next]_vars PROVE VersionInv'
  OBVIOUS
<1>1. \A t \in Issued : rt[t].user_id \in Users /\ rt[t].token_version \in Nat
  BY DEF IInv, TypeOK, RowsOK, Issued, Row, Versions
<1>2. \A p \in Procs : pc[p] = "mint" => req[p].usr \in Users
  BY DEF IInv, RequestOK
<1>3. \A p \in Procs : req[p].seen \in Nat
  BY DEF IInv, TypeOK, Req, Versions
<1>4. ASSUME NEW t \in Issued'
      PROVE  rt'[t].token_version <= version'[rt'[t].user_id]
  <2>1. CASE t \in Issued
    BY <1>1, <2>1, RowsKeep, VersionsGrow DEF VersionInv
  <2>2. CASE t \notin Issued
    <3>1. PICK p \in Procs : Mint(p, t)
      BY <1>4, <2>2, BirthIsMint
    <3>2. t \in Tokens
      BY <1>4 DEF Issued
    <3> QED
      BY <1>2, <1>3, <3>1, <3>2, MintedRow, VersionsGrow DEF VersionInv
  <2> QED
    BY <2>1, <2>2
<1>5. ASSUME NEW p \in Procs, pc'[p] = "mint"
      PROVE  req'[p].seen <= version'[req'[p].usr]
  <2>1. CASE pc[p] = "mint" /\ req'[p] = req[p]
    BY <1>2, <1>3, <2>1, VersionsGrow DEF VersionInv
  <2>2. ASSUME NEW u \in Users, LoginRead(p, u)
        PROVE  req'[p].seen <= version'[req'[p].usr]
    <3>1. req'[p].usr = u /\ req'[p].seen = version[u]
      BY <2>2 DEF LoginRead, IInv, TypeOK, Req
    <3> QED
      BY <3>1, VersionsGrow
  <2>3. CASE CheckPasses(p)
    <3> DEFINE r == rt[req[p].tok]
    <3>1. req'[p].usr = r.user_id /\ req'[p].seen = r.token_version
      BY <2>3 DEF CheckPasses, Admit, IInv, TypeOK, Req
    <3>2. req[p].tok \in Issued
      BY <2>3 DEF CheckPasses, CheckVersion, IInv, RequestOK
    <3>3. r.token_version = version[r.user_id]
      BY <2>3 DEF CheckPasses, CheckVersion, CurrentVersion
    <3> QED
      BY <1>1, <3>1, <3>2, <3>3, VersionsGrow
  <2> QED
    BY <1>5, <2>1, <2>2, <2>3, MintBegins
<1> QED
  BY <1>4, <1>5 DEF VersionInv

(* Once no refresh is past its version check, a family of an old version   *)
(* gains no token and never becomes current.                               *)
THEOREM BumpsAreFinal == Spec => BumpIsFinal
<1>1. ASSUME IInv, VersionInv, [Next]_vars
      PROVE  \A f \in Tokens :
               Outdated(f) => Outdated(f)' /\ Members(f)' = Members(f)
  <2>1. SUFFICES ASSUME NEW f \in Tokens, Outdated(f)
                 PROVE  Outdated(f)' /\ Members(f)' = Members(f)
    OBVIOUS
  <2>2. \A t \in Issued :
          /\ rt[t].user_id \in Users
          /\ rt[t].token_version \in Nat /\ version[rt[t].user_id] \in Nat
          /\ rt[t].family_id \in Issued
    BY <1>1 DEF IInv, TypeOK, RowsOK, Issued, Row, Versions
  <2>3. \A t \in Members(f) :
          t \in Issued /\ rt[t].token_version < version[rt[t].user_id]
    BY <1>1, <2>1, <2>2 DEF Outdated, Members, VersionInv
  <2>4. f \in Issued
    BY <2>1, <2>2 DEF Outdated, Members
  <2>5. ASSUME NEW t \in Issued', t \notin Issued
        PROVE  rt'[t].family_id # f
    <3>1. PICK p \in Procs : Mint(p, t)
      BY <1>1, <2>5, BirthIsMint
    <3>2. /\ t \in Tokens /\ pc[p] = "mint"
          /\ rt'[t].family_id = FamilyFor(p, t)
      BY <1>1, <2>5, <3>1, MintedRow DEF Issued
    <3>3. FamilyFor(p, NoToken) # f
      BY <2>1, <3>2 DEF Outdated
    <3> QED
      BY <2>4, <2>5, <3>2, <3>3 DEF FamilyFor
  <2>6. Members(f)' = Members(f)
    BY <1>1, <2>5, RowsKeep DEF Members
  <2>7. ASSUME NEW t \in Members(f)
        PROVE  rt'[t].token_version # version'[rt'[t].user_id]
    BY <1>1, <2>2, <2>3, <2>7, RowsKeep, VersionsGrow
  <2>8. ASSUME NEW p \in Procs, pc'[p] = "mint"
        PROVE  FamilyFor(p, NoToken)' # f
    <3>1. CASE pc[p] = "mint" /\ req'[p] = req[p]
      <4>1. FamilyFor(p, NoToken) # f
        BY <2>1, <3>1 DEF Outdated
      <4>2. req[p].tok # NoToken => req[p].tok \in Issued
        BY <1>1 DEF IInv, RequestOK
      <4> QED
        BY <1>1, <3>1, <4>1, <4>2, RowsKeep DEF FamilyFor
    <3>2. ASSUME NEW u \in Users, LoginRead(p, u)
          PROVE  FamilyFor(p, NoToken)' # f
      <4>1. req'[p].tok = NoToken
        BY <1>1, <3>2 DEF LoginRead, IInv, TypeOK, Req, RequestOK
      <4> QED
        BY <4>1 DEF FamilyFor
    <3>3. CASE CheckPasses(p)
      <4> DEFINE t == req[p].tok
      <4>1. t \in Issued /\ req'[p].tok = t /\ rt' = rt
        BY <1>1, <3>3
           DEF CheckPasses, CheckVersion, Admit, IInv, TypeOK, Req, RequestOK
      <4>2. rt[t].token_version = version[rt[t].user_id]
        BY <3>3 DEF CheckPasses, CheckVersion, CurrentVersion
      <4>3. t \notin Members(f)
        BY <2>1, <4>2 DEF Outdated
      <4> QED
        BY <4>1, <4>3 DEF FamilyFor, Members, Issued
    <3> QED
      BY <1>1, <2>8, <3>1, <3>2, <3>3, MintBegins
  <2> QED
    BY <2>1, <2>6, <2>7, <2>8 DEF Outdated
<1> QED
  BY <1>1, Invariance, InitVersionInv, NextVersionInv, PTL
     DEF Spec, BumpIsFinal

-----------------------------------------------------------------------------
(* Replays *)

(* A replay handler holds nothing but what it selected; what it selected   *)
(* is all that is live in the family, unless a row of it was rotated since.*)
ReplayInv(p) ==
  /\ pc[p] = "lookup" /\ req[p].tok # NoToken =>
       rt[req[p].tok].status = "revoked"
  /\ req[p].replay =>
       /\ pc[p] \in {"select", "flush"}
       /\ rt[req[p].tok].status = "revoked"
       /\ \A t \in Tokens : lock[t] = p => t \in req[p].sel
       /\ pc[p] = "flush" =>
            \/ Live(rt[req[p].tok].family_id) \subseteq req[p].sel
            \/ \E t \in req[p].sel : rt[t].status = "revoked"

(* A spent token never comes back. *)
LEMMA SpentStays ==
  ASSUME IInv, [Next]_vars, NEW t \in Tokens, rt[t].status = "revoked"
  PROVE  rt'[t].status = "revoked"
<1>1. ASSUME NEW p \in Procs PROVE Committed(p)[t].status = "revoked"
  BY DEF Committed, IInv, TypeOK, Row
<1>2. ASSUME NEW p \in Procs, NEW new \in Tokens, Mint(p, new)
      PROVE  rt'[t].status = "revoked"
  BY <1>1, <1>2 DEF Mint, Insert, Committed
<1>3. ASSUME NEW p \in Procs, CommitAndAnswer(p)
      PROVE  rt'[t].status = "revoked"
  BY <1>1, <1>3 DEF CommitAndAnswer
<1>4. ASSUME NEW u \in Tokens, Expire(u)
      PROVE  rt'[t].status = "revoked"
  BY <1>4 DEF Expire, IInv, TypeOK, Row
<1> QED
  BY <1>2, <1>3, <1>4
     DEF Next, Request, Step, Environment, LoginRead, RefreshBegin,
         LogoutBegin, Present, ConsumeWins, Consume, ConsumeLoses,
         LookupUnknown, LookupReplay, CheckRefuses, CheckMismatch,
         CheckVersion, CheckPasses, SelectFamily, Select, FlushRow,
         FlushCommit, LogoutNothing, LogoutRevokes, Crash, BumpVersion,
         SetActive, vars

(* Whatever is done to the family meanwhile, the handler's selection still *)
(* covers its live token or holds a row that was rotated.                  *)
LEMMA SelectionKeeps ==
  ASSUME IInv, [Next]_vars, NEW f \in Tokens, NEW S \in SUBSET Tokens,
         Spent(f) # {},
         Live(f) \subseteq S \/ \E t \in S : rt[t].status = "revoked"
  PROVE  Live(f)' \subseteq S \/ \E t \in S : rt'[t].status = "revoked"
<1>1. CASE \E t \in S : rt[t].status = "revoked"
  BY <1>1, SpentStays
<1>2. CASE Live(f) \subseteq S
  <2>1. [Sessions!Next]_Sessions!fvars
    BY StepMaps
  <2>2. CASE UNCHANGED Sessions!fvars
    BY <1>2, <2>2 DEF Sessions!fvars
  <2>3. ASSUME NEW g \in Tokens, NEW t \in Tokens,
               Sessions!Open(g, t) \/ Sessions!End(g, t)
        PROVE  Live(f)' \subseteq S
    BY <1>2, <2>3 DEF Sessions!Open, Sessions!End
  <2>4. ASSUME NEW g \in Tokens, NEW t \in Tokens, NEW new \in Tokens,
               Sessions!Rotate(g, t, new)
        PROVE  Live(f)' \subseteq S \/ \E u \in S : rt'[u].status = "revoked"
    <3>1. CASE g # f
      BY <1>2, <2>4, <3>1 DEF Sessions!Rotate
    <3>2. CASE g = f
      <4>1. t \in S /\ t \in Spent(f)'
        BY <1>2, <2>4, <3>2 DEF Sessions!Rotate
      <4> QED
        BY <4>1 DEF Spent
    <3> QED
      BY <3>1, <3>2
  <2> QED
    BY <2>1, <2>2, <2>3, <2>4 DEF Sessions!Next
<1> QED
  BY <1>1, <1>2

(* Assigning the other fields of a request leaves its replay flag alone. *)
LEMMA ReplayKept ==
  ASSUME NEW r \in Req, NEW a, NEW b
  PROVE  /\ [r EXCEPT !.usr = a, !.seen = b].replay <=> r.replay
         /\ [r EXCEPT !.tok = a].replay <=> r.replay
         /\ [r EXCEPT !.sel = a].replay <=> r.replay
BY DEF Req

(* The steps of a request that has found a replay. *)
LEMMA ReplaySteps ==
  ASSUME IInv, NEW p \in Procs, ReplayInv(p), req'[p].replay,
         Request(p) \/ Step(p) \/ Crash(p)
  PROVE  \/ LookupReplay(p) \/ SelectFamily(p)
         \/ \E t \in Tokens : FlushRow(p, t)
<1>1. ASSUME Answer(p) PROVE FALSE
  BY <1>1 DEF Answer, NoReq, IInv, TypeOK
<1>2. ASSUME pc[p] \notin {"select", "flush"}, req'[p].replay = req[p].replay
      PROVE  FALSE
  BY <1>2 DEF ReplayInv
<1>3. ASSUME NEW u \in Users, LoginRead(p, u) PROVE FALSE
  <2>1. req'[p].replay = req[p].replay
    BY <1>3, ReplayKept DEF LoginRead, IInv, TypeOK
  <2>2. pc[p] = "idle"
    BY <1>3 DEF LoginRead
  <2> QED
    BY <1>2, <2>1, <2>2
<1>4. ASSUME NEW t \in Issued \cup {NoToken},
             RefreshBegin(p, t) \/ LogoutBegin(p, t)
      PROVE  FALSE
  <2>1. req'[p].replay = req[p].replay
    <3>1. req[p] \in Req /\ p \in DOMAIN req
      BY DEF IInv, TypeOK
    <3>2. req'[p] = [req[p] EXCEPT !.tok = t]
      BY <1>4, <3>1 DEF RefreshBegin, LogoutBegin, Present
    <3>3. [req[p] EXCEPT !.tok = t].replay <=> req[p].replay
      BY <3>1, ReplayKept
    <3> QED
      BY <3>1, <3>2, <3>3 DEF Req
  <2>2. pc[p] = "idle"
    BY <1>4 DEF RefreshBegin, LogoutBegin, Present
  <2> QED
    BY <1>2, <2>1, <2>2
<1>5. req[p] \in Req /\ p \in DOMAIN req
  BY DEF IInv, TypeOK
<1>6. ASSUME CheckPasses(p) PROVE FALSE
  <2>1. PICK a, b : req'[p] = [req[p] EXCEPT !.usr = a, !.seen = b]
    BY <1>5, <1>6 DEF CheckPasses, Admit
  <2>2. [req[p] EXCEPT !.usr = a, !.seen = b].replay <=> req[p].replay
    BY <1>5, ReplayKept
  <2>3. pc[p] = "check"
    BY <1>6 DEF CheckPasses, CheckVersion
  <2> QED
    BY <2>1, <2>2, <2>3 DEF ReplayInv
<1>7. ASSUME LogoutRevokes(p) PROVE FALSE
  <2>1. PICK a : req'[p] = [req[p] EXCEPT !.sel = a]
    BY <1>5, <1>7 DEF LogoutRevokes
  <2>2. [req[p] EXCEPT !.sel = a].replay <=> req[p].replay
    BY <1>5, ReplayKept
  <2>3. pc[p] = "logout"
    BY <1>7 DEF LogoutRevokes
  <2> QED
    BY <2>1, <2>2, <2>3 DEF ReplayInv
<1> QED
  BY <1>1, <1>2, <1>3, <1>4, <1>6, <1>7
     DEF Request, Step, Crash, Mint, Insert, ConsumeWins, Consume,
         ConsumeLoses, LookupUnknown, CheckRefuses, CommitAndAnswer,
         CheckMismatch, CheckVersion, FlushCommit, LogoutNothing

LEMMA NextReplayInv ==
  ASSUME IInv, [Next]_vars, NEW p \in Procs, ReplayInv(p)
  PROVE  ReplayInv(p)'
<1>1. /\ p # NoProc /\ TypeOK /\ RequestOK(p) /\ HoldingOK(p)
      /\ req[p] \in Req
  BY DEF IInv, TypeOK
<1>2. CASE /\ pc'[p] = pc[p] /\ req'[p] = req[p]
           /\ \A t \in Tokens : lock'[t] = p => lock[t] = p
  <2>1. ASSUME pc[p] = "lookup", req[p].tok # NoToken
        PROVE  rt'[req[p].tok].status = "revoked"
    BY <1>1, <2>1, SpentStays DEF ReplayInv, RequestOK, Issued
  <2>2. ASSUME req[p].replay
        PROVE  /\ rt'[req[p].tok].status = "revoked"
               /\ rt'[req[p].tok].family_id = rt[req[p].tok].family_id
               /\ rt[req[p].tok].family_id \in Tokens
               /\ req[p].tok \in Spent(rt[req[p].tok].family_id)
    <3>1. req[p].tok \in Issued
      BY <1>1, <2>2 DEF ReplayInv, RequestOK
    <3>2. rt[req[p].tok].family_id \in Tokens
      BY <3>1 DEF IInv, RowsOK, Issued
    <3> QED
      BY <2>2, <3>1, <3>2, SpentStays, RowsKeep
         DEF ReplayInv, Issued, Spent, Members
  <2>3. ASSUME req[p].replay, pc[p] = "flush"
        PROVE  \/ Live(rt[req[p].tok].family_id)' \subseteq req[p].sel
               \/ \E t \in req[p].sel : rt'[t].status = "revoked"
    <3>1. PICK f \in Tokens : f = rt[req[p].tok].family_id
      BY <2>2, <2>3
    <3>2. req[p].sel \in SUBSET Tokens
      BY <1>1 DEF Req
    <3>3. \/ Live(f)' \subseteq req[p].sel
          \/ \E t \in req[p].sel : rt'[t].status = "revoked"
      BY <2>2, <2>3, <3>1, <3>2, SelectionKeeps DEF ReplayInv
    <3>4. Live(rt[req[p].tok].family_id)' = Live(f)'
      BY <1>2, <2>2, <2>3, <3>1 DEF Live, Members, Issued
    <3> QED
      BY <3>3, <3>4
  <2> QED
    BY <1>2, <2>1, <2>2, <2>3 DEF ReplayInv
<1>3. CASE Request(p) \/ Step(p) \/ Crash(p)
  <2>1. ASSUME pc'[p] = "lookup", req'[p].tok # NoToken
        PROVE  rt'[req'[p].tok].status = "revoked"
    <3>1. ConsumeLoses(p)
      BY <1>1, <1>3, <2>1
         DEF TypeOK, Request, Step, Crash, Answer, Goto, LoginRead, Mint,
             Insert, RefreshBegin, LogoutBegin, Present, ConsumeWins, Consume,
             LookupUnknown, LookupReplay, CheckRefuses, CommitAndAnswer,
             CheckMismatch, CheckVersion, CheckPasses, Admit, SelectFamily,
             Select, FlushRow, FlushCommit, LogoutNothing, LogoutRevokes
    <3> QED
      BY <2>1, <3>1 DEF ConsumeLoses, NoLiveRow
  <2>2. ASSUME req'[p].replay, LookupReplay(p)
        PROVE  /\ pc'[p] = "select" /\ rt'[req'[p].tok].status = "revoked"
               /\ \A t \in Tokens : lock'[t] # p
    BY <1>1, <2>2 DEF LookupReplay, Goto, TypeOK, Req, ReplayInv, HoldingOK
  <2>3. ASSUME req'[p].replay, SelectFamily(p)
        PROVE  /\ pc'[p] = "flush" /\ rt'[req'[p].tok].status = "revoked"
               /\ \A t \in Tokens : lock'[t] # p
               /\ Live(rt[req[p].tok].family_id)' \subseteq req'[p].sel
    <3>1. /\ req'[p].tok = req[p].tok /\ req'[p].replay = req[p].replay
          /\ req'[p].sel = Live(rt[req[p].tok].family_id) \ Held(p)
          /\ pc[p] = "select" /\ pc'[p] = "flush"
          /\ rt' = rt /\ lock' = lock
      BY <1>1, <2>3 DEF SelectFamily, Select, Goto, TypeOK, Req
    <3>2. req[p].sel = {} /\ \A t \in Tokens : lock[t] # p
      BY <1>1, <2>3, <3>1 DEF ReplayInv, RequestOK
    <3>3. Live(rt[req[p].tok].family_id)' = Live(rt[req[p].tok].family_id)
      BY <3>1 DEF Live, Members, Issued
    <3> QED
      BY <2>3, <3>1, <3>2, <3>3 DEF ReplayInv, Held
  <2>4. ASSUME req'[p].replay, NEW t \in Tokens, FlushRow(p, t)
        PROVE  ReplayInv(p)'
    <3>1. Live(rt[req[p].tok].family_id)' = Live(rt[req[p].tok].family_id)
      BY <2>4 DEF FlushRow, Live, Members, Issued
    <3> QED
      BY <1>1, <2>4, <3>1 DEF FlushRow, ReplayInv, TypeOK
  <2>5. CASE req'[p].replay
    <3>1. ASSUME SelectFamily(p) PROVE req'[p].tok = req[p].tok
      BY <1>1, <3>1 DEF SelectFamily, Select, TypeOK, Req
    <3> QED
      BY <1>3, <2>2, <2>3, <2>4, <2>5, <3>1, ReplaySteps DEF ReplayInv
  <2>6. CASE ~ req'[p].replay
    BY <2>1, <2>6 DEF ReplayInv
  <2> QED
    BY <2>5, <2>6
<1>4. ASSUME NEW q \in Procs, q # p, Request(q) \/ Step(q) \/ Crash(q)
      PROVE  ReplayInv(p)'
  BY <1>1, <1>2, <1>4, StepIsLocal, StepAgrees DEF Agrees
<1>5. CASE UNCHANGED <<pc, req, lock>>
  BY <1>2, <1>5
<1> QED
  BY <1>3, <1>4, <1>5
     DEF Next, Environment, Expire, BumpVersion, SetActive, vars

(* A live token that a replay handler leaves behind was rotated from a row *)
(* the handler had chosen to revoke.                                       *)
THEOREM ReplaysMissOnlyRotated == Spec => ReplayMissesOnlyRotated
<1> DEFINE Inv == IInv /\ \A p \in Procs : ReplayInv(p)
<1>1. ASSUME Init, NEW p \in Procs PROVE ReplayInv(p)
  <2>1. pc[p] = "idle" /\ req[p] = NoReq
    BY <1>1 DEF Init
  <2>2. req[p].replay = FALSE
    BY <2>1 DEF NoReq
  <2> QED
    BY <2>1, <2>2 DEF ReplayInv
<1>2. Inv /\ [Next]_vars => Inv'
  BY NextIInv, NextReplayInv
<1>3. ASSUME Inv, [Next]_vars
      PROVE  \A p \in Procs, f \in Tokens :
               ReplayCommit(p, f) /\ Live(f)' # {}
                 => \E t \in req[p].sel : rt[t].status = "revoked"
  <2>1. SUFFICES ASSUME NEW p \in Procs, NEW f \in Tokens,
                        ReplayCommit(p, f), Live(f)' # {}
                 PROVE  \E t \in req[p].sel : rt[t].status = "revoked"
    OBVIOUS
  <2>2. PICK t \in Tokens : rt'[t].status = "live" /\ rt'[t].family_id = f
    BY <2>1 DEF Live, Members, Issued
  <2>3. lock[t] # p /\ rt[t].status = "live" /\ rt[t].family_id = f
    BY <1>3, <2>1, <2>2
       DEF ReplayCommit, FlushCommit, CommitAndAnswer, Committed, IInv,
           TypeOK, Row
  <2>4. t \in Live(f) /\ t \notin req[p].sel
    BY <2>1, <2>3
       DEF ReplayCommit, FlushCommit, Held, Live, Members, Issued
  <2> QED
    BY <1>3, <2>1, <2>4 DEF ReplayCommit, FlushCommit, ReplayInv
<1>4. Init => Inv
  BY <1>1, InitIInv
<1>5. QED
  BY <1>2, <1>3, <1>4, PTL DEF Spec, ReplayMissesOnlyRotated
=============================================================================
