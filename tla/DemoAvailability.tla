-------------------------- MODULE DemoAvailability --------------------------
(***************************************************************************)
(* The demo availability endpoints (camp44/api/v1/endpoints/               *)
(* demo_booking.py): one row, or none yet, read with one SELECT, changed   *)
(* in memory and saved after a second SELECT.  CPython frees the first     *)
(* SELECT's row when _get_availability_config() returns, so the second     *)
(* loads another object and the changed configuration is written.  While   *)
(* no row is stored the list of blocked dates is the process's own         *)
(* DEFAULT_AVAILABILITY list: its copy() is shallow.  The endpoints run in *)
(* worker threads (Threads), without a lock.                               *)
(***************************************************************************)
EXTENDS Naturals, SequencesExt

CONSTANTS
  Dates,
  Configs,    \* bodies of PUT: [schedule, blocked]
  Processes,  \* worker processes
  Threads,    \* worker threads of all processes
  MaxFails,   \* bound on the commits the database refuses
  MaxBlocked, \* a longer list is not appended to
  None

VARIABLES
  row,      \* the stored configuration, or None
  default,  \* default[p]: blocked_dates of process p's DEFAULT_AVAILABILITY
  req,      \* req[t]: the request thread t serves
  fails,
  alone,    \* history: the thread of a request that no other has overlapped
  answered, \* history: the last such request answered 200, until the next
  twice     \* history: dates that a PUT listed more than once, or that two
            \* requests that overlapped put into one list

vars == <<row, default, req, fails, alone, answered, twice>>

DefaultConfig == [schedule |-> "default", blocked |-> <<>>]
Op == [op : {"block", "unblock"}, date : Dates] \cup [op : {"put"}, config : Configs]
Idle == [pc |-> "idle"]

Init ==
  /\ row = None
  /\ default = [p \in Processes |-> <<>>]
  /\ req = [t \in Threads |-> Idle]
  /\ fails = 0
  /\ alone = {} /\ answered = None /\ twice = {}

At(t, label) == req[t].pc = label
Serve(t, r) == req' = [req EXCEPT ![t] = r]

Busy(t) == At(t, "change") \/ At(t, "commit")
Quiet == \A t \in Threads : ~ Busy(t)

Begin(t, r) ==
  /\ Serve(t, r)
  /\ alone' = IF Quiet THEN {t} ELSE {}
  /\ answered' = None

Answer(t) ==
  /\ Serve(t, Idle)
  /\ alone' = {}
  /\ answered' = IF t \in alone THEN req[t].op ELSE None

Fail(t) ==
  /\ Serve(t, Idle)
  /\ alone' = {} /\ answered' = None

(* The configuration a request holds: its list may be the process's own.   *)
Held(t) ==
  IF req[t].shared THEN [req[t].config EXCEPT !.blocked = default[req[t].proc]]
  ELSE req[t].config

(* The configuration a reader sees. *)
Stored == IF row = None THEN DefaultConfig ELSE row

(* Mutant: the memory of the process is preferred to the table. *)
CurrentCached(p) == [DefaultConfig EXCEPT !.blocked = default[p]]

(* _get_availability_config() *)
Current(p) == IF row # None THEN row
              ELSE [DefaultConfig EXCEPT !.blocked = default[p]]

(* The first SELECT, and the test of the date.  Nothing to do: success.    *)
Load(t, p, o) ==
  LET config == Current(p)
      needed == IF o.op = "block" THEN ~ Contains(config.blocked, o.date)
                ELSE Contains(config.blocked, o.date)
  IN /\ ~ Busy(t)
     /\ o.op # "put"
     /\ o.op = "block" /\ needed => Len(config.blocked) < MaxBlocked
     /\ \/ /\ needed
           /\ Begin(t, [pc |-> "change", proc |-> p, op |-> o, config |-> Stored,
                        shared |-> row = None])
        \/ /\ ~ needed
           /\ alone' = {} /\ answered' = IF Quiet THEN o ELSE None
           /\ UNCHANGED req
     /\ UNCHANGED <<row, default, fails, twice>>

Changed(list, o) == IF o.op = "block" THEN Append(list, o.date)
                    ELSE RemoveFirst(list, o.date)

Repeated(list) ==
  {d \in Dates : \E i, j \in DOMAIN list : i # j /\ list[i] = d /\ list[j] = d}

(* Another request removed the date from the shared list. *)
Gone(t) == req[t].op.op = "unblock" /\ ~ Contains(Held(t).blocked, req[t].op.date)

(* list.remove() raises: 500. *)
RemoveRaises(t) ==
  /\ At(t, "change") /\ Gone(t)
  /\ Fail(t)
  /\ UNCHANGED <<row, default, fails, twice>>

(* Change the list in place; the second SELECT. *)
Change(t) ==
  /\ At(t, "change") /\ ~ Gone(t)
  /\ LET r == req[t]
         list == Changed(Held(t).blocked, r.op)
     IN /\ default' = IF r.shared THEN [default EXCEPT ![r.proc] = list]
                      ELSE default
        /\ Serve(t, [pc |-> "commit", proc |-> r.proc, op |-> r.op,
                     config |-> IF r.shared THEN r.config
                                ELSE [r.config EXCEPT !.blocked = list],
                     shared |-> r.shared, seen |-> row])
        /\ twice' = IF t \in alone THEN twice ELSE twice \cup Repeated(list)
  /\ UNCHANGED <<row, fails, alone, answered>>

(* PUT saves its body, whose dates nobody checks. *)
Put(t, p, o) ==
  /\ ~ Busy(t)
  /\ o.op = "put"
  /\ Begin(t, [pc |-> "commit", proc |-> p, op |-> o, config |-> o.config,
               shared |-> FALSE, seen |-> row])
  /\ twice' = twice \cup Repeated(o.config.blocked)
  /\ UNCHANGED <<row, default, fails>>

(* Mutant: the first row is kept alive, its change goes unnoticed. *)
SavedUnlessLoaded(t) ==
  IF req[t].op.op # "put" /\ req[t].seen # None THEN row ELSE Held(t)

(* A configuration equal to the second SELECT's is not written. *)
Saved(t) == IF Held(t) = req[t].seen THEN row ELSE Held(t)

(* The UPDATE, or the INSERT of id 1: it conflicts with another's. *)
Commit(t) ==
  /\ At(t, "commit")
  /\ IF req[t].seen = None /\ row # None
     THEN Fail(t) /\ UNCHANGED row
     ELSE row' = Saved(t) /\ Answer(t)
  /\ UNCHANGED <<default, fails, twice>>

(* The database is away: 500. *)
CommitFails(t) ==
  /\ At(t, "commit")
  /\ fails < MaxFails
  /\ fails' = fails + 1
  /\ Fail(t)
  /\ UNCHANGED <<row, default, twice>>

(* A process restarts. *)
Restart(p) ==
  /\ default' = [default EXCEPT ![p] = <<>>]
  /\ req' = [t \in Threads |-> IF Busy(t) /\ req[t].proc = p THEN Idle ELSE req[t]]
  /\ alone' = {t \in alone : req[t].proc # p}
  /\ UNCHANGED <<row, fails, answered, twice>>

Next ==
  \/ \E t \in Threads :
       \/ \E p \in Processes, o \in Op : Load(t, p, o) \/ Put(t, p, o)
       \/ Change(t) \/ RemoveRaises(t) \/ Commit(t) \/ CommitFails(t)
  \/ \E p \in Processes : Restart(p)

Spec == Init /\ [][Next]_vars

-----------------------------------------------------------------------------
(* Properties *)

(* Type invariant. *)
TypeOK ==
  /\ row = None \/ row.blocked \in Seq(Dates)
  /\ default \in [Processes -> Seq(Dates)]
  /\ fails \in 0..MaxFails

Record == INSTANCE AvailabilityRecord WITH
  Default <- DefaultConfig, config <- Stored

(* What the request of thread t says. *)
Effect(t) ==
  LET o == req[t].op
  IN \/ o.op = "block" /\ Record!Block(o.date)
     \/ o.op = "unblock" /\ Record!Unblock(o.date)
     \/ o.op = "put" /\ Record!Put(o.config)

(* A request that no other overlaps does what it says to the stored        *)
(* configuration, all of it and at once, and is not refused, on whichever  *)
(* process it runs and whatever overlapped, failed or crashed before it:   *)
(* although a list is changed in place, the processes' defaults differ and *)
(* an INSERT conflicts with another's.  (Only after a failed save, and     *)
(* while no row is stored, it may start from a default with a date in it.) *)
AloneIsAtomic ==
  /\ Stored = DefaultConfig
  /\ [][\A t \in alone :
          /\ ~ RemoveRaises(t)
          /\ Commit(t) /\ (fails = 0 \/ row # None) => Effect(t)]_vars

(* demo_booking.py:109 "Block a specific date": a date whose block-date    *)
(* was answered "success" is stored, if no other request overlaps it.  A   *)
(* save that failed leaves its date in the process's default list, where a *)
(* retry finds it and stores nothing; once a row is stored no such answer  *)
(* is wrong.                                                               *)
BlockedIsStored ==
  answered # None /\ answered.op = "block" =>
    IF row = None THEN fails > 0 ELSE Contains(row.blocked, answered.date)

(* demo_booking.py:134 "Unblock a specific date": a date whose DELETE was  *)
(* answered "success" is gone, if no other request overlaps it, also after *)
(* saves that failed; unless a PUT, or two requests to block it that       *)
(* overlapped, had stored it twice, and DELETE removed one of the entries. *)
UnblockedIsGone ==
  answered # None /\ answered.op = "unblock" =>
    row = None \/ ~ Contains(row.blocked, answered.date) \/ answered.date \in twice

=============================================================================
