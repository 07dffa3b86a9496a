------------------------------ MODULE Metering ------------------------------
(***************************************************************************)
(* The metering pipeline (camp44/api/v1/endpoints/metering.py,             *)
(* camp44/workers/metering_processor.py): requests publish events to a     *)
(* durable RabbitMQ queue without waiting for a confirmation; workers take *)
(* one at a time and acknowledge it after they processed it.               *)
(*                                                                         *)
(* RabbitMQ and pika are modelled as the code uses them: the broker puts   *)
(* back, at its place in the queue, what a lost connection left            *)
(* unacknowledged; a channel method on a                                   *)
(* connection that is gone either goes unnoticed or raises an              *)
(* AMQPConnectionError, and once that was raised the closed channel raises *)
(* ChannelWrongStateError, which is no AMQPConnectionError.                *)
(***************************************************************************)
EXTENDS Naturals, FiniteSets, Sequences

CONSTANTS
  Events,
  Bad,         \* events whose processing raises
  Workers,
  MaxSends,    \* bound on the requests: clients retry after 500
  MaxLosses,   \* bound on connections lost between a worker and the broker
  MaxPresses,  \* bound on the Ctrl+C pressed
  MaxCrashes,  \* bound on the broker's crashes
  None

ASSUME Bounds ==
  /\ {MaxSends, MaxLosses, MaxPresses, MaxCrashes} \subseteq Nat
  /\ Bad \subseteq Events
ASSUME NoneIsNoMessage == None \notin Nat
ASSUME WorkersAreFinite == IsFiniteSet(Workers)

VARIABLES
  log,       \* history: the events that reached the broker, in this order
  answer,    \* answer[e]: "none", "open" (request running), "202" or "500"
  queue,     \* the durable queue: the messages, by their places in log
  synced,    \* messages on the broker's disk
  unacked,   \* unacked[w]: the message the broker delivered to w, or None
  conn,      \* conn[w]: w's connection is up
  worker,    \* worker[w]: the step w is at
  job,       \* job[w]: the message in w's callback, or None
  attempts,  \* attempts[m]: how often a worker processed m
  faults     \* losses, presses and crashes so far

broker == <<queue, synced, unacked, conn>>
vars == <<log, answer, queue, synced, unacked, conn, worker, job, attempts, faults>>

Init ==
  /\ log = <<>>
  /\ answer = [e \in Events |-> "none"]
  /\ queue = {} /\ synced = {}
  /\ unacked = [w \in Workers |-> None]
  /\ conn = [w \in Workers |-> FALSE]
  /\ worker = [w \in Workers |-> "connect"]
  /\ job = [w \in Workers |-> None]
  /\ attempts = <<>>
  /\ faults = [loss |-> 0, press |-> 0, crash |-> 0]

Goes(w, label) == worker' = [worker EXCEPT ![w] = label]
Messages == DOMAIN log
Unacked(ws) == {unacked[w] : w \in ws} \ {None}

-----------------------------------------------------------------------------
(* create_meter_event() *)

(* basic_publish(): the frames reach the broker. *)
Publish(e) ==
  /\ answer[e] \in {"none", "500"}
  /\ Len(log) < MaxSends
  /\ log' = Append(log, e)
  /\ answer' = [answer EXCEPT ![e] = "open"]
  /\ queue' = queue \cup {Len(log) + 1}
  /\ attempts' = Append(attempts, 0)
  /\ UNCHANGED <<synced, unacked, conn, worker, job, faults>>

(* connection.close() ends the channel in order, and the answer is 202; or *)
(* it raises, although the broker has the event.                           *)
Answer(e, code) ==
  /\ answer[e] = "open"
  /\ answer' = [answer EXCEPT ![e] = code]
  /\ UNCHANGED <<log, queue, synced, unacked, conn, worker, job, attempts, faults>>

-----------------------------------------------------------------------------
(* The broker *)

(* A persistent message reaches the disk some time after it was queued. *)
Sync(m) ==
  /\ m \in queue \ synced
  /\ synced' = synced \cup {m}
  /\ UNCHANGED <<log, answer, queue, unacked, conn, worker, job, attempts, faults>>

(* A worker's connection is lost. *)
Lose(w) ==
  /\ conn[w] /\ faults.loss < MaxLosses
  /\ faults' = [faults EXCEPT !.loss = @ + 1]
  /\ conn' = [conn EXCEPT ![w] = FALSE]
  /\ queue' = queue \cup Unacked({w})
  /\ unacked' = [unacked EXCEPT ![w] = None]
  /\ UNCHANGED <<log, answer, synced, worker, job, attempts>>

(* The broker restarts with what was on disk; open requests get an error.  *)
Crash ==
  /\ faults.crash < MaxCrashes
  /\ faults' = [faults EXCEPT !.crash = @ + 1]
  /\ queue' = (queue \cup Unacked(Workers)) \cap synced
  /\ unacked' = [w \in Workers |-> None]
  /\ conn' = [w \in Workers |-> FALSE]
  /\ answer' = [e \in Events |-> IF answer[e] = "open" THEN "500" ELSE answer[e]]
  /\ UNCHANGED <<log, synced, worker, job, attempts>>

-----------------------------------------------------------------------------
(* The worker *)

Connect(w) ==
  /\ worker[w] = "connect"
  /\ Goes(w, "consume")
  /\ conn' = [conn EXCEPT ![w] = TRUE]
  /\ UNCHANGED <<log, answer, queue, synced, unacked, job, attempts, faults>>

(* The message m is at the head of the queue. *)
First(m) == m \in queue /\ \A n \in queue : m <= n

(* Mutant: the broker forgets the event once it is delivered (auto_ack). *)
DeliverAutoAck(w) ==
  /\ worker[w] = "consume" /\ conn[w]
  /\ \E m \in queue :
       /\ First(m)
       /\ queue' = queue \ {m}
       /\ job' = [job EXCEPT ![w] = m]
  /\ Goes(w, "process")
  /\ UNCHANGED <<log, answer, synced, unacked, conn, attempts, faults>>

(* prefetch_count=1: nothing more is delivered until the acknowledgement. *)
Deliver(w) ==
  /\ worker[w] = "consume" /\ conn[w]
  /\ \E m \in queue :
       /\ First(m)
       /\ queue' = queue \ {m}
       /\ job' = [job EXCEPT ![w] = m]
       /\ unacked' = [unacked EXCEPT ![w] = m]
  /\ Goes(w, "process")
  /\ UNCHANGED <<log, answer, synced, conn, attempts, faults>>

(* Mutant: nothing catches what process_event() raises. *)
ProcessUncaught(w) ==
  /\ worker[w] = "process"
  /\ attempts' = [attempts EXCEPT ![job[w]] = @ + 1]
  /\ IF log[job[w]] \notin Bad
     THEN Goes(w, "ack") /\ UNCHANGED <<broker, job>>
     ELSE /\ Goes(w, "exited")
          /\ queue' = queue \cup Unacked({w})
          /\ unacked' = [unacked EXCEPT ![w] = None]
          /\ conn' = [conn EXCEPT ![w] = FALSE]
          /\ job' = [job EXCEPT ![w] = None]
          /\ UNCHANGED synced
  /\ UNCHANGED <<log, answer, faults>>

(* process_event(), and the except clause. *)
Process(w) ==
  /\ worker[w] = "process"
  /\ attempts' = [attempts EXCEPT ![job[w]] = @ + 1]
  /\ Goes(w, IF log[job[w]] \in Bad THEN "nack" ELSE "ack")
  /\ UNCHANGED <<log, answer, queue, synced, unacked, conn, job, faults>>

(* Mutant: what failed is delivered again (requeue=True). *)
SettleRequeue(w) ==
  /\ queue' = IF worker[w] = "nack" THEN queue \cup Unacked({w}) ELSE queue
  /\ unacked' = [unacked EXCEPT ![w] = None]

(* basic_ack() and basic_nack(requeue=False) both remove the event. *)
Settle(w) == unacked' = [unacked EXCEPT ![w] = None] /\ UNCHANGED queue

(* basic_ack() or basic_nack(): on a lost connection it goes unnoticed, or *)
(* raises.  basic_ack() raises inside the try, so that basic_nack() is     *)
(* tried on the closed channel and its error ends the outer loop; what     *)
(* basic_nack() itself raises makes the loop wait and connect again.       *)
Finish(w) ==
  /\ worker[w] \in {"ack", "nack"}
  /\ job' = [job EXCEPT ![w] = None]
  /\ Settle(w)
  /\ \/ Goes(w, "consume")
     \/ ~ conn[w] /\ Goes(w, IF worker[w] = "ack" THEN "exited" ELSE "wait")
  /\ UNCHANGED <<log, answer, synced, conn, attempts, faults>>

(* start_consuming() finds the connection gone: AMQPConnectionError. *)
Notice(w) ==
  /\ worker[w] = "consume" /\ ~ conn[w]
  /\ Goes(w, "wait")
  /\ UNCHANGED <<log, answer, broker, job, attempts, faults>>

(* Mutant: the loop goes on with the connection it had. *)
RetryOld(w) ==
  /\ worker[w] = "wait"
  /\ Goes(w, "consume")
  /\ UNCHANGED <<log, answer, broker, job, attempts, faults>>

(* After five seconds. *)
Retry(w) ==
  /\ worker[w] = "wait"
  /\ Goes(w, "connect")
  /\ UNCHANGED <<log, answer, broker, job, attempts, faults>>

(* Ctrl+C: main() catches it while it consumes, closes the connection and  *)
(* returns to the outer loop (closing one that is gone raises).  Elsewhere *)
(* nothing catches it.                                                     *)
Press(w) ==
  /\ faults.press < MaxPresses
  /\ worker[w] # "exited"
  /\ faults' = [faults EXCEPT !.press = @ + 1]
  /\ queue' = queue \cup Unacked({w})
  /\ unacked' = [unacked EXCEPT ![w] = None]
  /\ conn' = [conn EXCEPT ![w] = FALSE]
  /\ job' = [job EXCEPT ![w] = None]
  /\ Goes(w, CASE worker[w] \in {"connect", "wait"} -> "exited"
               [] OTHER -> IF conn[w] THEN "connect" ELSE "wait")
  /\ UNCHANGED <<log, answer, synced, attempts>>

Next ==
  \/ \E e \in Events :
       \/ Publish(e)
       \/ \E code \in {"202", "500"} : Answer(e, code)
  \/ \E m \in Messages : Sync(m)
  \/ \E w \in Workers :
       \/ Connect(w) \/ Deliver(w) \/ Process(w) \/ Finish(w)
       \/ Notice(w) \/ Retry(w) \/ Lose(w) \/ Press(w)
  \/ Crash

(* A worker process that runs goes on running. *)
Fairness ==
  \A w \in Workers :
    WF_vars(Connect(w) \/ Deliver(w) \/ Process(w) \/ Finish(w) \/ Notice(w) \/ Retry(w))

Spec == Init /\ [][Next]_vars /\ Fairness

-----------------------------------------------------------------------------
(* Properties *)

(* Type invariant. *)
TypeOK ==
  /\ log \in Seq(Events) /\ queue \subseteq Messages /\ synced \subseteq Messages
  /\ \A w \in Workers :
       /\ worker[w] \in {"connect", "consume", "process", "ack", "nack", "wait", "exited"}
       /\ job[w] \in Messages \cup {None}
       /\ worker[w] \in {"process", "ack", "nack"} <=> job[w] # None
       /\ unacked[w] # None =>
            conn[w] /\ unacked[w] = job[w] /\ unacked[w] \notin queue

(* A stored message waits, is in a worker's hands with the broker          *)
(* remembering it, or was processed.                                       *)
Processed == {m \in Messages : attempts[m] > 0}
Kept(m) == m \in queue \cup Unacked(Workers) \cup Processed
StoredIsKept == \A m \in synced : Kept(m)

(* So is an event that was answered 202 ("make message persistent",        *)
(* metering.py:51), until the broker crashes: without a confirmation the   *)
(* answer does not wait for the disk.                                      *)
AcceptedIsKept ==
  \A e \in Events : answer[e] = "202" /\ faults.crash = 0 =>
    \E m \in Messages : log[m] = e /\ Kept(m)

(* A message is processed once, and once more only for a worker that went  *)
(* away, or for a crash of the broker.                                     *)
RepeatsAreExplained ==
  \A m \in Messages :
    attempts[m] <= 1 + faults.loss + faults.press + faults.crash

(* Whatever the broker stored is processed, while a worker is left to do   *)
(* it.                                                                     *)
Handled ==
  \A m \in 1..MaxSends :
    m \in synced ~> (m \in Processed \/ \A w \in Workers : worker[w] = "exited")

(* A worker ends only where one of those faults reached it: none takes     *)
(* another down, and refusing a malformed event does not end one.          *)
EndsAreExplained ==
  Cardinality({w \in Workers : worker[w] = "exited"})
    <= faults.loss + faults.press + Cardinality(Workers) * faults.crash

(* The invariant of the pipeline: nothing is lost, repeated or ended       *)
(* without a cause.                                                        *)
PipelineInv ==
  /\ TypeOK
  /\ StoredIsKept /\ AcceptedIsKept
  /\ RepeatsAreExplained /\ EndsAreExplained

=============================================================================
