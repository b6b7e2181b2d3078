------------------------------- MODULE TaskBase ------------------------------
(***************************************************************************)
(* A task that handles messages (TaskBase.cpp): senders put messages into  *)
(* its ring under its mutex and post its semaphore, its worker thread      *)
(* waits for the semaphore, takes one message and handles it unlocked.     *)
(*                                                                         *)
(* SendMsg, Stop, Start and the part of Run between Lock and Unlock hold   *)
(* _msg_q_mutex, so each is one step.  Run reads k_bit_is_to_stop without  *)
(* the mutex, waits for the semaphore without it and handles the message   *)
(* without it: each is a step of its own.                                  *)
(***************************************************************************)
EXTENDS PtrMsgQ, FiniteSets, SequencesExt

CONSTANTS
  Worker,    \* the threads port_create_task may start
  SemMax,    \* where the semaphore stops counting: SEM_VALUE_MAX on Linux, the
             \* access count of Init, which is GetCapacity, on the other ports
  Joined     \* callers Wait() for the worker before they start another one

ASSUME TaskAssumption ==
  /\ SemMax \in Nat
  /\ SemMax >= GetCapacity
  /\ Joined \in BOOLEAN

VARIABLES
  alive,     \* between Init and Destroy
  to_stop,   \* k_bit_is_to_stop
  sem,       \* the count of _msg_q_semaphore
  pc,        \* where each worker is in Run
  cur,       \* new_msg of each worker
  accepted,  \* history: the messages SendMsg returned OK for
  deleted    \* history: the messages pfn_delete_msg was called for

taskVars == <<alive, to_stop, sem, pc, cur, accepted, deleted>>

Active == {w \in Worker : pc[w] # "none"}

\* Mutant: the semaphore counts without end.
PostUnbounded == sem' = sem + 1

Post == sem' = IF sem < SemMax THEN sem + 1 ELSE sem

-------------------------------------------------------------------------------
(* The callers.                                                            *)

Initialize ==
  /\ ~alive
  /\ alive' = TRUE
  /\ to_stop' = TRUE
  /\ sem' = 0
  /\ UNCHANGED <<ring, pc, cur, accepted, deleted>>

\* Mutant: only the message that ends an empty queue wakes the worker.
SendMsgWhenEmpty(m) ==
  /\ alive
  /\ ~Contains(accepted, m)
  /\ Enqueue(m)
  /\ IF IsEmpty THEN Post ELSE UNCHANGED sem
  /\ accepted' = Append(accepted, m)
  /\ UNCHANGED <<alive, to_stop, pc, cur, deleted>>

\* A message is allocated for one SendMsg: it is not sent again.
SendMsg(m) ==
  /\ alive
  /\ ~Contains(accepted, m)
  /\ Enqueue(m)
  /\ Post
  /\ accepted' = Append(accepted, m)
  /\ UNCHANGED <<alive, to_stop, pc, cur, deleted>>

Start(w) ==
  /\ alive
  /\ IF Joined THEN Active = {} ELSE w \notin Active
  /\ to_stop' = FALSE
  /\ pc' = [pc EXCEPT ![w] = "test"]
  /\ UNCHANGED <<ring, alive, sem, cur, accepted, deleted>>

\* Mutant: the worker is not woken to notice that it is stopped.
StopSilent ==
  /\ alive
  /\ ~to_stop
  /\ to_stop' = TRUE
  /\ UNCHANGED <<ring, alive, sem, pc, cur, accepted, deleted>>

Stop ==
  /\ alive
  /\ ~to_stop
  /\ to_stop' = TRUE
  /\ Post
  /\ UNCHANGED <<ring, alive, pc, cur, accepted, deleted>>

\* Mutant: the queue is emptied, its messages are not deleted.
DestroyLeaking ==
  /\ alive
  /\ to_stop
  /\ Active = {}
  /\ alive' = FALSE
  /\ front' = back
  /\ UNCHANGED <<_msgList, back, to_stop, sem, pc, cur, accepted, deleted>>

\* Destroy empties the queue.  It frees the mutex and the semaphore, so its
\* caller has to wait for the workers first.
Destroy ==
  /\ alive
  /\ to_stop
  /\ Active = {}
  /\ alive' = FALSE
  /\ front' = back
  /\ deleted' = deleted \o Contents
  /\ UNCHANGED <<_msgList, back, to_stop, sem, pc, cur, accepted>>

-------------------------------------------------------------------------------
(* The worker: TaskBase::Run.                                              *)

TestStop(w) ==
  /\ pc[w] = "test"
  /\ pc' = [pc EXCEPT ![w] = IF to_stop THEN "none" ELSE "wait"]
  /\ UNCHANGED <<ring, alive, to_stop, sem, cur, accepted, deleted>>

Wait(w) ==
  /\ pc[w] = "wait"
  /\ sem > 0
  /\ sem' = sem - 1
  /\ pc' = [pc EXCEPT ![w] = "lock"]
  /\ UNCHANGED <<ring, alive, to_stop, cur, accepted, deleted>>

\* The section under the mutex when the stop bit is found set.
SkipStopped(w) ==
  /\ pc[w] = "lock"
  /\ to_stop
  /\ pc' = [pc EXCEPT ![w] = "test"]
  /\ UNCHANGED <<ring, alive, to_stop, sem, cur, accepted, deleted>>

Take(w) ==
  /\ pc[w] = "lock"
  /\ ~to_stop
  /\ Dequeue
  /\ cur' = [cur EXCEPT ![w] = Oldest]
  /\ pc' = [pc EXCEPT ![w] = IF Oldest = NoMsg THEN "test" ELSE "handle"]
  /\ UNCHANGED <<alive, to_stop, sem, accepted, deleted>>

\* The handler of the message, then the function that deletes it.
Handle(w) ==
  /\ pc[w] = "handle"
  /\ deleted' = Append(deleted, cur[w])
  /\ cur' = [cur EXCEPT ![w] = NoMsg]
  /\ pc' = [pc EXCEPT ![w] = "test"]
  /\ UNCHANGED <<ring, alive, to_stop, sem, accepted>>

Run(w) == TestStop(w) \/ Wait(w) \/ SkipStopped(w) \/ Take(w) \/ Handle(w)

-------------------------------------------------------------------------------
TaskInit ==
  /\ RingInit
  /\ alive = FALSE
  /\ to_stop = FALSE
  /\ sem = 0
  /\ pc = [w \in Worker |-> "none"]
  /\ cur = [w \in Worker |-> NoMsg]
  /\ accepted = <<>>
  /\ deleted = <<>>

TaskNext ==
  \/ Initialize
  \/ \E m \in Msg : SendMsg(m)
  \/ \E w \in Worker : Start(w)
  \/ Stop
  \/ Destroy
  \/ \E w \in Worker : Run(w)

TaskSpec == TaskInit /\ [][TaskNext]_<<ring, taskVars>>

\* A thread that can run is run.  No caller has to send, stop or start.
FairTaskSpec == TaskSpec /\ \A w \in Worker : WF_<<ring, taskVars>>(Run(w))

-------------------------------------------------------------------------------
(* Properties.                                                             *)

\* Every variable has its type.
TaskTypeOK ==
  /\ RingTypeOK
  /\ alive \in BOOLEAN
  /\ to_stop \in BOOLEAN
  /\ sem \in 0 .. SemMax
  /\ pc \in [Worker -> {"none", "test", "wait", "lock", "handle"}]
  /\ cur \in [Worker -> Msg \cup {NoMsg}]
  /\ accepted \in Seq(Msg)
  /\ deleted \in Seq(Msg)

\* A worker in the section under the mutex has consumed a post and not yet
\* taken a message.
Owed == IF \E w \in Worker : pc[w] = "lock" THEN 1 ELSE 0

\* No wakeup is lost: there is a post, or a worker that has just been woken by
\* one, for every queued message, and one more for a worker that is about to
\* wait while the stop bit is set.
NoLostWakeup ==
  alive =>
    /\ sem + Owed >= Size
    /\ to_stop => \A w \in Worker : pc[w] = "wait" => sem >= Size + 1

\* The message the worker is handling, as a sequence.
InHand ==
  LET busy == {w \in Worker : cur[w] # NoMsg}
  IN  IF busy = {} THEN <<>> ELSE <<cur[CHOOSE w \in busy : TRUE]>>

\* Messages are deleted in the order they were accepted, and what has not been
\* deleted is being handled or still queued: none is lost, or deleted twice.
InOrder == accepted = deleted \o InHand \o Contents

\* Even with two workers each accepted message is at exactly one place: in the
\* ring, with one worker, or deleted once.
Conserved ==
  \A m \in ToSet(accepted) :
    Cardinality({i \in DOMAIN deleted : deleted[i] = m})
    + Cardinality({w \in Worker : cur[w] = m})
    + Cardinality({i \in 1 .. Size : Contents[i] = m}) = 1

\* An accepted message is handled in the end, unless the task is stopped.
AcceptedIsHandled ==
  \A m \in Msg : Contains(accepted, m) ~> (Contains(deleted, m) \/ to_stop)

\* A stopped worker leaves Run, so that Wait() returns to the caller of Stop.
StoppedWorkerExits ==
  \A w \in Worker : (pc[w] # "none" /\ to_stop) ~> (pc[w] = "none")
===============================================================================
