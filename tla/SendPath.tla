------------------------------- MODULE SendPath -------------------------------
(***************************************************************************)
(* The way of a datagram out of the IP adapter (ip_adapter_base.cpp): a    *)
(* sender takes a message from a pool (SimpleList) under                   *)
(* sender_task_mutex_, puts it into the ring of the sender task and posts  *)
(* the task's semaphore; the worker of the task takes it, sends it and     *)
(* gives it back.  Pool and ring belong to the adapter, while every start  *)
(* makes a new task: stop_adapter only stops the worker, it neither empties*)
(* the ring nor destroys the task.                                         *)
(*                                                                         *)
(* The ring is the queue PtrMsgQ implements.  A sender that AdapterManager *)
(* has let pass is done before the next start or terminate (the mutex of   *)
(* the ring is the task's, so that nothing orders it with the senders of   *)
(* another task).                                                          *)
(***************************************************************************)
EXTENDS Naturals, Sequences, FiniteSets, SequencesExt

CONSTANTS
  Sender,     \* threads that send
  Capacity,   \* IP_ADAPTER_MSG_Q_CAPACITY, of the pool and of the ring
  MaxStarts   \* bound on the starts of the adapter

ASSUME SendPathAssumption ==
  /\ Capacity \in Nat \ {0}
  /\ MaxStarts \in Nat

Slot == 1 .. Capacity       \* the entries of the pool
Task == 1 .. MaxStarts      \* the tasks, by the start that made them
NoSlot == 0
NoTask == 0

VARIABLES
  used,       \* the entries whose is_item_free is false
  queue,      \* ip_adapter_msg_q_, oldest first
  selected,   \* the adapter's bit in _u16_selected_adapters
  starts,     \* tasks made so far
  task,       \* sender_task_
  to_stop,    \* k_bit_is_to_stop of each task
  sem,        \* the semaphore of each task
  worker,     \* where the worker of each task is in Run
  cur,        \* the message it has taken
  sender,     \* where each sender is in send_unicast_data or its like
  hand,       \* the message it has allocated
  lost,       \* history: messages the ring had no room for
  left        \* history: messages that were queued at the last start

pool == <<used, lost>>
tasks == <<selected, starts, task, left>>
workers == <<to_stop, worker, cur>>
senders == <<sender, hand>>
vars == <<used, queue, selected, starts, task, to_stop, sem, worker, cur,
          sender, hand, lost, left>>

\* Mutant: the ring holds two messages less than it has entries.
QueueCapacityShort == Capacity - 2

\* A ring that tells full from empty holds one less than it has entries.
QueueCapacity == Capacity - 1

Ring == INSTANCE MsgQueue WITH Msg <- Slot, Capacity <- QueueCapacity

-------------------------------------------------------------------------------
(* Senders.                                                                *)

\* AdapterManager refuses to send on an adapter that is not started.
CheckSelected(s) ==
  /\ sender[s] = "idle"
  /\ selected
  /\ sender' = [sender EXCEPT ![s] = "checked"]
  /\ UNCHANGED <<pool, queue, tasks, workers, sem, hand>>

\* Mutant: the entry is handed out and still marked free.
AllocateShared(s) ==
  /\ sender[s] = "checked"
  /\ Slot \ used # {}
  /\ hand' = [hand EXCEPT ![s] = CHOOSE x \in Slot \ used :
                                    \A y \in Slot \ used : x <= y]
  /\ sender' = [sender EXCEPT ![s] = "post"]
  /\ UNCHANGED <<pool, queue, tasks, workers, sem>>

\* The first free entry; the whole section is under sender_task_mutex_.
Allocate(s) ==
  /\ sender[s] = "checked"
  /\ \E x \in Slot \ used :
       /\ \A y \in Slot \ used : x <= y
       /\ used' = used \cup {x}
       /\ hand' = [hand EXCEPT ![s] = x]
  /\ sender' = [sender EXCEPT ![s] = "post"]
  /\ UNCHANGED <<queue, lost, tasks, workers, sem>>

\* No free entry, or no memory for the data, when the entry is given back in
\* the same section.
AllocateFails(s) ==
  /\ sender[s] = "checked"
  /\ sender' = [sender EXCEPT ![s] = "idle"]
  /\ UNCHANGED <<pool, queue, tasks, workers, sem, hand>>

\* Mutant: only the message that ends an empty queue wakes the worker.
PostWhenEmpty(s) ==
  /\ sender[s] = "post"
  /\ Ring!Put(hand[s])
  /\ sem' = IF queue = <<>> THEN [sem EXCEPT ![task] = @ + 1] ELSE sem
  /\ sender' = [sender EXCEPT ![s] = "idle"]
  /\ hand' = [hand EXCEPT ![s] = NoSlot]
  /\ UNCHANGED <<pool, tasks, workers>>

\* SendMsg of the current task, under that task's mutex.  It does not ask
\* whether the task is stopped.
Post(s) ==
  /\ sender[s] = "post"
  /\ Ring!Put(hand[s])
  /\ sem' = [sem EXCEPT ![task] = @ + 1]
  /\ sender' = [sender EXCEPT ![s] = "idle"]
  /\ hand' = [hand EXCEPT ![s] = NoSlot]
  /\ UNCHANGED <<pool, tasks, workers>>

\* The ring is full: the sender returns -1 and forgets the message, which
\* stays allocated.
PostFails(s) ==
  /\ sender[s] = "post"
  /\ Len(queue) >= QueueCapacity
  /\ lost' = lost \cup {hand[s]}
  /\ sender' = [sender EXCEPT ![s] = "idle"]
  /\ hand' = [hand EXCEPT ![s] = NoSlot]
  /\ UNCHANGED <<used, queue, tasks, workers, sem>>

Send(s) ==
  CheckSelected(s) \/ Allocate(s) \/ AllocateFails(s) \/ Post(s) \/ PostFails(s)

SendersIdle == \A s \in Sender : sender[s] = "idle"

-------------------------------------------------------------------------------
(* The thread that starts and stops the adapter.                           *)

\* AllocTask, Init and Start of a new task: its semaphore is at 0 whatever the
\* ring holds.
Start ==
  /\ ~selected
  /\ starts < MaxStarts
  /\ SendersIdle
  /\ selected' = TRUE
  /\ starts' = starts + 1
  /\ task' = starts + 1
  /\ to_stop' = [to_stop EXCEPT ![starts + 1] = FALSE]
  /\ worker' = [worker EXCEPT ![starts + 1] = "test"]
  /\ left' = Len(queue)
  /\ UNCHANGED <<pool, queue, sem, cur, senders>>

\* Mutant: every call of stop_adapter posts.
StopAgain ==
  /\ task # NoTask
  /\ selected' = FALSE
  /\ to_stop' = [to_stop EXCEPT ![task] = TRUE]
  /\ sem' = [sem EXCEPT ![task] = @ + 1]
  /\ UNCHANGED <<pool, queue, starts, task, left, worker, cur, senders>>

\* The bit is cleared, then TaskBase::Stop sets the stop bit and posts.
Stop ==
  /\ task # NoTask
  /\ ~to_stop[task]
  /\ selected' = FALSE
  /\ to_stop' = [to_stop EXCEPT ![task] = TRUE]
  /\ sem' = [sem EXCEPT ![task] = @ + 1]
  /\ UNCHANGED <<pool, queue, starts, task, left, worker, cur, senders>>

\* Mutant: Destroy empties the ring without SEND_TASK_delete_msg.
TerminateLeaking ==
  /\ task # NoTask
  /\ to_stop[task]
  /\ SendersIdle
  /\ \A t \in Task : worker[t] = "none"
  /\ task' = NoTask
  /\ Ring!Clear
  /\ UNCHANGED <<pool, selected, starts, left, workers, sem, senders>>

\* terminate after stop_adapter: Destroy gives back what the ring still holds.
\* It frees the mutexes, so the workers have to be gone.
Terminate ==
  /\ task # NoTask
  /\ to_stop[task]
  /\ SendersIdle
  /\ \A t \in Task : worker[t] = "none"
  /\ task' = NoTask
  /\ used' = used \ ToSet(queue)
  /\ Ring!Clear
  /\ UNCHANGED <<lost, selected, starts, left, workers, sem, senders>>

-------------------------------------------------------------------------------
(* The worker of a task: TaskBase::Run with the adapter's handlers.        *)

TestStop(t) ==
  /\ worker[t] = "test"
  /\ worker' = [worker EXCEPT ![t] = IF to_stop[t] THEN "none" ELSE "wait"]
  /\ UNCHANGED <<pool, queue, tasks, to_stop, sem, cur, senders>>

Wait(t) ==
  /\ worker[t] = "wait"
  /\ sem[t] > 0
  /\ sem' = [sem EXCEPT ![t] = @ - 1]
  /\ worker' = [worker EXCEPT ![t] = "lock"]
  /\ UNCHANGED <<pool, queue, tasks, to_stop, cur, senders>>

SkipStopped(t) ==
  /\ worker[t] = "lock"
  /\ to_stop[t]
  /\ worker' = [worker EXCEPT ![t] = "test"]
  /\ UNCHANGED <<pool, queue, tasks, to_stop, sem, cur, senders>>

\* The ring has a message whenever a running worker looks: see SemaphoreCounts.
TakeOldest(t) ==
  /\ worker[t] = "lock"
  /\ ~to_stop[t]
  /\ Ring!Take
  /\ cur' = [cur EXCEPT ![t] = Head(queue)]
  /\ worker' = [worker EXCEPT ![t] = "handle"]
  /\ UNCHANGED <<pool, tasks, to_stop, sem, senders>>

\* Mutant: the message is sent and not given back.
DeliverLeaking(t) ==
  /\ worker[t] = "handle"
  /\ cur' = [cur EXCEPT ![t] = NoSlot]
  /\ worker' = [worker EXCEPT ![t] = "test"]
  /\ UNCHANGED <<pool, queue, tasks, to_stop, sem, senders>>

\* SEND_TASK_handle_msg, then SEND_TASK_delete_msg, which gives the entry back
\* under sender_task_mutex_.
Deliver(t) ==
  /\ worker[t] = "handle"
  /\ used' = used \ {cur[t]}
  /\ cur' = [cur EXCEPT ![t] = NoSlot]
  /\ worker' = [worker EXCEPT ![t] = "test"]
  /\ UNCHANGED <<queue, lost, tasks, to_stop, sem, senders>>

Run(t) ==
  TestStop(t) \/ Wait(t) \/ SkipStopped(t) \/ TakeOldest(t) \/ Deliver(t)

-------------------------------------------------------------------------------
Init ==
  /\ used = {}
  /\ queue = <<>>
  /\ selected = FALSE
  /\ starts = 0
  /\ task = NoTask
  /\ to_stop = [t \in Task |-> TRUE]
  /\ sem = [t \in Task |-> 0]
  /\ worker = [t \in Task |-> "none"]
  /\ cur = [t \in Task |-> NoSlot]
  /\ sender = [s \in Sender |-> "idle"]
  /\ hand = [s \in Sender |-> NoSlot]
  /\ lost = {}
  /\ left = 0

Next ==
  \/ \E s \in Sender : Send(s)
  \/ Start
  \/ Stop
  \/ Terminate
  \/ \E t \in Task : Run(t)

Spec == Init /\ [][Next]_vars

\* A thread that can run is run.  Nobody has to begin to send, start or stop.
FairSpec ==
  /\ Spec
  /\ \A t \in Task : WF_vars(Run(t))
  /\ \A s \in Sender :
       WF_vars(Allocate(s) \/ AllocateFails(s) \/ Post(s) \/ PostFails(s))

-------------------------------------------------------------------------------
(* Properties.                                                             *)

\* Every variable has its type.  No semaphore counts beyond the capacity of the
\* ring, where it would drop posts on FreeRTOS and Windows.
TypeOK ==
  /\ used \in SUBSET Slot
  /\ queue \in Seq(Slot) /\ Len(queue) <= QueueCapacity
  /\ selected \in BOOLEAN
  /\ starts \in 0 .. MaxStarts
  /\ task \in 0 .. starts
  /\ to_stop \in [Task -> BOOLEAN]
  /\ sem \in [Task -> 0 .. Capacity]
  /\ worker \in [Task -> {"none", "test", "wait", "lock", "handle"}]
  /\ cur \in [Task -> Slot \cup {NoSlot}]
  /\ sender \in [Sender -> {"idle", "checked", "post"}]
  /\ hand \in [Sender -> Slot \cup {NoSlot}]
  /\ lost \in SUBSET Slot
  /\ left \in 0 .. QueueCapacity

Holders == {s \in Sender : hand[s] # NoSlot}
Busy == {t \in Task : cur[t] # NoSlot}

\* Every allocated entry of the pool is at one place: with a sender, in the
\* ring, with the worker of the current or of a stopped task, or lost.  So none
\* is given back while it is still queued, nor sent twice.
SlotsConserved ==
  /\ used = {hand[s] : s \in Holders} \cup ToSet(queue)
              \cup {cur[t] : t \in Busy} \cup lost
  /\ Cardinality(used) =
       Cardinality(Holders) + Len(queue) + Cardinality(Busy) + Cardinality(lost)

\* A message the full ring refuses is never given back to the pool, but this
\* happens once: after it, the pool runs dry before the ring is full.
LostOnce == Cardinality(lost) <= 1

Owed(t) == IF worker[t] = "lock" THEN 1 ELSE 0

\* The semaphore of a running task counts the queued messages, without those
\* the adapter was started with: as many as these stay in the ring while the
\* worker waits.
SemaphoreCounts ==
  (task # NoTask /\ ~to_stop[task]) =>
    Len(queue) = sem[task] + Owed(task) + left

\* terminate leaves no message allocated but the lost one.
AllGivenBack == task = NoTask => used = lost

\* An allocated message is sent and given back in the end, unless it is lost,
\* the adapter is stopped, or it was started on a ring that was not empty.
SentInTheEnd ==
  \A x \in Slot :
    (x \in used) ~> (x \notin used \/ x \in lost \/ ~selected \/ left > 0)
===============================================================================
