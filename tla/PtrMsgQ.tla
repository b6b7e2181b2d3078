-------------------------------- MODULE PtrMsgQ -------------------------------
(***************************************************************************)
(* The message queue of the tasks (PtrMsgQ.h): a ring of noOfMsg pointers. *)
(* It is not locked: TaskBase calls it with its mutex held.                *)
(***************************************************************************)
EXTENDS Integers, Sequences

CONSTANTS
  Msg,       \* the messages
  NoMsg,     \* the null pointer
  noOfMsg    \* the template parameter: the length of _msgList

ASSUME RingAssumption ==
  /\ noOfMsg \in Nat \ {0, 1}
  /\ noOfMsg < 65536
  /\ NoMsg \notin Msg

VARIABLES
  _msgList,  \* the slots
  front,     \* the slot of the oldest message
  back       \* the next slot to fill

ring == <<_msgList, front, back>>

Slot == 0 .. noOfMsg - 1

GetCapacity == noOfMsg

\* Mutant: the end of the ring is not wrapped.
IsFullUnwrapped == back + 1 = front

IsFull == (back + 1) % noOfMsg = front

IsEmpty == back = front

\* The pointer Dequeue returns.
Oldest == IF IsEmpty THEN NoMsg ELSE _msgList[front]

\* Mutant: front moves on although there is nothing to take.
DequeueAlways ==
  /\ front' = (front + 1) % noOfMsg
  /\ UNCHANGED <<_msgList, back>>

Dequeue ==
  /\ front' = IF IsEmpty THEN front ELSE (front + 1) % noOfMsg
  /\ UNCHANGED <<_msgList, back>>

\* Mutant: a full ring is written to.
EnqueueAlways(m) ==
  /\ _msgList' = [_msgList EXCEPT ![back] = m]
  /\ back' = (back + 1) % noOfMsg
  /\ UNCHANGED front

\* Enqueue when it returns true; when it returns false it changes nothing.
Enqueue(m) ==
  /\ ~IsFull
  /\ _msgList' = [_msgList EXCEPT ![back] = m]
  /\ back' = (back + 1) % noOfMsg
  /\ UNCHANGED front

RingInit ==
  /\ _msgList = [s \in Slot |-> NoMsg]
  /\ front = 0
  /\ back = 0

RingNext == Dequeue \/ \E m \in Msg : Enqueue(m)

RingSpec == RingInit /\ [][RingNext]_ring

-------------------------------------------------------------------------------
(* The queue the ring stands for.                                          *)

Size == IF front <= back THEN back - front ELSE back - front + noOfMsg

Contents == [i \in 1 .. Size |-> _msgList[(front + i - 1) % noOfMsg]]

\* Every variable has its type.
RingTypeOK ==
  /\ _msgList \in [Slot -> Msg \cup {NoMsg}]
  /\ front \in Slot
  /\ back \in Slot

\* Every queued slot holds a message: Dequeue returns null only when the queue
\* is empty, which is how TaskBase::Run tells that there is nothing to handle.
NoNullQueued == \A i \in 1 .. Size : Contents[i] \in Msg

\* The ring is a bounded FIFO queue.
Queue == INSTANCE MsgQueue WITH queue <- Contents, Capacity <- noOfMsg - 1

IsQueue == Queue!QSpec
===============================================================================
