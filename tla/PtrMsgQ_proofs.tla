---------------------------- MODULE PtrMsgQ_proofs ----------------------------
(***************************************************************************)
(* The ring of PtrMsgQ is a bounded FIFO queue, for every length and every *)
(* set of messages.                                                        *)
(***************************************************************************)
EXTENDS PtrMsgQ, TLAPS

(***************************************************************************)
(* Counting modulo the length of the ring, without a remainder.            *)
(***************************************************************************)
LEMMA Wraps ==
  ASSUME NEW x \in Nat, x < 2 * noOfMsg
  PROVE  x % noOfMsg = IF x < noOfMsg THEN x ELSE x - noOfMsg
<1>1. noOfMsg \in Nat /\ noOfMsg > 1
  BY RingAssumption
<1>2. CASE x < noOfMsg
  BY <1>1, <1>2
<1>3. CASE ~(x < noOfMsg)
  BY <1>1, <1>3
<1> QED
  BY <1>2, <1>3

RingInv == RingTypeOK /\ NoNullQueued

LEMMA SizeRange ==
  ASSUME RingTypeOK
  PROVE  /\ Size \in 0 .. noOfMsg - 1
         /\ IsEmpty <=> Size = 0
  BY RingAssumption DEF RingTypeOK, Slot, Size, IsEmpty

(***************************************************************************)
(* The slots of the queued messages, without a remainder.                  *)
(***************************************************************************)
LEMMA QueuedSlots ==
  ASSUME NEW f \in Slot, NEW i \in 1 .. noOfMsg
  PROVE  (f + i - 1) % noOfMsg =
           IF f + i - 1 < noOfMsg THEN f + i - 1 ELSE f + i - 1 - noOfMsg
<1>1. PICK x \in Nat : x = f + i - 1 /\ x < 2 * noOfMsg
  BY RingAssumption DEF Slot
<1>2. x % noOfMsg = IF x < noOfMsg THEN x ELSE x - noOfMsg
  BY <1>1, Wraps
<1>3. f \in Nat /\ i \in Nat /\ noOfMsg \in Nat
  BY RingAssumption DEF Slot
<1> QED
  BY <1>1, <1>2, <1>3

LEMMA ContentsType ==
  ASSUME RingInv
  PROVE  /\ Contents \in Seq(Msg)
         /\ Len(Contents) = Size
<1>1. Size \in Nat
  BY SizeRange, RingAssumption DEF RingInv
<1>2. \A i \in 1 .. Size : Contents[i] \in Msg
  BY DEF RingInv, NoNullQueued
<1>3. DOMAIN Contents = 1 .. Size
  BY DEF Contents
<1>4. Contents = [i \in 1 .. Size |-> Contents[i]]
  BY DEF Contents
<1> HIDE DEF Contents
<1> QED
  BY <1>1, <1>2, <1>3, <1>4

(***************************************************************************)
(* An accepted message is appended to the queue.                           *)
(***************************************************************************)
LEMMA EnqueueAppends ==
  ASSUME RingInv, NEW m \in Msg, Enqueue(m)
  PROVE  /\ RingTypeOK'
         /\ Size' = Size + 1
         /\ Size < noOfMsg - 1
         /\ Contents' = Append(Contents, m)
<1> USE RingAssumption
<1>1. back \in Slot /\ front \in Slot
  BY DEF RingInv, RingTypeOK
<1>2. back' = IF back + 1 < noOfMsg THEN back + 1 ELSE 0
  BY <1>1, Wraps DEF Enqueue, Slot
<1>3. RingTypeOK'
  BY <1>1, <1>2 DEF RingInv, RingTypeOK, Enqueue, Slot
<1>4. back' # front
  BY DEF Enqueue, IsFull
<1>5. Size' = Size + 1 /\ Size < noOfMsg - 1
  BY <1>1, <1>2, <1>4 DEF Size, Slot, Enqueue
<1>6. \A i \in 1 .. Size : Contents'[i] = Contents[i]
  <2> SUFFICES ASSUME NEW i \in 1 .. Size
               PROVE  Contents'[i] = Contents[i]
    OBVIOUS
  <2>1. i \in 1 .. noOfMsg /\ i \in 1 .. Size'
    BY <1>5, SizeRange DEF RingInv
  <2>2. (front + i - 1) % noOfMsg =
          IF front + i - 1 < noOfMsg THEN front + i - 1
                                     ELSE front + i - 1 - noOfMsg
    BY <1>1, <2>1, QueuedSlots
  <2>3. (front + i - 1) % noOfMsg # back
    BY <1>1, <2>1, <2>2 DEF Size, Slot
  <2>4. (front + i - 1) % noOfMsg \in Slot
    BY <1>1, <2>1, <2>2 DEF Slot
  <2>5. _msgList'[(front + i - 1) % noOfMsg] = _msgList[(front + i - 1) % noOfMsg]
    BY <2>3, <2>4 DEF Enqueue, RingInv, RingTypeOK
  <2> QED
    BY <2>1, <2>5 DEF Contents, Enqueue
<1>7. Contents'[Size + 1] = m
  <2>1. Size + 1 \in 1 .. noOfMsg /\ Size + 1 \in 1 .. Size'
    BY <1>5, SizeRange DEF RingInv
  <2>2. (front + (Size + 1) - 1) % noOfMsg =
          IF front + (Size + 1) - 1 < noOfMsg THEN front + (Size + 1) - 1
                                     ELSE front + (Size + 1) - 1 - noOfMsg
    BY <1>1, <2>1, QueuedSlots
  <2>3. (front + (Size + 1) - 1) % noOfMsg = back
    BY <1>1, <2>1, <2>2 DEF Size, Slot
  <2>4. _msgList'[back] = m
    BY <1>1 DEF Enqueue, RingInv, RingTypeOK
  <2>5. Contents'[Size + 1] = _msgList'[(front' + (Size + 1) - 1) % noOfMsg]
    BY <2>1 DEF Contents
  <2> QED
    BY <2>3, <2>4, <2>5 DEF Enqueue
<1>8. Contents \in Seq(Msg) /\ Len(Contents) = Size
  BY ContentsType
<1>9. DOMAIN Contents' = 1 .. Size + 1 /\ Contents' = [i \in 1 .. Size + 1 |-> Contents'[i]]
  BY <1>5 DEF Contents
<1>10. Size \in Nat
  BY SizeRange DEF RingInv
<1>11. Contents' = Append(Contents, m)
  <2> HIDE DEF Contents, Size
  <2> QED
    BY <1>6, <1>7, <1>8, <1>9, <1>10
<1> QED
  BY <1>3, <1>5, <1>11

(***************************************************************************)
(* Dequeue takes the oldest message off a queue that is not empty.         *)
(***************************************************************************)
LEMMA DequeueTakesHead ==
  ASSUME RingInv, ~IsEmpty, Dequeue
  PROVE  /\ RingTypeOK'
         /\ Size' = Size - 1
         /\ Contents # <<>>
         /\ Oldest = Head(Contents)
         /\ Contents' = Tail(Contents)
<1> USE RingAssumption
<1>1. back \in Slot /\ front \in Slot /\ back # front
  BY DEF RingInv, RingTypeOK, IsEmpty
<1>2. front' = IF front + 1 < noOfMsg THEN front + 1 ELSE 0
  BY <1>1, Wraps DEF Dequeue, Slot, IsEmpty
<1>3. RingTypeOK'
  BY <1>1, <1>2 DEF RingInv, RingTypeOK, Dequeue, Slot
<1>4. Size' = Size - 1 /\ Size \in 1 .. noOfMsg - 1
  BY <1>1, <1>2 DEF Size, Slot, Dequeue
<1>5. Contents \in Seq(Msg) /\ Len(Contents) = Size
  BY ContentsType
<1>6. \A i \in 1 .. Size - 1 : Contents'[i] = Contents[i + 1]
  <2> SUFFICES ASSUME NEW i \in 1 .. Size - 1
               PROVE  Contents'[i] = Contents[i + 1]
    OBVIOUS
  <2>1. i \in 1 .. noOfMsg /\ i + 1 \in 1 .. noOfMsg /\ i + 1 \in 1 .. Size /\ i \in 1 .. Size'
    BY <1>4
  <2>2. (front + (i + 1) - 1) % noOfMsg =
          IF front + (i + 1) - 1 < noOfMsg THEN front + (i + 1) - 1
                                     ELSE front + (i + 1) - 1 - noOfMsg
    BY <1>1, <2>1, QueuedSlots
  <2>3. (front' + i - 1) % noOfMsg =
          IF front' + i - 1 < noOfMsg THEN front' + i - 1
                                      ELSE front' + i - 1 - noOfMsg
    <3>1. front' \in Slot
      BY <1>3 DEF RingTypeOK
    <3> QED
      BY <3>1, <2>1, QueuedSlots
  <2>4. (front' + i - 1) % noOfMsg = (front + (i + 1) - 1) % noOfMsg
    BY <1>1, <1>2, <2>1, <2>2, <2>3 DEF Slot
  <2>5. Contents'[i] = _msgList'[(front' + i - 1) % noOfMsg]
    BY <2>1 DEF Contents
  <2>6. Contents[i + 1] = _msgList[(front + (i + 1) - 1) % noOfMsg]
    BY <2>1 DEF Contents
  <2> QED
    BY <2>4, <2>5, <2>6 DEF Dequeue
<1>7. Oldest = Contents[1]
  <2>1. (front + 1 - 1) % noOfMsg = front
    BY <1>1, Wraps DEF Slot
  <2>2. Contents[1] = _msgList[(front + 1 - 1) % noOfMsg]
    BY <1>4 DEF Contents
  <2> QED
    BY <2>1, <2>2 DEF Oldest
<1>8. DOMAIN Contents' = 1 .. Size - 1 /\ Contents' = [i \in 1 .. Size - 1 |-> Contents'[i]]
  BY <1>4 DEF Contents
<1>9. Contents # <<>> /\ Contents' = Tail(Contents) /\ Oldest = Head(Contents)
  <2> HIDE DEF Contents, Size
  <2> QED
    BY <1>4, <1>5, <1>6, <1>7, <1>8
<1> QED
  BY <1>3, <1>4, <1>9

(***************************************************************************)
(* The ring is always well formed, with a message in every queued slot.    *)
(***************************************************************************)
LEMMA RingStep ==
  ASSUME RingInv, [RingNext]_ring
  PROVE  RingInv' /\ [Queue!QNext]_Contents
<1>1. CASE UNCHANGED ring
  BY <1>1 DEF ring, RingInv, RingTypeOK, NoNullQueued, Contents, Size
<1>2. CASE Dequeue /\ IsEmpty
  BY <1>2 DEF Dequeue, RingInv, RingTypeOK, NoNullQueued, Contents, Size
<1>3. CASE Dequeue /\ ~IsEmpty
  <2>1. RingTypeOK' /\ Size' = Size - 1 /\ Contents # <<>> /\ Contents' = Tail(Contents)
    BY <1>3, DequeueTakesHead
  <2>2. Contents \in Seq(Msg) /\ Len(Contents) = Size
    BY ContentsType
  <2>3. \A i \in 1 .. Size - 1 : Tail(Contents)[i] \in Msg
    <3> HIDE DEF Contents, Size
    <3> QED
      BY <2>1, <2>2
  <2> QED
    BY <2>1, <2>3 DEF RingInv, NoNullQueued, Queue!QNext, Queue!Take
<1>4. CASE \E m \in Msg : Enqueue(m)
  <2> PICK m \in Msg : Enqueue(m)
    BY <1>4
  <2>1. /\ RingTypeOK' /\ Size' = Size + 1 /\ Size < noOfMsg - 1
        /\ Contents' = Append(Contents, m)
    BY EnqueueAppends
  <2>2. Contents \in Seq(Msg) /\ Len(Contents) = Size
    BY ContentsType
  <2>3. \A i \in 1 .. Size + 1 : Append(Contents, m)[i] \in Msg
    <3> HIDE DEF Contents, Size
    <3> QED
      BY <2>2
  <2>4. Queue!Put(m)
    <3> HIDE DEF Contents, Size
    <3> QED
      BY <2>1, <2>2 DEF Queue!Put
  <2> QED
    BY <2>1, <2>3, <2>4 DEF RingInv, NoNullQueued, Queue!QNext
<1> QED
  BY <1>1, <1>2, <1>3, <1>4 DEF RingNext

LEMMA RingStart == RingInit => RingInv /\ Queue!QInit
<1> SUFFICES ASSUME RingInit PROVE RingInv /\ Queue!QInit
  OBVIOUS
<1>1. RingTypeOK /\ Size = 0
  BY RingAssumption DEF RingInit, RingTypeOK, Slot, Size
<1> QED
  BY <1>1 DEF RingInv, NoNullQueued, Contents, Queue!QInit

(***************************************************************************)
(* PtrMsgQ never loses its place: whatever sequence of Enqueue and Dequeue *)
(* calls is made, front and back stay in the ring and every queued slot    *)
(* holds a message.                                                        *)
(***************************************************************************)
THEOREM RingSafe == RingSpec => [](RingTypeOK /\ NoNullQueued)
<1>1. RingInv /\ [RingNext]_ring => RingInv'
  BY RingStep
<1>2. RingInit => RingInv
  BY RingStart
<1> QED
  BY <1>1, <1>2, PTL DEF RingSpec, RingInv

(***************************************************************************)
(* PtrMsgQ<N> is a FIFO queue of N - 1 messages: Enqueue appends, Dequeue  *)
(* takes the head, and no message is overwritten, lost or doubled when the *)
(* indexes wrap.                                                           *)
(***************************************************************************)
THEOREM RingIsQueue == RingSpec => IsQueue
<1>1. RingInit => RingInv /\ Queue!QInit
  BY RingStart
<1>2. RingInv /\ [RingNext]_ring => RingInv' /\ [Queue!QNext]_Contents
  BY RingStep
<1> QED
  BY <1>1, <1>2, PTL DEF RingSpec, IsQueue, Queue!QSpec
===============================================================================
