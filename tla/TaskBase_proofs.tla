---------------------------- MODULE TaskBase_proofs ---------------------------
(***************************************************************************)
(* What a task promises for every queue length, every set of messages and  *)
(* every schedule of its callers and its worker.                           *)
(***************************************************************************)
EXTENDS TaskBase, PtrMsgQ_proofs, FiniteSetTheorems

(***************************************************************************)
(* Type correctness, whether or not the callers wait for the worker.  A    *)
(* worker holds a message exactly while it handles it.                     *)
(***************************************************************************)
HoldsWhileHandling ==
  \A w \in Worker : cur[w] \in Msg <=> pc[w] = "handle"

TaskInv == TaskTypeOK /\ NoNullQueued /\ HoldsWhileHandling

LEMMA RingUnchanged ==
  ASSUME UNCHANGED ring
  PROVE  /\ Contents' = Contents
         /\ Size' = Size
         /\ RingTypeOK' <=> RingTypeOK
         /\ NoNullQueued' <=> NoNullQueued
  BY DEF ring, RingTypeOK, NoNullQueued, Contents, Size

\* What Take gets: the head of the queue, or null when it is empty.
LEMMA TakesOldest ==
  ASSUME RingInv, Dequeue
  PROVE  /\ RingInv'
         /\ IF Size = 0
            THEN Oldest = NoMsg /\ UNCHANGED ring
            ELSE /\ Oldest \in Msg
                 /\ Contents = <<Oldest>> \o Contents'
                 /\ Size' = Size - 1
<1>1. RingInv'
  BY RingStep DEF RingNext
<1>2. CASE IsEmpty
  <2>1. Size = 0
    BY <1>2, SizeRange DEF RingInv
  <2> QED
    BY <1>1, <1>2, <2>1 DEF Oldest, Dequeue, ring
<1>3. CASE ~IsEmpty
  <2>1. Size # 0
    BY <1>3, SizeRange DEF RingInv
  <2>2. /\ Size' = Size - 1
        /\ Contents # <<>>
        /\ Oldest = Head(Contents)
        /\ Contents' = Tail(Contents)
    BY <1>3, DequeueTakesHead
  <2>3. Contents \in Seq(Msg)
    BY ContentsType
  <2>4. Oldest \in Msg /\ Contents = <<Oldest>> \o Contents'
    <3> HIDE DEF Contents, Oldest
    <3> QED
      BY <2>2, <2>3
  <2> QED
    BY <1>1, <2>1, <2>2, <2>4
<1> QED
  BY <1>2, <1>3

\* Destroy leaves an empty ring.
LEMMA Emptied ==
  ASSUME RingInv, front' = back, UNCHANGED <<_msgList, back>>
  PROVE  RingInv' /\ Size' = 0 /\ Contents' = <<>>
<1>1. RingTypeOK'
  BY DEF RingInv, RingTypeOK
<1>2. Size' = 0
  BY RingAssumption DEF RingInv, RingTypeOK, Slot, Size
<1> QED
  BY <1>1, <1>2 DEF RingInv, NoNullQueued, Contents

LEMMA PostType ==
  ASSUME sem \in 0 .. SemMax, Post
  PROVE  sem' \in 0 .. SemMax
  BY TaskAssumption DEF Post

LEMMA TaskInvStep ==
  ASSUME TaskInv, [TaskNext]_<<ring, taskVars>>
  PROVE  TaskInv'
<1> USE DEF TaskInv, TaskTypeOK
<1>0. RingInv
  BY DEF RingInv
<1>1. CASE Initialize
  BY <1>1, TaskAssumption, RingUnchanged DEF Initialize, HoldsWhileHandling
<1>2. ASSUME NEW m \in Msg, SendMsg(m)
      PROVE  TaskInv'
  <2>1. RingInv'
    BY <1>0, <1>2, RingStep DEF SendMsg, RingNext
  <2>2. sem' \in 0 .. SemMax
    BY <1>2, PostType DEF SendMsg
  <2>3. accepted' \in Seq(Msg)
    BY <1>2 DEF SendMsg
  <2> QED
    BY <1>2, <2>1, <2>2, <2>3 DEF SendMsg, RingInv, HoldsWhileHandling
<1>3. ASSUME NEW w \in Worker, Start(w)
      PROVE  TaskInv'
  <2>1. pc[w] = "none"
    BY <1>3 DEF Start, Active
  <2> QED
    BY <1>3, <2>1, RingUnchanged DEF Start, HoldsWhileHandling
<1>4. CASE Stop
  BY <1>4, PostType, RingUnchanged DEF Stop, HoldsWhileHandling
<1>5. CASE Destroy
  <2>1. RingInv'
    BY <1>0, <1>5, Emptied DEF Destroy
  <2>2. deleted' \in Seq(Msg)
    <3>1. Contents \in Seq(Msg)
      BY <1>0, ContentsType
    <3> HIDE DEF Contents
    <3> QED
      BY <1>5, <3>1 DEF Destroy
  <2> QED
    BY <1>5, <2>1, <2>2 DEF Destroy, RingInv, HoldsWhileHandling
<1>6. ASSUME NEW w \in Worker, TestStop(w) \/ Wait(w) \/ SkipStopped(w)
      PROVE  TaskInv'
  <2>1. pc[w] # "handle" /\ pc'[w] # "handle" /\ pc' \in [Worker -> {"none", "test", "wait", "lock", "handle"}]
    BY <1>6 DEF TestStop, Wait, SkipStopped
  <2>2. HoldsWhileHandling'
    BY <1>6, <2>1 DEF TestStop, Wait, SkipStopped, HoldsWhileHandling
  <2>3. sem' \in 0 .. SemMax
    BY <1>6, TaskAssumption DEF TestStop, Wait, SkipStopped
  <2> QED
    BY <1>6, <2>1, <2>2, <2>3, RingUnchanged DEF TestStop, Wait, SkipStopped
<1>7. ASSUME NEW w \in Worker, Take(w)
      PROVE  TaskInv'
  <2>1. RingInv' /\ (Oldest = NoMsg \/ Oldest \in Msg)
    BY <1>0, <1>7, TakesOldest DEF Take
  <2>2. HoldsWhileHandling'
    BY <1>7, <2>1, RingAssumption DEF Take, HoldsWhileHandling
  <2> QED
    BY <1>7, <2>1, <2>2 DEF Take, RingInv
<1>8. ASSUME NEW w \in Worker, Handle(w)
      PROVE  TaskInv'
  <2>1. cur[w] \in Msg
    BY <1>8 DEF Handle, HoldsWhileHandling
  <2>2. deleted' \in Seq(Msg)
    BY <1>8, <2>1 DEF Handle
  <2>3. HoldsWhileHandling'
    BY <1>8, RingAssumption DEF Handle, HoldsWhileHandling
  <2> QED
    BY <1>8, <2>2, <2>3, RingUnchanged DEF Handle
<1>9. CASE UNCHANGED <<ring, taskVars>>
  BY <1>9, RingUnchanged DEF taskVars, HoldsWhileHandling
<1> QED
  BY <1>1, <1>2, <1>3, <1>4, <1>5, <1>6, <1>7, <1>8, <1>9 DEF TaskNext, Run

LEMMA TaskInvStart == TaskInit => TaskInv
<1> SUFFICES ASSUME TaskInit PROVE TaskInv
  OBVIOUS
<1>1. RingInv
  BY RingStart DEF TaskInit
<1>2. TaskTypeOK
  <2>1. sem \in 0 .. SemMax
    BY RingAssumption, TaskAssumption DEF TaskInit, GetCapacity
  <2>2. accepted \in Seq(Msg) /\ deleted \in Seq(Msg)
    BY DEF TaskInit
  <2> QED
    BY <1>1, <2>1, <2>2 DEF TaskInit, TaskTypeOK, RingInv
<1>3. HoldsWhileHandling
  BY RingAssumption DEF TaskInit, HoldsWhileHandling
<1> QED
  BY <1>1, <1>2, <1>3 DEF TaskInv, RingInv

(***************************************************************************)
(* The variables of a task keep their types, and the ring it shares with   *)
(* its senders never holds a null pointer.                                 *)
(***************************************************************************)
THEOREM TaskTypeSafe == TaskSpec => []TaskTypeOK
<1>1. TaskInv => TaskTypeOK
  BY DEF TaskInv
<1> QED
  BY <1>1, TaskInvStart, TaskInvStep, PTL DEF TaskSpec

(***************************************************************************)
(* To its senders and its worker the ring of a task is a bounded FIFO      *)
(* queue: SendMsg puts, Run takes and Destroy clears, and no schedule of   *)
(* them loses, doubles or overtakes a message in the queue.                *)
(***************************************************************************)
THEOREM TaskIsQueue == TaskSpec => IsQueue
<1>1. TaskInit => Queue!QInit
  BY RingStart DEF TaskInit
<1>2. TaskInv /\ [TaskNext]_<<ring, taskVars>> => [Queue!QNext]_Contents
  <2> SUFFICES ASSUME TaskInv, [TaskNext]_<<ring, taskVars>>
               PROVE  [Queue!QNext]_Contents
    OBVIOUS
  <2>1. RingInv
    BY DEF TaskInv, TaskTypeOK, RingInv
  <2>2. CASE UNCHANGED ring
    BY <2>2, RingUnchanged
  <2>3. CASE RingNext
    BY <2>1, <2>3, RingStep
  <2>4. CASE Destroy
    BY <2>1, <2>4, Emptied DEF Destroy, Queue!QNext, Queue!Clear
  <2> QED
    BY <2>2, <2>3, <2>4
       DEF TaskNext, RingNext, Initialize, SendMsg, Start, Stop, Run, TestStop,
           Wait, SkipStopped, Take, Handle, taskVars
<1> QED
  BY <1>1, <1>2, TaskInvStart, TaskInvStep, PTL DEF TaskSpec, IsQueue, Queue!QSpec

(***************************************************************************)
(* Callers that wait for a worker before they start the next one have one  *)
(* worker at a time.                                                       *)
(***************************************************************************)
OneWorker == \A v, w \in Active : v = w

IdleWhenDead == ~alive => Active = {} /\ Size = 0

\* What NoLostWakeup needs to be inductive: a worker woken while the stop bit is
\* set goes back without a message, so the post it consumed must not be needed.
Wakeups ==
  /\ alive /\ (to_stop \/ \A w \in Worker : pc[w] # "lock") => sem >= Size
  /\ alive => sem + 1 >= Size
  /\ \A w \in Worker : to_stop /\ pc[w] = "wait" => sem >= Size + 1

JoinedInv == OneWorker /\ IdleWhenDead /\ Wakeups

LEMMA PostCovers ==
  ASSUME sem \in 0 .. SemMax, Size \in 0 .. noOfMsg - 1, Post
  PROVE  sem' >= sem /\ (sem >= Size => sem' >= Size + 1)
  BY RingAssumption, TaskAssumption DEF Post, GetCapacity

LEMMA JoinedInvStep ==
  ASSUME Joined, TaskInv, JoinedInv, [TaskNext]_<<ring, taskVars>>
  PROVE  JoinedInv'
<1> USE DEF JoinedInv, OneWorker, IdleWhenDead, Wakeups, Active
<1>0. /\ RingInv
      /\ sem \in 0 .. SemMax /\ SemMax \in Nat
      /\ Size \in 0 .. noOfMsg - 1 /\ noOfMsg \in Nat
      /\ pc \in [Worker -> {"none", "test", "wait", "lock", "handle"}]
  BY SizeRange, RingAssumption, TaskAssumption DEF TaskInv, TaskTypeOK, RingInv
<1>1. CASE Initialize
  BY <1>0, <1>1, RingUnchanged DEF Initialize
<1>2. ASSUME NEW m \in Msg, SendMsg(m)
      PROVE  JoinedInv'
  <2>1. Size' = Size + 1 /\ Size + 1 \in 0 .. noOfMsg - 1
    BY <1>0, <1>2, EnqueueAppends DEF SendMsg
  <2>2. sem' \in 0 .. SemMax
    BY <1>0, <1>2, PostType DEF SendMsg
  <2>3. \/ sem' = sem + 1
        \/ sem' = sem /\ sem >= noOfMsg
    BY <1>0, <1>2, TaskAssumption DEF SendMsg, Post, GetCapacity
  <2>4. /\ alive /\ alive' = alive /\ to_stop' = to_stop /\ pc' = pc
    BY <1>2 DEF SendMsg
  <2>5. sem >= Size => sem' >= Size'
    BY <1>0, <2>1, <2>3
  <2>6. sem + 1 >= Size => sem' + 1 >= Size'
    BY <1>0, <2>1, <2>3
  <2>7. sem >= Size + 1 => sem' >= Size' + 1
    <3>1. Size' + 1 = Size + 2 /\ Size + 1 <= noOfMsg - 1
      BY <1>0, <2>1
    <3>2. CASE sem' = sem + 1
      BY <1>0, <3>1, <3>2
    <3>3. CASE sem' = sem /\ sem >= noOfMsg
      BY <1>0, <3>1, <3>3
    <3> QED
      BY <2>3, <3>2, <3>3
  <2> HIDE DEF Size
  <2>8. Wakeups'
    BY <2>4, <2>5, <2>6, <2>7
  <2> QED
    BY <2>4, <2>8
<1>3. ASSUME NEW w \in Worker, Start(w)
      PROVE  JoinedInv'
  <2>1. Size' = Size /\ sem' = sem /\ to_stop' = FALSE /\ alive' = alive /\ alive
    BY <1>3, RingUnchanged DEF Start
  <2>2. \A v \in Worker : pc[v] = "none" /\ pc'[v] = IF v = w THEN "test" ELSE "none"
    BY <1>0, <1>3 DEF Start
  <2>3. sem >= Size
    BY <2>1, <2>2
  <2>4. OneWorker' /\ IdleWhenDead'
    BY <2>1, <2>2
  <2>5. sem' >= Size' /\ sem' + 1 >= Size'
    BY <1>0, <2>1, <2>3
  <2>6. Wakeups'
    <3> HIDE DEF Size
    <3> QED
      BY <2>1, <2>5
  <2> QED
    BY <2>4, <2>6
<1>4. CASE Stop
  <2>1. Size' = Size /\ pc' = pc /\ alive' = alive /\ alive
    BY <1>4, RingUnchanged DEF Stop
  <2>2. sem' \in 0 .. SemMax
    BY <1>0, <1>4, PostType DEF Stop
  <2>3. \/ sem' = sem + 1
        \/ sem' = sem /\ sem >= noOfMsg
    BY <1>0, <1>4, TaskAssumption DEF Stop, Post, GetCapacity
  <2>4. \A w \in Worker : pc[w] = "wait" => sem >= Size
    <3>1. \A v, w \in Worker : pc[w] = "wait" => pc[v] # "lock"
      OBVIOUS
    <3> QED
      BY <2>1, <3>1
  <2>5. sem + 1 >= Size
    BY <2>1
  <2> HIDE DEF Size
  <2>6. Wakeups'
    <3>1. \A w \in Worker : pc[w] = "wait" => sem' >= Size + 1
      BY <1>0, <2>3, <2>4
    <3>2. sem' >= Size
      BY <1>0, <2>3, <2>5
    <3>3. sem' + 1 >= Size
      BY <1>0, <2>3, <2>5, <3>2
    <3> QED
      BY <2>1, <3>1, <3>2, <3>3
  <2>7. OneWorker' /\ IdleWhenDead'
    BY <2>1
  <2> QED
    BY <2>6, <2>7
<1>5. CASE Destroy
  BY <1>0, <1>5, Emptied DEF Destroy
<1>6. ASSUME NEW w \in Worker, Run(w)
      PROVE  JoinedInv'
  <2>1. alive /\ alive' = alive /\ to_stop' = to_stop
    BY <1>6 DEF Run, TestStop, Wait, SkipStopped, Take, Handle
  <2>2. \A v \in Worker : v # w => pc[v] = "none" /\ pc'[v] = pc[v]
    BY <1>0, <1>6 DEF Run, TestStop, Wait, SkipStopped, Take, Handle
  <2>3. OneWorker' /\ IdleWhenDead'
    BY <2>1, <2>2
  <2>4. CASE TestStop(w) \/ Handle(w)
    <3>1. /\ Size' = Size /\ sem' = sem /\ pc[w] \in {"test", "handle"}
          /\ pc'[w] \in {"none", "test", "wait"} /\ (to_stop => pc'[w] # "wait")
      BY <1>0, <2>4, RingUnchanged DEF TestStop, Handle
    <3>2. \A v \in Worker : pc[v] # "lock" /\ pc'[v] # "lock"
      BY <2>2, <3>1
    <3>3. sem >= Size /\ sem + 1 >= Size
      BY <2>1, <3>2
    <3> HIDE DEF Size
    <3> QED
      BY <2>1, <2>2, <2>3, <3>1, <3>3
  <2>5. CASE Wait(w)
    <3>1. /\ Size' = Size /\ sem' = sem - 1 /\ sem \in Nat /\ pc[w] = "wait"
          /\ pc'[w] = "lock"
      BY <1>0, <2>5, RingUnchanged DEF Wait
    <3>2. sem >= Size /\ (to_stop => sem >= Size + 1)
      BY <2>1, <2>2, <3>1
    <3>3. sem' + 1 >= Size' /\ (to_stop' => sem' >= Size')
      BY <1>0, <2>1, <3>1, <3>2
    <3> HIDE DEF Size
    <3> QED
      BY <2>1, <2>2, <2>3, <3>1, <3>3
  <2>6. CASE SkipStopped(w)
    <3>1. Size' = Size /\ sem' = sem /\ to_stop /\ pc'[w] = "test"
      BY <1>0, <2>6, RingUnchanged DEF SkipStopped
    <3> QED
      BY <2>1, <2>2, <2>3, <3>1
  <2>7. CASE Take(w)
    <3>1. /\ ~to_stop /\ sem' = sem
          /\ pc'[w] \in {"test", "handle"}
          /\ Size' = IF Size = 0 THEN 0 ELSE Size - 1
      BY <1>0, <2>7, TakesOldest, RingUnchanged DEF Take
    <3>2. sem' >= Size'
      BY <1>0, <2>1, <3>1
    <3>3. sem' + 1 >= Size'
      BY <1>0, <3>1, <3>2
    <3> HIDE DEF Size
    <3> QED
      BY <2>1, <2>2, <2>3, <3>1, <3>2, <3>3
  <2> QED
    BY <1>6, <2>4, <2>5, <2>6, <2>7 DEF Run
<1>7. CASE UNCHANGED <<ring, taskVars>>
  BY <1>7, RingUnchanged DEF taskVars
<1> QED
  BY <1>1, <1>2, <1>3, <1>4, <1>5, <1>6, <1>7 DEF TaskNext

LEMMA JoinedInvStart == TaskInit => JoinedInv
<1> SUFFICES ASSUME TaskInit PROVE JoinedInv
  OBVIOUS
<1>1. Size = 0
  BY DEF TaskInit, RingInit, Size
<1> QED
  BY <1>1 DEF TaskInit, JoinedInv, OneWorker, IdleWhenDead, Wakeups, Active

(***************************************************************************)
(* A task whose callers wait for its worker loses no wakeup: there is a    *)
(* post for every queued message, and one more for a worker that must      *)
(* notice that it has been stopped.                                        *)
(***************************************************************************)
THEOREM TaskLosesNoWakeup ==
  ASSUME Joined
  PROVE  TaskSpec => []NoLostWakeup
<1>1. TaskInv /\ JoinedInv => NoLostWakeup
  BY SizeRange, RingAssumption, TaskAssumption
     DEF TaskInv, TaskTypeOK, JoinedInv, Wakeups, NoLostWakeup, Owed
<1>2. TaskInv /\ JoinedInv /\ [TaskNext]_<<ring, taskVars>> => JoinedInv'
  BY JoinedInvStep
<1> QED
  BY <1>1, <1>2, TaskInvStart, TaskInvStep, JoinedInvStart, PTL DEF TaskSpec

LEMMA IdleHand ==
  ASSUME TaskInv, \A w \in Worker : pc[w] # "handle"
  PROVE  InHand = <<>>
<1>1. \A w \in Worker : cur[w] = NoMsg
  BY DEF TaskInv, TaskTypeOK, HoldsWhileHandling
<1> QED
  BY <1>1 DEF InHand

LEMMA BusyHand ==
  ASSUME TaskInv, OneWorker, NEW w \in Worker, pc[w] = "handle"
  PROVE  InHand = <<cur[w]>> /\ cur[w] \in Msg
<1>1. cur[w] \in Msg
  BY DEF TaskInv, HoldsWhileHandling
<1>2. \A v \in Worker : v # w => pc[v] # "handle"
  BY DEF OneWorker, Active
<1>3. \A v \in Worker : v # w => cur[v] = NoMsg
  BY <1>2 DEF TaskInv, TaskTypeOK, HoldsWhileHandling
<1>4. {v \in Worker : cur[v] # NoMsg} = {w}
  BY <1>1, <1>3, RingAssumption
<1> QED
  BY <1>1, <1>4 DEF InHand

LEMMA AppendToConcat ==
  ASSUME NEW s \in Seq(Msg), NEW t \in Seq(Msg), NEW m \in Msg
  PROVE  /\ s \o Append(t, m) = Append(s \o t, m)
         /\ s \o <<m>> = Append(s, m)
         /\ s \o <<>> = s
         /\ s \o t \in Seq(Msg)
  OBVIOUS

LEMMA OrderStep ==
  ASSUME Joined, TaskInv, JoinedInv, InOrder, [TaskNext]_<<ring, taskVars>>
  PROVE  InOrder'
<1>1. /\ RingInv
      /\ Contents \in Seq(Msg)
      /\ deleted \in Seq(Msg)
      /\ cur \in [Worker -> Msg \cup {NoMsg}]
      /\ pc \in [Worker -> {"none", "test", "wait", "lock", "handle"}]
  BY ContentsType DEF TaskInv, TaskTypeOK, RingInv
<1>2. InHand = <<>> \/ \E m \in Msg : InHand = <<m>>
  BY IdleHand, BusyHand DEF JoinedInv
<1>3. accepted = deleted \o InHand \o Contents
  BY DEF InOrder
<1>4. CASE UNCHANGED <<ring, cur, accepted, deleted>>
  BY <1>4, RingUnchanged DEF InOrder, InHand
<1>5. ASSUME NEW m \in Msg, SendMsg(m)
      PROVE  InOrder'
  <2>1. /\ Contents' = Append(Contents, m)
        /\ InHand' = InHand
        /\ deleted' = deleted
        /\ accepted' = Append(accepted, m)
    BY <1>1, <1>5, EnqueueAppends DEF SendMsg, InHand
  <2> HIDE DEF Contents, InHand
  <2>2. deleted \o InHand \in Seq(Msg)
    <3>1. InHand \in Seq(Msg)
      <4>1. <<>> \in Seq(Msg) /\ \A n \in Msg : <<n>> \in Seq(Msg)
        OBVIOUS
      <4> QED
        BY <1>2, <4>1, Zenon
    <3> QED
      BY <1>1, <3>1, AppendToConcat
  <2>3. (deleted \o InHand) \o Append(Contents, m)
          = Append((deleted \o InHand) \o Contents, m)
    BY <1>1, <2>2, AppendToConcat
  <2> QED
    BY <1>3, <2>1, <2>3 DEF InOrder
<1>6. CASE Destroy
  <2>1. InHand = <<>> /\ InHand' = InHand
    BY <1>6, IdleHand DEF Destroy, Active, InHand
  <2>2. Contents' = <<>> /\ deleted' = deleted \o Contents /\ accepted' = accepted
    BY <1>1, <1>6, Emptied DEF Destroy
  <2> HIDE DEF Contents, InHand
  <2> QED
    BY <1>1, <1>3, <2>1, <2>2 DEF InOrder
<1>7. ASSUME NEW w \in Worker, Take(w)
      PROVE  InOrder'
  <2>1. \A v \in Worker : pc[v] # "handle" /\ cur[v] = NoMsg
    BY <1>1, <1>7
       DEF Take, JoinedInv, OneWorker, Active, TaskInv, HoldsWhileHandling
  <2>2. InHand = <<>>
    BY <2>1, IdleHand
  <2>3. /\ cur' = [cur EXCEPT ![w] = Oldest]
        /\ deleted' = deleted /\ accepted' = accepted
    BY <1>7 DEF Take
  <2>4. CASE Size = 0
    <3>1. Oldest = NoMsg /\ Contents' = Contents
      BY <1>1, <1>7, <2>4, TakesOldest, RingUnchanged DEF Take
    <3>2. cur' = cur
      BY <1>1, <2>1, <2>3, <3>1
    <3> QED
      BY <1>3, <2>3, <3>1, <3>2 DEF InOrder, InHand
  <2>5. CASE Size # 0
    <3>1. Oldest \in Msg /\ Contents = <<Oldest>> \o Contents'
      BY <1>1, <1>7, <2>5, TakesOldest DEF Take
    <3>2. {v \in Worker : cur'[v] # NoMsg} = {w} /\ cur'[w] = Oldest
      BY <1>1, <2>1, <2>3, <3>1, RingAssumption
    <3>3. InHand' = <<Oldest>>
      BY <3>2 DEF InHand
    <3> HIDE DEF Contents, InHand, Oldest
    <3> QED
      BY <1>3, <2>2, <2>3, <3>1, <3>3 DEF InOrder
  <2> QED
    BY <2>4, <2>5
<1>8. ASSUME NEW w \in Worker, Handle(w)
      PROVE  InOrder'
  <2>1. InHand = <<cur[w]>> /\ cur[w] \in Msg
    BY <1>8, BusyHand DEF Handle, JoinedInv
  <2>2. /\ Contents' = Contents
        /\ deleted' = Append(deleted, cur[w]) /\ accepted' = accepted
        /\ cur' = [cur EXCEPT ![w] = NoMsg]
    BY <1>8, RingUnchanged DEF Handle
  <2>3. \A v \in Worker : v # w => cur[v] = NoMsg
    BY <1>1, <1>8
       DEF Handle, JoinedInv, OneWorker, Active, TaskInv, HoldsWhileHandling
  <2>4. \A v \in Worker : cur'[v] = NoMsg
    BY <1>1, <2>2, <2>3
  <2>5. InHand' = <<>>
    BY <2>4 DEF InHand
  <2>6. deleted \o <<cur[w]>> = deleted' /\ deleted' \o <<>> = deleted'
    <3>1. deleted \o <<cur[w]>> = deleted'
      BY <1>1, <2>1, <2>2, AppendToConcat
    <3>2. deleted' \in Seq(Msg)
      BY <1>1, <2>1, <2>2
    <3> QED
      BY <3>1, <3>2, AppendToConcat
  <2> HIDE DEF Contents, InHand
  <2> QED
    BY <1>3, <2>1, <2>2, <2>5, <2>6 DEF InOrder
<1> QED
  BY <1>4, <1>5, <1>6, <1>7, <1>8
     DEF TaskNext, Run, Initialize, Start, Stop, TestStop, Wait, SkipStopped,
         taskVars

LEMMA OrderStart == TaskInit => InOrder
<1> SUFFICES ASSUME TaskInit PROVE InOrder
  OBVIOUS
<1>1. Contents = <<>>
  BY RingStart DEF TaskInit, Queue!QInit
<1>2. InHand = <<>>
  BY TaskInvStart, IdleHand DEF TaskInit
<1> HIDE DEF Contents, InHand
<1> QED
  BY <1>1, <1>2 DEF TaskInit, InOrder

(***************************************************************************)
(* A task whose callers wait for its worker handles its messages in the    *)
(* order they were accepted and frees each exactly once, over any number   *)
(* of Start, Stop and Destroy calls.                                       *)
(***************************************************************************)
THEOREM TaskKeepsOrder ==
  ASSUME Joined
  PROVE  TaskSpec => []InOrder
<1>1. TaskInv /\ JoinedInv /\ [TaskNext]_<<ring, taskVars>> => JoinedInv'
  BY JoinedInvStep
<1>2. TaskInv /\ JoinedInv /\ InOrder /\ [TaskNext]_<<ring, taskVars>> => InOrder'
  BY OrderStep
<1> QED
  BY <1>1, <1>2, TaskInvStart, TaskInvStep, JoinedInvStart, OrderStart, PTL
     DEF TaskSpec

(***************************************************************************)
(* Each message at one place, also with two workers, when the order is     *)
(* lost.  A sequence without repetition, and what is in it:                *)
(***************************************************************************)
Once(q) == \A i, j \in 1 .. Len(q) : q[i] = q[j] => i = j

Occurs(q, m) == \E i \in 1 .. Len(q) : q[i] = m

\* Deleted messages d, those in the hands h, the queue c and the accepted a: none
\* is twice at one of the places, none is at two, and all that were accepted are
\* at one.
AtPlaces(d, h, c, a) ==
  /\ Once(d)
  /\ Once(c)
  /\ \A v, w \in Worker : h[v] \in Msg /\ h[v] = h[w] => v = w
  /\ \A m \in Msg : Occurs(d, m) => ~Occurs(c, m) /\ \A w \in Worker : h[w] # m
  /\ \A m \in Msg : Occurs(c, m) => \A w \in Worker : h[w] # m
  /\ \A m \in Msg :
       Occurs(a, m) <=> Occurs(d, m) \/ Occurs(c, m) \/ \E w \in Worker : h[w] = m

AtOnePlace == AtPlaces(deleted, cur, Contents, accepted)

LEMMA OccursAppend ==
  ASSUME NEW q \in Seq(Msg), NEW m \in Msg
  PROVE  /\ \A n \in Msg : Occurs(Append(q, m), n) <=> Occurs(q, n) \/ n = m
         /\ Once(q) /\ ~Occurs(q, m) => Once(Append(q, m))
<1> DEFINE r == Append(q, m)
<1>1. /\ Len(q) \in Nat /\ Len(r) = Len(q) + 1
      /\ \A i \in 1 .. Len(q) : r[i] = q[i]
      /\ r[Len(q) + 1] = m
  OBVIOUS
<1>2. \A i \in 1 .. Len(r) : i \in 1 .. Len(q) \/ i = Len(q) + 1
  BY <1>1
<1>3. 1 .. Len(q) \subseteq 1 .. Len(r) /\ Len(q) + 1 \in 1 .. Len(r)
  BY <1>1
<1> HIDE DEF r
<1>4. \A n \in Msg : Occurs(r, n) <=> Occurs(q, n) \/ n = m
  BY <1>1, <1>2, <1>3 DEF Occurs
<1>5. Once(q) /\ ~Occurs(q, m) => Once(r)
  BY <1>1, <1>2 DEF Occurs, Once
<1> QED
  BY <1>4, <1>5 DEF r

LEMMA OccursConcat ==
  ASSUME NEW q \in Seq(Msg), NEW t \in Seq(Msg)
  PROVE  /\ \A n \in Msg : Occurs(q \o t, n) <=> Occurs(q, n) \/ Occurs(t, n)
         /\ Once(q) /\ Once(t) /\ (\A n \in Msg : Occurs(q, n) => ~Occurs(t, n))
              => Once(q \o t)
         /\ Once(q \o t) => /\ Once(t)
                            /\ \A n \in Msg : Occurs(q, n) => ~Occurs(t, n)
<1> DEFINE r == q \o t
           k == Len(q)
<1>1. /\ k \in Nat /\ Len(t) \in Nat /\ Len(r) = k + Len(t)
      /\ \A i \in 1 .. k : r[i] = q[i] /\ q[i] \in Msg
      /\ \A i \in 1 .. Len(t) : r[k + i] = t[i] /\ t[i] \in Msg
  OBVIOUS
<1>2. \A i \in 1 .. Len(r) : i \in 1 .. k \/ \E j \in 1 .. Len(t) : i = k + j
  <2>1. ASSUME NEW i \in 1 .. Len(r), i \notin 1 .. k
        PROVE  i - k \in 1 .. Len(t) /\ i = k + (i - k)
    BY <1>1, <2>1
  <2> QED
    BY <2>1
<1>3. /\ 1 .. k \subseteq 1 .. Len(r)
      /\ \A j \in 1 .. Len(t) : k + j \in 1 .. Len(r) /\ k + j \notin 1 .. k
  BY <1>1
<1>4. \A i, j \in 1 .. Len(t) : k + i = k + j => i = j
  BY <1>1
<1> HIDE DEF r, k
<1>5. \A n \in Msg : Occurs(r, n) <=> Occurs(q, n) \/ Occurs(t, n)
  <2> TAKE n \in Msg
  <2>1. Occurs(q, n) => Occurs(r, n)
    BY <1>1, <1>3 DEF Occurs, k
  <2>2. Occurs(t, n) => Occurs(r, n)
    BY <1>1, <1>3 DEF Occurs
  <2>3. Occurs(r, n) => Occurs(q, n) \/ Occurs(t, n)
    BY <1>1, <1>2 DEF Occurs, k
  <2> QED
    BY <2>1, <2>2, <2>3
<1>6. ASSUME Once(q), Once(t), \A n \in Msg : Occurs(q, n) => ~Occurs(t, n)
      PROVE  Once(r)
  <2>1. \A i, j \in 1 .. k : r[i] = r[j] => i = j
    BY <1>1, <1>6 DEF Once, k
  <2>2. \A i \in 1 .. k, j \in 1 .. Len(t) : r[i] # r[k + j]
    BY <1>1, <1>6 DEF Occurs, k
  <2>3. \A i, j \in 1 .. Len(t) : r[k + i] = r[k + j] => i = j
    BY <1>1, <1>6 DEF Once
  <2> QED
    BY <1>2, <2>1, <2>2, <2>3 DEF Once
<1>7. ASSUME Once(r)
      PROVE  Once(t) /\ \A n \in Msg : Occurs(q, n) => ~Occurs(t, n)
  <2>1. Once(t)
    BY <1>1, <1>3, <1>4, <1>7 DEF Once
  <2>2. \A n \in Msg : Occurs(q, n) => ~Occurs(t, n)
    BY <1>1, <1>3, <1>7 DEF Once, Occurs, k
  <2> QED
    BY <2>1, <2>2
<1> QED
  BY <1>5, <1>6, <1>7 DEF r

LEMMA OccursSingle ==
  ASSUME NEW m \in Msg
  PROVE  /\ <<m>> \in Seq(Msg)
         /\ \A n \in Msg : Occurs(<<m>>, n) <=> n = m
  BY DEF Occurs

LEMMA QueueType == RingInv => Contents \in Seq(Msg)
  BY ContentsType

LEMMA AtOnePlaceStep ==
  ASSUME TaskInv, AtOnePlace, [TaskNext]_<<ring, taskVars>>
  PROVE  AtOnePlace'
<1>1. /\ RingInv
      /\ Contents \in Seq(Msg) /\ deleted \in Seq(Msg) /\ accepted \in Seq(Msg)
      /\ cur \in [Worker -> Msg \cup {NoMsg}]
  BY ContentsType DEF TaskInv, TaskTypeOK, RingInv
<1>2. AtPlaces(deleted, cur, Contents, accepted)
  BY DEF AtOnePlace
<1>3. CASE UNCHANGED <<ring, cur, accepted, deleted>>
  BY <1>2, <1>3, RingUnchanged DEF AtOnePlace
<1>4. ASSUME NEW m \in Msg, SendMsg(m)
      PROVE  AtOnePlace'
  <2>1. /\ Contents' = Append(Contents, m) /\ accepted' = Append(accepted, m)
        /\ deleted' = deleted /\ cur' = cur /\ ~Occurs(accepted, m)
    BY <1>1, <1>4, EnqueueAppends DEF SendMsg, Contains, Occurs
  <2>2. /\ \A n \in Msg : Occurs(Contents', n) <=> Occurs(Contents, n) \/ n = m
        /\ \A n \in Msg : Occurs(accepted', n) <=> Occurs(accepted, n) \/ n = m
        /\ Once(Contents) /\ ~Occurs(Contents, m) => Once(Contents')
    BY <1>1, <2>1, OccursAppend
  <2> HIDE DEF Contents
  <2>3. AtPlaces(deleted, cur, Contents', accepted')
    BY <1>2, <2>1, <2>2 DEF AtPlaces
  <2> QED
    BY <2>1, <2>3 DEF AtOnePlace
<1>5. CASE Destroy
  <2>1. /\ Contents' = <<>> /\ deleted' = deleted \o Contents
        /\ accepted' = accepted /\ cur' = cur
    BY <1>1, <1>5, Emptied DEF Destroy
  <2>2. /\ \A n \in Msg : Occurs(deleted', n) <=> Occurs(deleted, n) \/ Occurs(Contents, n)
        /\ Once(deleted')
    BY <1>1, <1>2, <2>1, OccursConcat DEF AtPlaces
  <2>3. Once(<<>>) /\ \A n \in Msg : ~Occurs(<<>>, n)
    BY DEF Once, Occurs
  <2> HIDE DEF Contents
  <2>4. AtPlaces(deleted', cur, <<>>, accepted)
    BY <1>2, <2>2, <2>3 DEF AtPlaces
  <2> QED
    BY <2>1, <2>4 DEF AtOnePlace
<1>6. ASSUME NEW w \in Worker, Take(w)
      PROVE  AtOnePlace'
  <2>1. /\ cur' = [cur EXCEPT ![w] = Oldest]
        /\ deleted' = deleted /\ accepted' = accepted
        /\ cur[w] = NoMsg
    BY <1>1, <1>6 DEF Take, TaskInv, HoldsWhileHandling
  <2>2. CASE Size = 0
    <3>1. Oldest = NoMsg /\ Contents' = Contents
      BY <1>1, <1>6, <2>2, TakesOldest, RingUnchanged DEF Take
    <3>2. cur' = cur
      BY <1>1, <2>1, <3>1
    <3> QED
      BY <1>2, <2>1, <3>1, <3>2 DEF AtOnePlace
  <2>3. CASE Size # 0
    <3>1. Oldest \in Msg /\ Contents = <<Oldest>> \o Contents' /\ RingInv'
      BY <1>1, <1>6, <2>3, TakesOldest DEF Take
    <3>2. Contents' \in Seq(Msg)
      <4>1. RingInv'
        BY <3>1
      <4>2. (Contents \in Seq(Msg))'
        BY <4>1, QueueType, PTL
      <4> QED
        BY <4>2
    <3> HIDE DEF Contents, Oldest
    <3> DEFINE x == Oldest
    <3>3. \A v \in Worker : cur'[v] = IF v = w THEN x ELSE cur[v]
      BY <1>1, <2>1
    <3>4. /\ \A n \in Msg : Occurs(Contents, n) <=> n = x \/ Occurs(Contents', n)
          /\ Once(Contents') /\ ~Occurs(Contents', x) /\ x \in Msg
      <4>1. <<x>> \in Seq(Msg) /\ \A n \in Msg : Occurs(<<x>>, n) <=> n = x
        BY <3>1, OccursSingle
      <4>2. /\ \A n \in Msg : Occurs(<<x>> \o Contents', n) <=> Occurs(<<x>>, n) \/ Occurs(Contents', n)
            /\ Once(<<x>> \o Contents') =>
                 Once(Contents') /\ \A n \in Msg : Occurs(<<x>>, n) => ~Occurs(Contents', n)
        BY <3>2, <4>1, OccursConcat
      <4>3. Once(Contents)
        BY <1>2 DEF AtPlaces
      <4> QED
        BY <3>1, <4>1, <4>2, <4>3
    <3> HIDE DEF x
    <3>5. AtPlaces(deleted, cur', Contents', accepted)
      BY <1>2, <2>1, <3>3, <3>4, RingAssumption DEF AtPlaces
    <3> QED
      BY <2>1, <3>5 DEF AtOnePlace
  <2> QED
    BY <2>2, <2>3
<1>7. ASSUME NEW w \in Worker, Handle(w)
      PROVE  AtOnePlace'
  <2>1. /\ cur' = [cur EXCEPT ![w] = NoMsg] /\ deleted' = Append(deleted, cur[w])
        /\ accepted' = accepted /\ Contents' = Contents /\ cur[w] \in Msg
    BY <1>1, <1>7, RingUnchanged DEF Handle, TaskInv, HoldsWhileHandling
  <2> DEFINE x == cur[w]
  <2>2. \A v \in Worker : cur'[v] = IF v = w THEN NoMsg ELSE cur[v]
    BY <1>1, <2>1
  <2>3. /\ \A n \in Msg : Occurs(deleted', n) <=> Occurs(deleted, n) \/ n = x
        /\ Once(deleted')
    BY <1>1, <1>2, <2>1, OccursAppend DEF AtPlaces
  <2> HIDE DEF Contents
  <2>4. AtPlaces(deleted', cur', Contents, accepted)
    BY <1>2, <2>1, <2>2, <2>3, RingAssumption DEF AtPlaces
  <2> QED
    BY <2>1, <2>4 DEF AtOnePlace
<1> QED
  BY <1>3, <1>4, <1>5, <1>6, <1>7
     DEF TaskNext, Run, Initialize, Start, Stop, TestStop, Wait, SkipStopped,
         taskVars

LEMMA AtOnePlaceStart == TaskInit => AtOnePlace
<1> SUFFICES ASSUME TaskInit PROVE AtOnePlace
  OBVIOUS
<1>1. Contents = <<>>
  BY RingStart DEF TaskInit, Queue!QInit
<1>2. \A w \in Worker : cur[w] \notin Msg
  BY RingAssumption DEF TaskInit
<1>3. Once(<<>>) /\ \A n \in Msg : ~Occurs(<<>>, n)
  BY DEF Once, Occurs
<1> HIDE DEF Contents
<1> QED
  BY <1>1, <1>2, <1>3 DEF TaskInit, AtOnePlace, AtPlaces

LEMMA CountOne ==
  ASSUME NEW S, \A x, y \in S : x = y
  PROVE  Cardinality(S) = IF S = {} THEN 0 ELSE 1
<1>1. CASE S = {}
  BY <1>1, FS_EmptySet
<1>2. ASSUME NEW x \in S PROVE Cardinality(S) = 1
  <2>1. S = {x}
    OBVIOUS
  <2> QED
    BY <2>1, FS_Singleton
<1> QED
  BY <1>1, <1>2

LEMMA PlacesConserve ==
  ASSUME TaskInv, AtOnePlace
  PROVE  Conserved
<1> SUFFICES ASSUME NEW m \in ToSet(accepted)
             PROVE  Cardinality({i \in DOMAIN deleted : deleted[i] = m})
                      + Cardinality({w \in Worker : cur[w] = m})
                      + Cardinality({i \in 1 .. Size : Contents[i] = m}) = 1
  BY DEF Conserved
<1> DEFINE D == {i \in DOMAIN deleted : deleted[i] = m}
           W == {w \in Worker : cur[w] = m}
           C == {i \in 1 .. Size : Contents[i] = m}
<1>1. /\ Contents \in Seq(Msg) /\ Len(Contents) = Size
      /\ deleted \in Seq(Msg) /\ accepted \in Seq(Msg)
  BY ContentsType DEF TaskInv, TaskTypeOK, RingInv
<1>2. m \in Msg /\ Occurs(accepted, m)
  BY <1>1 DEF ToSet, Occurs
<1>3. /\ \A i, j \in D : i = j
      /\ D # {} <=> Occurs(deleted, m)
  <2>1. D = {i \in 1 .. Len(deleted) : deleted[i] = m}
    BY <1>1
  <2> HIDE DEF D
  <2> QED
    BY <2>1 DEF AtOnePlace, AtPlaces, Once, Occurs
<1>4. /\ \A v, w \in W : v = w
      /\ W # {} <=> \E w \in Worker : cur[w] = m
  BY <1>2 DEF AtOnePlace, AtPlaces
<1>5. /\ \A i, j \in C : i = j
      /\ C # {} <=> Occurs(Contents, m)
  <2> HIDE DEF Contents, Size
  <2> QED
    BY <1>1, SMTT(30) DEF AtOnePlace, AtPlaces, Once, Occurs
<1> HIDE DEF D, W, C
<1>6. /\ Cardinality(D) = IF D = {} THEN 0 ELSE 1
      /\ Cardinality(W) = IF W = {} THEN 0 ELSE 1
      /\ Cardinality(C) = IF C = {} THEN 0 ELSE 1
  BY <1>3, <1>4, <1>5, CountOne
<1>7. \/ D # {} /\ W = {} /\ C = {}
      \/ D = {} /\ W # {} /\ C = {}
      \/ D = {} /\ W = {} /\ C # {}
  BY <1>2, <1>3, <1>4, <1>5, Zenon DEF AtOnePlace, AtPlaces
<1>8. Cardinality(D) + Cardinality(W) + Cardinality(C) = 1
  BY <1>6, <1>7
<1> QED
  BY <1>8 DEF D, W, C

(***************************************************************************)
(* However many workers a restart leaves on the ring, each message that was*)
(* accepted is at one place: queued, in the hand of one worker, or deleted *)
(* once.  No assumption is made on the callers.                            *)
(***************************************************************************)
THEOREM TaskConserves == TaskSpec => []Conserved
<1>1. TaskInv /\ AtOnePlace => Conserved
  BY PlacesConserve
<1> QED
  BY <1>1, TaskInvStart, TaskInvStep, AtOnePlaceStart, AtOnePlaceStep, PTL
     DEF TaskSpec
===============================================================================
