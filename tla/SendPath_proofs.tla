---------------------------- MODULE SendPath_proofs ---------------------------
(***************************************************************************)
(* What the way out of the adapter promises for every capacity, every set  *)
(* of senders and any number of starts.                                    *)
(***************************************************************************)
EXTENDS SendPath, FiniteSetTheorems, SequenceTheorems, TLAPS

(***************************************************************************)
(* The inductive invariant, in four parts.                                 *)
(***************************************************************************)

\* Who may be where: only the current task can be running, a sender is under
\* way only while there is one, and a message is held at two places of the
\* program, between Allocate and Post and between TakeOldest and Deliver.
Control ==
  /\ \A s \in Sender : hand[s] \in Slot <=> sender[s] = "post"
  /\ \A s \in Sender : sender[s] # "idle" => task # NoTask
  /\ \A t \in Task : cur[t] \in Slot <=> worker[t] = "handle"
  /\ \A t \in Task : ~to_stop[t] => t = task
  /\ \A t \in Task : t > starts => worker[t] = "none" /\ sem[t] = 0
  /\ selected <=> task # NoTask /\ ~to_stop[task]
  /\ task # NoTask => task = starts
  /\ task = NoTask => queue = <<>> /\ \A t \in Task : worker[t] = "none"

In(q, x) == \E i \in 1 .. Len(q) : q[i] = x

\* What is at a place is allocated and at no other place.
Apart ==
  /\ lost \subseteq used
  /\ \A i \in 1 .. Len(queue) : queue[i] \in used \ lost
  /\ \A i, j \in 1 .. Len(queue) : queue[i] = queue[j] => i = j
  /\ \A s \in Sender : hand[s] \in Slot => hand[s] \in used \ lost /\ ~In(queue, hand[s])
  /\ \A t \in Task : cur[t] \in Slot => cur[t] \in used \ lost /\ ~In(queue, cur[t])
  /\ \A r, s \in Sender : hand[r] \in Slot /\ hand[r] = hand[s] => r = s
  /\ \A t, u \in Task : cur[t] \in Slot /\ cur[t] = cur[u] => t = u
  /\ \A s \in Sender, t \in Task : hand[s] \in Slot => hand[s] # cur[t]

\* What is allocated is at some place.
Placed ==
  \A x \in used :
    \/ x \in lost
    \/ In(queue, x)
    \/ \E s \in Sender : hand[s] = x
    \/ \E t \in Task : cur[t] = x

\* What the semaphore of the current task counts.
Counts ==
  task # NoTask =>
    IF to_stop[task]
    THEN sem[task] <= Len(queue) + 1
    ELSE Len(queue) = sem[task] + Owed(task) + left

PathInv ==
  TypeOK /\ Control /\ Apart /\ Placed /\ Counts /\ LostOnce

(***************************************************************************)
(* The queue.                                                              *)
(***************************************************************************)
LEMMA PutQueue ==
  ASSUME queue \in Seq(Slot), NEW x \in Slot, Ring!Put(x)
  PROVE  /\ queue' \in Seq(Slot)
         /\ Len(queue) < QueueCapacity
         /\ Len(queue') = Len(queue) + 1
         /\ \A i \in 1 .. Len(queue) : queue'[i] = queue[i]
         /\ queue'[Len(queue) + 1] = x
  BY DEF Ring!Put

LEMMA TakeQueue ==
  ASSUME queue \in Seq(Slot), Ring!Take
  PROVE  /\ queue' \in Seq(Slot)
         /\ Len(queue) > 0
         /\ Len(queue') = Len(queue) - 1
         /\ \A i \in 1 .. Len(queue') : queue'[i] = queue[i + 1]
         /\ Head(queue) = queue[1]
         /\ queue[1] \in Slot
<1>1. queue # <<>> /\ queue' = Tail(queue)
  BY DEF Ring!Take
<1>2. Len(queue) > 0
  BY <1>1, EmptySeq
<1> QED
  BY <1>1, <1>2, HeadTailProperties

LEMMA ClearQueue ==
  ASSUME Ring!Clear
  PROVE  queue' = <<>> /\ queue' \in Seq(Slot) /\ Len(queue') = 0
  BY DEF Ring!Clear

(***************************************************************************)
(* When the ring is full and a sender holds one more message, these are    *)
(* all there are: nothing has been lost yet.                               *)
(***************************************************************************)
LEMMA FullRingHoldsRest ==
  ASSUME TypeOK, Apart, NEW s \in Sender, hand[s] \in Slot,
         Len(queue) >= QueueCapacity
  PROVE  lost = {}
<1> DEFINE Q == {queue[i] : i \in 1 .. Len(queue)}
<1>1. Len(queue) = Capacity - 1 /\ Len(queue) \in Nat /\ Capacity \in Nat
  BY SendPathAssumption DEF TypeOK, QueueCapacity
<1>2. IsFiniteSet(Slot) /\ Cardinality(Slot) = Capacity
  BY <1>1, FS_Interval DEF Slot
<1>3. IsFiniteSet(Q) /\ Cardinality(Q) = Len(queue)
  <2>1. IsFiniteSet(1 .. Len(queue)) /\ Cardinality(1 .. Len(queue)) = Len(queue)
    BY <1>1, FS_Interval
  <2>2. ExistsBijection(1 .. Len(queue), Q)
    <3>1. [i \in 1 .. Len(queue) |-> queue[i]] \in Bijection(1 .. Len(queue), Q)
      BY DEF Apart, Bijection, Injection, Surjection, IsInjective
    <3> QED
      BY <3>1 DEF ExistsBijection
  <2> HIDE DEF Q
  <2> QED
    BY <2>1, <2>2, FS_Bijection
<1>4. hand[s] \notin Q /\ Q \subseteq Slot
  BY DEF TypeOK, Apart, In
<1>5. /\ IsFiniteSet(Q \cup {hand[s]})
      /\ Cardinality(Q \cup {hand[s]}) = Capacity
  <2> HIDE DEF Q
  <2> QED
    BY <1>1, <1>3, <1>4, FS_AddElement
<1>6. Q \cup {hand[s]} = Slot
  <2>1. Q \cup {hand[s]} \subseteq Slot
    BY <1>4
  <2> HIDE DEF Q
  <2> QED
    BY <1>2, <1>5, <2>1, FS_Subset
<1>7. lost \cap (Q \cup {hand[s]}) = {}
  BY DEF Apart
<1> QED
  BY <1>6, <1>7 DEF TypeOK

(***************************************************************************)
(* The step of each part.                                                  *)
(***************************************************************************)
LEMMA InitPathInv ==
  Init => PathInv
<1> SUFFICES ASSUME Init PROVE PathInv
  OBVIOUS
<1> USE SendPathAssumption DEF Init
<1>1. TypeOK
  <2>1. queue \in Seq(Slot) /\ Len(queue) = 0
    OBVIOUS
  <2>2. 0 <= QueueCapacity /\ left \in 0 .. QueueCapacity /\ starts \in 0 .. MaxStarts
    BY DEF QueueCapacity
  <2>3. sem \in [Task -> 0 .. Capacity] /\ task \in 0 .. starts
    BY DEF NoTask
  <2> QED
    BY <2>1, <2>2, <2>3 DEF TypeOK
<1>2. Control
  BY DEF Control, Slot, NoSlot, NoTask
<1>3. Apart /\ Placed
  BY DEF Apart, Placed, Slot, NoSlot
<1>4. Counts
  BY DEF Counts
<1>5. LostOnce
  BY FS_EmptySet DEF LostOnce
<1> QED
  BY <1>1, <1>2, <1>3, <1>4, <1>5 DEF PathInv

LEMMA TypeStep ==
  ASSUME PathInv, [Next]_vars
  PROVE  TypeOK'
<1> USE SendPathAssumption DEF TypeOK, PathInv, NoSlot, NoTask
<1>1. ASSUME NEW s \in Sender, CheckSelected(s) \/ AllocateFails(s)
      PROVE  TypeOK'
  BY <1>1 DEF CheckSelected, AllocateFails, pool, tasks, workers
<1>2. ASSUME NEW s \in Sender, Allocate(s)
      PROVE  TypeOK'
  BY <1>2 DEF Allocate, tasks, workers
<1>3. ASSUME NEW s \in Sender, Post(s)
      PROVE  TypeOK'
  <2>1. hand[s] \in Slot /\ task \in Task
    BY <1>3 DEF Post, Control, Task
  <2>2. /\ queue' \in Seq(Slot)
        /\ Len(queue) < QueueCapacity
        /\ Len(queue') = Len(queue) + 1
    BY <1>3, <2>1, PutQueue DEF Post
  <2>3. Len(queue') <= QueueCapacity
    BY <2>2 DEF QueueCapacity
  <2>4. sem[task] + 1 \in 0 .. Capacity
    <3>1. sem[task] <= Len(queue) + 1
      BY <2>1 DEF Counts, Owed, QueueCapacity, Task
    <3> QED
      BY <2>1, <2>2, <3>1 DEF QueueCapacity
  <2>5. sem' \in [Task -> 0 .. Capacity]
    BY <1>3, <2>1, <2>4 DEF Post
  <2> QED
    BY <1>3, <2>2, <2>3, <2>5 DEF Post, pool, tasks, workers
<1>4. ASSUME NEW s \in Sender, PostFails(s)
      PROVE  TypeOK'
  <2>1. hand[s] \in Slot
    BY <1>4 DEF PostFails, Control
  <2> QED
    BY <1>4, <2>1 DEF PostFails, tasks, workers
<1>5. CASE Start
  <2>1. starts + 1 \in Task /\ starts' \in 0 .. MaxStarts /\ task' \in 0 .. starts'
    BY <1>5 DEF Start, Task
  <2>2. left' \in 0 .. QueueCapacity
    BY <1>5 DEF Start, QueueCapacity
  <2> QED
    BY <1>5, <2>1, <2>2 DEF Start, pool, senders
<1>6. CASE Stop
  <2>1. task \in Task
    BY <1>6 DEF Stop, Task
  <2>2. sem[task] + 1 \in 0 .. Capacity
    BY <1>6, <2>1 DEF Stop, Counts, Owed, QueueCapacity
  <2>3. sem' \in [Task -> 0 .. Capacity]
    BY <1>6, <2>1, <2>2 DEF Stop
  <2> QED
    BY <1>6, <2>1, <2>3 DEF Stop, pool, senders
<1>7. CASE Terminate
  BY <1>7, ClearQueue DEF Terminate, workers, senders, QueueCapacity
<1>8. ASSUME NEW t \in Task, TestStop(t) \/ SkipStopped(t)
      PROVE  TypeOK'
  BY <1>8 DEF TestStop, SkipStopped, pool, tasks, senders
<1>9. ASSUME NEW t \in Task, Wait(t)
      PROVE  TypeOK'
  <2>1. sem[t] - 1 \in 0 .. Capacity
    BY <1>9 DEF Wait
  <2>2. sem' \in [Task -> 0 .. Capacity]
    BY <1>9, <2>1 DEF Wait
  <2> QED
    BY <1>9, <2>2 DEF Wait, pool, tasks, senders
<1>10. ASSUME NEW t \in Task, TakeOldest(t)
       PROVE  TypeOK'
  <2>1. /\ queue' \in Seq(Slot)
        /\ Len(queue') = Len(queue) - 1
        /\ Head(queue) \in Slot
    BY <1>10, TakeQueue DEF TakeOldest
  <2>2. Len(queue') <= QueueCapacity
    BY <2>1 DEF QueueCapacity
  <2> QED
    BY <1>10, <2>1, <2>2 DEF TakeOldest, pool, tasks, senders
<1>11. ASSUME NEW t \in Task, Deliver(t)
       PROVE  TypeOK'
  BY <1>11 DEF Deliver, tasks, senders
<1>12. CASE UNCHANGED vars
  BY <1>12 DEF vars
<1> QED
  BY <1>1, <1>2, <1>3, <1>4, <1>5, <1>6, <1>7, <1>8, <1>9, <1>10, <1>11, <1>12
     DEF Next, Send, Run

LEMMA ControlStep ==
  ASSUME PathInv, TypeOK', [Next]_vars
  PROVE  Control'
<1> USE SendPathAssumption DEF Control, TypeOK, PathInv, NoSlot, NoTask
<1>1. ASSUME NEW s \in Sender, CheckSelected(s) \/ AllocateFails(s)
      PROVE  Control'
  BY <1>1 DEF CheckSelected, AllocateFails, pool, tasks, workers
<1>2. ASSUME NEW s \in Sender, Allocate(s)
      PROVE  Control'
  BY <1>2 DEF Allocate, tasks, workers
<1>3. ASSUME NEW s \in Sender, Post(s)
      PROVE  Control'
  <2>1. /\ task # NoTask
        /\ UNCHANGED <<selected, starts, task, to_stop, worker, cur>>
        /\ sem' = [sem EXCEPT ![task] = @ + 1]
        /\ sender' = [sender EXCEPT ![s] = "idle"]
        /\ hand' = [hand EXCEPT ![s] = NoSlot]
    BY <1>3 DEF Post, tasks, workers
  <2>2. \A t \in Task : t > starts => sem'[t] = 0
    BY <2>1, SMT DEF Task
  <2>3. \A r \in Sender : hand'[r] \in Slot <=> sender'[r] = "post"
    BY <2>1 DEF Slot
  <2> QED
    BY <2>1, <2>2, <2>3
<1>4. ASSUME NEW s \in Sender, PostFails(s)
      PROVE  Control'
  BY <1>4 DEF PostFails, tasks, workers, Slot
<1>5. CASE Start
  <2> DEFINE n == starts + 1
  <2>1. /\ n \in Task /\ n > starts /\ n # NoTask
        /\ selected' /\ starts' = n /\ task' = n
        /\ to_stop' = [to_stop EXCEPT ![n] = FALSE]
        /\ worker' = [worker EXCEPT ![n] = "test"]
        /\ UNCHANGED <<sem, cur, sender, hand>>
    BY <1>5 DEF Start, senders, Task
  <2>2. \A t \in Task : t # n => to_stop[t]
    BY <1>5, <2>1 DEF Start, Task
  <2>3. \A t \in Task : t > n => worker'[t] = "none" /\ sem'[t] = 0
    BY <2>1 DEF Task
  <2>4. cur[n] \notin Slot
    BY <2>1
  <2> HIDE DEF n
  <2> QED
    BY <2>1, <2>2, <2>3, <2>4
<1>6. CASE Stop
  BY <1>6 DEF Stop, pool, senders, Task
<1>7. CASE Terminate
  BY <1>7, ClearQueue DEF Terminate, SendersIdle, workers, senders, Task
<1>8. ASSUME NEW t \in Task, TestStop(t) \/ SkipStopped(t)
      PROVE  Control'
  BY <1>8 DEF TestStop, SkipStopped, pool, tasks, senders
<1>9. ASSUME NEW t \in Task, Wait(t)
      PROVE  Control'
  BY <1>9 DEF Wait, pool, tasks, senders
<1>10. ASSUME NEW t \in Task, TakeOldest(t)
       PROVE  Control'
  <2>1. Head(queue) \in Slot
    BY <1>10, TakeQueue DEF TakeOldest
  <2> QED
    BY <1>10, <2>1 DEF TakeOldest, pool, tasks, senders
<1>11. ASSUME NEW t \in Task, Deliver(t)
       PROVE  Control'
  BY <1>11 DEF Deliver, tasks, senders, Slot
<1>12. CASE UNCHANGED vars
  BY <1>12 DEF vars
<1> QED
  BY <1>1, <1>2, <1>3, <1>4, <1>5, <1>6, <1>7, <1>8, <1>9, <1>10, <1>11, <1>12
     DEF Next, Send, Run

\* Steps that move no message.
LEMMA PlacesUnchanged ==
  ASSUME PathInv, UNCHANGED <<used, queue, cur, hand, lost>>
  PROVE  Apart' /\ Placed'
  BY DEF PathInv, Apart, Placed, In

LEMMA PlacesStep ==
  ASSUME PathInv, [Next]_vars
  PROVE  Apart' /\ Placed'
<1> USE DEF PathInv, TypeOK, NoSlot
<1>1. ASSUME NEW s \in Sender, CheckSelected(s) \/ AllocateFails(s)
      PROVE  Apart' /\ Placed'
  BY <1>1, PlacesUnchanged DEF CheckSelected, AllocateFails, pool, workers
<1>2. ASSUME NEW s \in Sender, Allocate(s)
      PROVE  Apart' /\ Placed'
  <2>1. PICK x \in Slot \ used : used' = used \cup {x} /\ hand' = [hand EXCEPT ![s] = x]
    BY <1>2 DEF Allocate
  <2>2. hand[s] = NoSlot
    BY <1>2 DEF Allocate, Control
  <2>3. UNCHANGED <<queue, cur, lost>>
    BY <1>2 DEF Allocate, workers
  <2>4. Apart'
    BY <2>1, <2>2, <2>3 DEF Apart, In
  <2>5. Placed'
    BY <2>1, <2>2, <2>3, SMTT(30) DEF Placed, In, Slot
  <2> QED
    BY <2>4, <2>5
<1>3. ASSUME NEW s \in Sender, Post(s)
      PROVE  Apart' /\ Placed'
  <2>1. hand[s] \in Slot
    BY <1>3 DEF Post, Control
  <2>2. /\ Len(queue') = Len(queue) + 1
        /\ \A i \in 1 .. Len(queue) : queue'[i] = queue[i]
        /\ queue'[Len(queue) + 1] = hand[s]
    BY <1>3, <2>1, PutQueue DEF Post
  <2>3. UNCHANGED <<used, cur, lost>> /\ hand' = [hand EXCEPT ![s] = NoSlot]
    BY <1>3 DEF Post, pool, workers
  <2> DEFINE n == Len(queue)
  <2>a. n \in Nat
    OBVIOUS
  <2>4. \A i \in 1 .. n + 1 : queue'[i] = IF i <= n THEN queue[i] ELSE hand[s]
    BY <2>2, <2>a
  <2>5. \A x : In(queue', x) <=> In(queue, x) \/ x = hand[s]
    <3>1. ASSUME NEW x, In(queue, x) PROVE In(queue', x)
      <4>1. PICK i \in 1 .. n : queue[i] = x
        BY <3>1 DEF In
      <4>2. i \in 1 .. Len(queue') /\ queue'[i] = x
        BY <2>2, <2>a, <4>1
      <4> QED
        BY <4>2 DEF In
    <3>2. ASSUME NEW x, In(queue', x), x # hand[s] PROVE In(queue, x)
      <4>1. PICK i \in 1 .. n + 1 : queue'[i] = x
        BY <2>2, <3>2 DEF In
      <4>2. i \in 1 .. n /\ queue[i] = x
        BY <2>4, <2>a, <3>2, <4>1
      <4> QED
        BY <4>2 DEF In
    <3>3. In(queue', hand[s])
      <4>1. n + 1 \in 1 .. Len(queue')
        BY <2>2, <2>a
      <4> QED
        BY <2>2, <4>1 DEF In
    <3> QED
      BY <3>1, <3>2, <3>3
  <2>6. /\ \A i \in 1 .. n : queue[i] # hand[s] /\ queue[i] \in used \ lost
        /\ \A i, j \in 1 .. n : queue[i] = queue[j] => i = j
        /\ hand[s] \in used \ lost
    BY <2>1 DEF Apart, In
  <2>7. ASSUME NEW i \in 1 .. Len(queue')
        PROVE  /\ queue'[i] \in used' \ lost'
               /\ \A j \in 1 .. Len(queue') : queue'[i] = queue'[j] => i = j
    <3>1. \A j \in 1 .. Len(queue') : j \in 1 .. n \/ j = n + 1
      BY <2>2, <2>a
    <3>2. \A j \in 1 .. n : queue'[j] = queue[j]
      BY <2>2
    <3>3. queue'[n + 1] = hand[s]
      BY <2>2
    <3> HIDE DEF n
    <3>4. queue'[i] \in used' \ lost'
      BY <2>3, <2>6, <3>1, <3>2, <3>3
    <3>5. ASSUME NEW j \in 1 .. Len(queue'), queue'[i] = queue'[j]
          PROVE  i = j
      BY <2>6, <3>1, <3>2, <3>3, <3>5
    <3> QED
      BY <3>4, <3>5
  <2> HIDE DEF n
  <2>8. /\ \A x : In(queue', x) => x \in used' \ lost'
        /\ \A r \in Sender : hand'[r] \in Slot => hand'[r] = hand[r] /\ r # s
    BY <2>3, <2>7 DEF In, Slot
  <2>9. Apart'
    <3>1. /\ lost' \subseteq used'
          /\ \A i \in 1 .. Len(queue') : queue'[i] \in used' \ lost'
          /\ \A i, j \in 1 .. Len(queue') : queue'[i] = queue'[j] => i = j
      BY <2>3, <2>7 DEF Apart
    <3>2. /\ \A r \in Sender : hand'[r] \in Slot =>
                hand'[r] \in used' \ lost' /\ ~In(queue', hand'[r])
          /\ \A q, r \in Sender : hand'[q] \in Slot /\ hand'[q] = hand'[r] => q = r
      BY <2>1, <2>3, <2>5, <2>8 DEF Apart
    <3>3. /\ \A t \in Task : cur'[t] \in Slot =>
                cur'[t] \in used' \ lost' /\ ~In(queue', cur'[t])
          /\ \A t, u \in Task : cur'[t] \in Slot /\ cur'[t] = cur'[u] => t = u
          /\ \A r \in Sender, t \in Task : hand'[r] \in Slot => hand'[r] # cur'[t]
      BY <2>1, <2>3, <2>5, <2>8 DEF Apart
    <3> QED
      BY <3>1, <3>2, <3>3 DEF Apart
  <2>10. Placed'
    BY <2>3, <2>5 DEF Placed
  <2> QED
    BY <2>9, <2>10
<1>4. ASSUME NEW s \in Sender, PostFails(s)
      PROVE  Apart' /\ Placed'
  <2>1. hand[s] \in Slot
    BY <1>4 DEF PostFails, Control
  <2>2. /\ UNCHANGED <<used, queue, cur>>
        /\ lost' = lost \cup {hand[s]}
        /\ hand' = [hand EXCEPT ![s] = NoSlot]
    BY <1>4 DEF PostFails, workers
  <2>3. Apart'
    <3>1. /\ lost' \subseteq used'
          /\ \A i \in 1 .. Len(queue') : queue'[i] \in used' \ lost'
          /\ \A i, j \in 1 .. Len(queue') : queue'[i] = queue'[j] => i = j
      BY <2>1, <2>2 DEF Apart, In
    <3>2. \A r \in Sender : hand'[r] \in Slot => hand'[r] = hand[r] /\ r # s
      BY <2>2 DEF Slot
    <3>3. /\ \A r \in Sender : hand'[r] \in Slot =>
                hand'[r] \in used' \ lost' /\ ~In(queue', hand'[r])
          /\ \A q, r \in Sender : hand'[q] \in Slot /\ hand'[q] = hand'[r] => q = r
      BY <2>1, <2>2, <3>2 DEF Apart
    <3>4. /\ \A t \in Task : cur'[t] \in Slot =>
                cur'[t] \in used' \ lost' /\ ~In(queue', cur'[t])
          /\ \A t, u \in Task : cur'[t] \in Slot /\ cur'[t] = cur'[u] => t = u
          /\ \A r \in Sender, t \in Task : hand'[r] \in Slot => hand'[r] # cur'[t]
      BY <2>1, <2>2, <3>2 DEF Apart
    <3> QED
      BY <3>1, <3>3, <3>4 DEF Apart
  <2>4. Placed'
    BY <2>2 DEF Placed, In
  <2> QED
    BY <2>3, <2>4
<1>5. CASE Start
  BY <1>5, PlacesUnchanged DEF Start, pool, senders
<1>6. CASE Stop
  BY <1>6, PlacesUnchanged DEF Stop, pool, senders
<1>7. CASE Terminate
  <2>1. UNCHANGED <<cur, hand, lost>> /\ used' = used \ ToSet(queue) /\ queue' = <<>>
    BY <1>7, ClearQueue DEF Terminate, workers, senders
  <2>2. \A x : x \in ToSet(queue) <=> In(queue, x)
    BY DEF ToSet, In
  <2>3. Len(queue') = 0
    BY <2>1
  <2>4. Apart'
    BY <2>1, <2>2, <2>3 DEF Apart, In
  <2>5. Placed'
    BY <2>1, <2>2, <2>3 DEF Placed, In
  <2> QED
    BY <2>4, <2>5
<1>8. ASSUME NEW t \in Task, TestStop(t) \/ SkipStopped(t) \/ Wait(t)
      PROVE  Apart' /\ Placed'
  BY <1>8, PlacesUnchanged DEF TestStop, SkipStopped, Wait, pool, senders
<1>9. ASSUME NEW t \in Task, TakeOldest(t)
      PROVE  Apart' /\ Placed'
  <2> DEFINE x == queue[1]
  <2>1. /\ Len(queue) > 0
        /\ Len(queue') = Len(queue) - 1
        /\ \A i \in 1 .. Len(queue') : queue'[i] = queue[i + 1]
        /\ x \in Slot
        /\ Head(queue) = x
    BY <1>9, TakeQueue DEF TakeOldest
  <2>2. UNCHANGED <<used, hand, lost>> /\ cur' = [cur EXCEPT ![t] = x]
    BY <1>9, <2>1 DEF TakeOldest, pool, senders
  <2>3. cur[t] = NoSlot
    BY <1>9 DEF TakeOldest, Control
  <2>4. \A y : In(queue, y) <=> In(queue', y) \/ y = x
    <3>1. ASSUME NEW y, NEW i \in 1 .. Len(queue), queue[i] = y, i # 1
          PROVE  In(queue', y)
      <4>1. i - 1 \in 1 .. Len(queue') /\ queue'[i - 1] = queue[(i - 1) + 1]
        BY <2>1, <3>1
      <4>2. queue'[i - 1] = y
        BY <3>1, <4>1
      <4> QED
        BY <4>1, <4>2 DEF In
    <3>2. ASSUME NEW y, In(queue', y)
          PROVE  In(queue, y)
      <4>1. PICK i \in 1 .. Len(queue') : queue'[i] = y
        BY <3>2 DEF In
      <4>2. i + 1 \in 1 .. Len(queue) /\ queue[i + 1] = y
        BY <2>1, <4>1
      <4> QED
        BY <4>2 DEF In
    <3>3. In(queue, x)
      BY <2>1 DEF In
    <3> QED
      BY <3>1, <3>2, <3>3 DEF In
  <2>5. \A i, j \in 1 .. Len(queue) : queue[i] = queue[j] => i = j
    BY DEF Apart
  <2>b. Len(queue) \in Nat
    OBVIOUS
  <2>c. \A i \in 1 .. Len(queue') : i + 1 \in 1 .. Len(queue) /\ i + 1 # 1
    BY <2>1, <2>b
  <2>6. ~In(queue', x)
    <3>1. 1 \in 1 .. Len(queue)
      BY <2>1, <2>b
    <3> QED
      BY <2>1, <2>5, <2>c, <3>1 DEF In
  <2>7. /\ \A i \in 1 .. Len(queue') : queue'[i] \in used' \ lost'
        /\ \A i, j \in 1 .. Len(queue') : queue'[i] = queue'[j] => i = j
        /\ x \in used' \ lost'
    <3>1. \A i \in 1 .. Len(queue) : queue[i] \in used \ lost
      BY DEF Apart
    <3>2. x \in used' \ lost'
      BY <2>1, <2>2, <2>b, <3>1
    <3>3. ASSUME NEW i \in 1 .. Len(queue'), NEW j \in 1 .. Len(queue'),
                 queue'[i] = queue'[j]
          PROVE  i = j
      <4>1. queue[i + 1] = queue[j + 1]
        BY <2>1, <3>3
      <4>2. i + 1 = j + 1
        BY <2>5, <2>c, <4>1
      <4> QED
        BY <2>1, <2>b, <4>2
    <3> QED
      BY <2>1, <2>2, <2>c, <3>1, <3>2, <3>3
  <2>8. /\ \A s \in Sender : hand[s] # x
        /\ \A u \in Task : cur[u] # x
    BY <2>1 DEF Apart, In
  <2> HIDE DEF x
  <2>9. Apart'
    BY <2>1, <2>2, <2>3, <2>4, <2>6, <2>7, <2>8 DEF Apart
  <2>10. Placed'
    <3>1. cur'[t] = x /\ x # NoSlot
      BY <2>1, <2>2 DEF Slot
    <3>2. ASSUME NEW u \in Task, cur[u] # NoSlot
          PROVE  cur'[u] = cur[u]
      BY <2>2, <2>3, <3>2
    <3>3. ASSUME NEW y \in used
          PROVE  y \in lost \/ In(queue', y) \/ (\E s \in Sender : hand[s] = y)
                   \/ \E u \in Task : cur'[u] = y
      <4>1. y # NoSlot
        BY DEF Slot
      <4> QED
        BY <2>4, <3>1, <3>2, <4>1 DEF Placed
    <3> QED
      BY <2>2, <3>3 DEF Placed
  <2> QED
    BY <2>9, <2>10
<1>10. ASSUME NEW t \in Task, Deliver(t)
       PROVE  Apart' /\ Placed'
  <2>1. cur[t] \in Slot
    BY <1>10 DEF Deliver, Control
  <2>2. /\ UNCHANGED <<queue, hand, lost>>
        /\ used' = used \ {cur[t]}
        /\ cur' = [cur EXCEPT ![t] = NoSlot]
    BY <1>10 DEF Deliver, senders
  <2>3. Apart'
    BY <2>1, <2>2 DEF Apart, In, Slot
  <2>4. Placed'
    BY <2>1, <2>2 DEF Placed, In
  <2> QED
    BY <2>3, <2>4
<1>11. CASE UNCHANGED vars
  BY <1>11, PlacesUnchanged DEF vars
<1> QED
  BY <1>1, <1>2, <1>3, <1>4, <1>5, <1>6, <1>7, <1>8, <1>9, <1>10, <1>11
     DEF Next, Send, Run

LEMMA CountsStep ==
  ASSUME PathInv, [Next]_vars
  PROVE  Counts'
<1> USE SendPathAssumption DEF PathInv, TypeOK, NoSlot, NoTask
<1>1. ASSUME NEW s \in Sender, CheckSelected(s) \/ AllocateFails(s)
      PROVE  Counts'
  BY <1>1 DEF CheckSelected, AllocateFails, pool, tasks, workers, Counts, Owed
<1>2. ASSUME NEW s \in Sender, Allocate(s) \/ PostFails(s)
      PROVE  Counts'
  BY <1>2 DEF Allocate, PostFails, tasks, workers, Counts, Owed
<1>3. ASSUME NEW s \in Sender, Post(s)
      PROVE  Counts'
  <2>1. hand[s] \in Slot /\ task \in Task
    BY <1>3 DEF Post, Control, Task
  <2>2. Len(queue') = Len(queue) + 1 /\ Len(queue) \in Nat
    BY <1>3, <2>1, PutQueue DEF Post
  <2>3. sem'[task] = sem[task] + 1 /\ UNCHANGED <<task, left, to_stop, worker>>
    BY <1>3, <2>1 DEF Post, tasks, workers
  <2>4. sem[task] \in Nat /\ Owed(task) \in Nat /\ left \in Nat /\ Owed(task)' = Owed(task)
    BY <2>1, <2>3 DEF Owed
  <2>5. CASE to_stop[task]
    <3>1. sem[task] <= Len(queue) + 1
      BY <2>1, <2>5 DEF Counts, Task
    <3>2. sem'[task] <= Len(queue') + 1
      BY <2>2, <2>3, <2>4, <3>1
    <3> QED
      BY <2>3, <2>5, <3>2 DEF Counts
  <2>6. CASE ~to_stop[task]
    <3>1. Len(queue) = sem[task] + Owed(task) + left
      BY <2>1, <2>6 DEF Counts, Task
    <3>2. Len(queue') = sem'[task] + Owed(task)' + left'
      BY <2>2, <2>3, <2>4, <3>1
    <3> QED
      BY <2>3, <2>6, <3>2 DEF Counts
  <2> QED
    BY <2>5, <2>6
<1>4. CASE Start
  <2>1. task' \in Task /\ task' = starts + 1 /\ ~to_stop'[task'] /\ worker'[task'] = "test"
    BY <1>4 DEF Start, Task
  <2>2. sem'[task'] = 0
    BY <1>4, <2>1 DEF Start, Control, Task
  <2>3. left' = Len(queue) /\ Len(queue') = Len(queue) /\ Len(queue) \in Nat
    BY <1>4 DEF Start
  <2> QED
    BY <2>1, <2>2, <2>3 DEF Counts, Owed
<1>5. CASE Stop
  <2>1. task \in Task /\ ~to_stop[task] /\ task # NoTask
    BY <1>5 DEF Stop, Task
  <2>2. /\ sem'[task] = sem[task] + 1 /\ to_stop'[task]
        /\ UNCHANGED <<task, queue, worker, left>>
    BY <1>5, <2>1 DEF Stop
  <2>3. Len(queue) = sem[task] + Owed(task) + left
    BY <2>1 DEF Counts
  <2>4. sem[task] \in Nat /\ Owed(task) \in Nat /\ left \in Nat /\ Len(queue) \in Nat
    BY <2>1 DEF Owed
  <2>5. sem[task] + 1 <= Len(queue) + 1
    BY <2>3, <2>4
  <2> QED
    BY <2>1, <2>2, <2>5 DEF Counts
<1>6. CASE Terminate
  BY <1>6 DEF Terminate, Counts
<1>7. ASSUME NEW t \in Task, TestStop(t)
      PROVE  Counts'
  BY <1>7 DEF TestStop, pool, tasks, senders, Counts, Owed
<1>8. ASSUME NEW t \in Task, SkipStopped(t)
      PROVE  Counts'
  BY <1>8 DEF SkipStopped, pool, tasks, senders, Counts, Owed
<1>9. ASSUME NEW t \in Task, Wait(t)
      PROVE  Counts'
  <2>1. /\ UNCHANGED <<task, queue, to_stop, left>>
        /\ sem' = [sem EXCEPT ![t] = @ - 1]
        /\ worker' = [worker EXCEPT ![t] = "lock"]
        /\ worker[t] = "wait"
        /\ sem[t] \in Nat /\ sem[t] > 0
    BY <1>9 DEF Wait, pool, tasks
  <2>2. CASE t = task
    <3>1. sem'[task] = sem[task] - 1 /\ Owed(task) = 0 /\ Owed(task)' = 1
      BY <2>1, <2>2 DEF Owed
    <3> QED
      BY <2>1, <2>2, <3>1 DEF Counts
  <2>3. CASE t # task
    <3>1. task # NoTask =>
            task \in Task /\ sem'[task] = sem[task] /\ Owed(task)' = Owed(task)
      BY <2>1, <2>3 DEF Owed, Task
    <3> QED
      BY <2>1, <3>1 DEF Counts
  <2> QED
    BY <2>2, <2>3
<1>10. ASSUME NEW t \in Task, TakeOldest(t)
       PROVE  Counts'
  <2>1. Len(queue') = Len(queue) - 1 /\ Len(queue) \in Nat
    BY <1>10, TakeQueue DEF TakeOldest
  <2>2. /\ t = task /\ t # NoTask /\ ~to_stop[task]
        /\ UNCHANGED <<task, to_stop, left, sem>>
    BY <1>10 DEF TakeOldest, Control, tasks, Task
  <2>3. Owed(task) = 1 /\ Owed(task)' = 0
    BY <1>10, <2>2 DEF TakeOldest, Owed
  <2>4. Len(queue) = sem[task] + 1 + left /\ sem[task] \in Nat /\ left \in Nat
    BY <2>2, <2>3 DEF Counts
  <2> QED
    BY <2>1, <2>2, <2>3, <2>4 DEF Counts
<1>11. ASSUME NEW t \in Task, Deliver(t)
       PROVE  Counts'
  BY <1>11 DEF Deliver, tasks, senders, Counts, Owed
<1>12. CASE UNCHANGED vars
  BY <1>12 DEF vars, Counts, Owed
<1> QED
  BY <1>1, <1>2, <1>3, <1>4, <1>5, <1>6, <1>7, <1>8, <1>9, <1>10, <1>11, <1>12
     DEF Next, Send, Run

LEMMA LostOnceStep ==
  ASSUME PathInv, [Next]_vars
  PROVE  LostOnce'
<1> USE DEF PathInv
<1>1. ASSUME NEW s \in Sender, PostFails(s)
      PROVE  LostOnce'
  <2>1. hand[s] \in Slot /\ Len(queue) >= QueueCapacity
    BY <1>1 DEF PostFails, Control
  <2>2. lost = {}
    BY <2>1, FullRingHoldsRest
  <2>3. lost' = {hand[s]}
    BY <1>1, <2>2 DEF PostFails
  <2> QED
    <3>1. Cardinality(lost') = 1
      BY <2>3, FS_Singleton
    <3> QED
      BY <3>1 DEF LostOnce
<1>2. CASE UNCHANGED lost
  BY <1>2 DEF LostOnce
<1> QED
  BY <1>1, <1>2
     DEF Next, Send, Run, vars, pool, senders, tasks, workers, CheckSelected,
         Allocate, AllocateFails, Post, Start, Stop, Terminate, TestStop, Wait,
         SkipStopped, TakeOldest, Deliver

(***************************************************************************)
(* The theorems.                                                           *)
(***************************************************************************)

\* All parts of the invariant hold together in every reachable state.
THEOREM PathSafe == Spec => []PathInv
<1>1. Init => PathInv
  BY InitPathInv
<1>2. PathInv /\ [Next]_vars => PathInv'
  <2> SUFFICES ASSUME PathInv, [Next]_vars PROVE PathInv'
    OBVIOUS
  <2>1. TypeOK'
    BY TypeStep
  <2> QED
    BY <2>1, ControlStep, PlacesStep, CountsStep, LostOnceStep DEF PathInv
<1> QED
  BY <1>1, <1>2, PTL DEF Spec

\* Every variable has its type; no semaphore of the sender tasks ever reaches
\* the limit where FreeRTOS and Windows would drop a post.
THEOREM PathTypeSafe == Spec => []TypeOK
<1>1. PathInv => TypeOK
  BY DEF PathInv
<1> QED
  BY <1>1, PathSafe, PTL

\* Whatever the capacity, a full ring costs the pool one message and no more.
THEOREM PathLosesOne == Spec => []LostOnce
<1>1. PathInv => LostOnce
  BY DEF PathInv
<1> QED
  BY <1>1, PathSafe, PTL

\* The worker of a running task is woken once for every message that was queued
\* since the adapter was started, and not for those before.
THEOREM PathCounts == Spec => []SemaphoreCounts
<1>1. PathInv => SemaphoreCounts
  BY DEF PathInv, Counts, SemaphoreCounts
<1> QED
  BY <1>1, PathSafe, PTL

\* When the adapter is terminated every message but the lost one has been given
\* back to the pool.
THEOREM PathGivesBack == Spec => []AllGivenBack
<1>1. PathInv => AllGivenBack
  <2> SUFFICES ASSUME PathInv, task = NoTask PROVE used = lost
    BY DEF AllGivenBack
  <2>1. Len(queue) = 0
    BY DEF PathInv, Control
  <2>2. \A s \in Sender : hand[s] \notin used
    BY DEF PathInv, Control, TypeOK
  <2>3. \A t \in Task : cur[t] \notin used
    BY DEF PathInv, Control, TypeOK
  <2>4. \A x : ~In(queue, x)
    BY <2>1 DEF In
  <2> QED
    <3>1. used \subseteq lost
      BY <2>2, <2>3, <2>4 DEF PathInv, Placed
    <3> QED
      BY <3>1 DEF PathInv, Apart
<1> QED
  BY <1>1, PathSafe, PTL

(***************************************************************************)
(* The pool as a sum: what one to one maps count, and sets that are apart. *)
(***************************************************************************)
LEMMA SizeOfImage ==
  ASSUME NEW S, NEW R, IsFiniteSet(R), NEW f, \A x \in S : f[x] \in R,
         \A y \in R : \E x \in S : f[x] = y,
         \A x, y \in S : f[x] = f[y] => x = y
  PROVE  /\ IsFiniteSet(S)
         /\ Cardinality(R) = Cardinality(S)
<1> DEFINE g == [x \in S |-> f[x]]
<1>1. g \in Injection(S, R) /\ g \in Surjection(S, R)
  BY DEF Injection, Surjection, IsInjective
<1> HIDE DEF g
<1> QED
  BY <1>1, FS_Injection

LEMMA SizeOfUnion ==
  ASSUME NEW A, NEW B, IsFiniteSet(A), IsFiniteSet(B), A \cap B = {}
  PROVE  /\ IsFiniteSet(A \cup B)
         /\ Cardinality(A \cup B) = Cardinality(A) + Cardinality(B)
<1>1. /\ IsFiniteSet(A \cup B)
      /\ Cardinality(A \cup B) = Cardinality(A) + Cardinality(B) - Cardinality({})
  BY FS_Union
<1>2. Cardinality(A) \in Nat /\ Cardinality(B) \in Nat /\ Cardinality({}) = 0
  BY FS_CardinalityType, FS_EmptySet
<1> QED
  BY <1>1, <1>2

LEMMA PlacesCount ==
  ASSUME TypeOK, Apart, Placed
  PROVE  SlotsConserved
<1> DEFINE H == {hand[s] : s \in Holders}
           Q == {queue[i] : i \in 1 .. Len(queue)}
           C == {cur[t] : t \in Busy}
<1>1. IsFiniteSet(Slot)
  BY SendPathAssumption, FS_Interval DEF Slot
<1>2. /\ \A s \in Holders : hand[s] \in Slot
      /\ \A t \in Busy : cur[t] \in Slot
      /\ \A i \in 1 .. Len(queue) : queue[i] \in Slot
      /\ Len(queue) \in Nat
      /\ lost \subseteq Slot /\ used \subseteq Slot
  BY DEF TypeOK, Holders, Busy
<1>3. Q = ToSet(queue)
  BY DEF TypeOK, ToSet
<1>4. /\ IsFiniteSet(H) /\ Cardinality(H) = Cardinality(Holders)
      /\ Cardinality(Holders) \in Nat
  <2>1. \A r, s \in Holders : hand[r] = hand[s] => r = s
    BY <1>2 DEF Apart, Holders
  <2>2. IsFiniteSet(H)
    BY <1>1, <1>2, FS_Subset
  <2>3. (\A s \in Holders : hand[s] \in H) /\ \A x \in H : \E s \in Holders : hand[s] = x
    OBVIOUS
  <2> HIDE DEF H
  <2> QED
    BY <2>1, <2>2, <2>3, SizeOfImage, FS_CardinalityType
<1>5. /\ IsFiniteSet(C) /\ Cardinality(C) = Cardinality(Busy)
      /\ Cardinality(Busy) \in Nat
  <2>1. \A t, u \in Busy : cur[t] = cur[u] => t = u
    BY <1>2 DEF Apart, Busy
  <2>2. IsFiniteSet(C)
    BY <1>1, <1>2, FS_Subset
  <2>3. (\A t \in Busy : cur[t] \in C) /\ \A x \in C : \E t \in Busy : cur[t] = x
    OBVIOUS
  <2> HIDE DEF C
  <2> QED
    BY <2>1, <2>2, <2>3, SizeOfImage, FS_CardinalityType
<1>6. IsFiniteSet(Q) /\ Cardinality(Q) = Len(queue)
  <2> DEFINE I == 1 .. Len(queue)
  <2>1. \A i, j \in I : queue[i] = queue[j] => i = j
    BY DEF Apart
  <2>2. IsFiniteSet(Q)
    BY <1>1, <1>2, FS_Subset
  <2>3. (\A i \in I : queue[i] \in Q) /\ \A x \in Q : \E i \in I : queue[i] = x
    OBVIOUS
  <2>4. Cardinality(I) = Len(queue)
    <3>1. \A n \in Nat : Cardinality(1 .. n) = n
      BY FS_Interval
    <3> QED
      BY <1>2, <3>1
  <2> HIDE DEF Q, I
  <2> QED
    BY <2>1, <2>2, <2>3, <2>4, SizeOfImage
<1>7. IsFiniteSet(lost) /\ Cardinality(lost) \in Nat
  BY <1>1, <1>2, FS_Subset, FS_CardinalityType
<1>8. /\ H \cap Q = {} /\ (H \cup Q) \cap C = {} /\ (H \cup Q \cup C) \cap lost = {}
  BY <1>2 DEF Apart, In, Holders, Busy
<1>9. used = H \cup Q \cup C \cup lost
  <2>1. H \cup Q \cup C \cup lost \subseteq used
    BY <1>2 DEF Apart, Holders, Busy
  <2>2. ASSUME NEW x \in used PROVE x \in H \cup Q \cup C \cup lost
    <3>1. x \in Slot /\ x # NoSlot
      BY <1>2, SendPathAssumption DEF Slot, NoSlot
    <3> QED
      BY <3>1 DEF Placed, In, Holders, Busy
  <2> QED
    BY <2>1, <2>2
<1> HIDE DEF H, Q, C
<1>10. IsFiniteSet(H \cup Q) /\ Cardinality(H \cup Q) = Cardinality(H) + Cardinality(Q)
  BY <1>4, <1>6, <1>8, SizeOfUnion
<1>11. /\ IsFiniteSet(H \cup Q \cup C)
       /\ Cardinality(H \cup Q \cup C) = Cardinality(H \cup Q) + Cardinality(C)
  BY <1>5, <1>8, <1>10, SizeOfUnion
<1>12. Cardinality(H \cup Q \cup C \cup lost) = Cardinality(H \cup Q \cup C) + Cardinality(lost)
  BY <1>7, <1>8, <1>11, SizeOfUnion
<1>13. Cardinality(used) = Cardinality(Holders) + Len(queue) + Cardinality(Busy) + Cardinality(lost)
  BY <1>4, <1>5, <1>6, <1>9, <1>10, <1>11, <1>12
<1> QED
  BY <1>3, <1>9, <1>13 DEF SlotsConserved, H, C

(***************************************************************************)
(* Every entry of the pool that is not free is at one place: with a sender *)
(* that has allocated it, in the ring, with a worker, or lost.  It is not  *)
(* given back while it is queued, and not sent twice, also when a stopped  *)
(* task and its successor share the ring.                                  *)
(***************************************************************************)
THEOREM PathConservesSlots == Spec => []SlotsConserved
<1>1. PathInv => SlotsConserved
  BY PlacesCount DEF PathInv
<1> QED
  BY <1>1, PathSafe, PTL
===============================================================================
