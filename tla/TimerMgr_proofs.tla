---------------------------- MODULE TimerMgr_proofs ---------------------------
(***************************************************************************)
(* What the timer manager promises for any timers, threads, durations and  *)
(* waits: the list and stop whatever the clock does, firing in time unless *)
(* two tasks update the clock at once.                                     *)
(***************************************************************************)
EXTENDS TimerMgr, SequenceTheorems, TLAPS

(***************************************************************************)
(* The inductive invariant, in four parts.                                 *)
(***************************************************************************)

Busy(p) == call[p].op \in {"start", "restart"} /\ stage[p] # "idle"

\* Who has the mutex: a user in the middle of start or restart, or the timer
\* task during a callback.
Control ==
  /\ \A p \in Task : Busy(p) => mutex = p
  /\ \A p \in User : mutex = p => Busy(p)
  /\ mutex = TimerTask <=> loop = "callback"
  /\ firing # NoTimer <=> loop = "callback"
  /\ call[TimerTask] # NoCall => loop = "callback"
  /\ \A p \in Task : call[p].op = "start" => stage[p] # "idle"
  /\ \A p \in Task : call[p].op \in {"start", "restart"} => call[p].timer \in Timer
  /\ \A p \in Task : stage[p] \in {"init", "init_prev"} => call[p] = NoCall
  /\ \A p \in Task : call[p].op = "none" => call[p] = NoCall
  /\ loop = "callback" /\ call[TimerTask] = NoCall => stage[TimerTask] = "idle"

Distinct(s) == \A i, j \in DOMAIN s : s[i] = s[j] => i = j

\* The list may be out of order only while a periodic timer calls back.
InOrder == loop # "callback" \/ firing \in OneShot => Ordered(list, trigger)

\* A start that is under way is of a timer that is not in the list.
Starting ==
  \A p \in Task : call[p].op = "start" => call[p].timer \notin Registered \cup quiet

TimerInv ==
  TypeOK /\ Control /\ Distinct(list) /\ InOrder /\ Starting /\ StopIsFinal

(***************************************************************************)
(* Lists.                                                                  *)
(***************************************************************************)

Elements(s) == {s[i] : i \in DOMAIN s}

\* std::sort loses no timer, invents none and repeats none.
LEMMA SortedList ==
  ASSUME NEW s \in Seq(Timer), NEW key, NEW r \in Sorted(s, key)
  PROVE  /\ r \in Seq(Timer)
         /\ Elements(r) \subseteq Elements(s)
         /\ Ordered(r, key)
         /\ Distinct(s) => Distinct(r)
<1>1. DOMAIN s = 1 .. Len(s) /\ Len(s) \in Nat
  OBVIOUS
<1>2. Elements(s) \subseteq Timer
  BY DEF Elements
<1>3. r \in [DOMAIN s -> Elements(s)]
  BY DEF Sorted, Elements
<1>4. DOMAIN r = DOMAIN s /\ \A i \in DOMAIN s : r[i] \in Elements(s)
  <2> HIDE DEF Sorted
  <2> QED
    BY <1>3
<1>5. r \in Seq(Timer)
  BY <1>1, <1>2, <1>3
<1>6. Ordered(r, key)
  BY DEF Sorted
<1>7. Distinct(s) => Distinct(r)
  <2>1. PICK f \in [DOMAIN s -> DOMAIN s] :
          /\ \A i, j \in DOMAIN s : f[i] = f[j] => i = j
          /\ \A i \in DOMAIN s : r[i] = s[f[i]]
    BY DEF Sorted
  <2>2. \A i \in DOMAIN s : f[i] \in DOMAIN s
    BY <2>1
  <2> QED
    BY <1>4, <2>1, <2>2 DEF Distinct
<1>8. Elements(r) \subseteq Elements(s)
  BY <1>4 DEF Elements
<1> QED
  BY <1>5, <1>6, <1>7, <1>8

LEMMA AppendList ==
  ASSUME NEW s \in Seq(Timer), NEW t \in Timer, t \notin Elements(s)
  PROVE  /\ Append(s, t) \in Seq(Timer)
         /\ Elements(Append(s, t)) = Elements(s) \cup {t}
         /\ Distinct(s) => Distinct(Append(s, t))
<1> DEFINE a == Append(s, t)
<1>1. a \in Seq(Timer) /\ DOMAIN a = 1 .. Len(s) + 1 /\ DOMAIN s = 1 .. Len(s) /\ Len(s) \in Nat
  OBVIOUS
<1>2. a[Len(s) + 1] = t /\ \A i \in DOMAIN s : a[i] = s[i]
  OBVIOUS
<1> HIDE DEF a
<1>3. Elements(a) = Elements(s) \cup {t}
  BY <1>1, <1>2 DEF Elements
<1>4. Distinct(s) => Distinct(a)
  BY <1>1, <1>2 DEF Distinct, Elements
<1> QED
  BY <1>1, <1>3, <1>4 DEF a

LEMMA TailList ==
  ASSUME NEW s \in Seq(Timer), s # <<>>, Distinct(s)
  PROVE  /\ Head(s) \in Elements(s) /\ Head(s) \in Timer
         /\ Tail(s) \in Seq(Timer)
         /\ Elements(Tail(s)) \subseteq Elements(s) \ {Head(s)}
         /\ Distinct(Tail(s))
         /\ \A key : Ordered(s, key) => Ordered(Tail(s), key)
<1>1. /\ Len(s) \in Nat /\ Len(s) > 0 /\ DOMAIN s = 1 .. Len(s) /\ Head(s) = s[1]
      /\ Tail(s) \in Seq(Timer) /\ Len(Tail(s)) = Len(s) - 1
      /\ DOMAIN Tail(s) = 1 .. Len(s) - 1
      /\ \A i \in DOMAIN Tail(s) : Tail(s)[i] = s[i + 1]
  BY EmptySeq, HeadTailProperties
<1> DEFINE q == Tail(s)
<1>2. \A i \in DOMAIN q : i + 1 \in DOMAIN s /\ i + 1 # 1 /\ q[i] = s[i + 1]
  BY <1>1
<1>3. Head(s) \in Elements(s) /\ Head(s) \in Timer
  BY <1>1 DEF Elements
<1>4. Elements(q) \subseteq Elements(s) \ {Head(s)}
  BY <1>1, <1>2 DEF Elements, Distinct
<1>5. Distinct(q)
  BY <1>1, <1>2 DEF Distinct
<1>6. \A key : Ordered(s, key) => Ordered(q, key)
  BY <1>1, <1>2 DEF Ordered
<1> QED
  BY <1>1, <1>3, <1>4, <1>5, <1>6

LEMMA WithoutList ==
  ASSUME NEW s \in Seq(Timer), Distinct(s), NEW t \in Elements(s)
  PROVE  /\ Without(s, t) \in Seq(Timer)
         /\ Elements(Without(s, t)) \subseteq Elements(s) \ {t}
         /\ Distinct(Without(s, t))
         /\ \A key : Ordered(s, key) => Ordered(Without(s, t), key)
<1> DEFINE Is(i) == s[i] = t /\ \A j \in 1 .. (i - 1) : s[j] # t
           first == CHOOSE i \in DOMAIN s : Is(i)
           w == Without(s, t)
<1>1. DOMAIN s = 1 .. Len(s) /\ Len(s) \in Nat
  OBVIOUS
<1>2. \E i \in DOMAIN s : Is(i)
  <2>1. PICK i \in DOMAIN s : s[i] = t
    BY DEF Elements
  <2>2. \A j \in 1 .. (i - 1) : j \in DOMAIN s /\ j # i
    BY <1>1, <2>1
  <2> QED
    BY <2>1, <2>2 DEF Distinct
<1>3. first \in DOMAIN s /\ s[first] = t
  BY <1>2
<1>4. w = [i \in 1 .. (Len(s) - 1) |-> IF i < first THEN s[i] ELSE s[i + 1]]
  BY DEF Without
<1> DEFINE g(i) == IF i < first THEN i ELSE i + 1
<1> HIDE DEF first, w
<1>5. \A i \in 1 .. (Len(s) - 1) : g(i) \in DOMAIN s /\ g(i) # first
  BY <1>1, <1>3
<1>6. \A i, j \in 1 .. (Len(s) - 1) : (i < j => g(i) < g(j)) /\ (g(i) = g(j) => i = j)
  BY <1>1, <1>3
<1>7. DOMAIN w = 1 .. (Len(s) - 1) /\ \A i \in DOMAIN w : w[i] = s[g(i)]
  BY <1>4
<1>8. Len(s) - 1 \in Nat
  BY <1>1, <1>3
<1> HIDE DEF g
<1>9. w \in [1 .. (Len(s) - 1) -> Timer]
  <2>1. \A i \in DOMAIN w : w[i] \in Timer
    BY <1>5, <1>7
  <2> QED
    BY <1>4, <1>7, <2>1
<1>10. w \in Seq(Timer)
  BY <1>8, <1>9
<1>11. Elements(w) \subseteq Elements(s) \ {t}
  BY <1>3, <1>5, <1>7 DEF Elements, Distinct
<1>12. Distinct(w)
  BY <1>5, <1>6, <1>7 DEF Distinct
<1>13. \A key : Ordered(s, key) => Ordered(w, key)
  BY <1>5, <1>6, <1>7 DEF Ordered
<1> QED
  BY <1>10, <1>11, <1>12, <1>13 DEF w

\* The order of a list does not depend on timers that are not in it.
LEMMA OtherTime ==
  ASSUME NEW s, NEW t, t \notin Elements(s), NEW key, NEW v, Ordered(s, key)
  PROVE  Ordered(s, [key EXCEPT ![t] = v])
BY DEF Ordered, Elements
(***************************************************************************)
(* The step of each part, one action at a time.                            *)
(***************************************************************************)
CallSet == [op : {"none", "read", "start", "restart"}, timer : Timer \cup {NoTimer}]

LEMMA CallType ==
  /\ NoCall \in CallSet
  /\ \A o \in {"none", "read", "start", "restart"}, t \in Timer \cup {NoTimer} : Call(o, t) \in CallSet
BY DEF CallSet, NoCall, Call

\* What TypeOK says of the numbers and of the functions, by itself.
LEMMA Times ==
  ASSUME TypeOK
  PROVE  /\ real \in Nat /\ now \in Nat /\ prev \in Nat /\ deadline \in Nat
         /\ \A t \in Timer : now + duration[t] \in Nat /\ real + duration[t] \in Nat
         /\ \A p \in Task : cur[p] \in 0 .. (ClockRange - 1) /\ cur[p] \in Nat /\ sum[p] \in Nat
<1>1. \A x \in 0 .. (ClockRange - 1) : x \in Nat
  BY TimerAssumption
<1>2. /\ real \in Nat /\ now \in Nat /\ prev \in 0 .. (ClockRange - 1) /\ deadline \in Nat
      /\ \A t \in Timer : duration[t] \in Nat
      /\ \A p \in Task : cur[p] \in 0 .. (ClockRange - 1) /\ sum[p] \in Nat
  BY DEF TypeOK
<1>3. \A t \in Timer : now + duration[t] \in Nat /\ real + duration[t] \in Nat
  BY <1>2
<1> QED
  BY <1>1, <1>2, <1>3

LEMMA Calls ==
  ASSUME TypeOK
  PROVE  call \in [Task -> CallSet] /\ \A p \in Task : call[p].timer \in Timer \cup {NoTimer}
BY DEF TypeOK, CallSet

LEMMA InitTimerInv ==
  Init => TimerInv
<1> SUFFICES ASSUME Init PROVE TimerInv
  OBVIOUS
<1> USE TimerAssumption DEF Init
<1>1. TypeOK
  <2>1. duration \in [Timer -> Nat]
    OBVIOUS
  <2>2. call \in [Task -> CallSet]
    BY CallType
  <2>3. stage \in [Task -> Stages]
    BY DEF Stages
  <2>4. 0 \in 0 .. (ClockRange - 1) /\ 0 \in 0 .. SemMax
    OBVIOUS
  <2>5. /\ cur \in [Task -> 0 .. (ClockRange - 1)] /\ sum \in [Task -> Nat]
        /\ trigger \in [Timer -> Nat] /\ due \in [Timer -> Nat]
    BY <2>4
  <2>6. real \in Nat /\ now \in Nat /\ deadline \in Nat /\ list \in Seq(Timer)
    OBVIOUS
  <2>7. prev \in 0 .. (ClockRange - 1) /\ sem \in 0 .. SemMax
    BY <2>4
  <2> QED
    BY <2>1, <2>2, <2>3, <2>5, <2>6, <2>7 DEF TypeOK, CallSet
<1>2. Control
  BY DEF Control, Busy, Task, NoCall
<1>3. Distinct(list) /\ InOrder /\ Starting /\ StopIsFinal
  BY DEF Distinct, InOrder, Ordered, Starting, StopIsFinal, Registered, NoCall
<1> QED
  BY <1>1, <1>2, <1>3 DEF TimerInv

LEMMA ClockStep ==
  ASSUME TimerInv, NEW p \in Task,
         update_now_time(p) \/ InitializeNow(p) \/ InitializePrev(p)
  PROVE  TimerInv'
<1> USE DEF update_now_time, Sample, Add, StoreNow, StorePrev, InitializeNow, InitializePrev,
        timers, taskLoop
<1>1. TypeOK'
  <2>1. /\ real % ClockRange \in 0 .. (ClockRange - 1) /\ now % ClockRange \in 0 .. (ClockRange - 1)
        /\ now + Elapsed(cur[p], prev) \in Nat
    BY Times, TimerAssumption DEF TimerInv, Elapsed
  <2>2. real % ClockRange \in Nat /\ 0 \in 0 .. (ClockRange - 1)
    BY <2>1, TimerAssumption
  <2> HIDE DEF Elapsed
  <2>3. CASE Sample(p)
    BY <2>1, <2>3 DEF TimerInv, TypeOK, Stages
  <2>4. CASE Add(p)
    BY <2>1, <2>4 DEF TimerInv, TypeOK, Stages
  <2>5. CASE StoreNow(p)
    BY <2>5, Times DEF TimerInv, TypeOK, Stages
  <2>6. CASE StorePrev(p)
    BY <2>2, <2>6, Times DEF TimerInv, TypeOK, Stages
  <2>7. CASE InitializeNow(p)
    BY <2>2, <2>7 DEF TimerInv, TypeOK, Stages
  <2>8. CASE InitializePrev(p)
    BY <2>1, <2>8 DEF TimerInv, TypeOK, Stages
  <2> QED
    BY <2>3, <2>4, <2>5, <2>6, <2>7, <2>8
<1>2. /\ UNCHANGED <<list, trigger, firing, loop, mutex, call, quiet>>
      /\ \A q \in Task : (stage'[q] = "idle") # (stage[q] = "idle") => stage[q] = "init_prev"
      /\ \A q \in Task : stage'[q] \in {"init", "init_prev"} => stage[q] \in {"init", "init_prev"}
      /\ stage[p] # "idle"
      /\ \A q \in Task \ {p} : stage'[q] = stage[q]
  BY DEF TimerInv, TypeOK
<1>3. Control'
  BY <1>2, TimerAssumption DEF TimerInv, Control, Busy, NoCall, Task
<1>4. Distinct(list)' /\ InOrder' /\ Starting' /\ StopIsFinal'
  BY <1>2 DEF TimerInv, Distinct, InOrder, Ordered, Starting, StopIsFinal, Registered
<1> QED
  BY <1>1, <1>3, <1>4 DEF TimerInv

LEMMA ReadTime ==
  ASSUME TimerInv, NEW p \in Task, get_system_time(p) \/ ReturnTime(p)
  PROVE  TimerInv'
<1> USE DEF get_system_time, ReturnTime, CanCall, timers, taskLoop
<1>1. TypeOK'
  <2>1. call' \in [Task -> CallSet]
    BY CallType, Calls DEF TimerInv
  <2>2. stage' \in [Task -> Stages]
    BY DEF TimerInv, TypeOK, Stages
  <2> QED
    BY <2>1, <2>2 DEF TimerInv, TypeOK, CallSet
<1> USE DEF Call, NoCall
<1>2. /\ UNCHANGED <<list, trigger, firing, loop, mutex, quiet>>
      /\ call[p].op \in {"none", "read"} /\ call'[p].op \in {"none", "read"}
      /\ call'[p].op = "none" => call'[p] = NoCall
      /\ p = TimerTask => loop = "callback" /\ (call'[p] = NoCall => stage'[p] = "idle")
      /\ stage'[p] \in {"idle", "sample"}
      /\ \A q \in Task \ {p} : stage'[q] = stage[q] /\ call'[q] = call[q]
  BY DEF TimerInv, TypeOK, Control
<1>3. Control'
  BY <1>2, TimerAssumption DEF TimerInv, Control, Busy, Task
<1>4. Distinct(list)' /\ InOrder' /\ Starting' /\ StopIsFinal'
  BY <1>2 DEF TimerInv, Distinct, InOrder, Ordered, Starting, StopIsFinal, Registered
<1> QED
  BY <1>1, <1>3, <1>4 DEF TimerInv

\* A call that may take the mutex finds nobody else in the middle of one.
LEMMA Alone ==
  ASSUME TimerInv, NEW p \in Task, CanLock(p), call[p] = NoCall \/ stage[p] = "idle"
  PROVE  /\ \A q \in Task : ~Busy(q) \/ q = p
         /\ p # TimerTask => mutex = Nobody /\ loop # "callback" /\ firing = NoTimer
         /\ \A q \in Task : call[q].op = "start" => q = p
BY TimerAssumption DEF TimerInv, Control, Busy, CanLock, NoCall, Task

LEMMA RegisterTimer ==
  ASSUME TimerInv, NEW p \in Task, NEW t \in Timer, register_timer(p, t)
  PROVE  TimerInv'
<1> USE DEF register_timer, CanCall, taskLoop, Call
<1>1. TypeOK'
  BY DEF TimerInv, TypeOK, Stages
<1>2. /\ UNCHANGED <<list, trigger, firing, loop>>
      /\ mutex' = p /\ quiet' = quiet \ {t} /\ t \notin Registered
      /\ call[p] = NoCall /\ call'[p].op = "start" /\ call'[p].timer = t
      /\ stage'[p] = "sample"
      /\ p = TimerTask => loop = "callback"
      /\ \A q \in Task \ {p} : stage'[q] = stage[q] /\ call'[q] = call[q]
  BY DEF TimerInv, TypeOK
<1>3. /\ \A q \in Task : ~Busy(q) \/ q = p
      /\ p # TimerTask => mutex = Nobody /\ loop # "callback" /\ firing = NoTimer
  BY Alone
<1>4. Control'
  BY <1>2, <1>3, TimerAssumption DEF TimerInv, Control, Busy, Task, NoCall
<1>5. Distinct(list)' /\ InOrder' /\ Starting' /\ StopIsFinal'
  BY <1>2 DEF TimerInv, Distinct, InOrder, Ordered, Starting, StopIsFinal, Registered
<1> QED
  BY <1>1, <1>4, <1>5 DEF TimerInv

LEMMA Restart ==
  ASSUME TimerInv, NEW p \in Task,
         reset_timer(p) \/ \E t \in Timer, d \in Duration : SetDuration(p, t, d)
  PROVE  TimerInv'
<1> USE DEF reset_timer, SetDuration, CanCall, clock, taskLoop, timers
<1>1. TypeOK'
  <2>1. call' \in [Task -> CallSet]
    BY CallType, Calls DEF TimerInv
  <2>2. stage' \in [Task -> Stages]
    BY DEF TimerInv, TypeOK, Stages
  <2>3. duration' \in [Timer -> Nat]
    <3>1. duration \in [Timer -> Nat]
      BY DEF TimerInv, TypeOK
    <3>2. \A d \in Duration : d \in Nat
      BY TimerAssumption
    <3>3. duration' = duration \/ \E t \in Timer, d \in Duration : duration' = [duration EXCEPT ![t] = d]
      OBVIOUS
    <3> QED
      BY <3>1, <3>2, <3>3
  <2>4. mutex' \in Task \cup {Nobody}
    BY DEF TimerInv, TypeOK
  <2>5. UNCHANGED <<real, now, prev, cur, sum, raced, list, trigger, due, quiet, loop, deadline, firing,
                    sem, ready>>
    OBVIOUS
  <2> QED
    BY <2>1, <2>2, <2>3, <2>4, <2>5 DEF TimerInv, TypeOK, CallSet
<1> USE DEF Call
<1>2. /\ UNCHANGED <<list, trigger, firing, loop, quiet>>
      /\ stage[p] = "idle"
      /\ call[p].op \in {"none", "restart"} /\ call'[p].op \in {"none", "restart"}
      /\ call'[p].op = "none" => call'[p] = NoCall
      /\ call'[p].op = "restart" => call'[p].timer \in Timer
      /\ stage'[p] \in {"idle", "sample"}
      /\ stage'[p] # "idle" => CanLock(p) /\ mutex' = p /\ call'[p].op = "restart"
      /\ stage'[p] = "idle" => mutex' = mutex
      /\ p = TimerTask => loop = "callback"
      /\ \A q \in Task \ {p} : stage'[q] = stage[q] /\ call'[q] = call[q]
  <2>1. CASE reset_timer(p)
    <3>1. call[p].op = "restart" /\ stage[p] = "idle" /\ call[p].timer \in Timer
      BY <2>1 DEF TimerInv, Control
    <3>2. p = TimerTask => loop = "callback"
      BY <3>1 DEF TimerInv, Control, NoCall
    <3>3. call \in [Task -> CallSet] /\ stage \in [Task -> Stages]
      BY Calls DEF TimerInv, TypeOK
    <3>4. CASE call[p].timer \in Registered
      BY <2>1, <3>1, <3>2, <3>3, <3>4
    <3>5. CASE call[p].timer \notin Registered
      BY <2>1, <3>1, <3>2, <3>3, <3>5 DEF NoCall
    <3> QED
      BY <3>4, <3>5
  <2>2. CASE \E t \in Timer, d \in Duration : SetDuration(p, t, d)
    BY <2>2, Calls DEF TimerInv, NoCall
  <2> QED
    BY <2>1, <2>2
<1>3. CanLock(p) =>
      /\ \A q \in Task : ~Busy(q) \/ q = p
      /\ p # TimerTask => mutex = Nobody /\ loop # "callback" /\ firing = NoTimer
  BY <1>2, Alone
<1>4. Control'
  BY <1>2, <1>3, TimerAssumption DEF TimerInv, Control, Busy, Task, NoCall
<1>5. Distinct(list)' /\ InOrder' /\ Starting' /\ StopIsFinal'
  BY <1>2 DEF TimerInv, Distinct, InOrder, Ordered, Starting, StopIsFinal, Registered
<1> QED
  BY <1>1, <1>4, <1>5 DEF TimerInv

LEMMA ArmTimer ==
  ASSUME TimerInv, NEW p \in Task, Arm(p)
  PROVE  TimerInv'
<1> DEFINE t == call[p].timer
           before == IF call[p].op = "start" THEN Append(list, t) ELSE list
<1> USE DEF Arm, taskLoop, Post, Release, InCallback
<1>1. t \in Timer /\ list \in Seq(Timer) /\ Busy(p) /\ mutex = p /\ list' \in Sorted(before, trigger')
  BY DEF TimerInv, TypeOK, Control, Busy
<1>2. /\ before \in Seq(Timer) /\ Distinct(before)
      /\ Elements(before) \subseteq Elements(list) \cup (IF call[p].op = "start" THEN {t} ELSE {})
  <2>1. call[p].op = "start" => t \notin Elements(list)
    BY DEF TimerInv, Starting, Registered, Elements
  <2> QED
    BY <1>1, <2>1, AppendList DEF TimerInv
<1> HIDE DEF before
<1>3. /\ list' \in Seq(Timer) /\ Elements(list') \subseteq Elements(before)
      /\ Ordered(list', trigger') /\ Distinct(list')
  BY <1>1, <1>2, SortedList
<1>4. TypeOK'
  <2>1. now + duration[t] \in Nat /\ real + duration[t] \in Nat
    BY <1>1, Times DEF TimerInv
  <2>2. sem' \in 0 .. SemMax
    <3>1. sem \in 0 .. SemMax /\ SemMax \in Nat
      BY TimerAssumption DEF TimerInv, TypeOK
    <3>2. sem' = IF sem < SemMax THEN sem + 1 ELSE sem
      OBVIOUS
    <3> QED
      BY <3>1, <3>2
  <2> QED
    BY <1>1, <1>3, <2>1, <2>2 DEF TimerInv, TypeOK, Stages, NoCall
<1>5. /\ UNCHANGED <<firing, loop, quiet>>
      /\ call'[p] = NoCall /\ stage'[p] = "idle"
      /\ mutex' = IF p = TimerTask THEN p ELSE Nobody
      /\ \A q \in Task \ {p} : stage'[q] = stage[q] /\ call'[q] = call[q]
  BY DEF TimerInv, TypeOK
<1>6. Control'
  BY <1>1, <1>5, TimerAssumption DEF TimerInv, Control, Busy, Task, NoCall
<1>7. \A q \in Task : call'[q].op # "start"
  BY <1>1, <1>5 DEF TimerInv, Control, Busy, NoCall
<1>8. Starting' /\ StopIsFinal'
  BY <1>2, <1>3, <1>5, <1>7 DEF TimerInv, Starting, StopIsFinal, Registered, Elements
<1> QED
  BY <1>3, <1>4, <1>6, <1>8 DEF TimerInv, InOrder

LEMMA UnregisterTimer ==
  ASSUME TimerInv, NEW p \in Task, NEW t \in Timer, unregister_timer(p, t)
  PROVE  TimerInv'
<1> USE DEF unregister_timer, CanCall, Forget, Post, clock, taskLoop, InCallback
<1>1. list \in Seq(Timer) /\ Distinct(list) /\ Registered = Elements(list)
  BY DEF TimerInv, TypeOK, Registered, Elements
<1>2. /\ list' \in Seq(Timer) /\ Distinct(list')
      /\ Elements(list') \subseteq Elements(list) \ {t}
      /\ Ordered(list, trigger) => Ordered(list', trigger')
  <2>1. CASE t \in Registered
    <3>1. /\ list' = Without(list, t) /\ trigger' = [trigger EXCEPT ![t] = 0]
          /\ t \in Elements(list)
      BY <1>1, <2>1
    <3>2. /\ list' \in Seq(Timer) /\ Distinct(list')
          /\ Elements(list') \subseteq Elements(list) \ {t}
          /\ Ordered(list, trigger) => Ordered(list', trigger)
      BY <1>1, <3>1, WithoutList
    <3>3. t \notin Elements(list')
      BY <3>2
    <3> QED
      BY <3>1, <3>2, <3>3, OtherTime
  <2>2. CASE t \notin Registered
    BY <1>1, <2>2
  <2> QED
    BY <2>1, <2>2
<1>3. TypeOK'
  <2>1. sem' \in 0 .. SemMax
    <3>1. sem \in 0 .. SemMax /\ SemMax \in Nat
      BY TimerAssumption DEF TimerInv, TypeOK
    <3>2. sem' = sem \/ sem' = IF sem < SemMax THEN sem + 1 ELSE sem
      OBVIOUS
    <3> QED
      BY <3>1, <3>2
  <2>2. trigger' \in [Timer -> Nat] /\ due' \in [Timer -> Nat]
    <3>1. trigger \in [Timer -> Nat] /\ due \in [Timer -> Nat]
      BY DEF TimerInv, TypeOK
    <3>2. \/ trigger' = [trigger EXCEPT ![t] = 0] /\ due' = [due EXCEPT ![t] = 0]
          \/ trigger' = trigger /\ due' = due
      OBVIOUS
    <3> QED
      BY <3>1, <3>2
  <2>3. quiet' \subseteq Timer /\ UNCHANGED <<real, clock, duration, taskLoop, mutex, call, ready>>
    BY DEF TimerInv, TypeOK
  <2> QED
    BY <1>2, <2>1, <2>2, <2>3 DEF TimerInv, TypeOK
<1>4. UNCHANGED <<firing, loop, stage, call, mutex>>
  OBVIOUS
<1>5. /\ p # TimerTask => firing = NoTimer
      /\ \A q \in Task : call[q].op = "start" => q = p
  BY Alone
<1>6. Control'
  BY <1>4 DEF TimerInv, Control, Busy, NoCall
<1>7. InOrder'
  BY <1>2, <1>4 DEF TimerInv, InOrder
<1>8. \A q \in Task : call[q].op # "start"
  BY <1>5 DEF NoCall
<1>9. StopIsFinal'
  BY <1>1, <1>2, <1>4, <1>5, TimerAssumption DEF TimerInv, StopIsFinal, Registered, Elements
<1> QED
  BY <1>2, <1>3, <1>4, <1>6, <1>7, <1>8, <1>9 DEF TimerInv, Starting

LEMMA Fire ==
  ASSUME TimerInv, trigger_timers
  PROVE  TimerInv'
<1> DEFINE t == Head(list)
<1> USE DEF trigger_timers, FirstDue, Forget, HoldMutex
<1>1. /\ list \in Seq(Timer) /\ list # <<>> /\ Distinct(list) /\ Registered = Elements(list)
      /\ Ordered(list, trigger)
  BY DEF TimerInv, TypeOK, InOrder, Registered, Elements
<1>2. /\ t \in Elements(list) /\ t \in Timer
      /\ Tail(list) \in Seq(Timer)
      /\ Elements(Tail(list)) \subseteq Elements(list) \ {t}
      /\ Distinct(Tail(list))
      /\ Ordered(Tail(list), trigger)
  BY <1>1, TailList
<1> HIDE DEF t
<1>3. /\ list' \in Seq(Timer) /\ Distinct(list') /\ Elements(list') \subseteq Elements(list)
      /\ t \in OneShot => Ordered(list', trigger')
  <2>1. CASE t \in OneShot
    <3>1. list' = Tail(list) /\ trigger' = [trigger EXCEPT ![t] = 0] /\ t \notin Elements(Tail(list))
      BY <1>2, <2>1 DEF t
    <3> QED
      BY <1>2, <3>1, OtherTime
  <2>2. CASE t \notin OneShot
    BY <1>1, <2>2 DEF t
  <2> QED
    BY <2>1, <2>2
<1>4. TypeOK'
  <2>1. now + duration[t] \in Nat /\ real + duration[t] \in Nat
    BY <1>2, Times DEF TimerInv
  <2>2. trigger' \in [Timer -> Nat] /\ due' \in [Timer -> Nat]
    <3>1. CASE t \in OneShot
      <4>1. trigger' = [trigger EXCEPT ![t] = 0] /\ due' = [due EXCEPT ![t] = 0]
        BY <3>1 DEF t
      <4> QED
        BY <1>2, <4>1 DEF TimerInv, TypeOK
    <3>2. CASE t \notin OneShot
      <4>1. /\ trigger' = [trigger EXCEPT ![t] = now + duration[t]]
            /\ due' = [due EXCEPT ![t] = real + duration[t]]
        BY <3>2 DEF t
      <4> QED
        BY <1>2, <2>1, <4>1 DEF TimerInv, TypeOK
    <3> QED
      BY <3>1, <3>2
  <2>3. firing' \in Timer
    BY <1>2 DEF t
  <2> QED
    BY <1>3, <2>2, <2>3, TimerAssumption DEF TimerInv, TypeOK, Stages, Task
<1>5. /\ firing' = t /\ loop' = "callback" /\ mutex' = TimerTask /\ mutex = Nobody
      /\ UNCHANGED <<call, quiet>>
      /\ stage'[TimerTask] = "idle"
      /\ \A q \in Task \ {TimerTask} : stage'[q] = stage[q]
      /\ call[TimerTask] = NoCall
  BY TimerAssumption DEF TimerInv, TypeOK, Control, Task, t
<1>6. Control'
  BY <1>2, <1>5, TimerAssumption DEF TimerInv, Control, Busy, Task, NoCall
<1>7. InOrder'
  BY <1>3, <1>5 DEF InOrder
<1>8. Starting' /\ StopIsFinal'
  BY <1>1, <1>2, <1>3, <1>5 DEF TimerInv, Starting, StopIsFinal, Registered, Elements
<1> QED
  BY <1>3, <1>4, <1>6, <1>7, <1>8 DEF TimerInv

LEMMA Return ==
  ASSUME TimerInv, CallbackReturns
  PROVE  TimerInv'
<1> USE DEF CallbackReturns
<1>1. list \in Seq(Timer) /\ Distinct(list)
  BY DEF TimerInv, TypeOK
<1>2. /\ list' \in Seq(Timer) /\ Distinct(list') /\ Elements(list') \subseteq Elements(list)
      /\ Ordered(list', trigger')
  <2>1. CASE firing \in OneShot
    BY <1>1, <2>1 DEF TimerInv, InOrder
  <2>2. CASE firing \notin OneShot
    BY <1>1, <2>2, SortedList
  <2> QED
    BY <2>1, <2>2
<1>3. TypeOK'
  BY <1>2, TimerAssumption DEF TimerInv, TypeOK, Stages, Task
<1>4. /\ firing' = NoTimer /\ loop' = "update" /\ mutex' = Nobody /\ mutex = TimerTask
      /\ UNCHANGED <<call, quiet>>
      /\ stage'[TimerTask] = "sample"
      /\ \A q \in Task \ {TimerTask} : stage'[q] = stage[q]
      /\ call[TimerTask] = NoCall
  BY TimerAssumption DEF TimerInv, TypeOK, Control, Task
<1>5. Control'
  BY <1>4, TimerAssumption DEF TimerInv, Control, Busy, Task, NoCall
<1>6. InOrder'
  BY <1>2 DEF InOrder
<1>7. Starting' /\ StopIsFinal'
  BY <1>2, <1>4, TimerAssumption DEF TimerInv, Starting, StopIsFinal, Registered, Elements, TypeOK
<1> QED
  BY <1>2, <1>3, <1>5, <1>6, <1>7 DEF TimerInv

LEMMA LoopStep ==
  ASSUME TimerInv, NothingDue \/ ReadSize \/ WaitEnds \/ Tick
  PROVE  TimerInv'
<1> USE DEF NothingDue, ReadSize, WaitEnds, Tick, clock, timers, taskLoop
<1>1. TypeOK'
  <2>1. stage' \in [Task -> Stages]
    BY DEF TimerInv, TypeOK, Stages
  <2>2. real' \in Nat /\ deadline' \in Nat
    BY Times, TimerAssumption DEF TimerInv
  <2>3. sem' \in 0 .. SemMax
    <3>1. sem \in 0 .. SemMax /\ SemMax \in Nat
      BY TimerAssumption DEF TimerInv, TypeOK
    <3>2. sem' = sem \/ (sem > 0 /\ sem' = sem - 1)
      OBVIOUS
    <3> QED
      BY <3>1, <3>2
  <2>4. loop' \in {"update", "callback", "size", "wait"}
    BY DEF TimerInv, TypeOK
  <2>5. UNCHANGED <<now, prev, cur, sum, raced, list, trigger, duration, due, quiet, firing, mutex, call, ready>>
    OBVIOUS
  <2> QED
    BY <2>1, <2>2, <2>3, <2>4, <2>5 DEF TimerInv, TypeOK
<1>2. /\ UNCHANGED <<list, trigger, firing, mutex, call, quiet>>
      /\ loop # "callback" /\ loop' # "callback" /\ call[TimerTask] = NoCall
      /\ stage'[TimerTask] \in {stage[TimerTask], "idle", "sample"}
      /\ \A q \in Task \ {TimerTask} : stage'[q] = stage[q]
  BY TimerAssumption DEF TimerInv, TypeOK, Control, Task
<1>3. Control'
  BY <1>2, TimerAssumption DEF TimerInv, Control, Busy, Task, NoCall
<1>4. Distinct(list)' /\ InOrder' /\ Starting' /\ StopIsFinal'
  BY <1>2 DEF TimerInv, Distinct, InOrder, Ordered, Starting, StopIsFinal, Registered
<1> QED
  BY <1>1, <1>3, <1>4 DEF TimerInv

LEMMA StepTimerInv ==
  TimerInv /\ [Next]_vars => TimerInv'
<1> SUFFICES ASSUME TimerInv, [Next]_vars PROVE TimerInv'
  OBVIOUS
<1>1. CASE UNCHANGED vars
  BY <1>1 DEF vars, clock, timers, taskLoop, TimerInv, TypeOK, Control, Busy, Distinct, InOrder,
     Ordered, Starting, StopIsFinal, Registered, NoCall
<1>2. CASE Next
  BY <1>2, ClockStep, ReadTime, RegisterTimer, Restart, ArmTimer, UnregisterTimer, Fire, Return,
     LoopStep DEF Next
<1> QED
  BY <1>1, <1>2

(***************************************************************************)
(* The theorems.                                                           *)
(***************************************************************************)

THEOREM TimerInvariant ==
  Spec => []TimerInv
BY InitTimerInv, StepTimerInv, PTL DEF Spec

\* Whatever users and callbacks call, in whatever order, every variable of the
\* timer manager keeps its type, and the semaphore its limit.
THEOREM TimerTypeSafe ==
  Spec => []TypeOK
BY TimerInvariant, PTL DEF TimerInv

\* Whoever gets the mutex finds each timer once, and the first to fire first.
THEOREM TimerListInOrder ==
  Spec => []ListInOrder
<1>1. TimerInv => ListInOrder
  BY TimerAssumption DEF TimerInv, InOrder, Control, Distinct, ListInOrder, Task
<1> QED
  BY <1>1, TimerInvariant, PTL

\* A callback does not run, and will not run, after stop has returned.
THEOREM TimerStopIsFinal ==
  Spec => []StopIsFinal
BY TimerInvariant, PTL DEF TimerInv

(***************************************************************************)
(* Timers fire in time.  While no two updates of the clock have overlapped *)
(* the clock of 64 bits runs behind the time by a constant: the time of    *)
(* the last sample is known to less than one period of the platform's      *)
(* clock, because the task loop samples it after every wait.               *)
(***************************************************************************)
Updating(p) == stage[p] \in {"sum", "store", "keep"}
Starts(p)   == stage[p] \in {"init", "init_prev"}
ClockSet    == \A p \in Task : stage[p] # "init"

\* The start: until initialize returns there are no calls and no timers.
Boot ==
  /\ \A p, q \in Task : Starts(p) /\ Starts(q) => p = q
  /\ \A p \in Task : Starts(p) => ~ready /\ p # TimerTask
  /\ ~ready => list = <<>> /\ \A p \in Task : call[p] = NoCall

\* The task loop updates the clock only between its waits.
LoopStage == loop \in {"size", "wait"} => stage[TimerTask] = "idle"

Waiting ==
  loop = "wait" =>
    /\ real <= deadline
    /\ deadline <= real + WaitSome \/ deadline <= real + WaitNone

\* The 64-bit time of the sample that p has taken.
Told(p) ==
  IF stage[p] = "sum" THEN now + Elapsed(cur[p], prev)
  ELSE IF stage[p] = "store" THEN sum[p] ELSE now

\* How old the last sample may be, when the clock is K behind the time.
AtWork == loop # "wait" /\ ~(loop = "update" /\ stage[TimerTask] = "sample")

Fresh(x, K) ==
  /\ loop = "wait" => deadline < x + K + ClockRange
  /\ loop = "update" /\ stage[TimerTask] = "sample" => real < x + K + ClockRange
  /\ AtWork => x + K = real

\* Those that use the time they read while it cannot pass.
Timed(p) == (p = TimerTask /\ loop = "update") \/ call[p].op \in {"start", "restart"}

\* The clock is set by one task at a time, from samples that are in order.
OneUpdates ==
  \A p, q \in Task : (Updating(p) \/ stage[p] = "init_prev") /\
                     (Updating(q) \/ stage[q] = "init_prev") => p = q

Kept(K) ==
  /\ now + K <= real
  /\ (\A p \in Task : stage[p] \notin {"keep", "init_prev"}) => prev = (now + K) % ClockRange
  /\ \A p \in Task : stage[p] = "init_prev" => now % ClockRange = (now + K) % ClockRange

Taken(K) ==
  \A p \in Task : Updating(p) =>
    /\ now <= Told(p) /\ Told(p) + K <= real
    /\ cur[p] = (Told(p) + K) % ClockRange
    /\ Fresh(Told(p), K)
    /\ Timed(p) => Told(p) + K = real

Read(K) ==
  /\ (\A p \in Task : ~Updating(p)) => Fresh(now, K)
  /\ \A p \in Task : Timed(p) /\ stage[p] = "done" => now + K = real

Dues(K) == \A t \in Registered : due[t] = trigger[t] + K

ClockOK(K) == Kept(K) /\ Taken(K) /\ Read(K) /\ Dues(K)

\* No timer waits for longer than the task loop does.
Late ==
  \A t \in Registered :
    /\ real <= due[t] + WaitSome
    /\ loop = "size" => real <= due[t]
    /\ loop = "wait" => sem > 0 \/ deadline <= due[t] + WaitSome

TimeInv ==
  /\ Boot /\ LoopStage /\ Waiting
  /\ ~raced => OneUpdates /\ Late
  /\ ~raced /\ ClockSet => \E K \in Nat : ClockOK(K)

LEMMA TimeConstants ==
  /\ ClockRange \in Nat \ {0} /\ WaitSome \in Nat /\ WaitNone \in Nat /\ SemMax \in Nat \ {0}
  /\ WaitSome < ClockRange /\ WaitNone < ClockRange
<1>1. WaitSome \in Nat /\ WaitNone \in Nat /\ SemMax \in Nat
  BY TimerAssumption
<1> QED  BY <1>1, TimerAssumption

\* The difference of two samples of the platform's clock is the time between
\* them, if that is less than its period.
LEMMA Wrapped ==
  ASSUME NEW a \in Nat, NEW b \in Nat, NEW w \in Nat \ {0}, a <= b, b < a + w
  PROVE  ((b % w) - (a % w)) % w = b - a
<1> DEFINE ra == a % w
           rb == b % w
           qa == a \div w
           qb == b \div w
<1>1. ra \in 0..(w - 1) /\ rb \in 0..(w - 1) /\ qa \in Nat /\ qb \in Nat
  OBVIOUS
<1>2. a = w * qa + ra /\ b = w * qb + rb
  OBVIOUS
<1> HIDE DEF ra, rb, qa, qb
<1>3. \A x \in 0..(w - 1) : x % w = x /\ (x - w) % w = x
  OBVIOUS
<1>m. \A x, y \in Nat : x <= y => w * x <= w * y
  OBVIOUS
<1>4. qb = qa \/ qb = qa + 1
  <2>1. CASE qb + 1 <= qa
    <3>1. w * (qb + 1) <= w * qa
      BY <1>1, <1>m, <2>1
    <3>2. w * (qb + 1) = w * qb + w
      BY <1>1
    <3> QED  BY <1>1, <1>2, <3>1, <3>2
  <2>2. CASE qa + 2 <= qb
    <3>1. w * (qa + 2) <= w * qb
      BY <1>1, <1>m, <2>2
    <3>2. w * (qa + 2) = w * qa + w + w
      BY <1>1
    <3> QED  BY <1>1, <1>2, <3>1, <3>2
  <2> QED  BY <1>1, <2>1, <2>2
<1>5. CASE qb = qa
  <2>1. rb - ra = b - a /\ b - a \in 0..(w - 1)
    BY <1>1, <1>2, <1>5
  <2> QED  BY <1>3, <2>1 DEF ra, rb
<1>6. CASE qb = qa + 1
  <2>1. w * qb = w * qa + w
    BY <1>1, <1>6
  <2>2. rb - ra = (b - a) - w /\ b - a \in 0..(w - 1)
    BY <1>1, <1>2, <2>1
  <2> QED  BY <1>3, <2>2 DEF ra, rb
<1> QED  BY <1>4, <1>5, <1>6

LEMMA Modulo ==
  ASSUME NEW a \in Nat, NEW w \in Nat \ {0}
  PROVE  a % w \in 0..(w - 1) /\ (a % w) % w = a % w /\ a % w <= a
  OBVIOUS

LEMMA ClockTypes ==
  ASSUME TimerInv
  PROVE  /\ real \in Nat /\ now \in Nat /\ prev \in Nat /\ deadline \in Nat /\ sem \in Nat
         /\ stage \in [Task -> Stages] /\ TimerTask \in Task
         /\ \A p \in Task : cur[p] \in Nat /\ sum[p] \in Nat /\ Told(p) \in Nat /\ Told(p) >= 0
         /\ \A t \in Timer : trigger[t] \in Nat /\ due[t] \in Nat /\ duration[t] \in Nat
         /\ Registered \subseteq Timer
<1>1. TypeOK
  BY DEF TimerInv
<1>2. \A p \in Task : cur[p] \in 0..(ClockRange - 1) /\ sum[p] \in Nat
  BY <1>1 DEF TypeOK
<1>3. \A p \in Task : Elapsed(cur[p], prev) \in Nat
  <2>1. prev \in 0..(ClockRange - 1)
    BY <1>1 DEF TypeOK
  <2>2. \A x \in Int : x % ClockRange \in Nat
    BY TimeConstants
  <2> QED  BY <1>2, <2>1, <2>2, TimeConstants DEF Elapsed
<1>4. \A p \in Task : cur[p] \in Nat
  BY <1>2, TimeConstants
<1>5. \A p \in Task : Told(p) \in Nat
  <2>1. now \in Nat
    BY <1>1 DEF TypeOK
  <2> HIDE DEF Elapsed
  <2> QED  BY <1>2, <1>3, <2>1 DEF Told
<1>6. prev \in Nat /\ sem \in Nat
  BY <1>1, TimeConstants DEF TypeOK
<1>7. Registered \subseteq Timer
  BY <1>1 DEF TypeOK, Registered
<1> QED  BY <1>1, <1>2, <1>4, <1>5, <1>6, <1>7 DEF TypeOK, Task

\* The samples that a new one follows.
LEMMA Recent ==
  ASSUME TimerInv, Waiting, NEW K \in Nat, NEW x \in Nat, Fresh(x, K)
  PROVE  real < x + K + ClockRange
<1>1. CASE loop = "wait"
  BY <1>1, ClockTypes, TimeConstants DEF Fresh, Waiting
<1>2. CASE loop # "wait" /\ AtWork
  BY <1>2, ClockTypes, TimeConstants DEF Fresh
<1>3. CASE loop # "wait" /\ ~AtWork
  BY <1>3 DEF Fresh, AtWork
<1> QED  BY <1>1, <1>2, <1>3

LEMMA SampleTime ==
  ASSUME TimerInv, TimeInv, NEW p \in Task, Sample(p)
  PROVE  TimeInv'
<1>1. /\ stage[p] = "sample" /\ stage' = [stage EXCEPT ![p] = "sum"]
      /\ cur' = [cur EXCEPT ![p] = real % ClockRange]
      /\ raced' = (raced \/ Overlap(p))
      /\ real' = real /\ now' = now /\ prev' = prev /\ sum' = sum /\ list' = list
      /\ trigger' = trigger /\ due' = due /\ loop' = loop /\ deadline' = deadline
      /\ sem' = sem /\ call' = call /\ ready' = ready
  BY DEF Sample, timers, taskLoop
<1>2. /\ stage'[p] = "sum" /\ cur'[p] = real % ClockRange
      /\ \A q \in Task \ {p} : stage'[q] = stage[q]
  <2>1. cur \in [Task -> 0..(ClockRange - 1)]
    BY DEF TimerInv, TypeOK
  <2> QED  BY <1>1, <2>1, ClockTypes
<1>3. Boot' /\ LoopStage' /\ Waiting'
  <2>1. \A q \in Task : (Starts(q))' <=> Starts(q)
    BY <1>1, <1>2 DEF Starts
  <2>2. Boot'
    BY <1>1, <2>1 DEF TimeInv, Boot
  <2>3. LoopStage' /\ Waiting'
    BY <1>1, <1>2 DEF TimeInv, LoopStage, Waiting
  <2> QED  BY <2>2, <2>3
<1>4. ASSUME ~raced'
      PROVE  /\ ~raced /\ \A q \in Task : ~Updating(q) /\ stage[q] # "init_prev"
             /\ \A q \in Task \ {p} : ~(Updating(q))' /\ stage'[q] # "init_prev"
  <2>1. ~raced /\ ~Overlap(p)
    BY <1>1, <1>4
  <2>2. \A q \in Task : ~Updating(q) /\ stage[q] # "init_prev"
    BY <1>1, <2>1 DEF Overlap, Updating
  <2> QED  BY <1>2, <2>1, <2>2 DEF Updating
<1>5. ASSUME ~raced'
      PROVE  OneUpdates' /\ Late'
  <2>1. OneUpdates'
    BY <1>4, <1>5 DEF OneUpdates
  <2>2. Late
    BY <1>4, <1>5 DEF TimeInv
  <2>3. Late'
    BY <1>1, <2>2 DEF Late, Registered
  <2> QED  BY <2>1, <2>3
<1>6. ASSUME ~raced', ClockSet'
      PROVE  \E K \in Nat : ClockOK(K)'
  <2>1. ClockSet
    BY <1>1, <1>2, <1>6 DEF ClockSet
  <2>2. PICK K \in Nat : ClockOK(K)
    BY <1>4, <1>6, <2>1 DEF TimeInv
  <2>3. prev = (now + K) % ClockRange /\ now + K <= real /\ Fresh(now, K)
    BY <1>4, <1>6, <2>2 DEF ClockOK, Kept, Read, Updating
  <2>4. real < now + K + ClockRange
    BY <2>2, <2>3, Recent, ClockTypes DEF TimeInv
  <2>5. Elapsed(real % ClockRange, prev) = real - (now + K)
    <3>1. now + K \in Nat /\ real \in Nat
      BY <2>2, ClockTypes
    <3> QED  BY <2>3, <2>4, <3>1, Wrapped, TimeConstants DEF Elapsed
  <2>6. Told(p)' = real - K
    <3>1. Told(p)' = now + Elapsed(real % ClockRange, prev)
      BY <1>1, <1>2 DEF Told, Elapsed
    <3> QED  BY <2>2, <2>5, <3>1, ClockTypes
  <2>7. now <= Told(p)' /\ Told(p)' + K = real
    BY <2>2, <2>3, <2>6, ClockTypes
  <2>8. Fresh(real - K, K)'
    <3>1. (real - K) + K = real /\ real < real + ClockRange
      BY <2>2, ClockTypes, TimeConstants
    <3>2. loop = "wait" => deadline < real + ClockRange
      BY ClockTypes, TimeConstants DEF TimeInv, Waiting
    <3> QED  BY <1>1, <3>1, <3>2 DEF Fresh
  <2>9. Taken(K)'
    <3> SUFFICES ASSUME NEW q \in Task, Updating(q)'
                 PROVE  /\ now' <= Told(q)' /\ Told(q)' + K <= real'
                        /\ cur'[q] = (Told(q)' + K) % ClockRange
                        /\ Fresh(Told(q), K)'
                        /\ Timed(q)' => Told(q)' + K = real'
      BY DEF Taken
    <3>1. q = p
      BY <1>4, <1>6
    <3>2. real \in Nat
      BY ClockTypes
    <3>3. Fresh(Told(p), K)'
      BY <1>1, <2>6, <2>8 DEF Fresh
    <3> QED  BY <1>1, <1>2, <2>7, <3>1, <3>2, <3>3
  <2>10. Kept(K)'
    BY <1>1, <1>2, <1>4, <1>6, <2>3 DEF Kept
  <2>11. Read(K)'
    <3>1. (Updating(p))'
      BY <1>2 DEF Updating
    <3>2. \A q \in Task : (Timed(q) /\ stage[q] = "done")' => Timed(q) /\ stage[q] = "done"
      BY <1>1, <1>2 DEF Timed
    <3> QED  BY <1>1, <2>2, <3>1, <3>2 DEF Read, ClockOK
  <2>12. Dues(K)'
    BY <1>1, <2>2 DEF Dues, ClockOK, Registered
  <2> QED  BY <2>2, <2>9, <2>10, <2>11, <2>12 DEF ClockOK
<1> QED  BY <1>3, <1>5, <1>6 DEF TimeInv

\* What a step keeps that changes neither the clock nor the time, and only
\* ends or begins an update of one task.
LEMMA ClockIdle ==
  ASSUME TimerInv, NEW p \in Task,
         real' = real, now' = now, prev' = prev, cur' = cur, sum' = sum, raced' = raced,
         stage[p] \in {"idle", "sample", "done"}, stage'[p] \in {"idle", "sample"},
         \A q \in Task \ {p} : stage'[q] = stage[q] /\ call'[q] = call[q],
         p # TimerTask => loop' = loop,
         \A x \in Nat, K \in Nat : Fresh(x, K) => Fresh(x, K)'
  PROVE  /\ OneUpdates => OneUpdates'
         /\ ClockSet' => ClockSet
         /\ \A K \in Nat : Kept(K) /\ Taken(K) /\ Read(K) => Kept(K)' /\ Taken(K)' /\ Read(K)'
<1>1. /\ ~Updating(p) /\ ~(Updating(p))'
      /\ stage[p] \notin {"keep", "init", "init_prev"} /\ stage'[p] \notin {"keep", "init", "init_prev", "done"}
  BY DEF Updating
<1>2. \A q \in Task \ {p} : (Updating(q))' <=> Updating(q)
  BY DEF Updating
<1>3. OneUpdates => OneUpdates'
  BY <1>1, <1>2 DEF OneUpdates
<1>4. ClockSet' => ClockSet
  BY <1>1 DEF ClockSet
<1>5. \A q \in Task \ {p} : (Timed(q))' <=> Timed(q)
  BY DEF Timed
<1>6. ASSUME NEW K \in Nat, Kept(K), Taken(K), Read(K)
      PROVE  Kept(K)' /\ Taken(K)' /\ Read(K)'
  <2>1. Kept(K)'
    BY <1>1, <1>6 DEF Kept
  <2>2. Taken(K)'
    <3> SUFFICES ASSUME NEW q \in Task, Updating(q)'
                 PROVE  /\ now' <= Told(q)' /\ Told(q)' + K <= real'
                        /\ cur'[q] = (Told(q)' + K) % ClockRange
                        /\ Fresh(Told(q), K)'
                        /\ Timed(q)' => Told(q)' + K = real'
      BY DEF Taken
    <3>1. q # p /\ Updating(q) /\ (Timed(q)' <=> Timed(q)) /\ stage'[q] = stage[q]
      BY <1>1, <1>2, <1>5
    <3>2. Told(q)' = Told(q) /\ Told(q) \in Nat
      BY <3>1, ClockTypes DEF Told, Elapsed
    <3> DEFINE x == Told(q)
    <3>3. /\ now <= x /\ x + K <= real /\ cur[q] = (x + K) % ClockRange /\ Fresh(x, K)
          /\ Timed(q) => x + K = real
      BY <1>6, <3>1 DEF Taken
    <3>4. Fresh(Told(q), K)'
      <4>1. \A y \in Nat : y = Told(q) => (Fresh(y, K) <=> Fresh(Told(q), K)) /\ ((Fresh(y, K))' <=> (Fresh(Told(q), K))')
        BY <3>2 DEF Fresh
      <4> QED  BY <3>2, <3>3, <4>1
    <3> QED  BY <3>1, <3>2, <3>3, <3>4
  <2>3. Read(K)'
    <3>1. (\A q \in Task : ~Updating(q))' => Fresh(now, K)'
      <4>1. (\A q \in Task : ~Updating(q))' => Fresh(now, K)
        BY <1>1, <1>2, <1>6 DEF Read
      <4>2. now \in Nat
        BY ClockTypes
      <4>3. \A y \in Nat : y = now => (Fresh(y, K) <=> Fresh(now, K)) /\ ((Fresh(y, K))' <=> (Fresh(now, K))')
        BY DEF Fresh
      <4> QED  BY <4>1, <4>2, <4>3
    <3>2. \A q \in Task : Timed(q)' /\ stage'[q] = "done" => now' + K = real'
      BY <1>1, <1>5, <1>6 DEF Read
    <3> QED  BY <3>1, <3>2 DEF Read
  <2> QED  BY <2>1, <2>2, <2>3
<1> QED  BY <1>3, <1>4, <1>6

\* The steps that set the clock.
LEMMA AddTime ==
  ASSUME TimerInv, TimeInv, NEW p \in Task, Add(p)
  PROVE  TimeInv'
<1>1. /\ stage[p] = "sum" /\ stage' = [stage EXCEPT ![p] = "store"]
      /\ sum' = [sum EXCEPT ![p] = now + Elapsed(cur[p], prev)]
      /\ real' = real /\ now' = now /\ prev' = prev /\ cur' = cur /\ raced' = raced
      /\ list' = list /\ trigger' = trigger /\ due' = due /\ loop' = loop
      /\ deadline' = deadline /\ sem' = sem /\ call' = call /\ ready' = ready
  BY DEF Add, timers, taskLoop
<1>2. stage'[p] = "store" /\ \A q \in Task \ {p} : stage'[q] = stage[q]
  BY <1>1, ClockTypes
<1>3. sum'[p] = Told(p) /\ \A q \in Task \ {p} : sum'[q] = sum[q]
  <2>1. sum \in [Task -> Nat]
    BY DEF TimerInv, TypeOK
  <2> QED  BY <1>1, <2>1 DEF Told
<1>4. \A q \in Task : /\ Told(q)' = Told(q) /\ (Updating(q)' <=> Updating(q)) /\ (Starts(q)' <=> Starts(q))
                      /\ Timed(q)' <=> Timed(q)
                      /\ stage'[q] \in {"sample", "keep", "init", "init_prev", "done"} =>
                           stage'[q] = stage[q]
                      /\ stage[q] \in {"init", "init_prev"} => stage'[q] = stage[q]
  <2>1. Told(p)' = Told(p)
    BY <1>1, <1>2, <1>3 DEF Told
  <2>2. \A q \in Task \ {p} : Told(q)' = Told(q)
    BY <1>1, <1>2, <1>3 DEF Told, Elapsed
  <2> QED  BY <1>1, <1>2, <2>1, <2>2 DEF Updating, Starts, Timed
<1>5. stage'[TimerTask] \in {"idle", "sample"} <=> stage[TimerTask] \in {"idle", "sample"}
  BY <1>1, <1>2, ClockTypes
<1>5a. (stage'[TimerTask] = "idle" <=> stage[TimerTask] = "idle")
       /\ (stage'[TimerTask] = "sample" <=> stage[TimerTask] = "sample")
  BY <1>1, <1>2, ClockTypes
<1>6. Boot' /\ LoopStage' /\ Waiting'
  BY <1>1, <1>4, <1>5a DEF TimeInv, Boot, LoopStage, Waiting
<1>7. ~raced' => OneUpdates' /\ Late'
  <2>1. ~raced => OneUpdates /\ Late
    BY DEF TimeInv
  <2>2. OneUpdates => OneUpdates'
    BY <1>4 DEF OneUpdates
  <2>3. Late => Late'
    BY <1>1 DEF Late, Registered
  <2> QED  BY <1>1, <2>1, <2>2, <2>3
<1>8. ASSUME ~raced', ClockSet'
      PROVE  \E K \in Nat : ClockOK(K)'
  <2>1. PICK K \in Nat : ClockOK(K)
    BY <1>1, <1>4, <1>8 DEF ClockSet, TimeInv
  <2>2. \A q \in Task : (Fresh(Told(q), K))' <=> Fresh(Told(q), K)
    BY <1>1, <1>4, <1>5a DEF Fresh, AtWork
  <2>3. Fresh(now, K)' <=> Fresh(now, K)
    BY <1>1, <1>5a DEF Fresh, AtWork
  <2>4. Kept(K)'
    BY <1>1, <1>2, <1>4, <2>1 DEF Kept, ClockOK
  <2>5. Taken(K)'
    BY <1>1, <1>4, <2>1, <2>2 DEF Taken, ClockOK
  <2>6. Read(K)'
    BY <1>1, <1>4, <2>1, <2>3 DEF Read, ClockOK
  <2>7. Dues(K)'
    BY <1>1, <2>1 DEF Dues, ClockOK, Registered
  <2> QED  BY <2>4, <2>5, <2>6, <2>7 DEF ClockOK
<1> QED  BY <1>6, <1>7, <1>8 DEF TimeInv

LEMMA StoreNowTime ==
  ASSUME TimerInv, TimeInv, NEW p \in Task, StoreNow(p)
  PROVE  TimeInv'
<1>1. /\ stage[p] = "store" /\ stage' = [stage EXCEPT ![p] = "keep"]
      /\ now' = sum[p]
      /\ real' = real /\ prev' = prev /\ cur' = cur /\ raced' = raced
      /\ list' = list /\ trigger' = trigger /\ due' = due /\ loop' = loop
      /\ deadline' = deadline /\ sem' = sem /\ call' = call /\ ready' = ready
  BY DEF StoreNow, timers, taskLoop
<1>2. stage'[p] = "keep" /\ \A q \in Task \ {p} : stage'[q] = stage[q]
  BY <1>1, ClockTypes
<1>3. now' = Told(p) /\ Told(p)' = Told(p)
  BY <1>1, <1>2 DEF Told
<1>4. \A q \in Task : /\ (Updating(q)' <=> Updating(q)) /\ (Starts(q)' <=> Starts(q))
                      /\ Timed(q)' <=> Timed(q)
                      /\ stage'[q] = "done" <=> stage[q] = "done"
                      /\ stage'[q] = "init" <=> stage[q] = "init"
                      /\ stage'[q] = "init_prev" <=> stage[q] = "init_prev"
  BY <1>1, <1>2 DEF Updating, Starts, Timed
<1>5. (stage'[TimerTask] = "idle" <=> stage[TimerTask] = "idle")
      /\ (stage'[TimerTask] = "sample" <=> stage[TimerTask] = "sample")
  BY <1>1, <1>2, ClockTypes
<1>6. Boot' /\ LoopStage' /\ Waiting'
  BY <1>1, <1>4, <1>5 DEF TimeInv, Boot, LoopStage, Waiting
<1>7. ~raced' => OneUpdates' /\ Late'
  <2>1. ~raced => OneUpdates /\ Late
    BY DEF TimeInv
  <2>2. OneUpdates => OneUpdates'
    BY <1>4 DEF OneUpdates
  <2>3. Late => Late'
    BY <1>1 DEF Late, Registered
  <2> QED  BY <1>1, <2>1, <2>2, <2>3
<1>8. ASSUME ~raced', ClockSet'
      PROVE  \E K \in Nat : ClockOK(K)'
  <2>1. PICK K \in Nat : ClockOK(K)
    BY <1>1, <1>4, <1>8 DEF ClockSet, TimeInv
  <2>2. /\ OneUpdates /\ Updating(p)
        /\ \A q \in Task \ {p} : ~Updating(q) /\ stage[q] # "init_prev"
    <3>1. OneUpdates /\ Updating(p)
      BY <1>1, <1>8 DEF TimeInv, Updating
    <3> QED  BY <3>1 DEF OneUpdates
  <2> DEFINE x == Told(p)
  <2>3. /\ now <= x /\ x + K <= real /\ cur[p] = (x + K) % ClockRange /\ Fresh(x, K)
        /\ Timed(p) => x + K = real
    BY <2>1, <2>2 DEF ClockOK, Taken
  <2>4. x \in Nat /\ now \in Nat /\ real \in Nat
    BY ClockTypes
  <2>5. Fresh(Told(p), K)'
    BY <1>1, <1>3, <1>5, <2>3 DEF Fresh, AtWork
  <2>6. Kept(K)'
    <3>1. now' + K <= real'
      BY <1>1, <1>3, <2>3
    <3>2. p \in Task /\ stage'[p] = "keep" /\ \A q \in Task : stage'[q] # "init_prev"
      BY <1>1, <1>2, <2>2
    <3> QED  BY <3>1, <3>2 DEF Kept
  <2>7. Taken(K)'
    <3> SUFFICES ASSUME NEW q \in Task, Updating(q)'
                 PROVE  /\ now' <= Told(q)' /\ Told(q)' + K <= real'
                        /\ cur'[q] = (Told(q)' + K) % ClockRange
                        /\ Fresh(Told(q), K)'
                        /\ Timed(q)' => Told(q)' + K = real'
      BY DEF Taken
    <3>1. q = p
      BY <1>4, <2>2
    <3> QED  BY <1>1, <1>3, <1>4, <2>3, <2>4, <2>5, <3>1
  <2>8. Read(K)'
    <3>1. Updating(p)'
      BY <1>4, <2>2
    <3>2. \A q \in Task : Timed(q)' /\ stage'[q] = "done" => now' + K = real'
      <4> SUFFICES ASSUME NEW q \in Task, Timed(q)', stage'[q] = "done"
                   PROVE  now' + K = real'
        OBVIOUS
      <4>1. now + K = real
        BY <1>4, <2>1 DEF ClockOK, Read
      <4> QED  BY <1>1, <1>3, <2>1, <2>3, <2>4, <4>1
    <3> QED  BY <3>1, <3>2 DEF Read
  <2>9. Dues(K)'
    BY <1>1, <2>1 DEF Dues, ClockOK, Registered
  <2> QED  BY <2>6, <2>7, <2>8, <2>9 DEF ClockOK
<1> QED  BY <1>6, <1>7, <1>8 DEF TimeInv

LEMMA StorePrevTime ==
  ASSUME TimerInv, TimeInv, NEW p \in Task, StorePrev(p)
  PROVE  TimeInv'
<1>1. /\ stage[p] = "keep" /\ stage' = [stage EXCEPT ![p] = "done"]
      /\ prev' = cur[p]
      /\ real' = real /\ now' = now /\ raced' = raced
      /\ list' = list /\ trigger' = trigger /\ due' = due /\ loop' = loop
      /\ deadline' = deadline /\ sem' = sem /\ call' = call /\ ready' = ready
  BY DEF StorePrev, timers, taskLoop
<1>2. stage'[p] = "done" /\ \A q \in Task \ {p} : stage'[q] = stage[q]
  BY <1>1, ClockTypes
<1>3. Told(p) = now
  BY <1>1 DEF Told
<1>4. \A q \in Task : /\ (Starts(q)' <=> Starts(q))
                      /\ Timed(q)' <=> Timed(q)
                      /\ Updating(q)' => Updating(q) /\ q # p
                      /\ stage'[q] = "init" <=> stage[q] = "init"
                      /\ stage'[q] = "init_prev" <=> stage[q] = "init_prev"
  BY <1>1, <1>2 DEF Updating, Starts, Timed
<1>5. (stage'[TimerTask] = "idle" <=> stage[TimerTask] = "idle")
      /\ (stage'[TimerTask] = "sample" <=> stage[TimerTask] = "sample")
  BY <1>1, <1>2, ClockTypes
<1>6. Boot' /\ LoopStage' /\ Waiting'
  BY <1>1, <1>4, <1>5 DEF TimeInv, Boot, LoopStage, Waiting
<1>7. ~raced' => OneUpdates' /\ Late'
  <2>1. ~raced => OneUpdates /\ Late
    BY DEF TimeInv
  <2>2. OneUpdates => OneUpdates'
    BY <1>4 DEF OneUpdates
  <2>3. Late => Late'
    BY <1>1 DEF Late, Registered
  <2> QED  BY <1>1, <2>1, <2>2, <2>3
<1>8. ASSUME ~raced', ClockSet'
      PROVE  \E K \in Nat : ClockOK(K)'
  <2>1. PICK K \in Nat : ClockOK(K)
    BY <1>1, <1>4, <1>8 DEF ClockSet, TimeInv
  <2>2. /\ Updating(p)
        /\ \A q \in Task \ {p} : ~Updating(q) /\ stage[q] # "init_prev"
    <3>1. OneUpdates /\ Updating(p)
      BY <1>1, <1>8 DEF TimeInv, Updating
    <3> QED  BY <3>1 DEF OneUpdates
  <2>3. /\ now + K <= real /\ cur[p] = (now + K) % ClockRange
        /\ Timed(p) => now + K = real
    BY <1>3, <2>1, <2>2 DEF ClockOK, Taken
  <2>4. Fresh(now, K)'
    <3>1. Fresh(Told(p), K)
      BY <2>1, <2>2 DEF ClockOK, Taken
    <3> QED  BY <1>1, <1>3, <1>5, <3>1 DEF Fresh, AtWork
  <2>5. Kept(K)'
    <3>1. \A q \in Task : stage'[q] # "init_prev"
      BY <1>1, <1>2, <2>2
    <3> QED  BY <1>1, <2>3, <3>1 DEF Kept
  <2>6. Taken(K)'
    <3>1. \A q \in Task : ~Updating(q)'
      BY <1>4, <2>2
    <3> QED  BY <3>1 DEF Taken
  <2>7. Read(K)'
    <3>1. \A q \in Task : Timed(q)' /\ stage'[q] = "done" => now' + K = real'
      <4> SUFFICES ASSUME NEW q \in Task, Timed(q)', stage'[q] = "done"
                   PROVE  now' + K = real'
        OBVIOUS
      <4>1. CASE q = p
        BY <1>1, <1>4, <2>3, <4>1
      <4>2. CASE q # p
        BY <1>1, <1>2, <1>4, <2>1, <4>2 DEF ClockOK, Read
      <4> QED  BY <4>1, <4>2
    <3> QED  BY <2>4, <3>1 DEF Read
  <2>8. Dues(K)'
    BY <1>1, <2>1 DEF Dues, ClockOK, Registered
  <2> QED  BY <2>5, <2>6, <2>7, <2>8 DEF ClockOK
<1> QED  BY <1>6, <1>7, <1>8 DEF TimeInv

LEMMA InitializeNowTime ==
  ASSUME TimerInv, TimeInv, NEW p \in Task, InitializeNow(p)
  PROVE  TimeInv'
<1>1. /\ stage[p] = "init" /\ stage' = [stage EXCEPT ![p] = "init_prev"]
      /\ now' = real % ClockRange /\ raced' = (raced \/ Overlap(p))
      /\ real' = real /\ prev' = prev /\ cur' = cur /\ sum' = sum
      /\ list' = list /\ trigger' = trigger /\ due' = due /\ loop' = loop
      /\ deadline' = deadline /\ sem' = sem /\ call' = call /\ ready' = ready
  BY DEF InitializeNow, timers, taskLoop
<1>2. stage'[p] = "init_prev" /\ \A q \in Task \ {p} : stage'[q] = stage[q]
  BY <1>1, ClockTypes
<1>3. Boot /\ ~ready /\ p # TimerTask /\ \A q \in Task \ {p} : ~Starts(q)
  BY <1>1 DEF TimeInv, Boot, Starts
<1>4. \A q \in Task : (Starts(q)' <=> Starts(q)) /\ (Timed(q)' <=> Timed(q))
  BY <1>1, <1>2 DEF Starts, Timed
<1>5. stage'[TimerTask] = stage[TimerTask]
  BY <1>2, <1>3, ClockTypes
<1>6. Boot' /\ LoopStage' /\ Waiting'
  BY <1>1, <1>4, <1>5 DEF TimeInv, Boot, LoopStage, Waiting
<1>7. Registered = {} /\ Registered' = {}
  BY <1>1, <1>3 DEF Boot, Registered
<1>8. ASSUME ~raced'
      PROVE  \A q \in Task \ {p} : ~Updating(q)' /\ stage'[q] # "init_prev"
  BY <1>1, <1>2, <1>8 DEF Overlap, Updating
<1>9. ~raced' => OneUpdates' /\ Late'
  BY <1>7, <1>8 DEF OneUpdates, Late
<1>10. ASSUME ~raced', ClockSet'
      PROVE  \E K \in Nat : ClockOK(K)'
  <2>1. PICK x \in Nat : now' = x /\ x <= real /\ x % ClockRange = real % ClockRange
    <3>1. real \in Nat /\ real % ClockRange \in 0 .. (ClockRange - 1)
          /\ (real % ClockRange) % ClockRange = real % ClockRange /\ real % ClockRange <= real
      BY ClockTypes, TimeConstants, Modulo
    <3>2. real % ClockRange \in Nat
      BY <3>1, TimeConstants
    <3> QED  BY <1>1, <3>1, <3>2
  <2>2. PICK K \in Nat : x + K = real
    <3>1. real - x \in Nat /\ x + (real - x) = real
      BY <2>1, ClockTypes
    <3> QED  BY <3>1
  <2>3. x % ClockRange = (x + K) % ClockRange
    BY <2>1, <2>2
  <2>4. Fresh(now, K)'
    <3>1. real < real + ClockRange
      BY ClockTypes, TimeConstants
    <3>2. loop = "wait" => deadline < real + ClockRange
      BY ClockTypes, TimeConstants DEF TimeInv, Waiting
    <3> QED  BY <1>1, <2>1, <2>2, <3>1, <3>2 DEF Fresh
  <2>5. Kept(K)'
    <3>1. now' + K = real /\ now' + K <= real
      BY <2>1, <2>2, ClockTypes
    <3> QED  BY <1>1, <1>2, <2>1, <2>3, <3>1 DEF Kept
  <2>6. Taken(K)'
    <3>1. \A q \in Task : ~Updating(q)'
      BY <1>2, <1>8, <1>10 DEF Updating
    <3> QED  BY <3>1 DEF Taken
  <2>7. Read(K)'
    BY <1>1, <2>1, <2>2, <2>4 DEF Read
  <2>8. Dues(K)'
    BY <1>7 DEF Dues
  <2> QED  BY <2>2, <2>5, <2>6, <2>7, <2>8 DEF ClockOK
<1> QED  BY <1>6, <1>9, <1>10 DEF TimeInv

LEMMA InitializePrevTime ==
  ASSUME TimerInv, TimeInv, NEW p \in Task, InitializePrev(p)
  PROVE  TimeInv'
<1>1. /\ stage[p] = "init_prev" /\ stage' = [stage EXCEPT ![p] = "idle"]
      /\ prev' = now % ClockRange /\ ready' = TRUE
      /\ real' = real /\ now' = now /\ cur' = cur /\ sum' = sum /\ raced' = raced
      /\ list' = list /\ trigger' = trigger /\ due' = due /\ loop' = loop
      /\ deadline' = deadline /\ sem' = sem /\ call' = call
  BY DEF InitializePrev, timers, taskLoop
<1>2. stage'[p] = "idle" /\ \A q \in Task \ {p} : stage'[q] = stage[q]
  BY <1>1, ClockTypes
<1>3. Boot /\ p # TimerTask /\ \A q \in Task \ {p} : ~Starts(q)
  BY <1>1 DEF TimeInv, Boot, Starts
<1>4. \A q \in Task : ~Starts(q)' /\ (Timed(q)' <=> Timed(q))
  BY <1>1, <1>2, <1>3 DEF Starts, Timed
<1>5. stage'[TimerTask] = stage[TimerTask]
  BY <1>2, <1>3, ClockTypes
<1>6. Boot' /\ LoopStage' /\ Waiting'
  BY <1>1, <1>4, <1>5 DEF TimeInv, Boot, LoopStage, Waiting
<1>7. \A q \in Task : Updating(q)' => Updating(q)
  BY <1>2 DEF Updating
<1>8. ~raced' => OneUpdates' /\ Late'
  <2>1. ~raced => OneUpdates /\ Late
    BY DEF TimeInv
  <2>2. OneUpdates => OneUpdates'
    BY <1>2, <1>4, <1>7 DEF OneUpdates, Starts
  <2>3. Late => Late'
    BY <1>1 DEF Late, Registered
  <2> QED  BY <1>1, <2>1, <2>2, <2>3
<1>9. ASSUME ~raced', ClockSet'
      PROVE  \E K \in Nat : ClockOK(K)'
  <2>1. ClockSet
    BY <1>1, <1>2, <1>9 DEF ClockSet
  <2>2. PICK K \in Nat : ClockOK(K)
    BY <1>1, <1>9, <2>1 DEF TimeInv
  <2>3. \A q \in Task : ~Updating(q) /\ ~Updating(q)'
    <3>1. OneUpdates /\ ~Updating(p)
      BY <1>1, <1>9 DEF TimeInv, Updating
    <3> QED  BY <1>1, <1>7, <3>1 DEF OneUpdates
  <2>4. Fresh(now, K)'
    <3>1. Fresh(now, K)
      BY <2>2, <2>3 DEF ClockOK, Read
    <3> QED  BY <1>1, <1>5, <3>1 DEF Fresh, AtWork
  <2>5. Kept(K)'
    <3>1. now + K <= real /\ now % ClockRange = (now + K) % ClockRange
      BY <1>1, <2>2 DEF ClockOK, Kept
    <3>2. \A q \in Task : stage'[q] # "init_prev"
      BY <1>4 DEF Starts
    <3> QED  BY <1>1, <3>1, <3>2 DEF Kept
  <2>6. Taken(K)'
    BY <2>3 DEF Taken
  <2>7. Read(K)'
    <3>1. \A q \in Task : stage'[q] = "done" => stage[q] = "done"
      BY <1>2
    <3> QED  BY <1>1, <1>4, <2>2, <2>4, <3>1 DEF ClockOK, Read
  <2>8. Dues(K)'
    BY <1>1, <2>2 DEF Dues, ClockOK, Registered
  <2> QED  BY <2>2, <2>5, <2>6, <2>7, <2>8 DEF ClockOK
<1> QED  BY <1>6, <1>8, <1>9 DEF TimeInv

\* A call of a user or of a callback leaves the clock to update_now_time.
LEMMA CallTime ==
  ASSUME TimerInv, TimeInv, NEW p \in Task,
         real' = real, now' = now, prev' = prev, cur' = cur, sum' = sum, raced' = raced,
         loop' = loop, deadline' = deadline, ready' = ready,
         ready \/ call[p] # NoCall,
         stage[p] \in {"idle", "sample", "done"}, stage'[p] \in {"idle", "sample"},
         \A q \in Task \ {p} : stage'[q] = stage[q] /\ call'[q] = call[q],
         p = TimerTask => loop = "callback",
         ~raced /\ Late => Late',
         \A K \in Nat : ~raced /\ ClockSet /\ ClockOK(K) => Dues(K)'
  PROVE  TimeInv'
<1>1. ready
  BY DEF TimeInv, Boot
<1>2. Boot'
  <2>1. \A q \in Task : ~Starts(q)
    BY <1>1 DEF TimeInv, Boot
  <2>2. \A q \in Task : ~Starts(q)'
    BY <2>1 DEF Starts
  <2> QED  BY <1>1, <2>2 DEF Boot
<1>3. p # TimerTask => stage'[TimerTask] = stage[TimerTask]
  BY ClockTypes
<1>4. LoopStage' /\ Waiting'
  BY <1>3 DEF TimeInv, LoopStage, Waiting
<1>5. \A x \in Nat, K \in Nat : Fresh(x, K) => Fresh(x, K)'
  BY <1>3 DEF Fresh, AtWork
<1>6. /\ OneUpdates => OneUpdates'
      /\ ClockSet' => ClockSet
      /\ \A K \in Nat : Kept(K) /\ Taken(K) /\ Read(K) => Kept(K)' /\ Taken(K)' /\ Read(K)'
  BY <1>5, ClockIdle
<1>7. ~raced' => OneUpdates' /\ Late'
  BY <1>6 DEF TimeInv
<1>8. ASSUME ~raced', ClockSet'
      PROVE  \E K \in Nat : ClockOK(K)'
  <2>1. ClockSet /\ ~raced
    BY <1>6, <1>8
  <2>2. PICK K \in Nat : ClockOK(K)
    BY <2>1 DEF TimeInv
  <2>3. Kept(K)' /\ Taken(K)' /\ Read(K)' /\ Dues(K)'
    BY <1>6, <2>1, <2>2 DEF ClockOK
  <2> QED  BY <2>2, <2>3 DEF ClockOK
<1> QED  BY <1>2, <1>4, <1>7, <1>8 DEF TimeInv

LEMMA ReadTimes ==
  ASSUME TimerInv, TimeInv, NEW p \in Task, get_system_time(p) \/ ReturnTime(p)
  PROVE  TimeInv'
<1>1. /\ real' = real /\ now' = now /\ prev' = prev /\ cur' = cur /\ sum' = sum /\ raced' = raced
      /\ loop' = loop /\ deadline' = deadline /\ ready' = ready
      /\ list' = list /\ trigger' = trigger /\ due' = due /\ sem' = sem
  BY DEF get_system_time, ReturnTime, timers, taskLoop
<1>2. call \in [Task -> CallSet]
  BY Calls DEF TimerInv
<1>3. /\ ready \/ call[p] # NoCall
      /\ stage[p] \in {"idle", "sample", "done"} /\ stage'[p] \in {"idle", "sample"}
      /\ \A q \in Task \ {p} : stage'[q] = stage[q] /\ call'[q] = call[q]
      /\ p = TimerTask => loop = "callback"
  <2>1. CASE get_system_time(p)
    BY <1>2, <2>1, ClockTypes DEF get_system_time, CanCall
  <2>2. CASE ReturnTime(p)
    <3>1. call[p] # NoCall /\ stage[p] = "done"
      BY <2>2 DEF ReturnTime, NoCall
    <3>2. p = TimerTask => loop = "callback"
      BY <3>1 DEF TimerInv, Control
    <3> QED  BY <1>2, <2>2, <3>1, <3>2, ClockTypes DEF ReturnTime
  <2> QED  BY <2>1, <2>2
<1>4. Late => Late'
  BY <1>1 DEF Late, Registered
<1>5. \A K \in Nat : ClockOK(K) => Dues(K)'
  BY <1>1 DEF ClockOK, Dues, Registered
<1> QED  BY <1>1, <1>3, <1>4, <1>5, CallTime

LEMMA RegisterTime ==
  ASSUME TimerInv, TimeInv, NEW p \in Task, NEW t \in Timer, register_timer(p, t)
  PROVE  TimeInv'
<1>1. /\ real' = real /\ now' = now /\ prev' = prev /\ cur' = cur /\ sum' = sum /\ raced' = raced
      /\ loop' = loop /\ deadline' = deadline /\ ready' = ready
      /\ list' = list /\ trigger' = trigger /\ due' = due /\ sem' = sem
  BY DEF register_timer, taskLoop
<1>2. call \in [Task -> CallSet]
  BY Calls DEF TimerInv
<1>3. /\ ready
      /\ stage[p] \in {"idle", "sample", "done"} /\ stage'[p] \in {"idle", "sample"}
      /\ \A q \in Task \ {p} : stage'[q] = stage[q] /\ call'[q] = call[q]
      /\ p = TimerTask => loop = "callback"
  BY <1>2, ClockTypes DEF register_timer, CanCall
<1>4. Late => Late'
  BY <1>1 DEF Late, Registered
<1>5. \A K \in Nat : ClockOK(K) => Dues(K)'
  BY <1>1 DEF ClockOK, Dues, Registered
<1> QED  BY <1>1, <1>3, <1>4, <1>5, CallTime

LEMMA RestartTime ==
  ASSUME TimerInv, TimeInv, NEW p \in Task,
         reset_timer(p) \/ \E t \in Timer, d \in Duration : SetDuration(p, t, d)
  PROVE  TimeInv'
<1>1. /\ real' = real /\ now' = now /\ prev' = prev /\ cur' = cur /\ sum' = sum /\ raced' = raced
      /\ loop' = loop /\ deadline' = deadline /\ ready' = ready
      /\ list' = list /\ trigger' = trigger /\ due' = due /\ sem' = sem
  BY DEF reset_timer, SetDuration, clock, timers, taskLoop
<1>2. call \in [Task -> CallSet]
  BY Calls DEF TimerInv
<1>3. /\ ready \/ call[p] # NoCall
      /\ stage[p] \in {"idle", "sample", "done"} /\ stage'[p] \in {"idle", "sample"}
      /\ \A q \in Task \ {p} : stage'[q] = stage[q] /\ call'[q] = call[q]
      /\ p = TimerTask => loop = "callback"
  <2>1. CASE reset_timer(p)
    <3>1. call[p] # NoCall /\ stage[p] = "idle"
      BY <2>1 DEF reset_timer, NoCall
    <3>2. p = TimerTask => loop = "callback"
      BY <3>1 DEF TimerInv, Control
    <3>3. /\ stage' = [stage EXCEPT ![p] = "sample"] \/ stage' = stage
          /\ call' = call \/ call' = [call EXCEPT ![p] = NoCall]
      BY <2>1 DEF reset_timer
    <3> QED  BY <1>2, <3>1, <3>2, <3>3, ClockTypes
  <2>2. CASE \E t \in Timer, d \in Duration : SetDuration(p, t, d)
    BY <1>2, <2>2, ClockTypes DEF SetDuration, CanCall, clock
  <2> QED  BY <2>1, <2>2
<1>4. Late => Late'
  BY <1>1 DEF Late, Registered
<1>5. \A K \in Nat : ClockOK(K) => Dues(K)'
  BY <1>1 DEF ClockOK, Dues, Registered
<1> QED  BY <1>1, <1>3, <1>4, <1>5, CallTime

LEMMA ArmTime ==
  ASSUME TimerInv, TimeInv, NEW p \in Task, Arm(p)
  PROVE  TimeInv'
<1> DEFINE t == call[p].timer
           before == IF call[p].op = "start" THEN Append(list, t) ELSE list
<1>1. /\ real' = real /\ now' = now /\ prev' = prev /\ cur' = cur /\ sum' = sum /\ raced' = raced
      /\ loop' = loop /\ deadline' = deadline /\ ready' = ready
      /\ call[p].op \in {"start", "restart"} /\ stage[p] = "done"
      /\ trigger' = [trigger EXCEPT ![t] = now + duration[t]]
      /\ due' = [due EXCEPT ![t] = real + duration[t]]
      /\ list' \in Sorted(before, trigger')
      /\ sem' = IF sem < SemMax THEN sem + 1 ELSE sem
  BY DEF Arm, taskLoop, Post
<1>2. t \in Timer /\ list \in Seq(Timer) /\ call[p] # NoCall /\ (p = TimerTask => loop = "callback")
  BY <1>1 DEF TimerInv, TypeOK, Control, NoCall
<1>3. /\ stage'[p] = "idle"
      /\ \A q \in Task \ {p} : stage'[q] = stage[q] /\ call'[q] = call[q]
  <2>1. call \in [Task -> CallSet]
    BY Calls DEF TimerInv
  <2> QED  BY <2>1, ClockTypes DEF Arm
<1>4. before \in Seq(Timer) /\ Elements(before) \subseteq Elements(list) \cup {t}
  <2>1. call[p].op = "start" => t \notin Elements(list)
    BY DEF TimerInv, Starting, Registered, Elements
  <2> QED  BY <1>2, <2>1, AppendList
<1> HIDE DEF before
<1>5. Registered' \subseteq Registered \cup {t}
  <2>1. Elements(list') \subseteq Elements(before)
    BY <1>1, <1>4, SortedList
  <2> QED  BY <1>4, <2>1 DEF Registered, Elements
<1>6. sem' > 0
  BY <1>1, ClockTypes, TimeConstants
<1>7. /\ due'[t] = real + duration[t] /\ trigger'[t] = now + duration[t] /\ duration[t] \in Nat
      /\ \A s \in Timer \ {t} : due'[s] = due[s] /\ trigger'[s] = trigger[s]
  <2>1. due \in [Timer -> Nat] /\ trigger \in [Timer -> Nat]
    BY DEF TimerInv, TypeOK
  <2> QED  BY <1>1, <1>2, <2>1, ClockTypes
<1> HIDE DEF t
<1>8. Late => Late'
  <2> SUFFICES ASSUME Late, NEW s \in Registered'
               PROVE  real <= due'[s] + WaitSome /\ (loop = "size" => real <= due'[s])
    BY <1>1, <1>6 DEF Late
  <2>1. CASE s = t
    BY <1>7, <2>1, ClockTypes, TimeConstants
  <2>2. CASE s # t
    BY <1>5, <1>7, <2>2, ClockTypes DEF Late
  <2> QED  BY <2>1, <2>2
<1>9. ASSUME NEW K \in Nat, ClockOK(K)
      PROVE  Dues(K)'
  <2>1. now + K = real
    BY <1>1, <1>9 DEF ClockOK, Read, Timed
  <2> SUFFICES ASSUME NEW s \in Registered'
               PROVE  due'[s] = trigger'[s] + K
    BY DEF Dues
  <2>2. CASE s = t
    BY <1>7, <2>1, <2>2, ClockTypes
  <2>3. CASE s # t
    BY <1>5, <1>7, <1>9, <2>3, ClockTypes DEF ClockOK, Dues
  <2> QED  BY <2>2, <2>3
<1> QED  BY <1>1, <1>2, <1>3, <1>8, <1>9, CallTime

LEMMA UnregisterTime ==
  ASSUME TimerInv, TimeInv, NEW p \in Task, NEW t \in Timer, unregister_timer(p, t)
  PROVE  TimeInv'
<1>1. /\ real' = real /\ now' = now /\ prev' = prev /\ cur' = cur /\ sum' = sum /\ raced' = raced
      /\ loop' = loop /\ deadline' = deadline /\ ready' = ready /\ stage' = stage /\ call' = call
      /\ ready /\ stage[p] = "idle" /\ (p = TimerTask => loop = "callback")
  BY DEF unregister_timer, CanCall, clock, taskLoop
<1>2. list \in Seq(Timer) /\ Distinct(list) /\ Registered = Elements(list)
  BY DEF TimerInv, TypeOK, Registered, Elements
<1>3. /\ Registered' \subseteq Registered
      /\ \A s \in Registered' : due'[s] = due[s] /\ trigger'[s] = trigger[s]
      /\ sem > 0 => sem' > 0
  <2>1. CASE t \in Registered
    <3>1. /\ list' = Without(list, t) /\ trigger' = [trigger EXCEPT ![t] = 0]
          /\ due' = [due EXCEPT ![t] = 0] /\ t \in Elements(list)
          /\ sem' = IF sem < SemMax THEN sem + 1 ELSE sem
      BY <1>2, <2>1 DEF unregister_timer, Forget, Post
    <3>2. Elements(list') \subseteq Elements(list) \ {t}
      BY <1>2, <3>1, WithoutList
    <3>3. Registered' \subseteq Registered \ {t}
      BY <1>2, <3>2 DEF Registered, Elements
    <3>4. due \in [Timer -> Nat] /\ trigger \in [Timer -> Nat]
      BY DEF TimerInv, TypeOK
    <3>5. \A s \in Registered' : due'[s] = due[s] /\ trigger'[s] = trigger[s]
      BY <3>1, <3>3, <3>4, ClockTypes
    <3>6. sem > 0 => sem' > 0
      BY <3>1, ClockTypes
    <3> QED  BY <3>3, <3>5, <3>6
  <2>2. CASE t \notin Registered
    BY <2>2 DEF unregister_timer, Registered
  <2> QED  BY <2>1, <2>2
<1>4. Late => Late'
  BY <1>1, <1>3 DEF Late
<1>5. \A K \in Nat : ClockOK(K) => Dues(K)'
  BY <1>3 DEF ClockOK, Dues
<1> QED  BY <1>1, <1>4, <1>5, CallTime

\* A step of the task loop leaves the clock to update_now_time, too.
LEMMA LoopTime ==
  ASSUME TimerInv, TimeInv,
         real' = real, now' = now, prev' = prev, cur' = cur, sum' = sum, raced' = raced,
         call' = call, ready' = ready, list = <<>> => list' = <<>>,
         stage[TimerTask] \in {"idle", "sample", "done"}, stage'[TimerTask] \in {"idle", "sample"},
         \A q \in Task \ {TimerTask} : stage'[q] = stage[q],
         \A x \in Nat, K \in Nat : Fresh(x, K) => Fresh(x, K)',
         LoopStage', Waiting',
         ~raced => Late',
         \A K \in Nat : ~raced /\ ClockSet /\ ClockOK(K) => Dues(K)'
  PROVE  TimeInv'
<1>1. Boot'
  <2>1. \A q \in Task : Starts(q)' <=> Starts(q)
    BY DEF Starts
  <2> QED  BY <2>1 DEF TimeInv, Boot
<1>2. /\ OneUpdates => OneUpdates'
      /\ ClockSet' => ClockSet
      /\ \A K \in Nat : Kept(K) /\ Taken(K) /\ Read(K) => Kept(K)' /\ Taken(K)' /\ Read(K)'
  BY ClockTypes, ClockIdle
<1>3. ~raced' => OneUpdates' /\ Late'
  BY <1>2 DEF TimeInv
<1>4. ASSUME ~raced', ClockSet'
      PROVE  \E K \in Nat : ClockOK(K)'
  <2>1. ClockSet /\ ~raced
    BY <1>2, <1>4
  <2>2. PICK K \in Nat : ClockOK(K)
    BY <2>1 DEF TimeInv
  <2>3. Kept(K)' /\ Taken(K)' /\ Read(K)' /\ Dues(K)'
    BY <1>2, <2>1, <2>2 DEF ClockOK
  <2> QED  BY <2>2, <2>3 DEF ClockOK
<1> QED  BY <1>1, <1>3, <1>4 DEF TimeInv

\* The clock is exact when the task loop looks at it.
LEMMA FireTime ==
  ASSUME TimerInv, TimeInv, trigger_timers
  PROVE  TimeInv'
<1> DEFINE t == Head(list)
<1>1. /\ real' = real /\ now' = now /\ prev' = prev /\ cur' = cur /\ sum' = sum /\ raced' = raced
      /\ deadline' = deadline /\ ready' = ready /\ call' = call /\ sem' = sem
      /\ loop = "update" /\ loop' = "callback" /\ stage[TimerTask] = "done" /\ list # <<>>
  BY DEF trigger_timers, FirstDue
<1>2. stage'[TimerTask] = "idle" /\ \A q \in Task \ {TimerTask} : stage'[q] = stage[q]
  BY ClockTypes DEF trigger_timers
<1>3. /\ list \in Seq(Timer) /\ Distinct(list) /\ Registered = Elements(list)
      /\ t \in Timer /\ Elements(Tail(list)) \subseteq Elements(list) \ {t}
  <2>1. list \in Seq(Timer) /\ Distinct(list) /\ Registered = Elements(list)
    BY DEF TimerInv, TypeOK, Registered, Elements
  <2> QED  BY <1>1, <2>1, TailList
<1>4. \/ /\ list' = Tail(list)
         /\ trigger' = [trigger EXCEPT ![t] = 0] /\ due' = [due EXCEPT ![t] = 0]
      \/ /\ list' = list
         /\ trigger' = [trigger EXCEPT ![t] = now + duration[t]]
         /\ due' = [due EXCEPT ![t] = real + duration[t]]
  BY DEF trigger_timers, Forget
<1> HIDE DEF t
<1>5. /\ Registered' \subseteq Registered
      /\ \A s \in Registered' : \/ due'[s] = due[s] /\ trigger'[s] = trigger[s]
                                \/ due'[s] = real + duration[s] /\ trigger'[s] = now + duration[s]
  <2>1. due \in [Timer -> Nat] /\ trigger \in [Timer -> Nat]
    BY DEF TimerInv, TypeOK
  <2>2. CASE /\ list' = list
             /\ trigger' = [trigger EXCEPT ![t] = now + duration[t]]
             /\ due' = [due EXCEPT ![t] = real + duration[t]]
    <3>1. Registered' = Registered
      BY <2>2 DEF Registered
    <3> QED  BY <1>3, <2>1, <2>2, <3>1, ClockTypes
  <2>3. CASE /\ list' = Tail(list)
             /\ trigger' = [trigger EXCEPT ![t] = 0] /\ due' = [due EXCEPT ![t] = 0]
    <3>1. Registered' \subseteq Registered \ {t}
      BY <1>3, <2>3 DEF Registered, Elements
    <3> QED  BY <2>1, <2>3, <3>1, ClockTypes
  <2> QED  BY <1>4, <2>2, <2>3
<1>6. \A x \in Nat, K \in Nat : Fresh(x, K) => Fresh(x, K)'
  BY <1>1 DEF Fresh, AtWork
<1>7. LoopStage' /\ Waiting'
  BY <1>1 DEF LoopStage, Waiting
<1>8. ~raced => Late'
  <2> SUFFICES ASSUME Late, NEW s \in Registered' PROVE real <= due'[s] + WaitSome
    BY <1>1 DEF Late, TimeInv
  <2>1. s \in Registered /\ s \in Timer
    BY <1>5, ClockTypes
  <2>2. real <= due[s] + WaitSome /\ real <= real + duration[s] + WaitSome
    BY <2>1, ClockTypes, TimeConstants DEF Late
  <2> QED  BY <1>5, <2>2
<1>9. ASSUME NEW K \in Nat, ClockOK(K)
      PROVE  Dues(K)'
  <2>1. now + K = real
    BY <1>1, <1>9, ClockTypes DEF ClockOK, Read, Timed
  <2> SUFFICES ASSUME NEW s \in Registered' PROVE due'[s] = trigger'[s] + K
    BY DEF Dues
  <2>2. s \in Registered /\ s \in Timer
    BY <1>5, ClockTypes
  <2>3. due[s] = trigger[s] + K /\ real + duration[s] = now + duration[s] + K
    BY <1>9, <2>1, <2>2, ClockTypes DEF ClockOK, Dues
  <2> QED  BY <1>5, <2>3
<1> QED  BY <1>1, <1>2, <1>6, <1>7, <1>8, <1>9, LoopTime

LEMMA ReturnsTime ==
  ASSUME TimerInv, TimeInv, CallbackReturns
  PROVE  TimeInv'
<1>1. /\ real' = real /\ now' = now /\ prev' = prev /\ cur' = cur /\ sum' = sum /\ raced' = raced
      /\ deadline' = deadline /\ ready' = ready /\ call' = call /\ sem' = sem
      /\ trigger' = trigger /\ due' = due
      /\ loop = "callback" /\ loop' = "update" /\ stage[TimerTask] = "idle"
  BY DEF CallbackReturns, TimerInv, Control
<1>2. stage'[TimerTask] = "sample" /\ \A q \in Task \ {TimerTask} : stage'[q] = stage[q]
  BY ClockTypes DEF CallbackReturns
<1>3. list \in Seq(Timer) /\ list' \in Sorted(list, trigger) \cup {list}
  BY DEF CallbackReturns, TimerInv, TypeOK
<1>4. Registered' \subseteq Registered /\ (list = <<>> => list' = <<>>)
  <2>1. list' \in Seq(Timer) /\ Elements(list') \subseteq Elements(list)
    BY <1>3, SortedList
  <2>2. list = <<>> => list' = <<>>
    <3>1. SUFFICES ASSUME list = <<>> PROVE list' = <<>>
      OBVIOUS
    <3>2. ~(1 \in DOMAIN list')
      BY <2>1, <3>1 DEF Elements
    <3>3. Len(list') = 0
      BY <2>1, <3>2
    <3> QED  BY <2>1, <3>3, EmptySeq
  <2> QED  BY <2>1, <2>2 DEF Registered, Elements
<1>5. \A x \in Nat, K \in Nat : Fresh(x, K) => Fresh(x, K)'
  BY <1>1, <1>2, ClockTypes, TimeConstants DEF Fresh, AtWork
<1>6. LoopStage' /\ Waiting'
  BY <1>1 DEF LoopStage, Waiting
<1>7. ~raced => Late'
  BY <1>1, <1>4 DEF Late, TimeInv
<1>8. \A K \in Nat : ClockOK(K) => Dues(K)'
  BY <1>1, <1>4 DEF ClockOK, Dues
<1> QED  BY <1>1, <1>2, <1>4, <1>5, <1>6, <1>7, <1>8, LoopTime

\* Nothing is due: the first timer is not, and the list is in order.
LEMMA NothingTime ==
  ASSUME TimerInv, TimeInv, NothingDue
  PROVE  TimeInv'
<1>1. /\ real' = real /\ now' = now /\ prev' = prev /\ cur' = cur /\ sum' = sum /\ raced' = raced
      /\ deadline' = deadline /\ ready' = ready /\ call' = call /\ sem' = sem
      /\ list' = list /\ trigger' = trigger /\ due' = due
      /\ loop = "update" /\ loop' = "size" /\ stage[TimerTask] = "done" /\ ~FirstDue
  BY DEF NothingDue, timers
<1>2. stage'[TimerTask] = "idle" /\ \A q \in Task \ {TimerTask} : stage'[q] = stage[q]
  BY ClockTypes DEF NothingDue
<1>3. \A x \in Nat, K \in Nat : Fresh(x, K) => Fresh(x, K)'
  BY <1>1, <1>2 DEF Fresh, AtWork
<1>4. LoopStage' /\ Waiting'
  BY <1>1, <1>2 DEF LoopStage, Waiting
<1>5. ~raced => Late'
  <2> SUFFICES ASSUME ~raced, NEW t \in Registered PROVE real <= due[t] + WaitSome /\ real <= due[t]
    BY <1>1 DEF Late, Registered
  <2>1. PICK i \in DOMAIN list : t = list[i]
    BY DEF Registered
  <2>2. list \in Seq(Timer) /\ Ordered(list, trigger) /\ Head(list) = list[1] /\ 1 \in DOMAIN list
    <3>1. list \in Seq(Timer) /\ Ordered(list, trigger)
      BY <1>1 DEF TimerInv, TypeOK, InOrder
    <3> QED  BY <2>1, <3>1
  <2>3. list[1] \in Timer /\ t \in Timer /\ trigger[list[1]] > now
    <3>1. list[1] \in Timer /\ t \in Timer
      BY <2>1, <2>2
    <3>2. ~(trigger[list[1]] <= now)
      BY <1>1, <2>2 DEF FirstDue
    <3> QED  BY <3>1, <3>2, ClockTypes
  <2>4. trigger[list[1]] <= trigger[t]
    <3>1. i = 1 \/ 1 < i
      BY <2>1, <2>2
    <3> QED  BY <2>1, <2>2, <2>3, <3>1, ClockTypes DEF Ordered
  <2>5. ClockSet
    <3>1. list # <<>>
      BY <2>1
    <3> QED  BY <3>1 DEF TimeInv, Boot, ClockSet, Starts
  <2>6. PICK K \in Nat : ClockOK(K)
    BY <2>5 DEF TimeInv
  <2>7. now + K = real /\ due[t] = trigger[t] + K
    BY <1>1, <2>6, ClockTypes DEF ClockOK, Read, Timed, Dues
  <2> QED  BY <2>3, <2>4, <2>6, <2>7, ClockTypes, TimeConstants
<1>6. \A K \in Nat : ClockOK(K) => Dues(K)'
  BY <1>1 DEF ClockOK, Dues, Registered
<1> QED  BY <1>1, <1>2, <1>3, <1>4, <1>5, <1>6, LoopTime

LEMMA ReadSizeTime ==
  ASSUME TimerInv, TimeInv, ReadSize
  PROVE  TimeInv'
<1>1. /\ real' = real /\ now' = now /\ prev' = prev /\ cur' = cur /\ sum' = sum /\ raced' = raced
      /\ ready' = ready /\ call' = call /\ sem' = sem /\ stage' = stage
      /\ list' = list /\ trigger' = trigger /\ due' = due
      /\ loop = "size" /\ loop' = "wait"
      /\ deadline' = real + IF Len(list) > 0 THEN WaitSome ELSE WaitNone
  BY DEF ReadSize, clock, timers
<1>2. stage[TimerTask] = "idle"
  BY <1>1 DEF TimeInv, LoopStage
<1>3. deadline' = real + WaitSome \/ deadline' = real + WaitNone
  BY <1>1
<1>4. \A x \in Nat, K \in Nat : Fresh(x, K) => Fresh(x, K)'
  <2> SUFFICES ASSUME NEW x \in Nat, NEW K \in Nat, Fresh(x, K)
               PROVE  deadline' < x + K + ClockRange
    BY <1>1 DEF Fresh, AtWork
  <2>1. x + K = real
    BY <1>1 DEF Fresh, AtWork
  <2> QED  BY <1>3, <2>1, ClockTypes, TimeConstants
<1>5. LoopStage' /\ Waiting'
  <2>1. /\ real <= deadline'
        /\ deadline' <= real + WaitSome \/ deadline' <= real + WaitNone
    BY <1>3, ClockTypes, TimeConstants
  <2> QED  BY <1>1, <1>2, <2>1 DEF LoopStage, Waiting
<1>6. ~raced => Late'
  <2> SUFFICES ASSUME Late, NEW t \in Registered
               PROVE  real <= due[t] + WaitSome /\ deadline' <= due[t] + WaitSome
    BY <1>1 DEF Late, TimeInv, Registered
  <2>1. Len(list) > 0
    BY DEF TimerInv, TypeOK, Registered
  <2>2. deadline' = real + WaitSome
    BY <1>1, <2>1
  <2>3. real <= due[t]
    BY <1>1 DEF Late
  <2> QED  BY <2>2, <2>3, ClockTypes, TimeConstants
<1>7. \A K \in Nat : ClockOK(K) => Dues(K)'
  BY <1>1 DEF ClockOK, Dues, Registered
<1> QED  BY <1>1, <1>2, <1>4, <1>5, <1>6, <1>7, LoopTime

LEMMA WaitEndsTime ==
  ASSUME TimerInv, TimeInv, WaitEnds
  PROVE  TimeInv'
<1>1. /\ real' = real /\ now' = now /\ prev' = prev /\ cur' = cur /\ sum' = sum /\ raced' = raced
      /\ ready' = ready /\ call' = call
      /\ list' = list /\ trigger' = trigger /\ due' = due
      /\ loop = "wait" /\ loop' = "update" /\ stage[TimerTask] = "idle"
  BY DEF WaitEnds, timers, TimeInv, LoopStage
<1>2. stage'[TimerTask] = "sample" /\ \A q \in Task \ {TimerTask} : stage'[q] = stage[q]
  BY ClockTypes DEF WaitEnds
<1>3. \A x \in Nat, K \in Nat : Fresh(x, K) => Fresh(x, K)'
  <2> SUFFICES ASSUME NEW x \in Nat, NEW K \in Nat, Fresh(x, K)
               PROVE  real < x + K + ClockRange
    BY <1>1, <1>2 DEF Fresh, AtWork
  <2> QED  BY Recent DEF TimeInv
<1>4. LoopStage' /\ Waiting'
  BY <1>1 DEF LoopStage, Waiting
<1>5. ~raced => Late'
  BY <1>1 DEF Late, TimeInv, Registered
<1>6. \A K \in Nat : ClockOK(K) => Dues(K)'
  BY <1>1 DEF ClockOK, Dues, Registered
<1> QED  BY <1>1, <1>2, <1>3, <1>4, <1>5, <1>6, LoopTime

\* Time passes when nobody is between a sample and its use.
LEMMA TickTime ==
  ASSUME TimerInv, TimeInv, Tick
  PROVE  TimeInv'
<1>1. /\ real' = real + 1 /\ now' = now /\ prev' = prev /\ cur' = cur /\ sum' = sum /\ raced' = raced
      /\ ready' = ready /\ call' = call /\ stage' = stage /\ sem' = sem
      /\ list' = list /\ trigger' = trigger /\ due' = due /\ deadline' = deadline
      /\ loop = "wait" /\ loop' = "wait" /\ mutex = Nobody /\ sem = 0 /\ real < deadline
  BY DEF Tick, clock, timers, taskLoop
<1>2. \A p \in Task : Timed(p) => stage[p] = "idle"
  BY <1>1, TimerAssumption DEF Timed, TimerInv, Control, Busy
<1>3. \A p \in Task : /\ Timed(p)' <=> Timed(p)
                      /\ Told(p)' = Told(p) /\ (Updating(p)' <=> Updating(p))
                      /\ Starts(p)' <=> Starts(p)
  BY <1>1 DEF Timed, Told, Elapsed, Updating, Starts
<1>4. Boot' /\ LoopStage'
  BY <1>1, <1>3 DEF TimeInv, Boot, LoopStage
<1>5. Waiting'
  <2>1. /\ real + 1 <= deadline
        /\ deadline <= real + 1 + WaitSome \/ deadline <= real + 1 + WaitNone
    BY <1>1, ClockTypes, TimeConstants DEF TimeInv, Waiting
  <2> QED  BY <1>1, <2>1 DEF Waiting
<1>6. ~raced' => OneUpdates' /\ Late'
  <2>1. OneUpdates => OneUpdates'
    BY <1>1, <1>3 DEF OneUpdates
  <2>2. Late => Late'
    <3> SUFFICES ASSUME Late, NEW t \in Registered
                 PROVE  real + 1 <= due[t] + WaitSome /\ deadline <= due[t] + WaitSome
      BY <1>1 DEF Late, Registered
    <3>1. deadline <= due[t] + WaitSome
      BY <1>1 DEF Late
    <3> QED  BY <1>1, <3>1, ClockTypes, TimeConstants
  <2> QED  BY <1>1, <2>1, <2>2 DEF TimeInv
<1>7. ASSUME ~raced', ClockSet'
      PROVE  \E K \in Nat : ClockOK(K)'
  <2>1. PICK K \in Nat : ClockOK(K)
    BY <1>1, <1>7 DEF TimeInv, ClockSet
  <2>2. \A x \in Nat : x + K <= real => x + K <= real + 1
    BY <2>1, ClockTypes
  <2>3. Kept(K)'
    BY <1>1, <2>1, <2>2, ClockTypes DEF ClockOK, Kept
  <2>4. Taken(K)'
    <3> SUFFICES ASSUME NEW p \in Task, Updating(p)'
                 PROVE  /\ now' <= Told(p)' /\ Told(p)' + K <= real'
                        /\ cur'[p] = (Told(p)' + K) % ClockRange
                        /\ Fresh(Told(p), K)'
                        /\ Timed(p)' => Told(p)' + K = real'
      BY DEF Taken
    <3>1. /\ now <= Told(p) /\ Told(p) + K <= real
          /\ cur[p] = (Told(p) + K) % ClockRange /\ Fresh(Told(p), K)
      BY <1>3, <2>1 DEF ClockOK, Taken
    <3>2. ~Timed(p)'
      BY <1>2, <1>3 DEF Updating
    <3>3. Fresh(Told(p), K)'
      BY <1>1, <1>3, <3>1 DEF Fresh, AtWork
    <3> QED  BY <1>1, <1>3, <2>2, <3>1, <3>2, <3>3, ClockTypes
  <2>5. Read(K)'
    <3>1. (\A p \in Task : ~Updating(p))' => Fresh(now, K)'
      BY <1>1, <1>3, <2>1 DEF ClockOK, Read, Fresh, AtWork
    <3>2. \A p \in Task : ~(Timed(p)' /\ stage'[p] = "done")
      BY <1>1, <1>2, <1>3
    <3> QED  BY <3>1, <3>2 DEF Read
  <2>6. Dues(K)'
    BY <1>1, <2>1 DEF ClockOK, Dues, Registered
  <2> QED  BY <2>1, <2>3, <2>4, <2>5, <2>6 DEF ClockOK
<1> QED  BY <1>4, <1>5, <1>6, <1>7 DEF TimeInv

LEMMA InitTime ==
  Init => TimeInv
<1> SUFFICES ASSUME Init PROVE TimeInv
  OBVIOUS
<1>1. PICK u \in User : stage = [p \in Task |-> IF p = TimerTask THEN "sample"
                                               ELSE IF p = u THEN "init" ELSE "idle"]
  BY DEF Init
<1>2. u \in Task /\ u # TimerTask /\ stage[u] = "init" /\ TimerTask \in Task
  BY <1>1, TimerAssumption DEF Task
<1>3. \A p \in Task : p # u => stage[p] \in {"sample", "idle"}
  BY <1>1
<1>4. Boot
  <2>1. \A p \in Task : Starts(p) => p = u
    BY <1>3 DEF Starts
  <2> QED  BY <1>2, <2>1 DEF Init, Boot
<1>5. LoopStage /\ Waiting
  BY DEF Init, LoopStage, Waiting
<1>6. OneUpdates /\ Late
  <2>1. \A p \in Task : ~Updating(p) /\ stage[p] # "init_prev"
    BY <1>2, <1>3 DEF Updating
  <2> QED  BY <2>1 DEF OneUpdates, Late, Registered, Init
<1>7. ~ClockSet
  BY <1>2 DEF ClockSet
<1> QED  BY <1>4, <1>5, <1>6, <1>7 DEF TimeInv

LEMMA StepTime ==
  TimerInv /\ TimeInv /\ [Next]_vars => TimeInv'
<1> SUFFICES ASSUME TimerInv, TimeInv, [Next]_vars PROVE TimeInv'
  OBVIOUS
<1>1. CASE UNCHANGED vars
  <2>1. /\ real' = real /\ now' = now /\ prev' = prev /\ stage' = stage /\ cur' = cur
        /\ sum' = sum /\ raced' = raced /\ list' = list /\ trigger' = trigger /\ due' = due
        /\ loop' = loop /\ deadline' = deadline /\ sem' = sem /\ call' = call /\ ready' = ready
    BY <1>1 DEF vars, clock, timers, taskLoop
  <2> QED
    BY <2>1 DEF TimeInv, Boot, Starts, LoopStage, Waiting, OneUpdates, Updating, Late, Registered,
       ClockSet, ClockOK, Kept, Taken, Told, Elapsed, Read, Timed, Fresh, AtWork, Dues
<1>2. CASE Next
  <2>1. ASSUME NEW p \in Task, update_now_time(p) \/ InitializeNow(p) \/ InitializePrev(p)
        PROVE  TimeInv'
    BY <2>1, SampleTime, AddTime, StoreNowTime, StorePrevTime, InitializeNowTime, InitializePrevTime
       DEF update_now_time
  <2>2. ASSUME NEW p \in Task,
               \/ get_system_time(p) \/ ReturnTime(p)
               \/ \E t \in Timer : register_timer(p, t) \/ unregister_timer(p, t)
               \/ \E t \in Timer, d \in Duration : SetDuration(p, t, d)
               \/ reset_timer(p) \/ Arm(p)
        PROVE  TimeInv'
    BY <2>2, ReadTimes, RegisterTime, UnregisterTime, RestartTime, ArmTime
  <2>3. CASE trigger_timers \/ CallbackReturns \/ NothingDue \/ ReadSize \/ WaitEnds \/ Tick
    BY <2>3, FireTime, ReturnsTime, NothingTime, ReadSizeTime, WaitEndsTime, TickTime
  <2> QED  BY <1>2, <2>1, <2>2, <2>3 DEF Next
<1> QED  BY <1>1, <1>2

LEMMA TimeInvariant ==
  Spec => [](TimerInv /\ TimeInv)
<1>1. Spec => []TimeInv
  <2>1. TimerInv /\ TimerInv' /\ TimeInv /\ [Next]_vars => TimeInv'
    BY StepTime
  <2> QED  BY <2>1, InitTime, TimerInvariant, PTL DEF Spec
<1> QED  BY <1>1, TimerInvariant, PTL

\* Unless two updates of the clock have overlapped, no timer waits for longer
\* than the task loop does after the timer was due, however the platform's
\* clock has wrapped and whatever users and callbacks did to the list.
THEOREM TimerNotLate ==
  Spec => []NotLate
<1>1. TimeInv => NotLate
  BY DEF TimeInv, Late, NotLate
<1> QED  BY <1>1, TimeInvariant, PTL

\* Unless two updates of the clock have overlapped, trigger_timers fires no
\* timer before its duration has passed.
THEOREM TimerNotEarly ==
  Spec => NotEarly
<1> DEFINE Step == \A t \in Timer : firing # t /\ firing' = t /\ ~raced => real >= due[t]
<1>1. ASSUME TimerInv, TimeInv, Next
      PROVE  Step
  <2> SUFFICES ASSUME NEW t \in Timer, firing # t, firing' = t, ~raced
               PROVE  real >= due[t]
    OBVIOUS
  <2>1. trigger_timers
    <3>1. t # NoTimer
      BY TimerAssumption
    <3> QED
      BY <1>1, <3>1 DEF Next, update_now_time, Sample, Add, StoreNow, StorePrev, InitializeNow,
         InitializePrev, get_system_time, ReturnTime, register_timer, unregister_timer, SetDuration,
         reset_timer, Arm, CallbackReturns, NothingDue, ReadSize, WaitEnds, Tick, taskLoop
  <2>2. /\ loop = "update" /\ stage[TimerTask] = "done" /\ list # <<>>
        /\ t = Head(list) /\ trigger[t] <= now
    BY <2>1 DEF trigger_timers, FirstDue
  <2>3. t \in Registered
    BY <1>1, <2>2 DEF TimerInv, TypeOK, Registered
  <2>4. ClockSet
    BY <1>1, <2>2 DEF TimeInv, Boot, ClockSet, Starts
  <2>5. PICK K \in Nat : ClockOK(K)
    BY <1>1, <2>4 DEF TimeInv
  <2>6. now + K = real /\ due[t] = trigger[t] + K
    BY <1>1, <2>2, <2>3, <2>5, ClockTypes DEF ClockOK, Read, Timed, Dues
  <2> QED  BY <1>1, <2>2, <2>5, <2>6, ClockTypes
<1>2. TimerInv /\ TimeInv /\ [Next]_vars => [Step]_vars
  BY <1>1
<1> QED  BY <1>2, TimeInvariant, PTL DEF Spec, NotEarly
===============================================================================
