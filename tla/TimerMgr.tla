------------------------------- MODULE TimerMgr ------------------------------
(***************************************************************************)
(* The timer manager (OsalTimerMgr.cpp, OsalTimer.cpp): a sorted list of   *)
(* running timers, a task that fires the first one when it is due, and a   *)
(* clock of 64 bits kept from the 32-bit clock of the platform.            *)
(*                                                                         *)
(* _list_mutex guards the list, and trigger_timers holds it while it calls *)
(* back; the mutex is recursive, so that a callback may use timers.  The   *)
(* clock has no guard: update_now_time runs with the mutex in start and    *)
(* restart, without it in the task loop and in get_system_time, so each of *)
(* its loads and stores is a step of its own.                              *)
(***************************************************************************)
EXTENDS Integers, Sequences, FiniteSets

CONSTANTS
  Timer,        \* the OsalTimer objects
  OneShot,      \* those made with is_one_shot
  Duration,     \* the durations they are started with
  User,         \* the threads that use timers
  TimerTask,    \* the thread of the timer manager
  Nobody, NoTimer,
  ClockRange,   \* 2^32: where the clock of the platform wraps
  StartTime,    \* the time at which the timer manager is initialised
  WaitSome,     \* the wait of the task loop when there are timers: 1000 ms
  WaitNone,     \* ... and when there are none: 10000 ms
  SemMax,       \* OSAL_TIMER_MGR_MAX_TIMERS
  MaxTime       \* bound: the time at which the model ends

Task == User \cup {TimerTask}

ASSUME TimerAssumption ==
  /\ OneShot \subseteq Timer
  /\ Duration \subseteq Nat
  /\ ClockRange \in Nat \ {0}
  /\ {StartTime, WaitSome, WaitNone, SemMax, MaxTime} \subseteq Nat
  /\ SemMax # 0                                          \* 10
  /\ WaitSome < ClockRange /\ WaitNone < ClockRange     \* seconds in an hour
  /\ TimerTask \notin User
  /\ Nobody \notin Task
  /\ NoTimer \notin Timer

VARIABLES
  real,         \* the time
  now, prev,    \* _now_time_us, _prev_time_us
  stage,        \* where each task is in update_now_time, or in initialize
  cur, sum,     \* the values it has computed there
  list,         \* _timers_list
  trigger,      \* _trigger_time_us of each timer
  duration,     \* _duration_us of each timer
  mutex,        \* the owner of _list_mutex
  sem,          \* the count of _queue_sem
  loop,         \* where the timer task is
  deadline,     \* when its wait ends
  firing,       \* the timer whose callback runs
  call,         \* the call each task has under way
  ready,        \* initialize has returned
  raced,        \* history: two updates of the clock have overlapped
  due,          \* history: when each timer has to fire
  quiet         \* history: timers stopped by a user and not started since

clock == <<now, prev, stage, cur, sum, raced>>
timers == <<list, trigger, duration, due, quiet>>
taskLoop == <<loop, deadline, firing>>
vars == <<real, clock, timers, taskLoop, mutex, sem, call, ready>>

NoCall == [op |-> "none", timer |-> NoTimer]
Call(op, t) == [op |-> op, timer |-> t]

Stages == {"idle", "sample", "sum", "store", "keep", "done", "init", "init_prev"}

\* Post fails once the semaphore has reached its limit; nobody looks.
\* Mutant: the semaphore counts without end.
PostUnbounded == sem' = sem + 1

Post == sem' = IF sem < SemMax THEN sem + 1 ELSE sem

-------------------------------------------------------------------------------
(* The clock.                                                              *)

\* Mutant: the difference is not taken in 32 bits.
ElapsedUnwrapped(c, p) == c - p

Elapsed(c, p) == (c - p) % ClockRange

Overlap(p) == \E q \in Task \ {p} : stage[q] \in {"sum", "store", "keep", "init_prev"}

\* Bound: updates overlap in one period of the behaviour only.
Sample(p) ==
  /\ stage[p] = "sample"
  /\ Overlap(p) => ~raced
  /\ cur' = [cur EXCEPT ![p] = real % ClockRange]
  /\ stage' = [stage EXCEPT ![p] = "sum"]
  /\ raced' = (raced \/ Overlap(p))
  /\ UNCHANGED <<real, now, prev, sum, timers, taskLoop, mutex, sem, call, ready>>

Add(p) ==
  /\ stage[p] = "sum"
  /\ sum' = [sum EXCEPT ![p] = now + Elapsed(cur[p], prev)]
  /\ stage' = [stage EXCEPT ![p] = "store"]
  /\ UNCHANGED <<real, now, prev, cur, raced, timers, taskLoop, mutex, sem, call, ready>>

StoreNow(p) ==
  /\ stage[p] = "store"
  /\ now' = sum[p]
  /\ sum' = [sum EXCEPT ![p] = 0]
  /\ stage' = [stage EXCEPT ![p] = "keep"]
  /\ UNCHANGED <<real, prev, cur, raced, timers, taskLoop, mutex, sem, call, ready>>

\* Mutant: the time of the update is forgotten.
StorePrevLost(p) ==
  /\ stage[p] = "keep"
  /\ stage' = [stage EXCEPT ![p] = "done"]
  /\ UNCHANGED <<real, now, prev, cur, sum, raced, timers, taskLoop, mutex, sem, call, ready>>

StorePrev(p) ==
  /\ stage[p] = "keep"
  /\ prev' = cur[p]
  /\ cur' = [cur EXCEPT ![p] = 0]
  /\ stage' = [stage EXCEPT ![p] = "done"]
  /\ UNCHANGED <<real, now, sum, raced, timers, taskLoop, mutex, sem, call, ready>>

update_now_time(p) == Sample(p) \/ Add(p) \/ StoreNow(p) \/ StorePrev(p)

\* initialize sets the clock when the timer task already runs.
InitializeNow(p) ==
  /\ stage[p] = "init"
  /\ Overlap(p) => ~raced
  /\ now' = real % ClockRange
  /\ stage' = [stage EXCEPT ![p] = "init_prev"]
  /\ raced' = (raced \/ Overlap(p))
  /\ UNCHANGED <<real, prev, cur, sum, timers, taskLoop, mutex, sem, call, ready>>

InitializePrev(p) ==
  /\ stage[p] = "init_prev"
  /\ prev' = now % ClockRange
  /\ stage' = [stage EXCEPT ![p] = "idle"]
  /\ ready' = TRUE
  /\ UNCHANGED <<real, now, cur, sum, raced, timers, taskLoop, mutex, sem, call>>

-------------------------------------------------------------------------------
(* The calls of users, and of callbacks.                                   *)

CanCall(p) ==
  /\ ready
  /\ call[p] = NoCall
  /\ stage[p] = "idle"
  /\ p = TimerTask => loop = "callback"

\* The mutex is recursive: a callback already has it.
CanLock(p) == mutex \in {Nobody, p}
InCallback(p) == p = TimerTask
Release(p) == mutex' = IF InCallback(p) THEN p ELSE Nobody

Registered == {list[i] : i \in DOMAIN list}
Ordered(s, key) == \A i, j \in DOMAIN s : i < j => key[s[i]] <= key[s[j]]

\* std::sort: any permutation that is in order.
Sorted(s, key) ==
  {r \in [DOMAIN s -> {s[i] : i \in DOMAIN s}] :
     /\ Ordered(r, key)
     /\ \E f \in [DOMAIN s -> DOMAIN s] :
          /\ \A i, j \in DOMAIN s : f[i] = f[j] => i = j
          /\ \A i \in DOMAIN s : r[i] = s[f[i]]}

\* get_system_time: only the update of the clock.
get_system_time(p) ==
  /\ CanCall(p)
  /\ call' = [call EXCEPT ![p] = Call("read", NoTimer)]
  /\ stage' = [stage EXCEPT ![p] = "sample"]
  /\ UNCHANGED <<real, now, prev, cur, sum, raced, timers, taskLoop, mutex, sem, ready>>

ReturnTime(p) ==
  /\ call[p].op = "read"
  /\ stage[p] = "done"
  /\ call' = [call EXCEPT ![p] = NoCall]
  /\ stage' = [stage EXCEPT ![p] = "idle"]
  /\ UNCHANGED <<real, now, prev, cur, sum, raced, timers, taskLoop, mutex, sem, ready>>

\* start.  Callers start a timer only when it is not running.
register_timer(p, t) ==
  /\ CanCall(p)
  /\ CanLock(p)
  /\ t \notin Registered
  /\ mutex' = p
  /\ call' = [call EXCEPT ![p] = Call("start", t)]
  /\ stage' = [stage EXCEPT ![p] = "sample"]
  /\ quiet' = quiet \ {t}
  /\ UNCHANGED <<real, now, prev, cur, sum, raced, list, trigger, duration, due, taskLoop, sem, ready>>

\* restart writes the duration before it has the mutex.
SetDuration(p, t, d) ==
  /\ CanCall(p)
  /\ call' = [call EXCEPT ![p] = Call("restart", t)]
  /\ duration' = [duration EXCEPT ![t] = d]
  /\ UNCHANGED <<real, clock, list, trigger, due, quiet, taskLoop, mutex, sem, ready>>

reset_timer(p) ==
  /\ call[p].op = "restart"
  /\ stage[p] = "idle"
  /\ CanLock(p)
  /\ LET t == call[p].timer IN
       IF t \in Registered
       THEN /\ mutex' = p
            /\ stage' = [stage EXCEPT ![p] = "sample"]
            /\ UNCHANGED call
       ELSE /\ call' = [call EXCEPT ![p] = NoCall]
            /\ UNCHANGED <<mutex, stage>>
  /\ UNCHANGED <<real, now, prev, cur, sum, raced, timers, taskLoop, sem, ready>>

\* The end of start and of restart, when the clock is up to date.
Arm(p) ==
  /\ call[p].op \in {"start", "restart"}
  /\ stage[p] = "done"
  /\ LET t == call[p].timer IN
       /\ trigger' = [trigger EXCEPT ![t] = now + duration[t]]
       /\ list' \in Sorted(IF call[p].op = "start" THEN Append(list, t) ELSE list, trigger')
       /\ due' = [due EXCEPT ![t] = real + duration[t]]
  /\ Post
  /\ Release(p)
  /\ call' = [call EXCEPT ![p] = NoCall]
  /\ stage' = [stage EXCEPT ![p] = "idle"]
  /\ UNCHANGED <<real, now, prev, cur, sum, raced, duration, quiet, taskLoop, ready>>

\* The list without the first occurrence of t.
Without(s, t) ==
  LET first == CHOOSE i \in DOMAIN s : s[i] = t /\ \A j \in 1..(i - 1) : s[j] # t
  IN  [i \in 1..(Len(s) - 1) |-> IF i < first THEN s[i] ELSE s[i + 1]]

\* Nobody reads the time of a timer that is not in the list, and start sets
\* it: the model clears it, to have fewer states.
Forget(t) ==
  /\ trigger' = [trigger EXCEPT ![t] = 0]
  /\ due' = [due EXCEPT ![t] = 0]

\* stop, which the destructor of a timer calls too.
unregister_timer(p, t) ==
  /\ CanCall(p)
  /\ CanLock(p)
  /\ IF t \in Registered
     THEN list' = Without(list, t) /\ Forget(t) /\ Post
     ELSE UNCHANGED <<list, trigger, due, sem>>
  /\ quiet' = IF InCallback(p) THEN quiet ELSE quiet \cup {t}
  /\ UNCHANGED <<real, clock, duration, taskLoop, mutex, call, ready>>

-------------------------------------------------------------------------------
(* The task loop.                                                          *)

FirstDue == list # <<>> /\ trigger[Head(list)] <= now

\* Mutant: the callback runs without the mutex.
FireUnlocked == mutex' = Nobody

HoldMutex == mutex' = TimerTask

trigger_timers ==
  /\ loop = "update"
  /\ stage[TimerTask] = "done"
  /\ mutex = Nobody
  /\ FirstDue
  /\ LET t == Head(list) IN
       /\ firing' = t
       /\ IF t \in OneShot
          THEN list' = Tail(list) /\ Forget(t)
          ELSE /\ trigger' = [trigger EXCEPT ![t] = now + duration[t]]
               /\ due' = [due EXCEPT ![t] = real + duration[t]]
               /\ UNCHANGED list
  /\ HoldMutex
  /\ loop' = "callback"
  /\ stage' = [stage EXCEPT ![TimerTask] = "idle"]
  /\ UNCHANGED <<real, now, prev, cur, sum, raced, duration, quiet, deadline, sem, call, ready>>

\* Mutant: the list is left as it was when the timer fired.
CallbackReturnsUnsorted ==
  /\ loop = "callback"
  /\ call[TimerTask] = NoCall
  /\ firing' = NoTimer
  /\ mutex' = Nobody
  /\ loop' = "update"
  /\ stage' = [stage EXCEPT ![TimerTask] = "sample"]
  /\ UNCHANGED <<real, now, prev, cur, sum, raced, timers, deadline, sem, call, ready>>

CallbackReturns ==
  /\ loop = "callback"
  /\ call[TimerTask] = NoCall
  /\ IF firing \in OneShot THEN UNCHANGED list ELSE list' \in Sorted(list, trigger)
  /\ firing' = NoTimer
  /\ mutex' = Nobody
  /\ loop' = "update"
  /\ stage' = [stage EXCEPT ![TimerTask] = "sample"]
  /\ UNCHANGED <<real, now, prev, cur, sum, raced, trigger, duration, due, quiet, deadline, sem, call, ready>>

NothingDue ==
  /\ loop = "update"
  /\ stage[TimerTask] = "done"
  /\ mutex = Nobody
  /\ ~FirstDue
  /\ loop' = "size"
  /\ stage' = [stage EXCEPT ![TimerTask] = "idle"]
  /\ UNCHANGED <<real, now, prev, cur, sum, raced, timers, deadline, firing, mutex, sem, call, ready>>

\* The size of the list is read without the mutex.
ReadSize ==
  /\ loop = "size"
  /\ loop' = "wait"
  /\ deadline' = real + IF Len(list) > 0 THEN WaitSome ELSE WaitNone
  /\ UNCHANGED <<real, clock, timers, firing, mutex, sem, call, ready>>

WaitEnds ==
  /\ loop = "wait"
  /\ \/ sem > 0 /\ sem' = sem - 1
     \/ sem = 0 /\ real >= deadline /\ UNCHANGED sem
  /\ loop' = "update"
  /\ deadline' = 0
  /\ stage' = [stage EXCEPT ![TimerTask] = "sample"]
  /\ UNCHANGED <<real, now, prev, cur, sum, raced, timers, firing, mutex, call, ready>>

\* Time passes only when the timer task has nothing to do, and nobody keeps
\* it from the list: its own steps take no time that counts.
Tick ==
  /\ real < MaxTime
  /\ mutex = Nobody
  /\ loop = "wait" /\ sem = 0 /\ real < deadline
  /\ real' = real + 1
  /\ UNCHANGED <<clock, timers, taskLoop, mutex, sem, call, ready>>

-------------------------------------------------------------------------------
(* initialize has started the timer task and not yet set the clock.        *)
Init ==
  /\ real = StartTime
  /\ now = 0 /\ prev = 0
  /\ cur = [p \in Task |-> 0] /\ sum = [p \in Task |-> 0]
  /\ \E u \in User :
       stage = [p \in Task |-> IF p = TimerTask THEN "sample"
                               ELSE IF p = u THEN "init" ELSE "idle"]
  /\ list = <<>>
  /\ trigger = [t \in Timer |-> 0]
  /\ duration \in [Timer -> Duration]
  /\ mutex = Nobody
  /\ sem = 0
  /\ loop = "update" /\ deadline = 0 /\ firing = NoTimer
  /\ call = [p \in Task |-> NoCall]
  /\ ready = FALSE
  /\ raced = FALSE
  /\ due = [t \in Timer |-> 0]
  /\ quiet = {}

Next ==
  \/ \E p \in Task :
       \/ update_now_time(p)
       \/ InitializeNow(p) \/ InitializePrev(p)
       \/ get_system_time(p) \/ ReturnTime(p)
       \/ \E t \in Timer : register_timer(p, t) \/ unregister_timer(p, t)
       \/ \E t \in Timer, d \in Duration : SetDuration(p, t, d)
       \/ reset_timer(p) \/ Arm(p)
  \/ trigger_timers \/ CallbackReturns \/ NothingDue \/ ReadSize \/ WaitEnds
  \/ Tick

Spec == Init /\ [][Next]_vars

-------------------------------------------------------------------------------
(* Properties.                                                             *)

\* Every variable has its type, and the semaphore keeps its limit.
TypeOK ==
  /\ real \in Nat /\ now \in Nat /\ prev \in 0..(ClockRange - 1)
  /\ stage \in [Task -> Stages]
  /\ cur \in [Task -> 0..(ClockRange - 1)] /\ sum \in [Task -> Nat]
  /\ list \in Seq(Timer)
  /\ trigger \in [Timer -> Nat] /\ duration \in [Timer -> Nat] /\ due \in [Timer -> Nat]
  /\ mutex \in Task \cup {Nobody}
  /\ sem \in 0..SemMax
  /\ loop \in {"update", "callback", "size", "wait"}
  /\ deadline \in Nat
  /\ firing \in Timer \cup {NoTimer}
  /\ call \in [Task -> [op : {"none", "read", "start", "restart"}, timer : Timer \cup {NoTimer}]]
  /\ ready \in BOOLEAN /\ raced \in BOOLEAN
  /\ quiet \subseteq Timer

\* Whoever gets the mutex finds each timer once, in the order in which they
\* have to fire: trigger_timers looks at the first one only.
ListInOrder ==
  mutex = Nobody =>
    /\ Ordered(list, trigger)
    /\ \A i, j \in DOMAIN list : list[i] = list[j] => i = j

\* When stop has returned to a thread, the callback does not run any more, and
\* does not run again: the owner may free the timer and what the callback uses.
StopIsFinal == \A t \in quiet : firing # t /\ t \notin Registered

\* Unless two updates of the clock overlap, no timer fires before its time.
NotEarly ==
  [][\A t \in Timer : firing # t /\ firing' = t /\ ~raced => real >= due[t]]_vars

\* Unless two updates of the clock overlap, a timer fires at most the wait of
\* the task loop after its time.
NotLate ==
  ~raced => \A t \in Registered : mutex = Nobody => real <= due[t] + WaitSome
===============================================================================
