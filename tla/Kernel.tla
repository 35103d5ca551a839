------------------------------- MODULE Kernel -------------------------------
(***************************************************************************)
(* The part of the NuttX kernel that the feeder waits on: the lists of     *)
(* tasks of a fixed-priority scheduler on one processor, counting          *)
(* semaphores, sleeping in sigtimedwait, the watchdog timers that end a    *)
(* sleep or a timed wait, and signals.                                     *)
(*                                                                         *)
(* A task that has called up_block_task with interrupts disabled continues *)
(* behind that call, still with interrupts disabled, when it is next at    *)
(* the head of the ready list.  The processor takes interrupts in all      *)
(* other states; the timer interrupt is several steps long.                *)
(***************************************************************************)
EXTENDS Integers, Sequences, FiniteSets, FiniteSetsExt

CONSTANTS Tasks,       \* the tasks besides the idle task
          Idle,        \* the idle task: always ready, never waits
          Priority,    \* the priority of each task; Idle has the lowest
          RoundRobin,  \* the tasks of policy SCHED_RR; the others are SCHED_FIFO
          Mutexes,     \* semaphores that start at 1 and are posted by the taker
          Events,      \* semaphores that start at 0 and interrupts post
          Users,       \* the tasks that wait for each semaphore
          Killers,     \* the tasks that send signals
          Poll,        \* the watchdog of the running Ethernet driver, which
                       \* restarts itself
          PollDelay,   \* its delay in ticks
          Delays,      \* the sleeps and timed waits of each task in ticks
          MaxCount,    \* bound on the count of an event semaphore
          None

VARIABLES ready,       \* g_readytorun: its head is the running task
          pending,     \* g_pendingtasks: made ready while the scheduler is locked
          semwait,     \* g_waitingforsemaphore
          sigwait,     \* g_waitingforsignal
          lockcount,   \* lockcount of each task
          pc,          \* where each task is inside a kernel call
          asked,       \* the semaphore that the call of each task is about
          waitsem,     \* waitsem: the semaphore each task is blocked on
          errno,       \* how the last wait of each task ended
          count,       \* semcount of each semaphore
          holds,       \* history: the mutexes each task has taken
          wdlist,      \* g_wdactivelist, with lags relative to the predecessor
          isr,         \* the processor is in the timer interrupt
          want,        \* history: the ticks the present wait of a task asked for
          passed       \* history: the ticks since then, up to two more than asked

lists == <<ready, pending>>
waits == <<semwait, sigwait, waitsem, errno>>
clock == <<want, passed>>
vars == <<lists, waits, lockcount, pc, asked, count, holds, wdlist, isr, clock>>

Sems == Mutexes \cup Events
All == Tasks \cup {Idle}

ASSUME KernelAssumption ==
  /\ IsFiniteSet(Tasks) /\ Idle \notin Tasks /\ Poll \notin All /\ Mutexes \cap Events = {}
  /\ None \notin Sems
  /\ Users \in [Sems -> SUBSET Tasks]
  /\ Killers \subseteq Tasks /\ RoundRobin \subseteq Tasks
  /\ Priority \in [All -> Nat]
  /\ \A t \in Tasks : Priority[t] > Priority[Idle]
  /\ Delays \in [Tasks -> SUBSET (Nat \ {0})]
  /\ {PollDelay, MaxCount} \subseteq Nat \ {0}

current == Head(ready)

\* A task resumed behind up_block_task has interrupts disabled.
Masked == isr \/ pc[current] \in {"sleep", "wait"}

-----------------------------------------------------------------------------
(* The lists of tasks. *)

InsertAt(list, i, e) == SubSeq(list, 1, i - 1) \o <<e>> \o SubSeq(list, i, Len(list))
RemoveAt(list, i) == SubSeq(list, 1, i - 1) \o SubSeq(list, i + 1, Len(list))
RemoveFirst(list, t) == RemoveAt(list, Min({i \in 1..Len(list) : list[i] = t}))

\* A task goes behind all tasks of its own or a higher priority.
AddPrioritized(list, t) ==
  LET lower == {i \in 1..Len(list) : Priority[list[i]] < Priority[t]}
  IN InsertAt(list, IF lower = {} THEN Len(list) + 1 ELSE Min(lower), t)

\* The tasks of a second list join the first one, in their order.  The code
\* begins each search at the task inserted before, which finds the same place
\* in sorted lists.
Merge(list, joining) ==
  LET merged[n \in 0..Len(joining)] ==
        IF n = 0 THEN list ELSE AddPrioritized(merged[n - 1], joining[n])
  IN merged[Len(joining)]

\* All pending tasks become ready.
MergePending(list) == Merge(list, pending)

\* A task that would preempt a running task with the scheduler locked waits
\* in the pending list.
Unblock(t) ==
  IF lockcount[current] > 0 /\ Priority[current] < Priority[t]
  THEN pending' = AddPrioritized(pending, t) /\ UNCHANGED ready
  ELSE ready' = AddPrioritized(ready, t) /\ UNCHANGED pending

BlockKeepsPending == /\ ready' = Tail(ready)
                     /\ UNCHANGED pending

\* The running task leaves the ready list.  Its lock on the scheduler goes
\* with it, so whatever is pending becomes ready.
Block == /\ ready' = MergePending(Tail(ready))
         /\ pending' = <<>>

-----------------------------------------------------------------------------
(* The watchdog timers. *)

Dogs == Tasks \cup {Poll}

Dog(i) == wdlist[i].dog
Active(d) == \E i \in DOMAIN wdlist : Dog(i) = d

\* The ticks until the i-th timer expires.
Due(list, i) ==
  LET due[n \in 0..Len(list)] == IF n = 0 THEN 0 ELSE due[n - 1] + list[n].lag
  IN due[i]

WdCancelKeepsLag(list, d) == SelectSeq(list, LAMBDA e : e.dog # d)

\* The successor of a cancelled timer inherits its lag.
WdCancel(list, d) ==
  LET mine == {i \in 1..Len(list) : list[i].dog = d}
      at == Min(mine)
      inherited == IF at = Len(list) THEN list
                   ELSE [list EXCEPT ![at + 1].lag = @ + list[at].lag]
  IN IF mine = {} THEN list ELSE RemoveAt(inherited, at)

WdStartExact(list, d, func, n) ==
  LET delay == IF n <= 0 THEN 1 ELSE n
      k == Cardinality({i \in 1..Len(list) : Due(list, i) <= delay})
      lag == delay - Due(list, k)
      shifted == IF k = Len(list) THEN list
                 ELSE [list EXCEPT ![k + 1].lag = @ - lag]
  IN InsertAt(shifted, k + 1, [dog |-> d, func |-> func, lag |-> lag])

\* A timer is started one tick late, because the present tick has partly
\* passed, behind the timers that expire no later.  Its lag is what their
\* lags leave of its delay, and its successor's lag shrinks by it.  No caller
\* starts a timer that is on, so there is none to cancel first.
WdStart(list, d, func, n) ==
  LET delay == IF n <= 0 THEN 1 ELSE n + 1
      k == Cardinality({i \in 1..Len(list) : Due(list, i) <= delay})
      lag == delay - Due(list, k)
      shifted == IF k = Len(list) THEN list
                 ELSE [list EXCEPT ![k + 1].lag = @ - lag]
  IN InsertAt(shifted, k + 1, [dog |-> d, func |-> func, lag |-> lag])

-----------------------------------------------------------------------------
(* Semaphores and signals, as far as they wake other tasks. *)

Waiting(s) == {t \in Tasks : waitsem[t] = s}

\* The wait of t for its semaphore is over.
Released(t) == /\ waitsem' = [waitsem EXCEPT ![t] = None]
               /\ semwait' = RemoveFirst(semwait, t)
               /\ Unblock(t)
               /\ UNCHANGED sigwait

\* The first task in the list that waits for s gets it; its errno was set to
\* OK when it blocked.
Post(s) ==
  /\ count' = [count EXCEPT ![s] = @ + 1]
  /\ IF count[s] < 0
     THEN /\ Released(semwait[Min({i \in 1..Len(semwait) : waitsem[semwait[i]] = s})])
          /\ UNCHANGED errno
     ELSE UNCHANGED <<waits, lists>>

SemWaitirqKeepsCount(t, e) ==
  IF waitsem[t] # None
  THEN Released(t) /\ errno' = [errno EXCEPT ![t] = e] /\ UNCHANGED count
  ELSE UNCHANGED <<count, waits, lists>>

\* A signal or a timeout ends a wait: the count no longer includes the task.
SemWaitirq(t, e) ==
  IF waitsem[t] # None
  THEN /\ count' = [count EXCEPT ![waitsem[t]] = @ + 1]
       /\ errno' = [errno EXCEPT ![t] = e]
       /\ Released(t)
  ELSE UNCHANGED <<count, waits, lists>>

SigEndTestsWaitSem(t, e) ==
  IF waitsem[t] # None
  THEN SemWaitirq(t, e)
  ELSE UNCHANGED <<count, waits, lists>>

SigEndUnchecked(t, e) ==
  /\ sigwait' = sigwait \ {t}
  /\ errno' = [errno EXCEPT ![t] = e]
  /\ Unblock(t)
  /\ UNCHANGED <<semwait, waitsem, count>>

\* A signal or a timeout ends a sleep, if the task still sleeps.
SigEnd(t, e) ==
  IF t \in sigwait
  THEN /\ sigwait' = sigwait \ {t}
       /\ errno' = [errno EXCEPT ![t] = e]
       /\ Unblock(t)
       /\ UNCHANGED <<semwait, waitsem, count>>
  ELSE UNCHANGED <<count, waits, lists>>

-----------------------------------------------------------------------------
(* The calls of the running task. *)

At(t, label) == ~isr /\ t = current /\ pc[t] = label

\* sigtimedwait, kill: nothing may run meanwhile except interrupts.
SchedLock(t) == /\ At(t, "run")
                /\ pc' = [pc EXCEPT ![t] = "locked"]
                /\ lockcount' = [lockcount EXCEPT ![t] = @ + 1]
                /\ UNCHANGED <<lists, waits, asked, count, holds, wdlist, isr, clock>>

\* The rest of sigtimedwait up to the wait: usleep waits for no signal in
\* particular, with a timeout.
Sleep(t) ==
  /\ At(t, "locked")
  /\ \E n \in Delays[t] :
       /\ wdlist' = WdStart(wdlist, t, "sig_timeout", n)
       /\ want' = [want EXCEPT ![t] = n]
  /\ sigwait' = sigwait \cup {t}
  /\ Block
  /\ pc' = [pc EXCEPT ![t] = "sleep"]
  /\ UNCHANGED <<semwait, waitsem, errno, lockcount, asked, count, holds, isr, passed>>

SleepReturnLeavesDog(t) ==
  /\ At(t, "sleep")
  /\ pc' = [pc EXCEPT ![t] = "unlock"]
  /\ UNCHANGED <<lists, waits, lockcount, asked, count, holds, wdlist, isr, clock>>

\* Behind the wait: the watchdog is deleted, interrupts are enabled.
SleepReturn(t) ==
  /\ At(t, "sleep")
  /\ wdlist' = WdCancel(wdlist, t)
  /\ pc' = [pc EXCEPT ![t] = "unlock"]
  /\ UNCHANGED <<lists, waits, lockcount, asked, count, holds, isr, clock>>

\* A call returns: the history of its wait is over.
Return(t) == /\ pc' = [pc EXCEPT ![t] = "run"]
             /\ errno' = [errno EXCEPT ![t] = "OK"]
             /\ want' = [want EXCEPT ![t] = 0]
             /\ passed' = [passed EXCEPT ![t] = 0]

\* The lock is given back, and with the last one the pending tasks are
\* released.  What follows for a task of SCHED_RR only sets its slice back.
SchedUnlock(t) ==
  /\ At(t, "unlock")
  /\ lockcount' = [lockcount EXCEPT ![t] = @ - 1]
  /\ IF lockcount'[t] = 0
     THEN ready' = MergePending(ready) /\ pending' = <<>>
     ELSE UNCHANGED lists
  /\ Return(t)
  /\ UNCHANGED <<semwait, sigwait, waitsem, asked, count, holds, wdlist, isr>>

\* A signal ends the wait of another task, whatever it waits for.
Kill(t, target) ==
  /\ At(t, "locked") /\ t \in Killers /\ target # t
  /\ IF target \in sigwait THEN SigEnd(target, "EINTR") ELSE SemWaitirq(target, "EINTR")
  /\ pc' = [pc EXCEPT ![t] = "unlock"]
  /\ UNCHANGED <<lockcount, asked, holds, wdlist, isr, clock>>

Take(t, s) == holds' = [holds EXCEPT ![t] = @ \cup ({s} \cap Mutexes)]

\* sem_wait and sem_timedwait of a semaphore that is available.
SemTake(t, s) ==
  /\ At(t, "run") /\ t \in Users[s] /\ s \notin holds[t]
  /\ count[s] > 0
  /\ count' = [count EXCEPT ![s] = @ - 1]
  /\ Take(t, s)
  /\ UNCHANGED <<lists, waits, lockcount, pc, asked, wdlist, isr, clock>>

\* The task blocks on s.
SemBlock(t, s) ==
  /\ At(t, "run") /\ t \in Users[s] /\ s \notin holds[t]
  /\ count[s] <= 0
  /\ count' = [count EXCEPT ![s] = @ - 1]
  /\ waitsem' = [waitsem EXCEPT ![t] = s]
  /\ errno' = [errno EXCEPT ![t] = "OK"]
  /\ semwait' = AddPrioritized(semwait, t)
  /\ Block
  /\ pc' = [pc EXCEPT ![t] = "wait"]
  /\ asked' = [asked EXCEPT ![t] = s]
  /\ UNCHANGED <<sigwait, lockcount, holds, isr, passed>>

\* sem_wait of a semaphore that is not.
SemWait(t, s) == SemBlock(t, s) /\ UNCHANGED <<wdlist, want>>

\* sem_timedwait of a semaphore that is not: the watchdog is started first,
\* with interrupts disabled.  A call whose time is malformed or already past
\* changes nothing here, a stuttering step: it returns before the watchdog is
\* started.
SemTimedWait(t, s) ==
  /\ SemBlock(t, s)
  /\ \E n \in Delays[t] :
       /\ wdlist' = WdStart(wdlist, t, "sem_timeout", n)
       /\ want' = [want EXCEPT ![t] = n]

\* Behind the wait: the task has the semaphore unless errno says otherwise.
\* sem_timedwait stops its watchdog, sem_wait has none.
SemReturn(t) ==
  /\ At(t, "wait")
  /\ IF errno[t] = "OK" THEN Take(t, asked[t]) ELSE UNCHANGED holds
  /\ wdlist' = WdCancel(wdlist, t)
  /\ Return(t)
  /\ asked' = [asked EXCEPT ![t] = None]
  /\ UNCHANGED <<lists, semwait, sigwait, waitsem, lockcount, count, isr>>

\* sem_post by the task that took the semaphore.
SemPost(t, s) ==
  /\ At(t, "run") /\ s \in holds[t]
  /\ Post(s)
  /\ holds' = [holds EXCEPT ![t] = @ \ {s}]
  /\ UNCHANGED <<lockcount, pc, asked, wdlist, isr, clock>>

-----------------------------------------------------------------------------
(* Interrupts. *)

\* A device interrupt posts an event.
IrqPost(s) == /\ ~Masked /\ count[s] < MaxCount
              /\ Post(s)
              /\ UNCHANGED <<lockcount, pc, asked, holds, wdlist, isr, clock>>

Timed == {t \in Tasks : waitsem[t] # None /\ want[t] > 0} \cup sigwait

\* The timer interrupt begins: the first timer is one tick closer.
Tick == /\ ~Masked /\ wdlist # <<>>
        /\ wdlist' = [wdlist EXCEPT ![1].lag = @ - 1]
        /\ isr' = TRUE
        /\ passed' = [t \in Tasks |-> IF t \in Timed /\ passed[t] < want[t] + 2
                                      THEN passed[t] + 1 ELSE passed[t]]
        /\ UNCHANGED <<lists, waits, lockcount, pc, asked, count, holds, want>>

Overdue == wdlist # <<>> /\ Head(wdlist).lag <= 0

\* The first timer leaves the list, hands what it is overdue to the next and
\* calls its function.
Expire ==
  /\ isr /\ Overdue
  /\ \E dog \in {Head(wdlist)}, rest \in {WdCancel(wdlist, Head(wdlist).dog)} :
       \/ /\ dog.func = "sig_timeout" /\ SigEnd(dog.dog, "ETIMEDOUT")
          /\ wdlist' = rest
       \/ /\ dog.func = "sem_timeout" /\ SemWaitirq(dog.dog, "ETIMEDOUT")
          /\ wdlist' = rest
       \/ /\ dog.func = "polltimer"
          /\ wdlist' = WdStart(rest, dog.dog, "polltimer", PollDelay)
          /\ UNCHANGED <<lists, waits, count>>
  /\ UNCHANGED <<lockcount, pc, asked, holds, isr, clock>>

\* The running task has used up its slice and goes behind the other tasks of
\* its priority, unless it has locked the scheduler.  The ticks left of a
\* slice are not counted: any tick may be the last one.
TimeSlice ==
  /\ current \in RoundRobin /\ lockcount[current] = 0
  /\ Priority[ready[2]] >= Priority[current]
  /\ ready' = AddPrioritized(Tail(ready), current)

\* The timer interrupt ends with a look at the slice of the running task.
EndTick == /\ isr /\ ~Overdue
           /\ isr' = FALSE
           /\ TimeSlice \/ UNCHANGED ready
           /\ UNCHANGED <<pending, waits, lockcount, pc, asked, count, holds, wdlist, clock>>

-----------------------------------------------------------------------------
Init ==
  /\ \E order \in [1..Cardinality(Tasks) -> Tasks] :
       Range(order) = Tasks /\ ready = Merge(<<Idle>>, order)
  /\ pending = <<>> /\ semwait = <<>> /\ sigwait = {}
  /\ lockcount = [t \in All |-> 0]
  /\ pc = [t \in All |-> "run"]
  /\ asked = [t \in Tasks |-> None] /\ waitsem = [t \in Tasks |-> None]
  /\ errno = [t \in Tasks |-> "OK"]
  /\ count = [s \in Sems |-> IF s \in Mutexes THEN 1 ELSE 0]
  /\ holds = [t \in Tasks |-> {}]
  /\ wdlist = <<[dog |-> Poll, func |-> "polltimer", lag |-> PollDelay + 1]>>
  /\ isr = FALSE
  /\ want = [t \in Tasks |-> 0] /\ passed = [t \in Tasks |-> 0]

Call(t) == \/ SchedLock(t) \/ Sleep(t)
           \/ \E target \in Tasks : Kill(t, target)
           \/ \E s \in Sems : SemTake(t, s) \/ SemWait(t, s) \/ SemTimedWait(t, s)
                              \/ SemPost(t, s)

Finish(t) == SleepReturn(t) \/ SchedUnlock(t) \/ SemReturn(t)

Next == \/ \E t \in Tasks : Call(t) \/ Finish(t)
        \/ \E s \in Events : IrqPost(s)
        \/ Tick \/ Expire \/ EndTick

\* The clock does not stop, a timer interrupt that finds interrupts disabled
\* is taken later, and the processor completes what it has begun.
Fairness == /\ SF_vars(Tick)
            /\ WF_vars(Expire \/ EndTick \/ \E t \in Tasks : Finish(t))

Spec == Init /\ [][Next]_vars /\ Fairness

-----------------------------------------------------------------------------
(* Properties. *)

InList(t) == <<t \in Range(ready), t \in Range(pending), t \in Range(semwait), t \in sigwait>>

\* Every task is in exactly one list, once, and each list of tasks is sorted
\* by priority; a task is blocked on a semaphore exactly if it is in the list
\* for that (the lists of os_start.c, moved between by up_block_task and
\* up_unblock_task).
TypeOK ==
  /\ \A t \in Tasks : Cardinality({i \in 1..4 : InList(t)[i]}) = 1
  /\ Len(ready) + Len(pending) + Len(semwait) + Cardinality(sigwait) = Cardinality(All)
  /\ \A list \in {ready, pending, semwait} :
       \A i, j \in DOMAIN list : i < j => Priority[list[i]] >= Priority[list[j]]
  /\ \A t \in Tasks : (t \in Range(semwait)) <=> (waitsem[t] # None)
  /\ lockcount \in [All -> 0..1]
  /\ \A i \in DOMAIN wdlist : wdlist[i].lag >= 0

\* The running task has the highest priority of all tasks that could run,
\* unless it has locked the scheduler, and no task stays pending once nobody
\* has (sched_lock.c, sched_mergepending.c).
HighestRuns ==
  lockcount[current] = 0 =>
    /\ pending = <<>>
    /\ \A t \in Range(ready) : Priority[t] <= Priority[current]

Granted(s) == {t \in Tasks : asked[t] = s /\ waitsem[t] = None /\ errno[t] = "OK"}
Owners(s) == {t \in Tasks : s \in holds[t]}

\* A count below zero is the number of tasks that wait, and a mutex is free,
\* on its way to one task or held by one task, whatever posts, timeouts and
\* signals race to end a wait (sem_post.c, sem_waitirq.c).
SemExact ==
  /\ \A s \in Sems : IF Waiting(s) = {} THEN count[s] >= 0
                     ELSE count[s] = -Cardinality(Waiting(s))
  /\ \A m \in Mutexes :
       count[m] + Cardinality(Waiting(m)) + Cardinality(Granted(m))
         + Cardinality(Owners(m)) = 1

\* A timer of a task is on only while the wait that started it is not over:
\* no late timer can end a later wait (sig_timedwait.c, sem_timedwait.c).
DogsOfWaits ==
  \A i \in DOMAIN wdlist : Dog(i) \in Tasks =>
    pc[Dog(i)] = (IF wdlist[i].func = "sig_timeout" THEN "sleep" ELSE "wait")

\* A wait that ends by its timeout lasts the ticks asked for and exactly one
\* more: the tick it began in does not count (wd_start.c, wd_timer).
TimeoutExact ==
  \A t \in Tasks : errno[t] = "ETIMEDOUT" => passed[t] = want[t] + 1

\* The absolute time of each timer, from the lags before it.
Left == [d \in Dogs |->
           IF Active(d) THEN Due(wdlist, CHOOSE i \in DOMAIN wdlist : Dog(i) = d)
           ELSE -1]

Abstract == INSTANCE Timers
              WITH Spans <- {n + 1 : n \in {PollDelay} \cup UNION {Delays[t] : t \in Tasks}},
                   left <- Left

\* The list of lags behaves as independent timers: starting, stopping or
\* firing one moves no other, and all of them count every tick.
TimersIndependent == Abstract!Spec

\* A task that sleeps, or waits with a timeout, becomes ready again, even if
\* nobody posts and no signal comes.
WaitEnds == \A t \in Tasks : t \in Timed ~> t \notin Timed
=============================================================================
