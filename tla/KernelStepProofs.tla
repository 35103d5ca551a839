-------------------------- MODULE KernelStepProofs --------------------------
(***************************************************************************)
(* The invariant of Kernel is kept, for any tasks, priorities, semaphores  *)
(* and delays, by the steps that lock and unlock the scheduler, begin and  *)
(* end a call, and count time, and by the end of a wait in general.        *)
(* KernelProofs has the steps that end waits.                              *)
(***************************************************************************)
EXTENDS KernelListProofs

-----------------------------------------------------------------------------
(* What a step that leaves a part of the state alone preserves. *)

(* Nothing about the call of a task changes.                               *)
Kept(u) ==
  /\ pc'[u] = pc[u] /\ lockcount'[u] = lockcount[u] /\ asked'[u] = asked[u]
  /\ waitsem'[u] = waitsem[u] /\ errno'[u] = errno[u] /\ holds'[u] = holds[u]
  /\ want'[u] = want[u] /\ passed'[u] = passed[u]
  /\ (u \in sigwait)' <=> (u \in sigwait)
  /\ (u \in Range(semwait))' <=> (u \in Range(semwait))

(* Then the task stays consistent.                                         *)
LEMMA CallKept ==
  ASSUME NEW u \in Tasks, CallOf(u), Kept(u)
  PROVE  CallOf(u)'
BY DEF CallOf, Kept

(* Time and timers stand still, and no wait begins.                        *)
LEMMA ClocksKept ==
  ASSUME Clocks, wdlist' = wdlist, isr' = isr, Timed' \subseteq Timed,
         \A u \in Tasks : pc'[u] = pc[u] \/ pc[u] \notin {"sleep", "wait"},
         \A u \in Tasks : want'[u] = want[u] \/ pc[u] \notin {"sleep", "wait"},
         \A u \in Timed' : u \in Tasks /\ want'[u] = want[u] /\ passed'[u] = passed[u]
  PROVE  Clocks'
<1>1. LeftIn(wdlist)' = LeftIn(wdlist) /\ Entries(wdlist)' = Entries(wdlist)
  BY ListPrime
<1>2. (~isr => \A d \in Dogs : LeftIn(wdlist)[d] # 0)'
  BY <1>1 DEF Clocks
<1>3. ASSUME NEW e \in Entries(wdlist)
      PROVE  /\ e[1] = Poll <=> e[2] = "polltimer"
             /\ e[1] \in Tasks =>
                  /\ pc'[e[1]] = (IF e[2] = "sig_timeout" THEN "sleep" ELSE "wait")
                  /\ want'[e[1]] > 0
  BY DEF Clocks
<1>4. ASSUME NEW u \in Timed'
      PROVE  /\ LeftIn(wdlist)[u] # -1 /\ want'[u] > 0
             /\ LeftIn(wdlist)[u] + passed'[u] = want'[u] + 1
  BY <1>4 DEF Clocks
<1> QED
  BY <1>1, <1>2, <1>3, <1>4 DEF Clocks

(* Every semaphore stays balanced.                                         *)
LEMMA SemNext ==
  ASSUME \A s \in Sems : Balanced(s, count[s], Waiting(s), Granted(s), Owners(s))'
  PROVE  SemExact'
<1>1. Mutexes \subseteq Sems
  BY DEF Sems
<1> QED
  BY <1>1 DEF SemExact, Balanced

(* The invariant says so of every semaphore.                               *)
LEMMA SemNow ==
  ASSUME Inv
  PROVE  \A s \in Sems : Balanced(s, count[s], Waiting(s), Granted(s), Owners(s))
BY SemBalanced DEF Inv

(* A semaphore about which nothing changes.                                *)
LEMMA SemKept ==
  ASSUME NEW s, Balanced(s, count[s], Waiting(s), Granted(s), Owners(s)),
         count'[s] = count[s], Waiting(s)' = Waiting(s),
         Granted(s)' = Granted(s), Owners(s)' = Owners(s)
  PROVE  Balanced(s, count[s], Waiting(s), Granted(s), Owners(s))'
BY DEF Balanced

(* The running task, inside the call that the label names.                 *)
LEMMA AtRuns ==
  ASSUME Inv, NEW t \in Tasks, NEW l, At(t, l)
  PROVE  /\ ~isr /\ pc[t] = l /\ Head(ready) = t /\ current = t
         /\ t \in Range(ready) /\ t \in All /\ t # Idle
         /\ t \notin Range(pending) /\ t \notin Range(semwait) /\ t \notin sigwait
         /\ waitsem[t] = None /\ t \notin Timed /\ CallOf(t)
<1>1. ~isr /\ pc[t] = l /\ Head(ready) = t /\ current = t
  BY DEF At, current
<1>2. /\ TaskList(ready) /\ Idle \in Range(ready)
      /\ Range(ready) \cap Range(pending) = {}
      /\ Range(ready) \cap Range(semwait) = {} /\ Range(ready) \cap sigwait = {}
  BY DEF Inv, Lists, Apart
<1>3. t \in Range(ready) /\ t \in All /\ t # Idle
  BY <1>1, <1>2, Running, KernelAssumption
<1>4. t \notin Range(pending) /\ t \notin Range(semwait) /\ t \notin sigwait
  BY <1>2, <1>3
<1>5. CallOf(t)
  BY DEF Inv, Calls
<1>6. waitsem[t] = None
  BY <1>4, <1>5 DEF CallOf
<1>7. t \notin Timed
  BY <1>4, <1>6 DEF Timed
<1> QED
  BY <1>1, <1>3, <1>4, <1>5, <1>6, <1>7

-----------------------------------------------------------------------------
(* The actions preserve the invariant. *)

(* A task locks the scheduler.                                             *)
LEMMA SchedLockInv ==
  ASSUME Inv, NEW t \in Tasks, SchedLock(t)
  PROVE  Inv'
<1>1. At(t, "run") /\ pc' = [pc EXCEPT ![t] = "locked"]
      /\ lockcount' = [lockcount EXCEPT ![t] = @ + 1]
  BY DEF SchedLock
<1>2. /\ ready' = ready /\ pending' = pending /\ semwait' = semwait /\ sigwait' = sigwait
      /\ waitsem' = waitsem /\ errno' = errno /\ asked' = asked /\ count' = count
      /\ holds' = holds /\ wdlist' = wdlist /\ isr' = isr /\ want' = want /\ passed' = passed
  BY DEF SchedLock, lists, waits, clock
<1>3. /\ ~isr /\ pc[t] = "run" /\ Head(ready) = t /\ t \in All /\ t # Idle
      /\ waitsem[t] = None /\ t \notin sigwait /\ t \notin Range(semwait) /\ CallOf(t)
  BY <1>1, AtRuns
<1>4. Types /\ Calls /\ Idle \in All
  BY DEF Inv, All
<1>5. lockcount[t] = 0
  BY <1>3 DEF CallOf
<1>6. Types'
  BY <1>1, <1>2, <1>3, <1>4, <1>5 DEF Types
<1>7. Lists'
  BY <1>2 DEF Inv, Lists
<1>8. Calls'
  <2>1. pc'[Idle] = "run" /\ lockcount'[Idle] = 0
    BY <1>1, <1>3, <1>4 DEF Calls, Types
  <2>2. ASSUME NEW u \in Tasks, u # t PROVE CallOf(u)'
    <3>1. u \in All
      BY DEF All
    <3>2. Kept(u)
      BY <1>1, <1>2, <2>2, <3>1, <1>4 DEF Kept, Types
    <3> QED
      BY <1>4, <3>2, CallKept DEF Calls
  <2>3. CallOf(t)'
    BY <1>1, <1>2, <1>3, <1>4, <1>5 DEF CallOf, Types
  <2> QED
    BY <2>1, <2>2, <2>3 DEF Calls
<1>9. Held'
  BY <1>1, <1>2, <1>3, <1>4, <1>5 DEF Held, current, Types
<1>10. Clocks'
  <2>1. Timed' = Timed /\ Timed \subseteq Tasks
    BY <1>2 DEF Inv, Lists, Apart, Timed
  <2>2. \A u \in Tasks : pc'[u] = pc[u] \/ pc[u] \notin {"sleep", "wait"}
    BY <1>1, <1>3, <1>4 DEF Types, All
  <2> QED
    BY <1>2, <2>1, <2>2, ClocksKept DEF Inv
<1>11. SemExact' /\ TimeoutExact'
  BY <1>2 DEF Inv, SemExact, Waiting, Granted, Owners, TimeoutExact
<1> QED
  BY <1>6, <1>7, <1>8, <1>9, <1>10, <1>11 DEF Inv

(* A task takes a semaphore that is available.                             *)
LEMMA SemTakeInv ==
  ASSUME Inv, NEW t \in Tasks, NEW s \in Sems, SemTake(t, s)
  PROVE  Inv'
<1>1. /\ At(t, "run") /\ s \notin holds[t] /\ count[s] > 0
      /\ count' = [count EXCEPT ![s] = @ - 1]
      /\ holds' = [holds EXCEPT ![t] = @ \cup ({s} \cap Mutexes)]
  BY DEF SemTake, Take
<1>2. /\ ready' = ready /\ pending' = pending /\ semwait' = semwait /\ sigwait' = sigwait
      /\ waitsem' = waitsem /\ errno' = errno /\ asked' = asked /\ pc' = pc
      /\ lockcount' = lockcount /\ wdlist' = wdlist /\ isr' = isr
      /\ want' = want /\ passed' = passed
  BY DEF SemTake, lists, waits, clock
<1>3. pc[t] = "run" /\ waitsem[t] = None /\ CallOf(t)
  BY <1>1, AtRuns
<1>4. Types /\ Calls
  BY DEF Inv
<1>5. Types'
  BY <1>1, <1>2, <1>4 DEF Types
<1>6. Lists' /\ Held' /\ TimeoutExact'
  BY <1>2 DEF Inv, Lists, Held, current, TimeoutExact
<1>7. Calls'
  <2>1. ASSUME NEW u \in Tasks, u # t PROVE CallOf(u)'
    <3>1. Kept(u)
      BY <1>1, <1>2, <1>4, <2>1 DEF Kept, Types
    <3> QED
      BY <1>4, <3>1, CallKept DEF Calls
  <2>2. CallOf(t)'
    <3>1. asked[t] = None /\ holds'[t] \subseteq Mutexes
      BY <1>3, <1>5 DEF CallOf, Types
    <3>2. None \notin Mutexes
      BY KernelAssumption DEF Sems
    <3> QED
      BY <1>2, <1>3, <3>1, <3>2 DEF CallOf
  <2> QED
    BY <1>2, <1>4, <2>1, <2>2 DEF Calls
<1>8. Clocks'
  <2>1. Timed' = Timed /\ Timed \subseteq Tasks
    BY <1>2 DEF Inv, Lists, Apart, Timed
  <2> QED
    BY <1>2, <2>1, ClocksKept DEF Inv
<1>9. SemExact'
  <2>1. ASSUME NEW x \in Sems
        PROVE  Balanced(x, count[x], Waiting(x), Granted(x), Owners(x))'
    <3>1. Balanced(x, count[x], Waiting(x), Granted(x), Owners(x))
      BY SemNow
    <3>2. Waiting(x)' = Waiting(x) /\ Granted(x)' = Granted(x)
      BY <1>2 DEF Waiting, Granted
    <3>3. CASE x # s
      <4>1. count'[x] = count[x]
        BY <1>1, <1>4, <3>3 DEF Types
      <4>2. Owners(x)' = Owners(x)
        BY <1>1, <1>4, <3>3 DEF Types, Owners
      <4> QED
        BY <3>1, <3>2, <4>1, <4>2, SemKept
    <3>4. CASE x = s
      <4>1. count'[x] = count[x] - 1 /\ count[x] > 0
        BY <1>1, <1>4, <3>4 DEF Types
      <4>2. /\ t \notin Owners(x) /\ Owners(x)' \subseteq Tasks
            /\ x \in Mutexes => Owners(x)' = Owners(x) \cup {t}
        BY <1>1, <1>4, <3>4 DEF Types, Owners
      <4>3. Balanced(x, count[x] - 1, Waiting(x), Granted(x), Owners(x)')
        BY <3>1, <4>1, <4>2, BalancedTake
      <4> QED
        BY <3>2, <4>1, <4>3 DEF Balanced
    <3> QED
      BY <3>3, <3>4
  <2> QED
    BY <2>1, SemNext
<1> QED
  BY <1>5, <1>6, <1>7, <1>8, <1>9 DEF Inv

(* The timer of a task that does not wait any more is stopped.             *)
LEMMA ClocksStopped ==
  ASSUME Clocks, DogList(wdlist), NEW t \in Tasks, Timed \subseteq Tasks,
         wdlist' = WdCancel(wdlist, t), isr' = isr, Timed' = Timed \ {t},
         \A u \in Tasks : u # t => pc'[u] = pc[u] /\ want'[u] = want[u] /\ passed'[u] = passed[u]
  PROVE  Clocks' /\ DogList(wdlist')
<1>1. t \in Dogs /\ Timed \subseteq Dogs
  BY DEF Dogs
<1>2. /\ DogList(wdlist')
      /\ LeftIn(wdlist') = [LeftIn(wdlist) EXCEPT ![t] = -1]
      /\ Entries(wdlist') = {e \in Entries(wdlist) : e[1] # t}
  BY <1>1, Cancelled
<1>3. LeftIn(wdlist) \in [Dogs -> Nat \cup {-1}]
  BY LeftOfEntry
<1>4. \A d \in Dogs : d # t => LeftIn(wdlist')[d] = LeftIn(wdlist)[d]
  BY <1>1, <1>2, <1>3
<1>5. LeftIn(wdlist')[t] = -1
  BY <1>1, <1>2, <1>3
<1>6. ~isr' => \A d \in Dogs : LeftIn(wdlist')[d] # 0
  BY <1>4, <1>5 DEF Clocks
<1>7. ASSUME NEW e \in Entries(wdlist')
      PROVE  /\ e[1] = Poll <=> e[2] = "polltimer"
             /\ e[1] \in Tasks =>
                  /\ pc'[e[1]] = (IF e[2] = "sig_timeout" THEN "sleep" ELSE "wait")
                  /\ want'[e[1]] > 0
  <2>1. e \in Entries(wdlist) /\ e[1] # t
    BY <1>2
  <2> QED
    BY <2>1 DEF Clocks
<1>8. ASSUME NEW u \in Timed'
      PROVE  /\ LeftIn(wdlist')[u] # -1 /\ want'[u] > 0
             /\ LeftIn(wdlist')[u] + passed'[u] = want'[u] + 1
  <2>1. u \in Timed /\ u # t /\ u \in Tasks /\ u \in Dogs
    BY <1>1
  <2> QED
    BY <1>4, <2>1 DEF Clocks
<1> QED
  BY <1>2, <1>6, <1>7, <1>8, ListPrime DEF Clocks

(* A sleeper runs again and deletes its timer.                             *)
LEMMA SleepReturnInv ==
  ASSUME Inv, NEW t \in Tasks, SleepReturn(t)
  PROVE  Inv'
<1>1. /\ At(t, "sleep") /\ wdlist' = WdCancel(wdlist, t)
      /\ pc' = [pc EXCEPT ![t] = "unlock"]
  BY DEF SleepReturn
<1>2. /\ ready' = ready /\ pending' = pending /\ semwait' = semwait /\ sigwait' = sigwait
      /\ waitsem' = waitsem /\ errno' = errno /\ asked' = asked /\ count' = count
      /\ holds' = holds /\ lockcount' = lockcount /\ isr' = isr
      /\ want' = want /\ passed' = passed
  BY DEF SleepReturn, lists, waits, clock
<1>3. /\ pc[t] = "sleep" /\ t \in All /\ t # Idle /\ waitsem[t] = None
      /\ t \notin Timed /\ t \notin sigwait /\ t \notin Range(semwait) /\ CallOf(t)
  BY <1>1, AtRuns
<1>4. Types /\ Calls /\ Idle \in All
  BY DEF Inv, All
<1>5. Clocks' /\ DogList(wdlist')
  <2>1. Timed' = Timed \ {t} /\ Timed \subseteq Tasks
    BY <1>2, <1>3 DEF Inv, Lists, Apart, Timed
  <2>2. \A u \in Tasks : u # t => pc'[u] = pc[u] /\ want'[u] = want[u] /\ passed'[u] = passed[u]
    BY <1>1, <1>2, <1>4 DEF Types, All
  <2> QED
    BY <1>1, <1>2, <1>3, <2>1, <2>2, ClocksStopped DEF Inv, Types
<1>6. Types'
  BY <1>1, <1>2, <1>4, <1>5, Zenon DEF Types
<1>7. Lists' /\ Held' /\ TimeoutExact' /\ SemExact'
  BY <1>2, Zenon DEF Inv, Lists, Held, current, TimeoutExact, SemExact, Waiting, Granted, Owners
<1>8. Calls'
  <2>1. pc'[Idle] = "run" /\ lockcount'[Idle] = 0
    BY <1>1, <1>2, <1>3, <1>4 DEF Calls, Types
  <2>2. ASSUME NEW u \in Tasks, u # t PROVE CallOf(u)'
    <3>1. Kept(u)
      BY <1>1, <1>2, <1>4, <2>2 DEF Kept, Types, All
    <3> QED
      BY <1>4, <3>1, CallKept DEF Calls
  <2>3. CallOf(t)'
    BY <1>1, <1>2, <1>3, <1>4 DEF CallOf, Types
  <2> QED
    BY <2>1, <2>2, <2>3 DEF Calls
<1> QED
  BY <1>5, <1>6, <1>7, <1>8 DEF Inv

(* A task unlocks the scheduler.                                           *)
LEMMA SchedUnlockInv ==
  ASSUME Inv, NEW t \in Tasks, SchedUnlock(t)
  PROVE  Inv'
<1>1. /\ At(t, "unlock") /\ lockcount' = [lockcount EXCEPT ![t] = @ - 1]
      /\ IF lockcount'[t] = 0 THEN ready' = Merge(ready, pending) /\ pending' = <<>>
         ELSE ready' = ready /\ pending' = pending
      /\ pc' = [pc EXCEPT ![t] = "run"] /\ errno' = [errno EXCEPT ![t] = "OK"]
      /\ want' = [want EXCEPT ![t] = 0] /\ passed' = [passed EXCEPT ![t] = 0]
  BY DEF SchedUnlock, Return, MergePending, lists
<1>2. /\ semwait' = semwait /\ sigwait' = sigwait /\ waitsem' = waitsem
      /\ asked' = asked /\ count' = count /\ holds' = holds /\ wdlist' = wdlist /\ isr' = isr
  BY DEF SchedUnlock
<1>3. /\ pc[t] = "unlock" /\ t \in All /\ t # Idle /\ waitsem[t] = None
      /\ t \notin Timed /\ t \notin sigwait /\ t \notin Range(semwait) /\ CallOf(t)
  BY <1>1, AtRuns
<1>4. Types /\ Calls /\ Idle \in All
  BY DEF Inv, All
<1>5. lockcount[t] = 1 /\ asked[t] = None
  BY <1>3 DEF CallOf
<1>6. lockcount'[t] = 0 /\ ready' = Merge(ready, pending) /\ pending' = <<>>
  BY <1>1, <1>3, <1>4, <1>5 DEF Types
<1>7. Types'
  <2>1. /\ lockcount \in [All -> 0..1]
        /\ pc \in [All -> {"run", "locked", "sleep", "unlock", "wait"}]
        /\ errno \in [Tasks -> {"OK", "EINTR", "ETIMEDOUT"}]
        /\ want \in [Tasks -> Nat] /\ passed \in [Tasks -> Nat]
    BY <1>4 DEF Types
  <2>2. lockcount' \in [All -> 0..1]
    <3>1. lockcount' = [lockcount EXCEPT ![t] = 0]
      <4>1. lockcount[t] - 1 = 0
        BY <1>5
      <4> QED
        BY <1>1, <4>1, Zenon
    <3>2. 0 \in 0..1 /\ lockcount \in [All -> 0..1]
      BY <2>1
    <3> QED
      BY ONLY <3>1, <3>2, Zenon
  <2>3. pc' \in [All -> {"run", "locked", "sleep", "unlock", "wait"}]
    BY <1>1, <2>1, Zenon
  <2>4. errno' \in [Tasks -> {"OK", "EINTR", "ETIMEDOUT"}]
    BY <1>1, <2>1
  <2>5. want' \in [Tasks -> Nat] /\ passed' \in [Tasks -> Nat]
    BY <1>1, <2>1
  <2> QED
    BY <1>2, <1>4, <2>2, <2>3, <2>4, <2>5 DEF Types
<1>8. Lists' /\ Held'
  BY <1>2, <1>6, MergeMoves DEF Inv, Lists, Held
<1>9. Calls'
  <2>1. pc'[Idle] = "run" /\ lockcount'[Idle] = 0
    BY <1>1, <1>3, <1>4 DEF Calls, Types
  <2>2. ASSUME NEW u \in Tasks, u # t PROVE CallOf(u)'
    <3>1. Kept(u)
      BY <1>1, <1>2, <1>4, <2>2 DEF Kept, Types, All
    <3> QED
      BY <1>4, <3>1, CallKept DEF Calls
  <2>3. CallOf(t)'
    <3>1. /\ pc'[t] = "run" /\ lockcount'[t] = 0 /\ errno'[t] = "OK"
          /\ want'[t] = 0 /\ passed'[t] = 0
      BY <1>1, <1>3, <1>4, <1>6 DEF Types
    <3> QED
      BY <1>2, <1>3, <1>5, <3>1 DEF CallOf
  <2> QED
    BY <2>1, <2>2, <2>3 DEF Calls
<1>10. Clocks'
  <2>1. Timed \subseteq Tasks
    BY DEF Inv, Lists, Apart, Timed
  <2>2. \A u \in Tasks : u # t => /\ pc'[u] = pc[u] /\ want'[u] = want[u]
                                  /\ passed'[u] = passed[u]
    BY <1>1, <1>4 DEF Types, All
  <2>3. Timed' = Timed
    BY <1>2, <1>3, <2>2 DEF Timed
  <2>4. /\ \A u \in Tasks : pc'[u] = pc[u] \/ pc[u] \notin {"sleep", "wait"}
        /\ \A u \in Tasks : want'[u] = want[u] \/ pc[u] \notin {"sleep", "wait"}
    BY <1>3, <2>2
  <2>5. \A u \in Timed' : u \in Tasks /\ want'[u] = want[u] /\ passed'[u] = passed[u]
    BY <1>3, <2>1, <2>2, <2>3
  <2> QED
    BY <1>2, <2>3, <2>4, <2>5, ClocksKept, Zenon DEF Inv
<1>11. SemExact'
  <2>1. ASSUME NEW x \in Sems
        PROVE  Balanced(x, count[x], Waiting(x), Granted(x), Owners(x))'
    <3>1. Waiting(x)' = Waiting(x) /\ Owners(x)' = Owners(x)
      BY <1>2 DEF Waiting, Owners
    <3>2. Granted(x)' = Granted(x)
      <4>1. \A u \in Tasks : u # t => errno'[u] = errno[u]
        BY <1>1, <1>4 DEF Types
      <4>2. asked[t] # x
        BY <1>5, KernelAssumption
      <4> QED
        BY <1>2, <4>1, <4>2 DEF Granted
    <3> QED
      BY <1>2, <3>1, <3>2, SemNow, SemKept
  <2> QED
    BY <2>1, SemNext
<1>12. TimeoutExact'
  <2>1. ASSUME NEW u \in Tasks, errno'[u] = "ETIMEDOUT" PROVE passed'[u] = want'[u] + 1
    <3>1. u # t
      BY <1>1, <1>4, <2>1 DEF Types
    <3>2. errno'[u] = errno[u] /\ want'[u] = want[u] /\ passed'[u] = passed[u]
      BY <1>1, <1>4, <3>1 DEF Types
    <3> QED
      BY <2>1, <3>2 DEF Inv, TimeoutExact
  <2> QED
    BY <2>1 DEF TimeoutExact
<1> QED
  BY <1>7, <1>8, <1>9, <1>10, <1>11, <1>12 DEF Inv

(* A wait for a semaphore returns.                                         *)
LEMMA SemReturnInv ==
  ASSUME Inv, NEW t \in Tasks, SemReturn(t)
  PROVE  Inv'
<1>1. /\ At(t, "wait") /\ wdlist' = WdCancel(wdlist, t)
      /\ IF errno[t] = "OK" THEN holds' = [holds EXCEPT ![t] = @ \cup ({asked[t]} \cap Mutexes)]
         ELSE holds' = holds
      /\ asked' = [asked EXCEPT ![t] = None]
      /\ pc' = [pc EXCEPT ![t] = "run"] /\ errno' = [errno EXCEPT ![t] = "OK"]
      /\ want' = [want EXCEPT ![t] = 0] /\ passed' = [passed EXCEPT ![t] = 0]
  BY DEF SemReturn, Return, Take
<1>2. /\ ready' = ready /\ pending' = pending /\ semwait' = semwait /\ sigwait' = sigwait
      /\ waitsem' = waitsem /\ lockcount' = lockcount /\ count' = count /\ isr' = isr
  BY DEF SemReturn, lists
<1>3. /\ pc[t] = "wait" /\ t \in All /\ t # Idle /\ waitsem[t] = None
      /\ t \notin Timed /\ t \notin sigwait /\ t \notin Range(semwait) /\ CallOf(t)
  BY <1>1, AtRuns
<1>4. Types /\ Calls /\ Idle \in All
  BY DEF Inv, All
<1>5. /\ lockcount[t] = 0 /\ asked[t] # None /\ asked[t] \in Sems
      /\ asked[t] \notin holds[t] /\ None \notin Mutexes
  BY <1>3, <1>4, KernelAssumption DEF CallOf, Types, Sems
<1>6. \A u \in Tasks : u # t => /\ pc'[u] = pc[u] /\ want'[u] = want[u]
                                /\ passed'[u] = passed[u] /\ errno'[u] = errno[u]
                                /\ asked'[u] = asked[u] /\ holds'[u] = holds[u]
  BY <1>1, <1>4 DEF Types, All
<1>7. /\ pc'[t] = "run" /\ errno'[t] = "OK" /\ asked'[t] = None
      /\ want'[t] = 0 /\ passed'[t] = 0 /\ holds'[t] \subseteq Mutexes
      /\ holds'[t] = IF errno[t] = "OK" THEN holds[t] \cup ({asked[t]} \cap Mutexes) ELSE holds[t]
  <2>1. /\ pc'[t] = "run" /\ errno'[t] = "OK" /\ asked'[t] = None
        /\ want'[t] = 0 /\ passed'[t] = 0
    BY <1>1, <1>3, <1>4 DEF Types
  <2>2. holds'[t] = IF errno[t] = "OK" THEN holds[t] \cup ({asked[t]} \cap Mutexes) ELSE holds[t]
    BY <1>1, <1>4, Zenon DEF Types
  <2>3. holds'[t] \subseteq Mutexes
    BY <1>4, <2>2 DEF Types
  <2> QED
    BY <2>1, <2>2, <2>3, Zenon
<1>8. Clocks' /\ DogList(wdlist')
  <2>1. Timed \subseteq Tasks
    BY Zenon DEF Inv, Lists, Apart, Timed
  <2>2. Timed' = Timed \ {t}
    BY <1>2, <1>3, <1>6 DEF Timed
  <2> QED
    BY <1>1, <1>2, <1>3, <1>6, <2>1, <2>2, ClocksStopped DEF Inv, Types
<1>9. Types'
  <2>1. holds' \in [Tasks -> SUBSET Mutexes]
    BY <1>1, <1>4 DEF Types
  <2> QED
    BY <1>1, <1>2, <1>4, <1>8, <2>1, Zenon DEF Types
<1>10. Lists' /\ Held'
  BY <1>2 DEF Inv, Lists, Held, current
<1>11. Calls'
  <2>1. pc'[Idle] = "run" /\ lockcount'[Idle] = 0
    BY <1>1, <1>2, <1>3, <1>4 DEF Calls, Types
  <2>2. ASSUME NEW u \in Tasks, u # t PROVE CallOf(u)'
    <3>1. Kept(u)
      BY <1>2, <1>6, <2>2 DEF Kept
    <3> QED
      BY <1>4, <3>1, CallKept, Zenon DEF Calls
  <2>3. CallOf(t)'
    BY <1>2, <1>3, <1>5, <1>7 DEF CallOf
  <2> QED
    BY <2>1, <2>2, <2>3 DEF Calls
<1>12. SemExact'
  <2>1. ASSUME NEW x \in Sems
        PROVE  Balanced(x, count[x], Waiting(x), Granted(x), Owners(x))'
    <3>1. Balanced(x, count[x], Waiting(x), Granted(x), Owners(x))
      BY SemNow
    <3>2. Waiting(x)' = Waiting(x) /\ count'[x] = count[x] /\ x # None
      BY <1>2, KernelAssumption DEF Waiting
    <3>3. CASE x # asked[t] \/ errno[t] # "OK"
      <4>1. Granted(x)' = Granted(x)
        BY <1>2, <1>6, <1>7, <3>2, <3>3 DEF Granted
      <4>2. Owners(x)' = Owners(x)
        <5>1. x \in holds'[t] <=> x \in holds[t]
          BY <1>7, <3>3
        <5> QED
          BY <1>6, <5>1 DEF Owners
      <4> QED
        BY <3>1, <3>2, <4>1, <4>2, SemKept
    <3>4. CASE x = asked[t] /\ errno[t] = "OK"
      <4>1. t \in Granted(x) /\ t \notin Owners(x)
        BY <1>3, <1>5, <3>4 DEF Granted, Owners
      <4>2. Granted(x)' = Granted(x) \ {t}
        BY <1>2, <1>6, <1>7, <3>2 DEF Granted
      <4>3. /\ Owners(x)' \subseteq Tasks
            /\ x \in Mutexes => Owners(x)' = Owners(x) \cup {t}
        BY <1>6, <1>7, <3>4 DEF Owners
      <4>4. Balanced(x, count[x], Waiting(x), Granted(x) \ {t}, Owners(x)')
        BY <3>1, <4>1, <4>3, BalancedReturn
      <4> QED
        BY <3>2, <4>2, <4>4 DEF Balanced
    <3> QED
      BY <3>3, <3>4
  <2> QED
    BY <2>1, SemNext
<1>13. TimeoutExact'
  BY <1>6, <1>7 DEF Inv, TimeoutExact
<1> QED
  BY <1>8, <1>9, <1>10, <1>11, <1>12, <1>13 DEF Inv

(* The timer interrupt ends when no timer is overdue.                      *)
LEMMA EndTickInv ==
  ASSUME Inv, EndTick
  PROVE  Inv'
<1>1. ~Overdue /\ isr' = FALSE
  BY DEF EndTick
<1>2. /\ pending' = pending /\ semwait' = semwait /\ sigwait' = sigwait
      /\ waitsem' = waitsem /\ errno' = errno /\ asked' = asked /\ pc' = pc
      /\ lockcount' = lockcount /\ wdlist' = wdlist /\ count' = count /\ holds' = holds
      /\ want' = want /\ passed' = passed
  BY DEF EndTick, waits, clock
<1>3. Types'
  BY <1>1, <1>2, Zenon DEF Inv, Types
<1>4. Lists' /\ Held' /\ TimeoutExact' /\ SemExact'
  <2>1. TimeoutExact' /\ SemExact'
    BY <1>2 DEF Inv, TimeoutExact, SemExact, Waiting, Granted, Owners
  <2>2. CASE ready' = ready
    BY <1>2, <2>1, <2>2 DEF Inv, Lists, Held, current
  <2>3. CASE TimeSlice
    <3>1. /\ ready' = AddPrioritized(Tail(ready), Head(ready)) /\ Head(ready) \in Tasks
          /\ lockcount[current] = 0
      BY <2>3, KernelAssumption DEF TimeSlice, current
    <3>2. Apart(AddPrioritized(Tail(ready), Head(ready)), pending, semwait, sigwait)
      BY <3>1, SliceMoves DEF Inv, Lists
    <3>3. Lists'
      BY <1>2, <3>1, <3>2 DEF Lists
    <3>4. pending' = <<>>
      BY <1>2, <3>1 DEF Inv, Held
    <3> QED
      BY <2>1, <3>3, <3>4 DEF Held
  <2> QED
    BY <2>2, <2>3 DEF EndTick
<1>5. Calls'
  BY <1>2 DEF Inv, Calls, CallOf
<1>6. DogList(wdlist)
  BY DEF Inv, Types
<1>7. \A d \in Dogs : LeftIn(wdlist)[d] # 0
  <2>1. CASE wdlist = <<>>
    <3>1. 1..Len(wdlist) = {}
      BY <2>1
    <3>2. \A d \in Dogs : LeftIn(wdlist)[d] = -1
      BY <1>6, <3>1, LeftOfEntry
    <3> QED
      BY <3>2
  <2>2. CASE wdlist # <<>>
    <3>1. /\ wdlist[1].lag \in Nat /\ Head(wdlist) = wdlist[1]
          /\ \A d \in Dogs : LeftIn(wdlist)[d] = -1 \/ LeftIn(wdlist)[d] >= wdlist[1].lag
      BY <1>6, <2>2, FirstDue
    <3>2. wdlist[1].lag > 0
      BY <1>1, <2>2, <3>1 DEF Overdue
    <3>3. LeftIn(wdlist) \in [Dogs -> Nat \cup {-1}]
      BY <1>6, LeftOfEntry
    <3> QED
      BY <3>1, <3>2, <3>3
  <2> QED
    BY <2>1, <2>2
<1>8. Clocks'
  <2>1. LeftIn(wdlist)' = LeftIn(wdlist) /\ Entries(wdlist)' = Entries(wdlist)
    BY <1>2, ListPrime
  <2>2. Timed' = Timed
    BY <1>2 DEF Timed
  <2> QED
    BY <1>2, <1>7, <2>1, <2>2 DEF Inv, Clocks
<1> QED
  BY <1>3, <1>4, <1>5, <1>8 DEF Inv

(* The timer interrupt begins: every timer and every wait counts the tick. *)
LEMMA TickInv ==
  ASSUME Inv, Tick
  PROVE  Inv'
<1>1. /\ ~isr /\ wdlist # <<>> /\ wdlist' = [wdlist EXCEPT ![1].lag = @ - 1] /\ isr' = TRUE
      /\ passed' = [t \in Tasks |-> IF t \in Timed /\ passed[t] < want[t] + 2
                                    THEN passed[t] + 1 ELSE passed[t]]
  BY DEF Tick, Masked
<1>2. /\ ready' = ready /\ pending' = pending /\ semwait' = semwait /\ sigwait' = sigwait
      /\ waitsem' = waitsem /\ errno' = errno /\ asked' = asked /\ pc' = pc
      /\ lockcount' = lockcount /\ count' = count /\ holds' = holds /\ want' = want
  BY DEF Tick, lists, waits
<1>3. DogList(wdlist) /\ want \in [Tasks -> Nat] /\ passed \in [Tasks -> Nat] /\ Clocks /\ Calls
  BY DEF Inv, Types
<1>4. Timed' = Timed /\ Timed \subseteq Tasks /\ Tasks \subseteq Dogs
  BY <1>2 DEF Timed, Inv, Lists, Apart, Dogs
<1>5. wdlist[1].lag # 0
  <2>1. 1 \in 1..Len(wdlist) /\ LeftIn(wdlist)[wdlist[1].dog] = wdlist[1].lag
    BY <1>1, <1>3, FirstDue
  <2>2. wdlist[1].dog \in Dogs
    BY <1>3, <2>1, DogListType DEF DogList
  <2> QED
    BY <1>1, <1>3, <2>1, <2>2 DEF Clocks
<1>6. /\ DogList(wdlist') /\ Entries(wdlist') = Entries(wdlist)
      /\ LeftIn(wdlist') = [d \in Dogs |-> IF LeftIn(wdlist)[d] = -1 THEN -1
                                           ELSE LeftIn(wdlist)[d] - 1]
  BY <1>1, <1>3, <1>5, Ticked, Zenon
<1>7. LeftIn(wdlist) \in [Dogs -> Nat \cup {-1}]
  BY <1>3, LeftOfEntry
<1>8. ASSUME NEW t \in Timed
      PROVE  /\ want[t] > 0 /\ passed'[t] = passed[t] + 1
             /\ LeftIn(wdlist')[t] # -1 /\ LeftIn(wdlist')[t] + passed'[t] = want[t] + 1
  <2>1. t \in Tasks /\ t \in Dogs /\ want[t] \in Nat /\ passed[t] \in Nat
    BY <1>3, <1>4
  <2>2. /\ LeftIn(wdlist)[t] # -1 /\ want[t] > 0
        /\ LeftIn(wdlist)[t] + passed[t] = want[t] + 1
    BY <1>3 DEF Clocks
  <2>3. LeftIn(wdlist)[t] # 0 /\ LeftIn(wdlist)[t] \in Nat
    BY <1>1, <1>3, <1>7, <2>1, <2>2 DEF Clocks
  <2>4. passed[t] < want[t] + 2
    BY <2>1, <2>2, <2>3
  <2>5. passed'[t] = passed[t] + 1
    BY <1>1, <2>1, <2>4
  <2>6. LeftIn(wdlist')[t] = LeftIn(wdlist)[t] - 1
    BY <1>6, <2>1, <2>2
  <2> QED
    BY <2>1, <2>2, <2>3, <2>5, <2>6
<1>9. \A t \in Tasks : t \notin Timed => passed'[t] = passed[t]
  BY <1>1
<1>10. Types'
  <2>1. passed' \in [Tasks -> Nat]
    BY <1>1, <1>3
  <2> QED
    BY <1>1, <1>2, <1>6, <2>1 DEF Inv, Types
<1>11. Lists' /\ Held' /\ SemExact'
  BY <1>2, Zenon DEF Inv, Lists, Held, current, SemExact, Waiting, Granted, Owners
<1>12. Calls'
  <2>1. ASSUME NEW t \in Tasks PROVE CallOf(t)'
    <3>1. CallOf(t)
      BY <1>3 DEF Calls
    <3>2. pc[t] \in {"run", "locked"} => passed'[t] = passed[t]
      BY <1>8, <1>9, <3>1 DEF CallOf
    <3>3. pc[t] \in {"run", "locked"} =>
            errno'[t] = "OK" /\ want'[t] = 0 /\ passed'[t] = 0
      BY <1>2, <3>1, <3>2 DEF CallOf
    <3> QED
      BY <1>2, <3>1, <3>3, Zenon DEF CallOf
  <2> QED
    BY <1>2, <1>3, <2>1 DEF Calls
<1>13. Clocks'
  <2>1. \A e \in Entries(wdlist') :
          /\ e[1] = Poll <=> e[2] = "polltimer"
          /\ e[1] \in Tasks =>
               /\ pc'[e[1]] = (IF e[2] = "sig_timeout" THEN "sleep" ELSE "wait")
               /\ want'[e[1]] > 0
    BY <1>2, <1>3, <1>6 DEF Clocks
  <2>2. \A t \in Timed' : /\ LeftIn(wdlist')[t] # -1 /\ want'[t] > 0
                          /\ LeftIn(wdlist')[t] + passed'[t] = want'[t] + 1
    BY <1>2, <1>4, <1>8
  <2> QED
    BY <1>1, <2>1, <2>2, ListPrime, Zenon DEF Clocks
<1>14. TimeoutExact'
  <2>1. ASSUME NEW t \in Tasks, errno[t] = "ETIMEDOUT" PROVE t \notin Timed
    BY <1>3, <2>1 DEF Calls, CallOf, Timed
  <2> QED
    BY <1>2, <1>9, <2>1, Zenon DEF Inv, TimeoutExact
<1> QED
  BY <1>10, <1>11, <1>12, <1>13, <1>14 DEF Inv

(* A wait with a timer begins.                                             *)
LEMMA ClocksStarted ==
  ASSUME Clocks, DogList(wdlist), NEW t \in Tasks, t \notin Timed, Timed \subseteq Tasks,
         pc[t] \in {"run", "locked"}, NEW func \in {"sig_timeout", "sem_timeout"},
         NEW n \in Nat \ {0}, wdlist' = WdStart(wdlist, t, func, n), isr' = isr,
         Timed' = Timed \cup {t}, want'[t] = n, passed'[t] = 0,
         pc'[t] = IF func = "sig_timeout" THEN "sleep" ELSE "wait",
         \A u \in Tasks : u # t => pc'[u] = pc[u] /\ want'[u] = want[u] /\ passed'[u] = passed[u]
  PROVE  Clocks' /\ DogList(wdlist')
<1>1. t \in Dogs /\ Timed \subseteq Dogs /\ t # Poll
  BY KernelAssumption, Zenon DEF Dogs, All
<1>2. \A i \in 1..Len(wdlist) : wdlist[i].dog # t
  <2> SUFFICES ASSUME NEW i \in 1..Len(wdlist), wdlist[i].dog = t PROVE FALSE
    OBVIOUS
  <2>1. <<t, wdlist[i].func>> \in Entries(wdlist)
    BY DEF Entries
  <2>2. pc[t] = (IF wdlist[i].func = "sig_timeout" THEN "sleep" ELSE "wait")
    BY <2>1, Zenon DEF Clocks
  <2> QED
    BY <2>2, Zenon
<1>3. /\ DogList(wdlist')
      /\ LeftIn(wdlist') = [LeftIn(wdlist) EXCEPT ![t] = n + 1]
      /\ Entries(wdlist') = Entries(wdlist) \cup {<<t, func>>}
  <2>1. func \in {"sig_timeout", "sem_timeout", "polltimer"}
    BY Zenon
  <2> QED
    BY <1>1, <1>2, <2>1, Started
<1>4. LeftIn(wdlist) \in [Dogs -> Nat \cup {-1}]
  BY LeftOfEntry
<1>5. \A d \in Dogs : d # t => LeftIn(wdlist')[d] = LeftIn(wdlist)[d]
  BY <1>1, <1>3, <1>4
<1>6. LeftIn(wdlist')[t] = n + 1
  BY <1>1, <1>3, <1>4
<1>7. ~isr' => \A d \in Dogs : LeftIn(wdlist')[d] # 0
  BY <1>5, <1>6 DEF Clocks
<1>8. ASSUME NEW e \in Entries(wdlist')
      PROVE  /\ e[1] = Poll <=> e[2] = "polltimer"
             /\ e[1] \in Tasks =>
                  /\ pc'[e[1]] = (IF e[2] = "sig_timeout" THEN "sleep" ELSE "wait")
                  /\ want'[e[1]] > 0
  <2>1. CASE e = <<t, func>>
    <3>1. e[1] = t /\ e[2] = func /\ func # "polltimer"
      BY <2>1
    <3> QED
      BY <1>1, <3>1
  <2>2. CASE e \in Entries(wdlist)
    <3>1. PICK i \in 1..Len(wdlist) : e = <<wdlist[i].dog, wdlist[i].func>>
      BY <2>2, Zenon DEF Entries
    <3>2. e[1] # t
      BY <1>2, <3>1, Zenon
    <3> QED
      BY <2>2, <3>2 DEF Clocks
  <2> QED
    BY <1>3, <2>1, <2>2
<1>9. ASSUME NEW u \in Timed'
      PROVE  /\ LeftIn(wdlist')[u] # -1 /\ want'[u] > 0
             /\ LeftIn(wdlist')[u] + passed'[u] = want'[u] + 1
  <2>1. CASE u = t
    BY <1>6, <2>1
  <2>2. CASE u # t
    <3>1. u \in Timed /\ u \in Tasks /\ u \in Dogs
      BY <1>1, <2>2, Zenon
    <3> QED
      BY <1>5, <2>2, <3>1 DEF Clocks
  <2> QED
    BY <2>1, <2>2
<1> QED
  BY <1>3, <1>7, <1>8, <1>9, ListPrime DEF Clocks

(* The running task goes to sleep with a timer.                            *)
LEMMA SleepInv ==
  ASSUME Inv, NEW t \in Tasks, Sleep(t)
  PROVE  Inv'
<1>1. PICK n \in Delays[t] : /\ wdlist' = WdStart(wdlist, t, "sig_timeout", n)
                             /\ want' = [want EXCEPT ![t] = n]
  BY Zenon DEF Sleep
<1>2. /\ At(t, "locked") /\ sigwait' = sigwait \cup {t}
      /\ ready' = Merge(Tail(ready), pending) /\ pending' = <<>>
      /\ pc' = [pc EXCEPT ![t] = "sleep"]
  BY DEF Sleep, Block, MergePending
<1>3. /\ semwait' = semwait /\ waitsem' = waitsem /\ errno' = errno /\ asked' = asked
      /\ lockcount' = lockcount /\ count' = count /\ holds' = holds /\ isr' = isr
      /\ passed' = passed
  BY DEF Sleep
<1>4. /\ pc[t] = "locked" /\ Head(ready) = t /\ t \in All /\ t # Idle /\ waitsem[t] = None
      /\ t \notin Timed /\ t \notin sigwait /\ t \notin Range(semwait) /\ CallOf(t)
  BY <1>2, AtRuns, Zenon
<1>5. Types /\ Calls /\ Idle \in All /\ n \in Nat \ {0}
  BY KernelAssumption DEF Inv, All
<1>6. /\ lockcount[t] = 1 /\ errno[t] = "OK" /\ passed[t] = 0
      /\ asked[t] = None /\ asked[t] \notin holds[t]
  BY <1>4 DEF CallOf
<1>7. \A u \in Tasks : u # t => pc'[u] = pc[u] /\ want'[u] = want[u] /\ passed'[u] = passed[u]
  BY <1>1, <1>2, <1>3, <1>5, Zenon DEF Types, All
<1>8. pc'[t] = "sleep" /\ want'[t] = n /\ passed'[t] = 0
  BY <1>1, <1>2, <1>3, <1>4, <1>5, <1>6, Zenon DEF Types
<1>9. Clocks' /\ DogList(wdlist')
  <2>1. Timed \subseteq Tasks
    BY DEF Inv, Lists, Apart, Timed
  <2>2. Timed' = Timed \cup {t}
    BY <1>2, <1>3, <1>4, <1>7 DEF Timed
  <2> DEFINE func == "sig_timeout"
  <2>3. /\ func \in {"sig_timeout", "sem_timeout"} /\ wdlist' = WdStart(wdlist, t, func, n)
        /\ pc'[t] = IF func = "sig_timeout" THEN "sleep" ELSE "wait"
        /\ pc[t] \in {"run", "locked"} /\ Clocks /\ DogList(wdlist)
    BY <1>1, <1>4, <1>8, Zenon DEF Inv, Types
  <2> HIDE DEF func
  <2> QED
    BY <1>3, <1>4, <1>5, <1>7, <1>8, <2>1, <2>2, <2>3, ClocksStarted, Zenon
<1>10. Types'
  <2>1. pc' \in [All -> {"run", "locked", "sleep", "unlock", "wait"}] /\ want' \in [Tasks -> Nat]
    BY <1>1, <1>2, <1>5, Zenon DEF Types
  <2> QED
    BY <1>3, <1>5, <1>9, <2>1, Zenon DEF Types
<1>11. Lists' /\ Held'
  <2>1. Apart(Merge(Tail(ready), pending), <<>>, semwait, sigwait \cup {t})
    BY <1>4, BlockMoves DEF Inv, Lists
  <2> QED
    BY <1>2, <1>3, <2>1, Zenon DEF Lists, Held
<1>12. Calls'
  <2>1. pc'[Idle] = "run" /\ lockcount'[Idle] = 0
    BY <1>2, <1>3, <1>4, <1>5, Zenon DEF Calls, Types
  <2>2. ASSUME NEW u \in Tasks, u # t PROVE CallOf(u)'
    <3>1. Kept(u)
      BY <1>2, <1>3, <1>7, <2>2 DEF Kept
    <3> QED
      BY <1>5, <3>1, CallKept DEF Calls
  <2>3. CallOf(t)'
    BY <1>3, <1>4, <1>6, <1>8, Zenon DEF CallOf
  <2> QED
    BY <2>1, <2>2, <2>3 DEF Calls
<1>13. SemExact'
  BY <1>3, Zenon DEF Inv, SemExact, Waiting, Granted, Owners
<1>14. TimeoutExact'
  BY <1>3, <1>6, <1>7 DEF Inv, TimeoutExact
<1> QED
  BY <1>9, <1>10, <1>11, <1>12, <1>13, <1>14 DEF Inv

(* The running task blocks on a semaphore: all of the invariant but what   *)
(* is about timers.                                                        *)
LEMMA SemBlockInv ==
  ASSUME Inv, NEW t \in Tasks, NEW s \in Sems, SemBlock(t, s), want' \in [Tasks -> Nat],
         \A u \in Tasks : u # t => want'[u] = want[u], DogList(wdlist'), Clocks'
  PROVE  Inv'
<1>1. /\ At(t, "run") /\ s \notin holds[t] /\ count[s] <= 0
      /\ count' = [count EXCEPT ![s] = @ - 1] /\ waitsem' = [waitsem EXCEPT ![t] = s]
      /\ errno' = [errno EXCEPT ![t] = "OK"] /\ asked' = [asked EXCEPT ![t] = s]
      /\ semwait' = AddPrioritized(semwait, t) /\ pc' = [pc EXCEPT ![t] = "wait"]
      /\ ready' = Merge(Tail(ready), pending) /\ pending' = <<>>
  BY Zenon DEF SemBlock, Block, MergePending
<1>2. /\ sigwait' = sigwait /\ lockcount' = lockcount /\ holds' = holds /\ isr' = isr
      /\ passed' = passed
  BY DEF SemBlock
<1>3. /\ pc[t] = "run" /\ Head(ready) = t /\ t \in All /\ t # Idle /\ waitsem[t] = None
      /\ t \notin sigwait /\ t \notin Range(semwait) /\ CallOf(t)
  BY <1>1, AtRuns, Zenon
<1>4. Types /\ Calls /\ Idle \in All /\ s # None
  BY KernelAssumption DEF Inv, All
<1>5. lockcount[t] = 0 /\ asked[t] = None
  BY <1>3 DEF CallOf
<1>6. \A u \in Tasks : u # t => /\ pc'[u] = pc[u] /\ errno'[u] = errno[u]
                                /\ asked'[u] = asked[u] /\ waitsem'[u] = waitsem[u]
  BY <1>1, <1>4 DEF Types, All
<1>7. pc'[t] = "wait" /\ errno'[t] = "OK" /\ asked'[t] = s /\ waitsem'[t] = s
  BY <1>1, <1>3, <1>4 DEF Types
<1>8. /\ Apart(Merge(Tail(ready), pending), <<>>, AddPrioritized(semwait, t), sigwait)
      /\ Range(AddPrioritized(semwait, t)) = Range(semwait) \cup {t}
  BY <1>3, BlockMoves, Zenon DEF Inv, Lists
<1>9. Lists' /\ Held' /\ Range(semwait') = Range(semwait) \cup {t}
  BY <1>1, <1>2, <1>8, Zenon DEF Lists, Held
<1>10. Types'
  <2>1. pc' \in [All -> {"run", "locked", "sleep", "unlock", "wait"}]
    BY <1>1, <1>4, Zenon DEF Types
  <2>2. /\ waitsem' \in [Tasks -> Sems \cup {None}] /\ asked' \in [Tasks -> Sems \cup {None}]
        /\ errno' \in [Tasks -> {"OK", "EINTR", "ETIMEDOUT"}]
    BY <1>1, <1>4 DEF Types
  <2>3. count' \in [Sems -> Int]
    BY <1>1, <1>4 DEF Types
  <2> QED
    BY <1>2, <1>4, <2>1, <2>2, <2>3 DEF Types
<1>11. Calls'
  <2>1. pc'[Idle] = "run" /\ lockcount'[Idle] = 0
    BY <1>1, <1>2, <1>3, <1>4 DEF Calls, Types
  <2>2. ASSUME NEW u \in Tasks, u # t PROVE CallOf(u)'
    <3>1. (u \in Range(semwait))' <=> (u \in Range(semwait))
      BY <1>9, <2>2
    <3>2. Kept(u)
      BY <1>2, <1>6, <2>2, <3>1 DEF Kept
    <3> QED
      BY <1>4, <3>2, CallKept DEF Calls
  <2>3. CallOf(t)'
    <3>1. (t \in Range(semwait))'
      BY <1>9
    <3> QED
      BY <1>1, <1>2, <1>3, <1>4, <1>5, <1>7, <3>1, Zenon DEF CallOf
  <2> QED
    BY <2>1, <2>2, <2>3 DEF Calls
<1>12. SemExact'
  <2>1. ASSUME NEW x \in Sems
        PROVE  Balanced(x, count[x], Waiting(x), Granted(x), Owners(x))'
    <3>1. Balanced(x, count[x], Waiting(x), Granted(x), Owners(x)) /\ x # None
      BY SemNow, KernelAssumption
    <3>2. Owners(x)' = Owners(x)
      BY <1>2 DEF Owners
    <3>3. Granted(x)' = Granted(x)
      BY <1>4, <1>5, <1>6, <1>7, <3>1 DEF Granted
    <3>4. CASE x # s
      <4>1. count'[x] = count[x]
        BY <1>1, <1>4, <3>4 DEF Types
      <4>2. Waiting(x)' = Waiting(x)
        BY <1>3, <1>6, <1>7, <3>1, <3>4, Zenon DEF Waiting
      <4> QED
        BY <3>1, <3>2, <3>3, <4>1, <4>2, SemKept, Zenon
    <3>5. CASE x = s
      <4>1. count'[x] = count[x] - 1 /\ count[x] <= 0
        BY <1>1, <1>4, <3>5 DEF Types
      <4>2. t \notin Waiting(x) /\ Waiting(x)' = Waiting(x) \cup {t}
        BY <1>3, <1>6, <1>7, <3>1, <3>5, Zenon DEF Waiting
      <4>3. Balanced(x, count[x] - 1, Waiting(x) \cup {t}, Granted(x), Owners(x))
        BY <3>1, <4>1, <4>2, BalancedBlock, Zenon
      <4> QED
        BY <3>2, <3>3, <4>1, <4>2, <4>3, Zenon DEF Balanced
    <3> QED
      BY <3>4, <3>5
  <2> QED
    BY <2>1, SemNext
<1>13. TimeoutExact'
  BY <1>2, <1>6, <1>7 DEF Inv, TimeoutExact
<1> QED
  BY <1>9, <1>10, <1>11, <1>12, <1>13 DEF Inv

(* A wait for a semaphore begins: what the invariant about timers needs.   *)
LEMMA SemBlockTimed ==
  ASSUME Inv, NEW t \in Tasks, NEW s \in Sems, SemBlock(t, s),
         \A u \in Tasks : u # t => want'[u] = want[u]
  PROVE  /\ Clocks /\ DogList(wdlist) /\ pc[t] = "run" /\ want[t] = 0 /\ passed[t] = 0
         /\ want \in [Tasks -> Nat] /\ t \notin Timed /\ Timed \subseteq Tasks
         /\ pc'[t] = "wait" /\ isr' = isr /\ passed' = passed
         /\ \A u \in Tasks : u # t => pc'[u] = pc[u]
         /\ Timed' = IF want'[t] > 0 THEN Timed \cup {t} ELSE Timed
<1>1. /\ At(t, "run") /\ waitsem' = [waitsem EXCEPT ![t] = s] /\ pc' = [pc EXCEPT ![t] = "wait"]
      /\ sigwait' = sigwait /\ isr' = isr /\ passed' = passed
  BY DEF SemBlock
<1>2. pc[t] = "run" /\ t \in All /\ t \notin Timed /\ t \notin sigwait /\ CallOf(t)
  BY <1>1, AtRuns
<1>3. Types /\ Clocks /\ Timed \subseteq Tasks /\ s # None
  BY KernelAssumption, Zenon DEF Inv, Lists, Apart, Timed
<1>4. /\ pc'[t] = "wait" /\ waitsem'[t] = s
      /\ \A u \in Tasks : u # t => pc'[u] = pc[u] /\ waitsem'[u] = waitsem[u]
  BY <1>1, <1>2, <1>3 DEF Types, All
<1>5. Timed' = IF want'[t] > 0 THEN Timed \cup {t} ELSE Timed
  BY <1>1, <1>2, <1>3, <1>4, Zenon DEF Timed
<1> QED
  BY <1>1, <1>2, <1>3, <1>4, <1>5 DEF CallOf, Types

(* A wait without a timeout begins.                                        *)
LEMMA SemWaitInv ==
  ASSUME Inv, NEW t \in Tasks, NEW s \in Sems, SemWait(t, s)
  PROVE  Inv'
<1>1. SemBlock(t, s) /\ wdlist' = wdlist /\ want' = want
  BY DEF SemWait
<1>2. /\ Clocks /\ DogList(wdlist) /\ pc[t] = "run" /\ want[t] = 0
      /\ want \in [Tasks -> Nat] /\ t \notin Timed /\ Timed \subseteq Tasks
      /\ isr' = isr /\ passed' = passed
      /\ \A u \in Tasks : u # t => pc'[u] = pc[u]
      /\ Timed' = Timed
  <2>1. \A u \in Tasks : u # t => want'[u] = want[u]
    BY <1>1
  <2>2. /\ Clocks /\ DogList(wdlist) /\ pc[t] = "run" /\ want[t] = 0
        /\ want \in [Tasks -> Nat] /\ t \notin Timed /\ Timed \subseteq Tasks
        /\ isr' = isr /\ passed' = passed
        /\ \A u \in Tasks : u # t => pc'[u] = pc[u]
        /\ Timed' = IF want'[t] > 0 THEN Timed \cup {t} ELSE Timed
    BY <1>1, <2>1, SemBlockTimed, Zenon
  <2>3. ~(want'[t] > 0)
    BY <1>1, <2>2
  <2> QED
    BY <2>2, <2>3, Zenon
<1>3. Clocks'
  BY <1>1, <1>2, ClocksKept
<1> QED
  BY <1>1, <1>2, <1>3, SemBlockInv, Zenon

(* A wait with a timeout begins.                                           *)
LEMMA SemTimedWaitInv ==
  ASSUME Inv, NEW t \in Tasks, NEW s \in Sems, SemTimedWait(t, s)
  PROVE  Inv'
<1>1. PICK n \in Delays[t] : /\ wdlist' = WdStart(wdlist, t, "sem_timeout", n)
                             /\ want' = [want EXCEPT ![t] = n]
  BY Zenon DEF SemTimedWait
<1>2. SemBlock(t, s) /\ n \in Nat \ {0}
  BY KernelAssumption DEF SemTimedWait
<1>3. want \in [Tasks -> Nat]
  BY DEF Inv, Types
<1>4. /\ want' \in [Tasks -> Nat] /\ want'[t] = n
      /\ \A u \in Tasks : u # t => want'[u] = want[u]
  BY <1>1, <1>2, <1>3
<1>5. /\ Clocks /\ DogList(wdlist) /\ pc[t] = "run" /\ want[t] = 0 /\ passed[t] = 0
      /\ t \notin Timed /\ Timed \subseteq Tasks
      /\ pc'[t] = "wait" /\ isr' = isr /\ passed' = passed
      /\ \A u \in Tasks : u # t => pc'[u] = pc[u]
      /\ Timed' = Timed \cup {t}
  BY <1>2, <1>4, SemBlockTimed
<1>6. Clocks' /\ DogList(wdlist')
  <2> DEFINE func == "sem_timeout"
  <2>1. /\ func \in {"sig_timeout", "sem_timeout"} /\ wdlist' = WdStart(wdlist, t, func, n)
        /\ pc'[t] = IF func = "sig_timeout" THEN "sleep" ELSE "wait"
        /\ pc[t] \in {"run", "locked"} /\ passed'[t] = 0
    BY <1>1, <1>5, Zenon
  <2> HIDE DEF func
  <2> QED
    BY <1>2, <1>4, <1>5, <2>1, ClocksStarted, Zenon
<1> QED
  BY <1>2, <1>4, <1>6, SemBlockInv, Zenon

-----------------------------------------------------------------------------
(* The end of a wait. *)

(* The waits of the tasks W end with e.                                    *)
Wakes(W, e) ==
  /\ W \subseteq Tasks /\ W \subseteq Range(semwait) \cup sigwait
  /\ Lists' /\ Held'
  /\ sigwait' = sigwait \ W /\ Range(semwait)' = Range(semwait) \ W
  /\ waitsem' = [u \in Tasks |-> IF u \in W THEN None ELSE waitsem[u]]
  /\ errno' = [u \in Tasks |-> IF u \in W THEN e ELSE errno[u]]

(* No wait ends.                                                           *)
LEMMA NoneWakes ==
  ASSUME Inv, UNCHANGED <<waits, lists, lockcount>>, NEW e
  PROVE  Wakes({}, e)
<1>1. /\ ready' = ready /\ pending' = pending /\ semwait' = semwait /\ sigwait' = sigwait
      /\ waitsem' = waitsem /\ errno' = errno /\ lockcount' = lockcount
  BY DEF waits, lists
<1>2. Lists' /\ Held'
  BY <1>1 DEF Inv, Lists, Held, current
<1>3. /\ waitsem' = [u \in Tasks |-> IF u \in {} THEN None ELSE waitsem[u]]
      /\ errno' = [u \in Tasks |-> IF u \in {} THEN e ELSE errno[u]]
  BY <1>1 DEF Inv, Types
<1> QED
  BY <1>1, <1>2, <1>3 DEF Wakes

(* The wait of a task for its semaphore ends.                              *)
LEMMA ReleasedWakes ==
  ASSUME Inv, NEW w \in Tasks, waitsem[w] # None, Released(w), NEW e,
         errno' = [errno EXCEPT ![w] = e], lockcount' = lockcount
  PROVE  Wakes({w}, e)
<1>1. /\ waitsem' = [waitsem EXCEPT ![w] = None] /\ semwait' = RemoveFirst(semwait, w)
      /\ Unblock(w) /\ sigwait' = sigwait
  BY DEF Released
<1>2. w \in Range(semwait) /\ w \in All
  BY DEF Inv, Calls, CallOf, All
<1>3. Apart(ready, pending, semwait, sigwait) /\ Types /\ Held
  BY DEF Inv, Lists
<1>4. /\ w \notin sigwait /\ w \notin Range(ready) /\ w \notin Range(pending)
      /\ TaskList(ready) /\ Idle \in Range(ready) /\ TaskList(pending)
  BY <1>2, <1>3 DEF Apart
<1>5. /\ Apart(AddPrioritized(ready, w), pending, RemoveFirst(semwait, w), sigwait)
      /\ Apart(ready, AddPrioritized(pending, w), RemoveFirst(semwait, w), sigwait)
      /\ Range(RemoveFirst(semwait, w)) = Range(semwait) \ {w}
  BY <1>2, <1>3, WaiterMoves
<1>6. Lists' /\ Range(semwait)' = Range(semwait) \ {w}
  BY <1>1, <1>5 DEF Lists, Unblock
<1>7. Held'
  <2>1. pending' # <<>> => lockcount[current'] > 0
    BY <1>1, <1>2, <1>3, <1>4, UnblockHolds DEF Types
  <2> QED
    BY <2>1 DEF Held
<1>8. waitsem' = [u \in Tasks |-> IF u \in {w} THEN None ELSE waitsem[u]]
  BY <1>1, <1>3, Zenon DEF Types
<1>9. errno' = [u \in Tasks |-> IF u \in {w} THEN e ELSE errno[u]]
  BY <1>3, Zenon DEF Types
<1> QED
  BY <1>1, <1>2, <1>4, <1>6, <1>7, <1>8, <1>9, Zenon DEF Wakes

(* The sleep of a task ends.                                               *)
LEMMA SigEndWakes ==
  ASSUME Inv, NEW w \in Tasks, NEW e, SigEnd(w, e), lockcount' = lockcount
  PROVE  \/ Wakes({}, e) /\ w \notin sigwait /\ count' = count
         \/ Wakes({w}, e) /\ w \in sigwait /\ count' = count
<1>1. CASE w \notin sigwait
  BY <1>1, NoneWakes DEF SigEnd
<1>2. CASE w \in sigwait
  <2>1. /\ sigwait' = sigwait \ {w} /\ errno' = [errno EXCEPT ![w] = e] /\ Unblock(w)
        /\ semwait' = semwait /\ waitsem' = waitsem /\ count' = count
    BY <1>2 DEF SigEnd
  <2>2. Apart(ready, pending, semwait, sigwait) /\ Types /\ Held /\ w \in All
    BY DEF Inv, Lists, All
  <2>3. /\ w \notin Range(semwait) /\ w \notin Range(ready) /\ w \notin Range(pending)
        /\ TaskList(ready) /\ Idle \in Range(ready) /\ TaskList(pending)
    BY <1>2, <2>2 DEF Apart
  <2>4. /\ Apart(AddPrioritized(ready, w), pending, semwait, sigwait \ {w})
        /\ Apart(ready, AddPrioritized(pending, w), semwait, sigwait \ {w})
    BY <1>2, <2>2, SleeperMoves
  <2>5. Lists' /\ Range(semwait)' = Range(semwait) \ {w}
    BY <2>1, <2>3, <2>4 DEF Lists, Unblock
  <2>6. Held'
    <3>1. pending' # <<>> => lockcount[current'] > 0
      BY <2>1, <2>2, <2>3, UnblockHolds DEF Types
    <3> QED
      BY <3>1 DEF Held
  <2>7. waitsem' = [u \in Tasks |-> IF u \in {w} THEN None ELSE waitsem[u]]
    <3>1. waitsem[w] = None
      BY <2>3 DEF Inv, Calls, CallOf
    <3> QED
      BY <2>1, <2>2, <3>1 DEF Types
  <2>8. errno' = [u \in Tasks |-> IF u \in {w} THEN e ELSE errno[u]]
    BY <2>1, <2>2, Zenon DEF Types
  <2> QED
    BY <1>2, <2>1, <2>5, <2>6, <2>7, <2>8, Zenon DEF Wakes
<1> QED
  BY <1>1, <1>2

(* When waits end, every task stays consistent, and no wait begins.        *)
LEMMA WokenInv ==
  ASSUME Inv, NEW W, NEW e \in {"OK", "EINTR", "ETIMEDOUT"}, Wakes(W, e),
         lockcount' = lockcount, asked' = asked, want' = want, passed' = passed,
         \A u \in All : pc'[u] = pc[u] \/ (pc[u] = "locked" /\ pc'[u] = "unlock"),
         \A u \in Tasks : holds'[u] \subseteq holds[u],
         e = "ETIMEDOUT" => \A u \in W : passed[u] = want[u] + 1
  PROVE  /\ Lists' /\ Held' /\ Calls' /\ TimeoutExact' /\ Timed' = Timed \ W
         /\ waitsem' \in [Tasks -> Sems \cup {None}]
         /\ errno' \in [Tasks -> {"OK", "EINTR", "ETIMEDOUT"}]
<1>1. /\ Lists' /\ Held' /\ W \subseteq Tasks /\ W \subseteq Range(semwait) \cup sigwait
      /\ sigwait' = sigwait \ W /\ Range(semwait)' = Range(semwait) \ W
      /\ waitsem' = [u \in Tasks |-> IF u \in W THEN None ELSE waitsem[u]]
      /\ errno' = [u \in Tasks |-> IF u \in W THEN e ELSE errno[u]]
  BY DEF Wakes
<1>2. Types /\ Calls /\ Idle \in All /\ Tasks \subseteq All
  BY DEF Inv, All
<1>3. /\ waitsem' \in [Tasks -> Sems \cup {None}]
      /\ errno' \in [Tasks -> {"OK", "EINTR", "ETIMEDOUT"}]
  BY <1>1, <1>2 DEF Types
<1>4. Calls'
  <2>1. pc'[Idle] = "run" /\ lockcount'[Idle] = 0
    BY <1>2 DEF Calls
  <2>2. ASSUME NEW u \in Tasks PROVE CallOf(u)'
    <3>1. CallOf(u) /\ (pc'[u] = pc[u] \/ (pc[u] = "locked" /\ pc'[u] = "unlock"))
          /\ holds'[u] \subseteq holds[u]
      BY <1>2 DEF Calls
    <3>2. CASE u \in W
      <4>1. /\ waitsem'[u] = None /\ (u \notin sigwait)' /\ (u \notin Range(semwait))'
            /\ pc[u] \in {"sleep", "wait"}
        BY <1>1, <3>1, <3>2 DEF CallOf
      <4> QED
        BY <3>1, <4>1 DEF CallOf
    <3>3. CASE u \notin W
      <4>1. /\ waitsem'[u] = waitsem[u] /\ errno'[u] = errno[u]
            /\ (u \in sigwait)' <=> u \in sigwait
            /\ (u \in Range(semwait))' <=> u \in Range(semwait)
        BY <1>1, <3>3
      <4> QED
        BY <3>1, <4>1 DEF CallOf
    <3> QED
      BY <3>2, <3>3
  <2> QED
    BY <2>1, <2>2 DEF Calls
<1>5. TimeoutExact'
  BY <1>1 DEF Inv, TimeoutExact
<1>6. Timed' = Timed \ W
  BY <1>1 DEF Timed
<1> QED
  BY <1>1, <1>3, <1>4, <1>5, <1>6

(* A post ends the wait of a task that waits for the semaphore, if any     *)
(* does.                                                                   *)
LEMMA PostWakes ==
  ASSUME Inv, NEW s \in Sems, Post(s), lockcount' = lockcount
  PROVE  \/ Wakes({}, "OK") /\ count[s] >= 0
         \/ \E w \in Waiting(s) : Wakes({w}, "OK")
<1>1. Types /\ Calls /\ count[s] \in Int /\ s # None
  BY KernelAssumption DEF Inv, Types
<1>2. CASE ~(count[s] < 0)
  <2>1. UNCHANGED <<waits, lists, lockcount>>
    BY <1>2 DEF Post
  <2> QED
    BY <1>1, <1>2, <2>1, NoneWakes
<1>3. CASE count[s] < 0
  <2> DEFINE I == {i \in 1..Len(semwait) : waitsem[semwait[i]] = s}
             w == semwait[Min(I)]
  <2>1. Released(w) /\ errno' = errno
    BY <1>3 DEF Post
  <2>2. Waiting(s) # {}
    BY <1>1, <1>3 DEF Inv, SemExact
  <2>3. PICK u \in Tasks : waitsem[u] = s
    BY <2>2 DEF Waiting
  <2>4. u \in Range(semwait) /\ semwait \in Seq(All)
    BY <1>1, <2>3 DEF Calls, CallOf, Inv, Lists, Apart, TaskList
  <2>5. PICK i \in 1..Len(semwait) : semwait[i] = u
    BY <2>4, Members
  <2>6. i \in I /\ I \subseteq Nat
    <3>1. \A k \in 1..Len(semwait) : k \in Nat
      OBVIOUS
    <3> QED
      BY <2>3, <2>5, <3>1, Zenon
  <2> HIDE DEF I
  <2>7. Min(I) \in I
    BY <2>6, MinLeast, Zenon
  <2>8. Min(I) \in 1..Len(semwait) /\ waitsem[w] = s
    BY <2>7 DEF I
  <2>9. w \in Range(semwait)
    BY <2>4, <2>8, Members
  <2>10. Idle \notin Range(semwait) /\ Range(semwait) \subseteq All
    BY DEF Inv, Lists, Apart
  <2>11. w \in Tasks
    BY <2>9, <2>10 DEF All
  <2> HIDE DEF w
  <2>12. errno' = [errno EXCEPT ![w] = "OK"]
    <3>1. errno[w] = "OK" /\ errno \in [Tasks -> {"OK", "EINTR", "ETIMEDOUT"}]
      BY <1>1, <2>8, <2>11 DEF Calls, CallOf, Types
    <3> QED
      BY <2>1, <3>1
  <2>13. Wakes({w}, "OK")
    BY <1>1, <2>1, <2>8, <2>11, <2>12, ReleasedWakes, Zenon
  <2> QED
    BY <2>8, <2>11, <2>13, Zenon DEF Waiting
<1> QED
  BY <1>2, <1>3, Zenon
=============================================================================
